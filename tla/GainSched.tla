------------------------------ MODULE GainSched ------------------------------
(***************************************************************************)
(* Gain scheduling (ron_gain_sched.c): the application looks the operating *)
(* point sigma up in a table of breakpoints and the controller gets the    *)
(* configuration found, whole or with interpolated gains.  The table is    *)
(* the caller's and is validated again at every update; the application    *)
(* may use several tables and may set gains by itself in between.          *)
(***************************************************************************)
EXTENDS PidOps, Sequences

CONSTANTS
  Tables,           (* the tables the application passes                   *)
  Sigmas,           (* operating points                                    *)
  InitialConfigs,   (* configurations passed to ron_pid_init               *)
  GainSets,         (* <<Kp, Ki, Kd>> the application sets by itself       *)
  Inputs,           (* setpoints and measurements of a step                *)
  MaxBreakpoints    (* RON_GS_MAX_BREAKPOINTS                              *)

GsMode == {"HARD_SWITCH", "LINEAR_INTERP"}

Breakpoint == [sigma: Float, cfg: Config]

Table ==
  [n_points: Nat, points: Seq(Breakpoint), mode: GsMode \union {IllegalEnum},
   reset_integral_on_switch: BOOLEAN]

ASSUME GainSchedAssumption ==
  /\ Tables \subseteq Table
  /\ \A t \in Tables : Len(t.points) <= MaxBreakpoints
                       /\ t.n_points \in 1..MaxBreakpoints => t.n_points <= Len(t.points)
  /\ InitialConfigs \subseteq Config
  /\ Sigmas \union Inputs \subseteq Float
  /\ GainSets \subseteq Float \X Float \X Float
  /\ MaxBreakpoints \in 1..255

VARIABLES
  pid,         (* the controller                                           *)
  scheduled,   (* {} or {[tbl, sigma]}: the last configuration applied by  *)
               (* the application came from this update (a history)        *)
  ret,         (* the fault returned by the last call                      *)
  updated      (* that call was an accepted ron_gs_update                  *)

vars == <<pid, scheduled, ret, updated>>
-----------------------------------------------------------------------------
(* Configurations whose gains can be interpolated: the rest is equal. *)
InterpCompatible(c1, c2) ==
  c1 = [c2 EXCEPT !.Kp = c1.Kp, !.Ki = c1.Ki, !.Kd = c1.Kd]

ValidTable(t) ==
  /\ t.n_points \in 1..MaxBreakpoints
  /\ t.mode \in GsMode
  /\ \A k \in 1..t.n_points :
       IsFinite(t.points[k].sigma) /\ ValidConfig(t.points[k].cfg)
  /\ \A k \in 2..t.n_points :
       /\ t.points[k].sigma > t.points[k - 1].sigma
       /\ t.mode = "LINEAR_INTERP" =>
            InterpCompatible(t.points[k - 1].cfg, t.points[k].cfg)

(* The breakpoint at or below sigma, by bisection; the indices are one     *)
(* more than the code's.                                                   *)
LowerIndex(t, sigma) ==
  LET n == t.n_points
      bisect[i \in (1..n) \X (1..n)] ==
        LET low  == i[1]
            high == i[2]
            mid  == low + (high - low) \div 2
        IN  IF high - low <= 1 THEN low
            ELSE IF sigma < t.points[mid].sigma THEN bisect[<<low, mid>>]
            ELSE bisect[<<mid, high>>]
  IN  IF n = 1 \/ sigma <= t.points[1].sigma THEN 1
      ELSE IF sigma >= t.points[n].sigma THEN n
      ELSE bisect[<<1, n>>]

(* Linear interpolation rounded to the grid; with a span beyond the float  *)
(* range the fraction is 0, or not a number if the offset is beyond too.   *)
Lerp(lower, upper, offset, span) ==
  IF IsFinite(span) THEN lower + Quot((upper - lower) * offset, span)
  ELSE IF IsFinite(offset) THEN lower ELSE NaN

(* Mutant: the fraction is taken from the upper breakpoint. *)
CandidateBackwards(t, low, sigma) ==
  LET lo == t.points[low]
      hi == t.points[low + 1]
      g(a, b) == Lerp(a, b, hi.sigma - sigma, hi.sigma - lo.sigma)
  IN  IF \/ t.mode = "HARD_SWITCH" \/ t.n_points = 1
         \/ sigma <= t.points[1].sigma \/ low >= t.n_points
      THEN t.points[low].cfg
      ELSE [lo.cfg EXCEPT !.Kp = g(@, hi.cfg.Kp), !.Ki = g(@, hi.cfg.Ki),
                          !.Kd = g(@, hi.cfg.Kd)]

Candidate(t, low, sigma) ==
  LET lo == t.points[low]
      hi == t.points[low + 1]
      g(a, b) == Lerp(a, b, sigma - lo.sigma, hi.sigma - lo.sigma)
  IN  IF \/ t.mode = "HARD_SWITCH" \/ t.n_points = 1
         \/ sigma <= t.points[1].sigma \/ low >= t.n_points
      THEN t.points[low].cfg
      ELSE [lo.cfg EXCEPT !.Kp = g(@, hi.cfg.Kp), !.Ki = g(@, hi.cfg.Ki),
                          !.Kd = g(@, hi.cfg.Kd)]

(* Mutant: the integral is cleared by every update. *)
ApplyAlwaysResetting(p, t, candidate) ==
  LET q == PidSetConfig(p, [u |-> 0, status |-> {}], candidate).pid
  IN  IF t.mode = "HARD_SWITCH" /\ t.reset_integral_on_switch
      THEN [q EXCEPT !.integral = Clamp(0, q.cfg.I_min, q.cfg.I_max)]
      ELSE q

(* The result of ron_pid_set_config is ignored; a hard switch to another   *)
(* configuration clears the integral if the table says so.                 *)
Apply(p, t, candidate) ==
  LET q == PidSetConfig(p, [u |-> 0, status |-> {}], candidate).pid
  IN  IF /\ t.mode = "HARD_SWITCH" /\ t.reset_integral_on_switch
         /\ p.cfg # candidate
      THEN [q EXCEPT !.integral = Clamp(0, q.cfg.I_min, q.cfg.I_max)]
      ELSE q
-----------------------------------------------------------------------------
Init == pid = ZeroPid /\ scheduled = {} /\ ret = {} /\ updated = FALSE

Update ==
  \E t \in Tables, sigma \in Sigmas :
    IF pid.is_initialised /\ IsFinite(sigma) /\ ValidTable(t)
    THEN /\ pid' = Apply(pid, t, Candidate(t, LowerIndex(t, sigma), sigma))
         /\ scheduled' = {[tbl |-> t, sigma |-> sigma]}
         /\ ret' = {} /\ updated' = TRUE
    ELSE ret' = {"CONFIG_INVALID"} /\ updated' = FALSE /\ UNCHANGED <<pid, scheduled>>

(* What else the application does with the controller. *)
Direct(result) ==
  /\ pid' = result.pid /\ ret' = result.ret /\ updated' = FALSE
  /\ scheduled' = IF result.pid.cfg = pid.cfg THEN scheduled ELSE {}

NoOutput == [u |-> 0, status |-> {}]

Initialise == \E cfg \in InitialConfigs : Direct(PidInit(pid, NoOutput, cfg))

SetGains == \E g \in GainSets : Direct(PidSetGains(pid, NoOutput, g[1], g[2], g[3]))

Step == \E r, y \in Inputs : Direct(PidStep(pid, NoOutput, r, y, 1))

Next == Update \/ Initialise \/ SetGains \/ Step

Spec == Init /\ [][Next]_vars
-----------------------------------------------------------------------------
(* The last breakpoint at or below sigma, or the first if none is. *)
IsBracket(t, k, sigma) ==
  IF sigma < t.points[1].sigma THEN k = 1
  ELSE /\ t.points[k].sigma <= sigma
       /\ \A j \in k + 1..t.n_points : sigma < t.points[j].sigma

(* x lies on the segment from a to b at offset / span, one grid unit off   *)
(* at most.                                                                *)
OnSegment(x, a, b, offset, span) ==
  /\ x \in a..b \union b..a
  /\ Abs((x - a) * span - (b - a) * offset) < span

(***************************************************************************)
(* RON-FR-300, 302, 303: after an update the configuration in force is the *)
(* one the table defines at sigma: between two breakpoints interpolation   *)
(* stays on the segment, at and beyond the ends it is the end's, and a     *)
(* hard switch takes the bracketing breakpoint's configuration whole,      *)
(* whatever gains the application or another table had set before.         *)
(***************************************************************************)
InForceIsScheduled ==
  \A s \in scheduled : \E k \in 1..s.tbl.n_points :
    LET t  == s.tbl
        lo == t.points[k]
        hi == t.points[k + 1]
        on(x, a, b) == OnSegment(x, a, b, s.sigma - lo.sigma, hi.sigma - lo.sigma)
    IN  /\ IsBracket(t, k, s.sigma)
        /\ IF t.mode = "HARD_SWITCH" \/ k = t.n_points \/ s.sigma <= lo.sigma
           THEN pid.cfg = lo.cfg
           ELSE /\ \A j \in 1..t.n_points : InterpCompatible(t.points[j].cfg, pid.cfg)
                /\ on(pid.cfg.Kp, lo.cfg.Kp, hi.cfg.Kp)
                /\ on(pid.cfg.Ki, lo.cfg.Ki, hi.cfg.Ki)
                /\ on(pid.cfg.Kd, lo.cfg.Kd, hi.cfg.Kd)

SameSegment(t, s1, s2) ==
  \E k \in 1..t.n_points : IsBracket(t, k, s1) /\ IsBracket(t, k, s2)

(***************************************************************************)
(* RON-FR-304: an update writes the configuration and at most the integral *)
(* -- the fault latch, the mode and the rest of the memory are the         *)
(* controller's, whatever table and segment the update moves to -- and it  *)
(* writes the integral only when a hard switch whose table resets it       *)
(* brings in another configuration.  While the operating point stays       *)
(* between the same two breakpoints of one table the integral the steps    *)
(* accumulated is kept, however often the table is consulted; under        *)
(* interpolation it is kept wherever the point moves.                      *)
(***************************************************************************)
IntegralKeptInSegment ==
  [][updated' =>
       /\ pid' = [pid EXCEPT !.cfg = pid'.cfg, !.integral = pid'.integral]
       /\ pid'.integral # pid.integral =>
            /\ pid'.cfg # pid.cfg
            /\ \A n \in scheduled' :
                 n.tbl.mode = "HARD_SWITCH" /\ n.tbl.reset_integral_on_switch
       /\ \A s \in scheduled, n \in scheduled' :
            /\ s.tbl = n.tbl
            /\ n.tbl.mode = "LINEAR_INTERP" \/ SameSegment(s.tbl, s.sigma, n.sigma)
            => pid'.integral = pid.integral]_vars
=============================================================================
