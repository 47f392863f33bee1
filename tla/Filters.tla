-------------------------------- MODULE Filters --------------------------------
(***************************************************************************)
(* One filter of any kind and the application that calls it: a periodic    *)
(* task that passes it samples, and initialisations, resets and retunes    *)
(* between them, in any order.                                             *)
(***************************************************************************)
EXTENDS Filter, FiniteSetsExt

CONSTANTS
  FilterConfigs,   (* per kind, the configurations passed to init          *)
  Cutoffs,         (* <<fc, dt>> passed to ron_lp1_init_fc                 *)
  Retunes,         (* <<section, f0, Q, dt>> passed to update_notch        *)
  Inputs,          (* samples                                              *)
  Periods,         (* sample periods of the rate limiter                   *)
  MaxSamples       (* bound on the accepted samples between two restarts   *)

ASSUME FiltersAssumption ==
  /\ DOMAIN FilterConfigs = Kind
  /\ FilterConfigs["BIQUAD"] \subseteq
       [sections : Seq([b0: Float, b1: Float, b2: Float, a1: Float, a2: Float])]
  /\ Inputs \union Periods \subseteq Float
  /\ MaxSamples \in Nat

VARIABLES
  kind,      (* which filter this is                                       *)
  f,         (* the instance                                               *)
  out,       (* the caller's y                                             *)
  ret,       (* the fault returned by the last call                        *)
  hist,      (* the samples accepted since init or reset, a history        *)
  retuned    (* a section was replaced since init, a history               *)

vars == <<kind, f, out, ret, hist, retuned>>

Call(res) == f' = res.f /\ out' = res.out /\ ret' = res.ret /\ UNCHANGED kind

Restarted(cfg) == [f |-> Seeded(kind, cfg, TRUE), out |-> out, ret |-> "NONE"]
-----------------------------------------------------------------------------
Init ==
  /\ kind \in Kind
  /\ f = Seeded(kind, NoConfig, FALSE)
  /\ out = 0 /\ ret = "NONE" /\ hist = <<>> /\ retuned = FALSE

InitWith(cfg) ==
  IF ValidFilterConfig(kind, cfg)
  THEN Call(Restarted(cfg)) /\ hist' = <<>> /\ retuned' = FALSE
  ELSE Call(Refused(f, out)) /\ UNCHANGED <<hist, retuned>>

Initialise == \E cfg \in FilterConfigs[kind] : InitWith(cfg)

InitFc ==
  /\ kind = "LP1"
  /\ \E c \in Cutoffs :
       IF FilterPositive(c[1]) /\ FilterPositive(c[2])
       THEN InitWith([alpha |-> CutoffAlpha(c[1], c[2])])
       ELSE Call(Refused(f, out)) /\ UNCHANGED <<hist, retuned>>

Reset ==
  IF f.is_initialised
  THEN Call(Restarted(f.cfg)) /\ hist' = <<>> /\ UNCHANGED retuned
  ELSE Call(Refused(f, out)) /\ UNCHANGED <<hist, retuned>>

Step ==
  \E x \in Inputs, dt \in Periods :
    LET res == IF kind = "RATELIM" THEN RatelimStep(f, out, x, dt)
               ELSE FilterStep(kind, f, out, x)
    IN  /\ Len(hist) < MaxSamples
        /\ Call(res)
        /\ hist' = IF res.ret = "NONE" THEN Append(hist, x) ELSE hist
        /\ UNCHANGED retuned

Retune ==
  /\ kind = "BIQUAD"
  /\ \E t \in Retunes :
       LET res == UpdateNotch(f, out, t[1], t[2], t[3], t[4])
       IN  /\ Call(res)
           /\ retuned' = (retuned \/ res.ret = "NONE")
           /\ UNCHANGED hist

Next == Initialise \/ InitFc \/ Reset \/ Step \/ Retune

Spec == Init /\ [][Next]_vars
-----------------------------------------------------------------------------
(* Whatever overflows on the way, nothing non-finite is stored.            *)
TypeOK ==
  /\ kind \in Kind
  /\ f.mem \in Memory(kind) /\ IsFinite(f.y_prev) /\ IsFinite(out)
  /\ kind = "MA" => IsFinite(f.mem.sum)
  /\ kind = "BIQUAD" => \A k \in 1..MaxSections : IsFinite(f.mem.w1[k]) /\ IsFinite(f.mem.w2[k])
  /\ f.fault_code \in FilterFault /\ f.status \in {"OK", "FAULT", "RATE_LIMITED"}
  /\ f.is_initialised \in BOOLEAN
  /\ f.is_initialised /\ ~retuned => ValidFilterConfig(kind, f.cfg)
  /\ ret \in FilterFault /\ hist \in Seq(Inputs) /\ retuned \in BOOLEAN

(* The difference equation of one section, and of a cascade of them.       *)
SectionResponse(xs, s) ==
  LET x(n) == IF n < 1 THEN 0 ELSE xs[n]
      y[n \in -1..Len(xs)] ==
        IF n < 1 THEN 0
        ELSE Quot(s.b0 * x(n) + s.b1 * x(n - 1) + s.b2 * x(n - 2)
                    - s.a1 * y[n - 1] - s.a2 * y[n - 2], One)
  IN  [n \in 1..Len(xs) |-> y[n]]

CascadeResponse(xs) == FoldLeft(SectionResponse, xs, f.cfg.sections)

LastSum(n) ==
  LET first == IF Len(hist) > n THEN Len(hist) - n + 1 ELSE 1
  IN  MapThenSumSet(LAMBDA k : hist[k], first..Len(hist))

(***************************************************************************)
(* RON-FR-115, RON-FR-117, RON-FR-120, RON-FR-121: the output is a         *)
(* function of the samples accepted since the last restart.  The running   *)
(* sum and the ring give the mean of the last M; the direct form II delay  *)
(* lines of the cascade give its difference equation; the low-pass and the *)
(* rate limiter stay between the samples and their rest value 0.  A fault  *)
(* holds the output of the accepted samples.                               *)
(***************************************************************************)
OutputIsHistory ==
  f.is_initialised /\ hist # <<>> =>
    /\ out = f.y_prev
    /\ CASE kind = "MA" -> out = Quot(LastSum(f.cfg.M), f.cfg.M)
         [] kind = "BIQUAD" -> retuned \/ out = CascadeResponse(hist)[Len(hist)]
         [] OTHER -> LET seen == Range(hist) \union {0} IN out \in Min(seen)..Max(seen)

(* RON-FR-101: a filter is a fault latch, whose output is always finite    *)
(* and which only a reset or an initialisation releases, at the output it  *)
(* held.                                                                   *)
Latch == INSTANCE FaultLatch WITH
  Faults <- FilterFault \ {"NONE"}, Values <- -FloatMax..FloatMax,
  latched <- {f.fault_code} \ {"NONE"}, u <- out

ImplementsFaultLatch == Latch!Spec
=============================================================================
