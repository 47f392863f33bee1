-------------------------------- MODULE MCPid --------------------------------
(***************************************************************************)
(* Instances of Pid for TLC.                                               *)
(***************************************************************************)
EXTENDS Pid

Base ==
  [ZeroConfig EXCEPT !.Kp = 1, !.Ki = 1, !.b = 1, !.c = 1, !.u_min = -2, !.u_max = 2,
                     !.I_min = -2, !.I_max = 2, !.T_aw = 1, !.fault_cb = TRUE]

External == [mode |-> "EXTERNAL", gain |-> 1, N_ff |-> 0]

(* A rate-limited clamping law, a back-calculation law whose range leaves  *)
(* out 0, and one that validation refuses.                                 *)
Slow     == [Base EXCEPT !.aw_mode = "CLAMPING", !.du_max = 1, !.sp_reset_threshold = 1]
Offset   == [Base EXCEPT !.aw_mode = "BACK_CALC", !.u_min = 1, !.u_max = 3, !.du_max = 1,
                         !.safe_policy = "CONSTANT", !.safe_value = 2,
                         !.I_overflow_thresh = 1]
Inverted == [Base EXCEPT !.u_min = 2]

RangeLo == -3
RangeHi == 3

(* Faults and reconfiguration: few inputs, every kind of fault, setters    *)
(* that validation accepts and refuses.  The law changes as a whole        *)
(* (NewConfigs) and in its limits; each such change multiplies the states. *)
FaultConfigs == {Slow, Offset, Inverted}
FaultInputs == {0, 2, NaN}
FaultPeriods == {1}
NewGains == {<<1, 1, 0>>, <<1, NaN, 0>>}
NewLimits == {<<-3, -1>>, <<1, 1>>}
NewFilters == {0, NaN}
NewAw == {<<"BACK_CALC", 0>>}
NewFf == {ZeroConfig.feedforward, [External EXCEPT !.gain = NaN]}

(* The control law: its terms, its memory, two sample periods, no period. *)
Pi         == [Base EXCEPT !.aw_mode = "BACK_CALC", !.du_max = 1, !.u_max = 1]
Derivating == [Base EXCEPT !.Kd = 1, !.N = 1, !.deriv_mode = "ON_MEASUREMENT",
                           !.integ_method = "TRAPEZOIDAL", !.aw_mode = "CLAMPING"]
Scaled     == [Base EXCEPT !.normalise = TRUE, !.in_max = 1, !.out_max = 1, !.Kd = 1]
Anticipating(mode) ==
  [Base EXCEPT !.Ki = 0, !.tau_sp = 1,
               !.feedforward = [mode |-> mode, gain |-> 1, N_ff |-> 1]]
ControlConfigs ==
  {Pi, Derivating, Scaled} \union
  {Anticipating(mode) : mode \in {"STATIC_GAIN", "VELOCITY", "ACCELERATION", "EXTERNAL"}}
ControlInputs == {-1, 0, 2}
ControlPeriods == {0, 1, 2}
=============================================================================
