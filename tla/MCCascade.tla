----------------------------- MODULE MCCascade -----------------------------
(***************************************************************************)
(* Instances of Cascade for TLC.                                           *)
(***************************************************************************)
EXTENDS CascadeClaims

Base ==
  [ZeroConfig EXCEPT !.Kp = 1, !.Ki = 1, !.b = 1, !.c = 1, !.u_min = -2, !.u_max = 2,
                     !.I_min = -1, !.I_max = 2, !.T_aw = 1]

(* The outer loop follows the inner saturation and holds when it fails.    *)
Master   == [Base EXCEPT !.aw_mode = "BACK_CALC"]
(* The inner loop saturates at 1 and outputs a constant when it fails.     *)
Slave    == [Base EXCEPT !.u_min = -1, !.u_max = 1, !.I_min = -1, !.I_max = 1,
                         !.aw_mode = "CLAMPING",
                         !.safe_policy = "CONSTANT", !.safe_value = 1]
Inverted == [Base EXCEPT !.u_min = 2]

MasterConfigs == {Master, Inverted}
SlaveConfigs == {Slave, Inverted}
FaultSetpoints == {2}
FaultMeasurements == {0, NaN}
FaultHandoffs == {2}
QuietSetpoints == {0, 1}
QuietMeasurements == {0}
OnePeriod == {1}
NewOuterLimits == {<<-3, -1>>}
NewInnerLimits == {<<0, 3>>}
RangeLo == -3
RangeHi == 3

(* A value no loop may output: the local variables before a step. *)
Unwritten == {[u |-> 9, status |-> {"SATURATED"}]}

External == {[Master EXCEPT !.feedforward = [mode |-> "EXTERNAL", gain |-> 1, N_ff |-> 0]]}
=============================================================================
