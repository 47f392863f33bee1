------------------------------ MODULE MCAutotune ------------------------------
(***************************************************************************)
(* Instances of Autotune for TLC.                                          *)
(***************************************************************************)
EXTENDS Autotune

(* Its results overflow. *)
Strong == [relay_amplitude |-> 10, hysteresis |-> 0, u_bias |-> 0, min_cycles |-> 1,
           timeout_s |-> 4, tuning_rule |-> "ZN"]
(* Its results are finite. *)
Robust == [Strong EXCEPT !.relay_amplitude = 4, !.tuning_rule = "TL"]
(* Refused by validation. *)
Lifeless == [Strong EXCEPT !.min_cycles = 0]

TunerConfigs == {Strong, Robust, Lifeless}

Plant == [ZeroConfig EXCEPT !.Kp = 1, !.Ki = 1, !.u_min = -2, !.u_max = 2,
                            !.I_min = -2, !.I_max = 2]
ControllerConfigs == {Plant}
SomeSetpoints == {0, 1}
Samples == {0, 1, NaN}
SamplePeriods == {1, 2}
OwnGains == {<<0, 2, 0>>}
=============================================================================
