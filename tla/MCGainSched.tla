----------------------------- MODULE MCGainSched -----------------------------
(***************************************************************************)
(* Instances of GainSched for TLC.                                         *)
(***************************************************************************)
EXTENDS GainSched

Base ==
  [ZeroConfig EXCEPT !.Kp = 1, !.Ki = 1, !.b = 1, !.c = 1, !.u_min = -2, !.u_max = 2,
                     !.I_min = -2, !.I_max = 2]
Strong == [Base EXCEPT !.Kp = 3, !.Ki = 0]
Gentle == [Base EXCEPT !.Kp = 2, !.Kd = 1]
(* Its integral range leaves out 0. *)
Shifted == [Base EXCEPT !.I_min = 1, !.u_max = 1]
Inverted == [Base EXCEPT !.u_min = 2]

At(sigma, cfg) == [sigma |-> sigma, cfg |-> cfg]

Tab(mode, reset, points) ==
  [n_points |-> Len(points), points |-> points, mode |-> mode,
   reset_integral_on_switch |-> reset]

Ramp == <<At(-2, Base), At(1, Strong), At(2, Gentle), At(4, Base)>>
Steps == <<At(-1, Base), At(0, Shifted), At(1, Shifted), At(3, Gentle)>>

GoodTables ==
  {Tab("LINEAR_INTERP", TRUE, Ramp), Tab("HARD_SWITCH", TRUE, Steps),
   Tab("HARD_SWITCH", FALSE, Ramp), Tab("LINEAR_INTERP", FALSE, <<At(0, Shifted)>>)}

(* Empty, too long, in the wrong order, with a repeated or non-finite      *)
(* breakpoint, an invalid entry, an illegal mode, entries that cannot be   *)
(* interpolated.                                                           *)
BadTables ==
  {[Tab("HARD_SWITCH", TRUE, Ramp) EXCEPT !.n_points = n] : n \in {0, 9}}
  \union {Tab("HARD_SWITCH", TRUE, <<At(2, Base), At(1, Strong), At(0, Gentle)>>),
          Tab("HARD_SWITCH", TRUE, <<At(0, Base), At(0, Strong)>>),
          Tab("HARD_SWITCH", TRUE, <<At(NaN, Base)>>),
          Tab("HARD_SWITCH", TRUE, <<At(0, Base), At(1, Inverted)>>),
          Tab(IllegalEnum, TRUE, Ramp), Tab("LINEAR_INTERP", TRUE, Steps)}

AnyTables == GoodTables \union BadTables
AnySigmas == {-3, 0, 1, 3, 5, NaN}
Initial == {Base}
OwnGains == {<<0, 2, 0>>}
StepInputs == {0, 1, NaN}
=============================================================================
