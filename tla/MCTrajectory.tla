----------------------------- MODULE MCTrajectory -----------------------------
(***************************************************************************)
(* Instances of Trajectory for TLC.                                        *)
(***************************************************************************)
EXTENDS TrajectoryClaims

(* The acceleration changes the speed by several grid units per sample:    *)
(* one configuration whose peak speeds are not multiples of it, and one    *)
(* whose moves between the targets have whole ramps.                       *)
TrapSet == {[v_max |-> 9, a_max |-> 4], [v_max |-> 6, a_max |-> 3], [v_max |-> 0, a_max |-> 1]}

(* Ramps of 1 and 2 time units; distances are those it covers exactly.     *)
ScurveSet == {[v_max |-> 24, a_max |-> 12, j_max |-> 6], [v_max |-> 6, a_max |-> 12, j_max |-> 6],
              [v_max |-> 6, a_max |-> 6, j_max |-> NaN]}

PositionSet == {0, NaN}
TargetSet == {0, -12, 96, NaN}

(* A move of 9 at 3, 4, 4 or less: braked from 4 to 1 at 8, it steps over  *)
(* the target at 4.                                                        *)
OvershootSet == {[v_max |-> 4, a_max |-> 3]}
OvershootTargets == {9}
=============================================================================
