--------------------------- MODULE TrajectoryClaims ---------------------------
(***************************************************************************)
(* What the header says of the generators where the code does otherwise,   *)
(* checked by a run of its own.                                            *)
(***************************************************************************)
EXTENDS Trajectory

(***************************************************************************)
(* ron_trajectory.h: once the target is reached the generator holds its    *)
(* position and reports that it has finished.  A trapezoidal move whose    *)
(* braking does not fill whole samples can brake too early: slow and short *)
(* of its target it accelerates again, and that one sample takes it over   *)
(* the target, faster than one sample can brake and not braking.  It is    *)
(* not finished then, finds its (unsigned) distance beyond its braking     *)
(* distance from there on, and travels away at its peak speed.             *)
(***************************************************************************)
TargetEndsMove == MoveFromRest ~> Ended
=============================================================================
