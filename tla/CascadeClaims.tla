--------------------------- MODULE CascadeClaims ---------------------------
(***************************************************************************)
(* What the header says of the cascade where the code does otherwise,      *)
(* checked by a run of its own.                                            *)
(***************************************************************************)
EXTENDS Cascade

(***************************************************************************)
(* ron_cascade.h: the outer output is clamped to [outer.u_min,             *)
(* outer.u_max] by ron_pid_step before it reaches the inner loop.          *)
(***************************************************************************)
SetpointIsClamped ==
  [][stepped' > 0 => link' \in outer.cfg.u_min..outer.cfg.u_max]_vars
=============================================================================
