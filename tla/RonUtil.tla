------------------------------ MODULE RonUtil ------------------------------
(***************************************************************************)
(* The scalar helpers every regulon module is built from (ron_platform.h,  *)
(* ron_util.c).                                                            *)
(*                                                                         *)
(* A ron_float_t is an integer on the model's grid or NaN.  As an argument *)
(* of a call the one value NaN stands for every non-finite float: the code *)
(* only ever asks whether an argument is finite.  FloatMax is the largest  *)
(* finite magnitude; an exact result beyond it is what the hardware        *)
(* returns as the infinity of its sign.                                    *)
(***************************************************************************)
EXTENDS Integers

CONSTANTS
  NaN,       (* any non-finite ron_float_t (NaN or an infinity)            *)
  FloatMax   (* the largest finite magnitude (RON_FLOAT_MAX)               *)

ASSUME RonUtilAssumption ==
  /\ FloatMax \in Nat \ {0}
  /\ NaN \notin Int

Float == Int \union {NaN}

Finite == -FloatMax..FloatMax

(* ron_util_isfinite *)
IsFinite(x) == x \in -FloatMax..FloatMax

Abs(x) == IF x < 0 THEN -x ELSE x

Sign(x) == IF x > 0 THEN 1 ELSE IF x < 0 THEN -1 ELSE 0

(* The sign of an infinity, 0 of a finite result. *)
Infinity(x) == IF IsFinite(x) THEN 0 ELSE Sign(x)

(* ron_clamp: the upper bound is applied last, so it wins if lo > hi. *)
Clamp(x, lo, hi) ==
  LET raised == IF x < lo THEN lo ELSE x
  IN  IF raised > hi THEN hi ELSE raised

(* The quotient of two finite values, rounded to the grid. *)
Quot(a, b) == a \div b

(* A sample period every step function accepts. *)
GoodDt(dt) == IsFinite(dt) /\ dt > 0

(***************************************************************************)
(* ron_util_rate_limit: u_sat, moved no further than du_max * dt away from *)
(* the previous output; a limit that is not positive is no limit.          *)
(***************************************************************************)
(* An allowance that overflows limits nothing, not even an infinite move. *)
RateLimited(u_sat, u_prev, du_max, dt) ==
  /\ du_max > 0 /\ IsFinite(du_max * dt)
  /\ Abs(u_sat - u_prev) > du_max * dt

(* Mutants: the limiter moves the wrong way, does not move, forgets dt. *)
RateLimitReversed(u_sat, u_prev, du_max, dt) ==
  IF RateLimited(u_sat, u_prev, du_max, dt)
  THEN u_prev - Sign(u_sat - u_prev) * (du_max * dt)
  ELSE u_sat

RateLimitStuck(u_sat, u_prev, du_max, dt) ==
  IF RateLimited(u_sat, u_prev, du_max, dt) THEN u_prev ELSE u_sat

RateLimitPerStep(u_sat, u_prev, du_max, dt) ==
  IF RateLimited(u_sat, u_prev, du_max, 1)
  THEN u_prev + Sign(u_sat - u_prev) * du_max
  ELSE u_sat

RateLimit(u_sat, u_prev, du_max, dt) ==
  IF RateLimited(u_sat, u_prev, du_max, dt)
  THEN u_prev + Sign(u_sat - u_prev) * (du_max * dt)
  ELSE u_sat

SafePolicy == {"HOLD_LAST", "ZERO", "CONSTANT"}

(***************************************************************************)
(* ron_util_safe_output and ron_pid_fault_safe_output: the value the       *)
(* safe-state policy asks for, clamped to the limits in force.  HOLD_LAST  *)
(* is the switch's default, so any other policy holds the last output too. *)
(***************************************************************************)
SafeOutput(policy, last, safe_value, lo, hi) ==
  Clamp(IF policy = "ZERO" THEN 0
        ELSE IF policy = "CONSTANT" THEN safe_value
        ELSE last, lo, hi)
=============================================================================
