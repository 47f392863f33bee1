------------------------------- MODULE FloatOps -------------------------------
(***************************************************************************)
(* Floating-point arithmetic on the model's grid: a result beyond the      *)
(* finite range is not finite, and what is computed from a non-finite      *)
(* operand is not finite either.                                           *)
(***************************************************************************)
EXTENDS RonUtil

Fin(x) == IF IsFinite(x) THEN x ELSE NaN

Plus(a, b) == IF IsFinite(a) /\ IsFinite(b) THEN Fin(a + b) ELSE NaN

Minus(a, b) == IF IsFinite(a) /\ IsFinite(b) THEN Fin(a - b) ELSE NaN

Times(a, b) == IF IsFinite(a) /\ IsFinite(b) THEN Fin(a * b) ELSE NaN

(* The product with a coefficient in units of one / scale, rounded. *)
Scaled(a, b, scale) == IF IsFinite(a) /\ IsFinite(b) THEN Fin(Quot(a * b, scale)) ELSE NaN
=============================================================================
