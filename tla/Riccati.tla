------------------------------- MODULE Riccati -------------------------------
(***************************************************************************)
(* The iterative solver of the discrete algebraic Riccati equation         *)
(* (ron_lqr.c), which gives LQR and LQG their control gain and LQG its     *)
(* steady-state Kalman gain.  A matrix is one number; a cost-to-go beyond  *)
(* the float range is an infinity, and what the next iteration computes    *)
(* from it is not a number.  Costs are not negative.                       *)
(***************************************************************************)
EXTENDS Estimation

DEFAULT_MAX_ITER == 200

(* One iteration from the cost-to-go P. *)
RiccatiGain(sys, P) ==
  CholeskySolve(InnovationCov(sys.B, P, sys.R), Product(sys.B, P, sys.A))

(* Q + A^T P A - A^T P B (R + B^T P B)^-1 B^T P A: an infinity if only the *)
(* first two terms overflow, but not a number if A^T P, A^T P B or the     *)
(* gain does.                                                              *)
RiccatiUpdate(sys, P) ==
  LET apb == Product(sys.A, P, sys.B)
      sum == sys.Q + sys.A * P * sys.A
  IN  IF ~FiniteAll({Times(sys.A, P), apb, RiccatiGain(sys, P)}) THEN NaN
      ELSE IF IsFinite(sum) THEN sum - Quot(apb * apb, InnovationCov(sys.B, P, sys.R))
      ELSE sum

(* lqr_mat_max_abs_diff against the tolerance: an infinite difference is   *)
(* too large, but one that is not a number is never seen.                  *)
Converged(P_new, P, tol) ==
  P_new = NaN \/ (IsFinite(P_new) /\ Abs(P_new - P) < tol)

(* ron_lqr_dare_solve: from the cost Q, as long as the factorisation of    *)
(* each iteration is possible, until two iterations agree.                 *)
DareSolve(sys, max_iter, tol) ==
  LET limit == IF max_iter = 0 THEN DEFAULT_MAX_ITER ELSE max_iter
      solve[i \in (0..limit) \X Float] ==
        LET left  == i[1]
            P     == i[2]
            P_new == RiccatiUpdate(sys, P)
        IN  IF left = 0 \/ ~CholeskyAccepts(InnovationCov(sys.B, P, sys.R))
            THEN [ok |-> FALSE, K |-> 0, P |-> 0]
            ELSE IF Converged(P_new, P, tol)
                 THEN [ok |-> TRUE, K |-> RiccatiGain(sys, P), P |-> P_new]
            ELSE solve[<<left - 1, P_new>>]
  IN  solve[<<limit, sys.Q>>]
=============================================================================
