----------------------------- MODULE FaultLatch -----------------------------
(***************************************************************************)
(* What a regulon controller promises about faults, whatever its control   *)
(* law: the actuator always receives a value of its range; the first fault *)
(* detected is latched, alone, and stays latched, with no computation      *)
(* recovering silently from it, until the application clears it; clearing  *)
(* does not move the actuator.                                             *)
(***************************************************************************)
EXTENDS Integers

CONSTANTS Faults,   (* the faults a step can detect  *)
          Values    (* the values an actuator accepts *)

VARIABLES latched,  (* the fault register            *)
          u         (* the value the actuator holds  *)

Init == latched = {} /\ u \in Values

(* A step that computes. *)
Compute == latched = {} /\ latched' = {} /\ u' \in Values

(* A step that detects a fault and outputs a safe value instead. *)
Trip == latched = {} /\ (\E f \in Faults : latched' = {f}) /\ u' \in Values

(* A step, or a reconfiguration, while a fault is latched. *)
Hold == latched # {} /\ latched' = latched /\ u' \in Values

(* The application clears the fault, resets or initialises again. *)
Clear == latched # {} /\ latched' = {} /\ u' = u

Next == Compute \/ Trip \/ Hold \/ Clear

Spec == Init /\ [][Next]_<<latched, u>>
=============================================================================
