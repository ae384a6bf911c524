------------------------------- MODULE MCODrive -------------------------------
(***************************************************************************)
(* Instances of ODrive for TLC: the motor joint, claimed by an effort      *)
(* controller or by a position controller with torque feedforward, and the *)
(* PTO joint, which no controller claims.  The queue is shorter than the   *)
(* three frames of a mode command: a command goes out whole only when the  *)
(* link drains in between.                                                 *)
(***************************************************************************)
EXTENDS ODrive

MCClaims == {{}, {<<1, "effort">>}, {<<1, "position">>, <<1, "effort">>}}

===============================================================================
