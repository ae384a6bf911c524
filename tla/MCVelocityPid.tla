---------------------------- MODULE MCVelocityPid -----------------------------
(***************************************************************************)
(* Instances of VelocityPid for TLC: a full reading of the joint and one   *)
(* without a position, a reference that moves past them, gains of one,     *)
(* limits of a few units.                                                  *)
(***************************************************************************)
EXTENDS VelocityPid, TLC

MCReadings == {[pos |-> 2, vel |-> 0], [vel |-> 1]}
MCReferences == {[pos |-> 0, vel |-> 0, accel |-> 0], [pos |-> 4, vel |-> 1, accel |-> 0]}

MCDefaults ==
  [control_mode |-> "position_only", outer_loop_divider |-> 2,
   kp |-> 1, ki |-> 1, kd |-> 0, kff |-> 1, kaff |-> 0,
   torque_limit_nm |-> 2, integral_limit |-> 0, deadband_rad_s |-> 0,
   kp_pos |-> 1, ki_pos |-> 1, kd_pos |-> 0,
   pos_integral_limit |-> 1, pos_output_limit |-> 2,
   filter_alpha |-> 9, invert_output |-> FALSE]

\* The defaults, and a start whose values the constructor has to replace.
MCLaunch ==
  { MCDefaults,
    [MCDefaults EXCEPT !.control_mode = "torque", !.pos_integral_limit = -1,
                       !.outer_loop_divider = 0, !.filter_alpha = 10] }

\* Mode changes, with and without another divider, limits, gains, bad values.
MCRequests ==
  { "control_mode" :> "cascade", "control_mode" :> "velocity_only",
    "control_mode" :> "position_only" @@ "outer_loop_divider" :> 3,
    "control_mode" :> "none", "rate_hz" :> 5, "filter_alpha" :> 10,
    "pos_integral_limit" :> 2 @@ "kp_pos" :> 1, "pos_integral_limit" :> 1,
    "pos_output_limit" :> -1, "kp" :> 0 @@ "torque_limit_nm" :> 1 }

\* The drive before its first encoder frame, and after it.
MCNaNReadings == {[pos |-> NaN, vel |-> NaN], [pos |-> 2, vel |-> 0]}

MCInvertedLaunch == {[MCDefaults EXCEPT !.invert_output = TRUE]}

\* A trajectory faster than pos_output_limit, followed in velocity_only first.
MCFastReferences == {[pos |-> 0, vel |-> 4, accel |-> 0]}
MCFastLaunch == {[MCDefaults EXCEPT !.control_mode = "velocity_only"]}

===============================================================================
