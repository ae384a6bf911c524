------------------------------ MODULE MCFlapSim -------------------------------
(***************************************************************************)
(* Instances of FlapSim for TLC: two motions, one moment beyond the clip   *)
(* and one within, a shadow law with divider two in a window of two ticks. *)
(***************************************************************************)
EXTENDS FlapSim, TLC

MCMotions == {[pos |-> 0, vel |-> 0], [pos |-> 2, vel |-> 1]}
MCReferences == {[pos |-> 0, vel |-> 1, accel |-> 0]}

MCParams ==
  [control_mode |-> "cascade", outer_loop_divider |-> 3, sync_trajectory |-> TRUE,
   kp |-> 1, ki |-> 0, kd |-> 0, kff |-> 1, kaff |-> 0,
   torque_limit_nm |-> 1, integral_limit |-> 0, deadband_rad_s |-> 0,
   kp_pos |-> 1, ki_pos |-> 1, kd_pos |-> 0, pos_integral_limit |-> 1, pos_output_limit |-> 1,
   filter_alpha |-> 0, use_shadow_pid |-> TRUE, hydro_torque_clip_nm |-> 1]

MCLaunch == {MCParams, [MCParams EXCEPT !.sync_trajectory = FALSE, !.filter_alpha = 5]}

MCRequests ==
  { "use_shadow_pid" :> TRUE, "use_shadow_pid" :> FALSE,
    "control_mode" :> "velocity_only",
    "control_mode" :> "position_only" @@ "outer_loop_divider" :> 0,
    "control_mode" :> "cascade" @@ "outer_loop_divider" :> 2,
    "sync_trajectory" :> TRUE, "torque_limit_nm" :> 0, "filter_alpha" :> 10, "mode" :> 0 }

===============================================================================
