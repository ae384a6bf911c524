----------------------------- MODULE MCLoadTorque -----------------------------
(***************************************************************************)
(* Instances of LoadTorque for TLC.  Torques are multiples of every ramp   *)
(* time, so the linear ramp divides evenly.                                *)
(***************************************************************************)
EXTENDS LoadTorque, TLC

MCReadings == {"still", "moving"}
MCStub == [r \in MCReadings |-> IF r = "still" THEN {2} ELSE {-6}]
MCHydro == [r \in MCReadings |-> IF r = "still" THEN {8} ELSE {0}]

MCParams ==
  [hil_torque_clip_nm |-> 4, hydro_torque_clip_nm |-> 2,
   hil_feedback_timeout_s |-> 1, hil_ramp_time_s |-> 2]
MCLaunch == {MCParams}

\* Single parameters, a batch, an immutable one and bad values.
MCRequests ==
  { "hil_ramp_time_s" :> 0, "hil_ramp_time_s" :> -1,
    "hil_feedback_timeout_s" :> 2 @@ "hil_ramp_time_s" :> 2,
    "hil_torque_clip_nm" :> 0, "hydro_torque_clip_nm" :> 4,
    "mode" :> 0 @@ "hil_ramp_time_s" :> 1 }

===============================================================================
