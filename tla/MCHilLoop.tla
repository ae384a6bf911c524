------------------------------ MODULE MCHilLoop -------------------------------
(***************************************************************************)
(* An instance of HilLoop for TLC: an unknown shaft, whose load torque is  *)
(* NaN, and a turning one with one torque, the stub as its source,         *)
(* timeouts of one unit, no ramp, and a load loop that may be a unit late. *)
(***************************************************************************)
EXTENDS HilLoop, TLC

MCStub == "unknown" :> {NaN} @@ "turning" :> {2}

MCLoadParams ==
  [hil_torque_clip_nm |-> 2, hydro_torque_clip_nm |-> 2,
   hil_feedback_timeout_s |-> 1, hil_ramp_time_s |-> 0]

MCMixerParams ==
  [hard_clip_nm |-> 3, pid_timeout_s |-> 1, load_timeout_s |-> 1, enable_load |-> TRUE]

\* The mixer is launched without a load timeout, and gets the default.
MCLoadLaunches == {MCLoadParams}
MCMixerLaunches == {[MCMixerParams EXCEPT !.load_timeout_s = 0]}

\* Accepted and rejected batches.
MCLoadRequests == {"hil_feedback_timeout_s" :> 1, "hil_feedback_timeout_s" :> 0}
MCMixerRequests == {"load_timeout_s" :> 1, "load_timeout_s" :> 0}

\* Without SEA-Stack, and nobody calls ~/enable_hydro to open a gate before nothing.
\* hil_engaged_default is set.
MCInit == Init /\ ~hydro_adapter /\ ~hydro_engaged /\ hil_engaged

MCSpec == MCInit /\ [][Next /\ ~hydro_engaged']_vars

===============================================================================
