---------------------------- MODULE MCTorqueMixer -----------------------------
(***************************************************************************)
(* Instances of TorqueMixer for TLC.  Torques are in units of the smaller  *)
(* clip; the PID sample alone exceeds it, so sums clip on both sides.      *)
(***************************************************************************)
EXTENDS TorqueMixer, TLC

MCDefaults ==
  [hard_clip_nm |-> 3, pid_timeout_s |-> 1, load_timeout_s |-> 1, enable_load |-> TRUE]

\* A sane start, and one whose values the constructor has to replace.
MCLaunch ==
  { [MCDefaults EXCEPT !.pid_timeout_s = 2, !.enable_load = FALSE],
    [hard_clip_nm |-> -1, pid_timeout_s |-> 0, load_timeout_s |-> -2, enable_load |-> TRUE] }

\* Single parameters, a batch, an immutable one and bad batches.
MCRequests ==
  { "hard_clip_nm" :> 1, "hard_clip_nm" :> 3, "hard_clip_nm" :> 0,
    "load_timeout_s" :> 2,
    "enable_load" :> TRUE @@ "pid_timeout_s" :> 1,
    "enable_load" :> FALSE @@ "load_timeout_s" :> -1,
    "output_rate_hz" :> 5 @@ "hard_clip_nm" :> 1 }

MCPidSamples == {-4, 2}
MCLoadSamples == {-1, 3}
MCPidSamplesNaN == {2, NaN}

===============================================================================
