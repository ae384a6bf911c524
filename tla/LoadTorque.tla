------------------------------ MODULE LoadTorque ------------------------------
(***************************************************************************)
(* chrono_flap_node in HIL mode: evaluates a load torque from the measured *)
(* shaft, gated by a feedback watchdog, by ~/enable_hydro and by           *)
(* ~/engage_hil with its ramp, and publishes it for the mixer.             *)
(*                                                                         *)
(* run() is a loop: spin_some, then one tick, then sleep.  Callbacks run   *)
(* only inside spin_some, so they are guarded by Spinning, and each is one *)
(* action.  loop_in is the time to the next iteration, negative while the  *)
(* loop overruns or oversleeps.                                            *)
(***************************************************************************)
EXTENDS Torque

CONSTANTS Readings,       \* what a /joint_states message says of the shaft
          Quiet,          \* the reading before any message: hw_pos_ = hw_vel_ = 0
          StubTorque,     \* reading -> values of the stub sum, over all times and coefficients
          HydroTorque,    \* reading -> moments SEA-Stack may return for it
          LaunchParams,   \* parameter values the node is started with
          ParamRequests,  \* set_parameters batches, functions of parameter names
          MaxTorque,      \* bound on both clips
          MaxTimeout,     \* bound on hil_feedback_timeout_s
          MaxRamp,        \* bound on hil_ramp_time_s
          Period,         \* publish_dt_
          Jitter          \* bound on overrun and oversleep of the loop

Mutable == {"hil_torque_clip_nm", "hydro_torque_clip_nm", "hil_feedback_timeout_s",
            "hil_ramp_time_s"}
Positive == Mutable \ {"hil_ramp_time_s"}
Immutable == {"rate_hz", "solver_rate_hz", "effort_topic", "sil_mode", "mode",
              "joint_name", "joint_state_topic", "hil_load_topic", "seastack_h5_path",
              "wave_hs_m", "wave_tp_s", "wave_seed", "wave_n_components",
              "hydro_engaged_default"}

Params == [hil_torque_clip_nm : 1..MaxTorque, hydro_torque_clip_nm : 1..MaxTorque,
           hil_feedback_timeout_s : 1..MaxTimeout, hil_ramp_time_s : 0..MaxRamp]

\* The constructor takes the launch values unchecked; the launch files pass
\* legal ones, and so do the model's instances.
LoadConstants ==
  /\ Quiet \in Readings
  /\ StubTorque \in [Readings -> SUBSET Torques]
  /\ HydroTorque \in [Readings -> SUBSET Torques]
  /\ MaxTorque \in Nat /\ MaxTimeout \in Nat /\ MaxRamp \in Nat
  /\ Period \in Nat \ {0} /\ Jitter \in Nat
  /\ LaunchParams \subseteq Params
  /\ \A req \in ParamRequests :
       \A p \in DOMAIN req \cap Mutable :
         /\ req[p] \in Int
         /\ p \in {"hil_torque_clip_nm", "hydro_torque_clip_nm"} => req[p] <= MaxTorque
         /\ p = "hil_feedback_timeout_s" => req[p] <= MaxTimeout
         /\ p = "hil_ramp_time_s" => req[p] <= MaxRamp

ASSUME LoadAssumption == LoadConstants

VARIABLES
  reading,        \* hw_pos_, hw_vel_
  hw_age,         \* now() - hw_stamp_, the age of the sample since it was taken
  hw_received,    \* hw_received_
  hil_engaged,    \* hil_engaged_
  ramp_age,       \* now - hil_ramp_start_time_
  hydro_adapter,  \* hydro_adapter_ was built
  hydro_engaged,  \* hydro_engaged_
  params,         \* the members the parameters are copied to
  load,           \* last torque published on ~/load_torque
  source,         \* where that torque came from: "none", "stub" or "hydro"
  ever_engaged,   \* history: hil_engaged has been true
  loop_in,        \* time to the next iteration of run()
  running         \* run() has not returned

inputs == <<reading, hw_age, hw_received>>
gates == <<hil_engaged, ramp_age, hydro_engaged, ever_engaged>>
vars == <<inputs, gates, hydro_adapter, params, load, source, loop_in, running>>

\* A sample this old has outlived every timeout, the loop period and lateness.
AgeCap == MaxTimeout + Period + Jitter + 1
\* A ramp this old is over, and a later iteration has published its end.
RampCap == MaxRamp + Period + Jitter + 1

-------------------------------------------------------------------------------
Init ==
  /\ reading = Quiet /\ hw_age = AgeCap /\ hw_received = FALSE
  /\ hil_engaged \in BOOLEAN       \* hil_engaged_default
  /\ ramp_age = 0                  \* hil_ramp_start_time_ = start_time_
  /\ hydro_engaged \in BOOLEAN     \* hydro_engaged_default
  /\ hydro_adapter \in BOOLEAN     \* not built, no h5 path, or its constructor threw
  /\ params \in LaunchParams
  /\ load = 0 /\ source = "none"
  /\ ever_engaged = hil_engaged
  /\ loop_in = 0
  /\ running = TRUE

Spinning == running /\ loop_in <= 0

-------------------------------------------------------------------------------
\* /joint_states: the stamp is the sender's, so the sample may arrive old, but
\* one publisher's stamps arrive in order.
JointStates ==
  /\ Spinning
  /\ \E r \in Readings, delay \in 0..hw_age :
       reading' = r /\ hw_age' = delay
  /\ hw_received' = TRUE
  /\ UNCHANGED <<gates, hydro_adapter, params, load, source, loop_in, running>>

\* ~/engage_hil: every call, also one that changes nothing, restarts the ramp.
EngageService ==
  /\ Spinning
  /\ hil_engaged' \in BOOLEAN
  /\ ramp_age' = 0
  /\ ever_engaged' = (ever_engaged \/ hil_engaged')
  /\ UNCHANGED <<inputs, hydro_engaged, hydro_adapter, params, load, source, loop_in, running>>

EnableHydroService ==
  /\ Spinning
  /\ \E data \in BOOLEAN : hydro_engaged' = data
  /\ UNCHANGED <<inputs, hil_engaged, ramp_age, ever_engaged, hydro_adapter, params,
                 load, source, loop_in, running>>

\* Mutant: the ramp time is not validated.
AcceptsAnyRamp(req) ==
  /\ DOMAIN req \cap Immutable = {}
  /\ \A p \in DOMAIN req \cap Positive : ~LessEq(req[p], 0)

\* on_validate_parameters: one bad entry rejects the whole batch.
Acceptable(req) ==
  /\ DOMAIN req \cap Immutable = {}
  /\ \A p \in DOMAIN req \cap Positive : ~LessEq(req[p], 0)
  /\ "hil_ramp_time_s" \in DOMAIN req => ~Less(req["hil_ramp_time_s"], 0)

\* on_apply_parameters; hydro_torque_clip_nm reaches the adapter in the same
\* callback, so one value stands for the member and the adapter's copy.
SetParameters ==
  /\ Spinning
  /\ \E req \in ParamRequests :
       /\ Acceptable(req)
       /\ params' = [p \in Mutable |-> IF p \in DOMAIN req THEN req[p] ELSE params[p]]
  /\ UNCHANGED <<inputs, gates, hydro_adapter, load, source, loop_in, running>>

FeedbackUnwatched == hw_received   \* mutant

FeedbackOk == hw_received /\ ~Less(params.hil_feedback_timeout_s, hw_age)

HydroUngated == hydro_adapter   \* mutant

\* SEA-Stack's clipped moment replaces compute_load_torque's.
HydroActive == hydro_adapter /\ hydro_engaged

\* What the sources can ask for, each within its own clip.
Targets ==
  IF HydroActive
  THEN {Clamp(raw, -params.hydro_torque_clip_nm, params.hydro_torque_clip_nm) :
          raw \in HydroTorque[reading]}
  ELSE {Clamp(raw, -params.hil_torque_clip_nm, params.hil_torque_clip_nm) :
          raw \in StubTorque[reading]}

\* std::clamp(ramp_elapsed / hil_ramp_time_s_, 0, 1), as a numerator.
Elapsed == Least(ramp_age, params.hil_ramp_time_s)

\* Mutants: without a ramp time the closed gate lets the torque through; the
\* ramp is divided into one step too many.
RampedOpen(tau) ==
  IF params.hil_ramp_time_s = 0 THEN tau
  ELSE Scale(tau, IF hil_engaged THEN Elapsed ELSE params.hil_ramp_time_s - Elapsed,
             params.hil_ramp_time_s)
RampedShort(tau) ==
  IF ~hil_engaged THEN 0 ELSE Scale(tau, Elapsed, params.hil_ramp_time_s + 1)

\* The ramp gate: up while engaged, down while not, at once without a ramp time.
Ramped(tau) ==
  IF params.hil_ramp_time_s = 0 THEN (IF hil_engaged THEN tau ELSE 0)
  ELSE Scale(tau, IF hil_engaged THEN Elapsed ELSE params.hil_ramp_time_s - Elapsed,
             params.hil_ramp_time_s)

Tick ==
  /\ Spinning
  /\ IF FeedbackOk
     THEN /\ \E tau \in Targets : load' = Ramped(tau)
          /\ source' = IF HydroActive THEN "hydro" ELSE "stub"
     ELSE load' = 0 /\ source' = "none"
  /\ loop_in' = Period
  /\ UNCHANGED <<inputs, gates, hydro_adapter, params, running>>

\* run() returns and the destructor publishes 0, after rclcpp::shutdown() on
\* the paths of main(): the message may or may not leave the process.
Shutdown ==
  /\ running
  /\ running' = FALSE
  /\ \/ load' = 0 /\ source' = "none"
     \/ UNCHANGED <<load, source>>
  /\ UNCHANGED <<inputs, gates, hydro_adapter, params, loop_in>>

Advance ==
  /\ running
  /\ loop_in > -Jitter
  /\ loop_in' = loop_in - 1
  /\ hw_age' = Older(hw_age, AgeCap)
  /\ ramp_age' = Older(ramp_age, RampCap)
  /\ UNCHANGED <<reading, hw_received, hil_engaged, hydro_engaged, ever_engaged,
                 hydro_adapter, params, load, source, running>>

Next ==
  \/ JointStates \/ EngageService \/ EnableHydroService \/ SetParameters
  \/ Tick \/ Shutdown \/ Advance

Spec == Init /\ [][Next]_vars

\* run() keeps looping and time does not stop.
FairSpec == Spec /\ WF_vars(Tick) /\ WF_vars(Advance)

-------------------------------------------------------------------------------
\* Every variable has its type; the clips and the timeout stay positive and the
\* ramp non-negative whatever batches arrive (std::clamp with lo > hi is
\* undefined), and the loop is never later than Jitter.
TypeOK ==
  /\ reading \in Readings
  /\ hw_age \in 0..AgeCap
  /\ ramp_age \in 0..RampCap
  /\ {hw_received, hil_engaged, hydro_adapter, hydro_engaged, ever_engaged, running}
       \subseteq BOOLEAN
  /\ params \in Params
  /\ load \in Torques
  /\ source \in {"none", "stub", "hydro"}
  /\ loop_in \in (-Jitter)..Period

FeedbackSwitch == INSTANCE DeadMan WITH
  Commands <- Torques, Life <- AgeCap,
  command <- load, life <- AgeCap - hw_age

\* The feedback watchdog implements the dead man's switch: once the newest
\* sample of the shaft is older than MaxTimeout + Period + Jitter the published
\* load is 0, whatever services, parameters and late samples do meanwhile.
FeedbackIsDeadMan == FeedbackSwitch!Spec

\* The engage gate, once closed and ramped down, is shut: however the ramp time
\* is changed meanwhile, MaxRamp after the last call of ~/engage_hil plus one
\* iteration the load is exactly 0 and stays there.
ShutGateIsSilent == (~hil_engaged /\ ramp_age = RampCap) => load = 0

\* An open gate delivers: when the gate stays engaged beyond its ramp and the
\* feedback stays fresh, the full clipped torque is published again and again.
OpenGateDelivers ==
  <>[](running /\ hil_engaged /\ ramp_age = RampCap /\ FeedbackOk)
    => []<>(load \in Targets)

\* Closing ~/enable_hydro takes SEA-Stack's torque off the topic before long.
HydroLeaves ==
  (running /\ ~hydro_engaged) ~> (source # "hydro" \/ hydro_engaged \/ ~running)

\* docs/hil_bringup_checklist.md: "the hydro path is producing exactly 0 because
\* `engage_hil` is closed", in the stage before the service is first called.
NeverEngagedIsSilent == ~ever_engaged => load = 0

===============================================================================
