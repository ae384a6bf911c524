-------------------------------- MODULE FlapSim -------------------------------
(***************************************************************************)
(* chrono_flap_node in SIL and parallel mode: integrates the flap in       *)
(* Chrono under a shadow copy of the control law (ShadowPidController) or  *)
(* the real controller's torque, with SEA-Stack's moment accumulated on    *)
(* the body.                                                               *)
(*                                                                         *)
(* run() does spin_some and one tick per iteration and every tick counts   *)
(* publish_dt_, however long it took: a tick is the unit of time.          *)
(* Parameters are named without their shadow_ prefix; what VelocityPid has *)
(* too is named with one, so that a module can extend both.                *)
(***************************************************************************)
EXTENDS Cascade, Sequences

CONSTANTS Motions,        \* [pos, vel] of the flap after Chrono has stepped it
          FlapSpeed,      \* bound on the velocities
          FlapReferences, \* [pos, vel, accel] of the internal trajectory
          PosCommands,    \* ~/position_command of velocity_pid_node
          VelCommands,    \* ~/velocity_command of velocity_pid_node
          Efforts,        \* torques on effort_topic
          HydroMoments,   \* moments SEA-Stack may return
          FlapLaunches,   \* the shadow and hydro parameters the node starts with
          FlapRequests,   \* set_parameters batches, functions of parameter names
          FlapAgeCap,     \* bound on the ages the history counts
          Window          \* length of the clip history, 100 in the code

FlapMutable == UNION {DOMAIN raw : raw \in FlapLaunches}
FlapImmutable == {"rate_hz", "solver_rate_hz", "effort_topic", "sil_mode", "mode",
                  "joint_name", "joint_state_topic", "hil_load_topic", "seastack_h5_path",
                  "wave_hs_m", "wave_tp_s", "wave_seed", "wave_n_components",
                  "hydro_engaged_default"}
FlapPositive == {"torque_limit_nm", "pos_integral_limit", "pos_output_limit",
                 "outer_loop_divider", "hydro_torque_clip_nm"}
\* Parameters whose change re-reads and resets the shadow law.
Shadow == FlapMutable \ {"use_shadow_pid", "hydro_torque_clip_nm"}

FlapGains == {"kp", "ki", "kd", "kff", "kaff", "kp_pos", "ki_pos", "kd_pos",
              "deadband_rad_s", "integral_limit"}

\* A mode the node does not know starts as position_only; the limits it starts
\* with are not checked and taken to be legal.  No divider is beyond FlapAgeCap.
FlapConstants ==
  /\ Motions # {} /\ Motions \subseteq [pos : Int, vel : Int]
  /\ FlapReferences \subseteq [pos : Int, vel : Int, accel : Int]
  /\ PosCommands \cup VelCommands \cup Efforts \cup HydroMoments \subseteq Int
  /\ FlapSpeed \in Nat /\ FlapAgeCap \in Nat /\ Window \in Nat \ {0}
  /\ FlapPositive \cup FlapGains \subseteq FlapMutable
  /\ {"control_mode", "use_shadow_pid", "sync_trajectory"} \subseteq FlapMutable
  /\ \A raw \in FlapLaunches :
       /\ DOMAIN raw = FlapMutable /\ raw["control_mode"] \in Modes
       /\ raw["sync_trajectory"] \in BOOLEAN
       /\ \A p \in FlapPositive : raw[p] \in Nat \ {0}
  /\ \A given \in FlapLaunches \cup FlapRequests :
       /\ \A p \in DOMAIN given \cap (FlapGains \cup FlapPositive) : given[p] \in Int
       /\ "outer_loop_divider" \in DOMAIN given
            => Rounded(given["outer_loop_divider"]) <= FlapAgeCap

ASSUME FlapAssumption == FlapConstants

VARIABLES
  motion,          \* sim_position_, sim_velocity_
  filter,          \* filter_initialized_ and filtered_vel_ of the shadow law
  shadow_ctl,      \* the shadow law's PIDs, counter, accumulated dt and v_cmd_
  flap_params,     \* the parameters in force
  shadow_sync,     \* shadow_sync_trajectory_, read by the constructor
  ext_pos,         \* set of at most one value: shadow_ext_pos_ref_ once received
  ext_vel,         \* the same for shadow_ext_vel_ref_
  latest_torque,   \* latest_torque_
  torque_cmd,      \* torque the motor link was driven with in the last tick
  hydro_adapter,   \* hydro_adapter_ was built
  hydro_engaged,   \* hydro_engaged_
  accumulator,     \* Chrono: the torque in the flap's hydro accumulator
  hydro_raw,       \* last ~/hydro_torque_raw
  hydro_applied,   \* last ~/hydro_torque
  clip_history,    \* clip_engaged_history_
  flap_vel_age,    \* history: ticks since vel_pid_ took its prev_measurement_
  flap_pos_age     \* history: ticks since pos_pid_ took its prev_measurement_

shadow == <<filter, shadow_ctl, flap_vel_age, flap_pos_age>>
external == <<ext_pos, ext_vel, latest_torque>>
telemetry == <<hydro_raw, hydro_applied, clip_history>>
flap_vars == <<motion, shadow, flap_params, shadow_sync, external, torque_cmd,
               hydro_adapter, hydro_engaged, accumulator, telemetry>>

NoFilter == [initialized |-> FALSE, vel |-> 0]

-------------------------------------------------------------------------------
FlapInit ==
  /\ motion = [pos |-> 0, vel |-> 0]
  /\ filter = NoFilter /\ shadow_ctl = IdleControl
  /\ flap_params \in FlapLaunches
  /\ shadow_sync = flap_params.sync_trajectory
  /\ ext_pos = {} /\ ext_vel = {}
  /\ latest_torque = 0 /\ torque_cmd = 0
  /\ hydro_adapter \in BOOLEAN     \* not built, no h5 path, or its constructor threw
  /\ hydro_engaged \in BOOLEAN     \* hydro_engaged_default
  /\ accumulator = 0 /\ hydro_raw = 0 /\ hydro_applied = 0
  /\ clip_history = <<>>
  /\ flap_vel_age = FlapAgeCap /\ flap_pos_age = FlapAgeCap

-------------------------------------------------------------------------------
EffortSub ==
  /\ latest_torque' \in Efforts
  /\ UNCHANGED <<motion, shadow, flap_params, shadow_sync, ext_pos, ext_vel, torque_cmd,
                 hydro_adapter, hydro_engaged, accumulator, telemetry>>

\* The two references arrive on topics of their own.
PosCommandSub ==
  /\ shadow_sync
  /\ \E v \in PosCommands : ext_pos' = {v}
  /\ UNCHANGED <<motion, shadow, flap_params, shadow_sync, ext_vel, latest_torque, torque_cmd,
                 hydro_adapter, hydro_engaged, accumulator, telemetry>>

VelCommandSub ==
  /\ shadow_sync
  /\ \E v \in VelCommands : ext_vel' = {v}
  /\ UNCHANGED <<motion, shadow, flap_params, shadow_sync, ext_pos, latest_torque, torque_cmd,
                 hydro_adapter, hydro_engaged, accumulator, telemetry>>

EnableHydroService ==
  /\ \E data \in BOOLEAN : hydro_engaged' = data
  /\ UNCHANGED <<motion, shadow, flap_params, shadow_sync, external, torque_cmd,
                 hydro_adapter, accumulator, telemetry>>

\* Mutant of FlapAcceptable: limits are not validated.
AcceptsAnyFlapLimit(req) == DOMAIN req \cap FlapImmutable = {}

\* on_validate_parameters.  integral_limit is not among the validated limits; the
\* plant's own parameters, which only shape Motions, are left out.
FlapAcceptable(req) ==
  /\ DOMAIN req \cap FlapImmutable = {}
  /\ \A p \in DOMAIN req \cap FlapPositive : req[p] > 0
  /\ "filter_alpha" \in DOMAIN req => req["filter_alpha"] \in UnitRange
  /\ "control_mode" \in DOMAIN req => req["control_mode"] \in Modes

\* Mutant of ResetsShadow: switching the shadow law off and on keeps its state.
ResetsOnGains(req) == DOMAIN req \cap Shadow # {}

ResetsShadow(req) == DOMAIN req \cap (Shadow \cup {"use_shadow_pid"}) # {}

\* on_apply_parameters: read_shadow_params() ends in a reset of the whole law;
\* shadow_sync_trajectory_ is not read again.
SetFlapParameters ==
  /\ \E req \in FlapRequests :
       /\ FlapAcceptable(req)
       /\ flap_params' = [p \in FlapMutable |->
                            IF p \in DOMAIN req THEN req[p] ELSE flap_params[p]]
       /\ IF ResetsShadow(req) THEN shadow_ctl' = IdleControl /\ filter' = NoFilter
                               ELSE UNCHANGED <<shadow_ctl, filter>>
  /\ UNCHANGED <<motion, shadow_sync, external, torque_cmd, hydro_adapter,
                 hydro_engaged, accumulator, telemetry, flap_vel_age, flap_pos_age>>

\* The velocity the law filters before it computes.
ShadowFiltered ==
  Smoothed(filter.initialized, filter.vel, motion.vel, flap_params.filter_alpha, FlapSpeed)

\* Synced references count only together; until both are there the law holds at
\* zero.  Without sync the law follows its own trajectory.
ShadowReferences ==
  IF ~shadow_sync THEN FlapReferences
  ELSE IF ext_pos # {} /\ ext_vel # {}
       THEN [pos : ext_pos, vel : ext_vel, accel : {0}]
       ELSE {[pos |-> 0, vel |-> 0, accel |-> 0]}

ShadowUsesVel == flap_params.control_mode # "position_only"
ShadowRunsPos == \/ flap_params.control_mode = "position_only"
                 \/ flap_params.control_mode = "cascade" /\ OuterDue(shadow_ctl, flap_params)

ShadowTick ==
  /\ \E v \in ShadowFiltered :
       /\ filter' = [initialized |-> TRUE, vel |-> v]
       /\ \E tick \in {Control(shadow_ctl, flap_params, [pos |-> motion.pos, vel |-> v], ref, 1) :
                         ref \in ShadowReferences} :
            shadow_ctl' = tick.ctl /\ torque_cmd' = tick.torque
  /\ flap_vel_age' = IF ShadowUsesVel THEN 0 ELSE Older(flap_vel_age, FlapAgeCap)
  /\ flap_pos_age' = IF ShadowRunsPos THEN 0 ELSE Older(flap_pos_age, FlapAgeCap)

EffortTick ==
  /\ torque_cmd' = latest_torque
  /\ flap_vel_age' = Older(flap_vel_age, FlapAgeCap)
  /\ flap_pos_age' = Older(flap_pos_age, FlapAgeCap)
  /\ UNCHANGED <<filter, shadow_ctl>>

\* The last n elements.
LastOf(s, n) == SubSeq(s, IF Len(s) > n THEN Len(s) - n + 1 ELSE 1, Len(s))

\* Mutant of Remember: the history never drops its oldest entry once clipped.
RememberClips(s, clipped) == IF clipped THEN LastOf(Append(s, clipped), Window) ELSE s

Remember(s, clipped) == LastOf(Append(s, clipped), Window)

\* The adapter's step() empties and refills its accumulator.
HydroStep ==
  /\ \E raw \in HydroMoments :
       LET clip == flap_params.hydro_torque_clip_nm
           applied == Clamp(raw, -clip, clip)
       IN  /\ hydro_raw' = raw /\ hydro_applied' = applied
           /\ accumulator' = applied
           /\ clip_history' = Remember(clip_history, raw # applied)

\* With the gate closed step() is not called and the topics carry zeros.
HydroIdle ==
  /\ hydro_raw' = 0 /\ hydro_applied' = 0
  /\ clip_history' = Remember(clip_history, FALSE)
  /\ UNCHANGED accumulator

\* One iteration of run(): torque, hydro, Chrono's sub-steps, publishing.
Tick ==
  /\ IF flap_params.use_shadow_pid THEN ShadowTick ELSE EffortTick
  /\ IF hydro_adapter /\ hydro_engaged THEN HydroStep ELSE HydroIdle
  /\ motion' \in Motions
  /\ UNCHANGED <<flap_params, shadow_sync, external, hydro_adapter, hydro_engaged>>

FlapNext ==
  \/ EffortSub \/ PosCommandSub \/ VelCommandSub
  \/ EnableHydroService \/ SetFlapParameters \/ Tick

FlapSpec == FlapInit /\ [][FlapNext]_flap_vars

\* An iteration of run() with the hydro gate closed, seen from the clip history.
IdleIteration ==
  /\ ~(hydro_adapter /\ hydro_engaged)
  /\ clip_history' = Remember(clip_history, FALSE)

\* The node's loop keeps turning.
FlapFairSpec == FlapSpec /\ WF_clip_history(IdleIteration)

-------------------------------------------------------------------------------
\* Every variable has its type: the validated limits stay positive whatever
\* batches arrive, the outer loop's counter stays below the divider in force,
\* and the clip history within its window.
FlapTypeOK ==
  /\ motion \in [{"pos", "vel"} -> Int]
  /\ filter \in [initialized : BOOLEAN, vel : Int]
  /\ {shadow_sync, hydro_adapter, hydro_engaged} \subseteq BOOLEAN
  /\ DOMAIN flap_params = FlapMutable /\ flap_params.control_mode \in Modes
  /\ \A p \in FlapPositive : flap_params[p] \in Nat \ {0}
  /\ shadow_ctl.outer_counter \in 0..(Rounded(flap_params.outer_loop_divider) - 1)
  /\ {latest_torque, torque_cmd, accumulator, hydro_raw, hydro_applied} \subseteq Int
  /\ clip_history \in Seq(BOOLEAN) /\ Len(clip_history) <= Window
  /\ flap_vel_age \in 0..FlapAgeCap /\ flap_pos_age \in 0..FlapAgeCap

\* The shadow law never differentiates or integrates over a time other than the
\* one since its last measurement, whatever is reconfigured and however often
\* it is switched off and on: unlike the node it shadows, it resets as a whole.
ShadowRatesSpanTheirDt ==
  flap_params.use_shadow_pid =>
    /\ ShadowUsesVel /\ ~shadow_ctl.vel_pid.first_run => flap_vel_age = 0
    /\ flap_params.control_mode = "cascade" /\ ~shadow_ctl.pos_pid.first_run
         => flap_pos_age = shadow_ctl.outer_dt_accum
    /\ flap_params.control_mode = "position_only" /\ ~shadow_ctl.pos_pid.first_run
         => flap_pos_age = 0

\* A closed hydro gate empties the clip statistics: ~/hydro_clip_engaged_pct
\* returns to zero unless the gate is opened again.
ClipHistoryClears ==
  ~hydro_engaged ~> (hydro_engaged \/ \A k \in DOMAIN clip_history : ~clip_history[k])

\* docs/hil_bringup_checklist.md: in SIL the value of ~/hydro_torque "is applied
\* directly to the Chrono body via AccumulateTorque".
HydroTopicIsApplied == accumulator = hydro_applied

\* README.md of the package: "All shadow_* parameters are runtime-reconfigurable".
SyncAsConfigured == shadow_sync = flap_params.sync_trajectory

\* shadow_pid_controller.hpp and README.md on integral_limit: "0 = unlimited".  With
\* it a law that is not saturated integrates the whole error of its tick.
ZeroLimitIsUnlimited ==
  [][LET error == Error(VelConfig(flap_params), shadow_ctl'.v_cmd, shadow_ctl'.vel_pid.prev)
     IN  Tick /\ flap_params.use_shadow_pid /\ ShadowUsesVel /\ flap_params.integral_limit = 0
           /\ ~shadow_ctl.vel_pid.saturated
           => shadow_ctl'.vel_pid.integral = Plus(shadow_ctl.vel_pid.integral, error)]_flap_vars

===============================================================================
