----------------------------- MODULE VelocityPid ------------------------------
(***************************************************************************)
(* velocity_pid_node: runs the cascaded control law on /joint_states from  *)
(* a wall timer and commands a torque.  One thread spins all callbacks.    *)
(*                                                                         *)
(* Time is as in TorqueMixer.  The node does not look at the age of the    *)
(* joint states, only at the time since its own last loop, which is what   *)
(* the derivative and the integral are taken over.                         *)
(***************************************************************************)
EXTENDS Cascade

CONSTANTS Readings,       \* what /joint_states says of the joint: pos and/or vel
          MaxSpeed,       \* bound on the velocities
          References,     \* [pos, vel, accel] of the trajectory, over all times
          LaunchParams,   \* parameter overrides the node may be started with
          DefaultParams,  \* the defaults of param_defs_
          ParamRequests,  \* set_parameters batches, functions of parameter names
          MaxLimit,       \* bound on the limits a run configures
          Period,         \* dt_, 1 / rate_hz
          Jitter,         \* bound on how late the executor runs the timer
          MaxGap          \* bound on the time counted between two loops

Mutable == DOMAIN DefaultParams
Immutable == {"joint_state_topic", "command_topic", "joint_name", "rate_hz"}
Positive == {"torque_limit_nm", "integral_limit", "pos_integral_limit",
             "pos_output_limit", "outer_loop_divider"}
ResetsVel == {"kp", "ki", "kd", "kff", "kaff"}
ResetsPos == {"kp_pos", "ki_pos", "kd_pos"}
Gains == ResetsVel \cup ResetsPos \cup {"deadband_rad_s"}
ResetsOuter == {"control_mode", "outer_loop_divider"}

VARIABLES
  joint,       \* joint_index_ >= 0: the joint was in the last message
  meas,        \* last_measured_pos_, last_measured_vel_ (= filtered_vel_)
  filtering,   \* filter_initialized_
  params,      \* the members of param_defs_, and control_mode_
  ctl,         \* vel_pid_, pos_pid_, outer_loop_counter_, outer_dt_accum_, v_cmd_
  torque,      \* last command published
  since_loop,  \* now() - last_loop_time_
  tick_in,     \* time to the next expiry of timer_
  running,     \* the process has not been shut down
  vel_age,     \* history: time since vel_pid_ took its prev_measurement_
  pos_age,     \* history: time since pos_pid_ took its prev_measurement_
  settling     \* history: a PID in use has not run since a mode or divider change

inputs == <<joint, meas, filtering>>
history == <<vel_age, pos_age, settling>>
vars == <<inputs, params, ctl, torque, since_loop, tick_in, running, history>>

\* Longer than the outer loop ever accumulates: ages stop growing here.
AgeCap == MaxGap * (Rounded(MaxLimit) + 1)

\* The defaults of the limits are valid, but for an integral_limit of 0.
\* Parameters are numbers here; README.md says what a NaN parameter does.
ASSUME PidAssumption ==
  /\ MaxSpeed \in Nat /\ MaxLimit \in Nat \ {0} /\ Period \in Nat \ {0}
  /\ Jitter \in 0..(Period - 1) /\ MaxGap \in Nat /\ MaxGap > Period + Jitter
  /\ Positive \cup Gains \cup ResetsOuter \cup {"filter_alpha", "invert_output"} \subseteq Mutable
  /\ \A p \in Positive : DefaultParams[p] \in (IF p = "integral_limit" THEN 0 ELSE 1)..MaxLimit
  /\ DefaultParams.filter_alpha \in UnitRange
  /\ \A raw \in LaunchParams :
       /\ DOMAIN raw = Mutable
       /\ \A p \in Gains \cup Positive : raw[p] \in Int /\ (p \in Positive => raw[p] <= MaxLimit)
  /\ \A req \in ParamRequests : \A p \in DOMAIN req \cap (Gains \cup Positive) :
       req[p] \in Int /\ (p \in Positive => req[p] <= MaxLimit)
  /\ \A r \in Readings : \A m \in DOMAIN r : r[m] \in Torques
  /\ References \subseteq [pos : Int, vel : Int, accel : Int]

-------------------------------------------------------------------------------
\* The constructor replaces invalid launch values by the defaults; the default
\* integral_limit, 0, is itself invalid and stays.
Launch(raw) ==
  [p \in Mutable |->
     CASE p \in Positive -> IF raw[p] > 0 THEN raw[p] ELSE DefaultParams[p]
       [] p = "filter_alpha" -> IF raw[p] \in UnitRange THEN raw[p] ELSE DefaultParams[p]
       [] p = "control_mode" -> IF raw[p] \in Modes THEN raw[p] ELSE "position_only"
       [] OTHER -> raw[p]]

Init ==
  /\ joint = FALSE /\ meas = [pos |-> 0, vel |-> 0] /\ filtering = FALSE
  /\ \E raw \in LaunchParams : params = Launch(raw)
  /\ ctl = IdleControl
  /\ torque = 0
  /\ since_loop = 0 /\ tick_in = Period
  /\ running = TRUE
  /\ vel_age = AgeCap /\ pos_age = AgeCap /\ settling = FALSE

-------------------------------------------------------------------------------
Filtered(raw) == Smoothed(filtering, meas.vel, raw, params.filter_alpha, MaxSpeed)

\* invert_output flips what is measured.
Signed(x) == IF params.invert_output THEN Negate(x) ELSE x

\* joint_state_callback, for a message that names the joint; an array that is
\* too short leaves its measurement as it was.
JointStates ==
  /\ running
  /\ \E r \in Readings :
       /\ \E v \in IF "vel" \in DOMAIN r THEN Filtered(Signed(r.vel)) ELSE {meas.vel} :
            meas' = [pos |-> IF "pos" \in DOMAIN r THEN Signed(r.pos) ELSE meas.pos,
                     vel |-> v]
       /\ filtering' = (filtering \/ "vel" \in DOMAIN r)
  /\ joint' = TRUE
  /\ UNCHANGED <<params, ctl, torque, since_loop, tick_in, running, history>>

\* And for one that does not.
JointMissing ==
  /\ running
  /\ joint' = FALSE
  /\ UNCHANGED <<meas, filtering, params, ctl, torque, since_loop, tick_in, running, history>>

\* Mutant: limits are not validated.
AcceptsAnyLimit(req) == DOMAIN req \cap Immutable = {}

\* on_validate_parameters: one bad entry rejects the whole batch.
Acceptable(req) ==
  /\ DOMAIN req \cap Immutable = {}
  /\ \A p \in DOMAIN req \cap Positive : req[p] > 0
  /\ "filter_alpha" \in DOMAIN req => req["filter_alpha"] \in UnitRange
  /\ "control_mode" \in DOMAIN req => req["control_mode"] \in Modes

\* on_apply_parameters: gain changes reset a PID, mode and divider changes the
\* outer loop's counter and time; limits do neither.
Reconfigured(req) ==
  LET hits(names) == DOMAIN req \cap names # {}
  IN  [ctl EXCEPT
         !.vel_pid = IF hits(ResetsVel) THEN Reset ELSE @,
         !.pos_pid = IF hits(ResetsPos) THEN Reset ELSE @,
         !.outer_counter = IF hits(ResetsOuter) THEN 0 ELSE @,
         !.outer_dt_accum = IF hits(ResetsOuter) THEN 0 ELSE @]

SetParameters ==
  /\ running
  /\ \E req \in ParamRequests :
       /\ Acceptable(req)
       /\ params' = [p \in Mutable |-> IF p \in DOMAIN req THEN req[p] ELSE params[p]]
       /\ ctl' = Reconfigured(req)
       /\ settling' = (settling \/ DOMAIN req \cap ResetsOuter # {})
  /\ UNCHANGED <<inputs, torque, since_loop, tick_in, running, vel_age, pos_age>>

\* actual_dt, or the nominal period when the clock has not advanced.
Dt == IF since_loop > 0 THEN since_loop ELSE Period

UsesVel == params.control_mode # "position_only"
\* pos_pid_ computes in this tick.
RunsPos == \/ params.control_mode = "position_only"
           \/ params.control_mode = "cascade" /\ OuterDue(ctl, params)

\* control_loop with a joint: one tick of the law.
ControlLoop ==
  /\ running /\ tick_in <= 0 /\ joint
  /\ \E tick \in {Control(ctl, params, meas, ref, Dt) : ref \in References} :
       ctl' = tick.ctl /\ torque' = tick.torque
  /\ since_loop' = 0
  /\ tick_in' = tick_in + Period
  /\ vel_age' = IF UsesVel THEN 0 ELSE vel_age
  /\ pos_age' = IF RunsPos THEN 0 ELSE pos_age
  /\ settling' = (settling /\ params.control_mode = "cascade" /\ ~RunsPos)
  /\ UNCHANGED <<inputs, params, running>>

\* Mutants of Blind: the previous command is left standing; the loop time is
\* taken before the joint is looked for.
BlindSilence == UNCHANGED <<torque, since_loop>>
BlindClock == torque' = 0 /\ since_loop' = 0

\* control_loop without a joint: 0, and an early return before anything else.
Blind == torque' = 0 /\ UNCHANGED since_loop

ControlLoopBlind ==
  /\ running /\ tick_in <= 0 /\ ~joint
  /\ Blind
  /\ tick_in' = tick_in + Period
  /\ UNCHANGED <<inputs, params, ctl, running, history>>

\* The destructor publishes 0, after rclcpp::shutdown(): it may be lost.
Shutdown ==
  /\ running
  /\ running' = FALSE
  /\ torque' \in {0, torque}
  /\ UNCHANGED <<inputs, params, ctl, since_loop, tick_in, history>>

Advance ==
  /\ running
  /\ tick_in > -Jitter
  /\ since_loop < MaxGap
  /\ tick_in' = tick_in - 1
  /\ since_loop' = since_loop + 1
  /\ vel_age' = Older(vel_age, AgeCap) /\ pos_age' = Older(pos_age, AgeCap)
  /\ UNCHANGED <<inputs, params, ctl, torque, running, settling>>

Next ==
  \/ JointStates \/ JointMissing \/ SetParameters
  \/ ControlLoop \/ ControlLoopBlind \/ Shutdown \/ Advance

Spec == Init /\ [][Next]_vars

\* The executor runs the timer that has expired, with or without a joint.
TimerFires == running /\ tick_in <= 0 /\ tick_in' = tick_in + Period

\* The executor keeps spinning and time does not stop.
FairSpec == Spec /\ WF_tick_in(TimerFires) /\ WF_vars(Advance)

-------------------------------------------------------------------------------
\* Every variable has its type: the limits are never negative (std::clamp with
\* lo > hi is undefined) whatever launch values and batches arrive, and the
\* outer loop's counter stays below the divider in force.
TypeOK ==
  /\ {joint, filtering, running, settling} \subseteq BOOLEAN
  /\ meas \in [{"pos", "vel"} -> Torques]
  /\ DOMAIN params = Mutable /\ params.control_mode \in Modes
  /\ \A p \in Positive : params[p] \in 0..MaxLimit
  /\ \A p \in Positive \ {"integral_limit"} : params[p] > 0
  /\ params.filter_alpha \in UnitRange
  /\ ctl.outer_counter \in 0..(Rounded(params.outer_loop_divider) - 1)
  /\ ctl.outer_dt_accum \in Nat
  /\ {ctl.v_cmd, torque} \subseteq Torques
  /\ since_loop \in 0..MaxGap /\ tick_in \in (-Jitter)..Period
  /\ vel_age \in 0..AgeCap /\ pos_age \in 0..AgeCap

\* README.md of the package: "Integral clamp".  A limit lowered while the loop
\* is saturated, when the integral is frozen outside it, binds all the same:
\* whatever a tick leaves in an integral it has used is within the limit.
IntegralClamped ==
  [][ControlLoop =>
       /\ UsesVel => LessEq(Abs(ctl'.vel_pid.integral), params.integral_limit)
       /\ RunsPos => LessEq(Abs(ctl'.pos_pid.integral), params.pos_integral_limit)]_vars

\* A derivative divides a difference of measurements by the time between them:
\* once the PIDs in use have run after a change of mode or divider, the time
\* the next tick will use is the time since prev_measurement_ was taken, also
\* across ticks that skip the outer loop and across a joint that disappears.
TimeSpansPrev ==
  /\ UsesVel /\ ~ctl.vel_pid.first_run => vel_age = since_loop
  /\ params.control_mode = "cascade" /\ ~ctl.pos_pid.first_run
       => pos_age = ctl.outer_dt_accum + since_loop
  /\ params.control_mode = "position_only" /\ ~ctl.pos_pid.first_run
       => pos_age = since_loop
RatesSpanTheirDt == ~settling => TimeSpansPrev

\* velocity_pid_node.cpp, on a control_mode change: "Reset outer loop counter
\* and accumulated time so the new mode starts cleanly".
ModeStartsCleanly == TimeSpansPrev

\* A lost joint takes the torque away before long.
LostJointReleases == (running /\ ~joint) ~> (torque = 0 \/ joint \/ ~running)

\* A torque limit set at run time binds the standing command before long, in
\* every mode.
LimitTakesEffect ==
  \A c \in 1..MaxLimit :
    (running /\ joint /\ params.torque_limit_nm = c)
      ~> (torque \in -c..c \/ params.torque_limit_nm # c \/ ~joint \/ ~running)

\* README.md of the package: "output is clamped to [-torque_limit_nm,
\* torque_limit_nm] every tick", also on what a drive that has not been heard of
\* yet reports.
OutputIsClamped ==
  [][ControlLoop => torque' \in -params.torque_limit_nm..params.torque_limit_nm]_vars

\* README.md of the package, on invert_output: "Negate the torque command and flip
\* the sign of measured position/velocity".
InvertedCommand ==
  [][ControlLoop /\ params.invert_output =>
       \E ref \in References : torque' = Negate(Control(ctl, params, meas, ref, Dt).torque)]_vars

\* README.md of the package, on pos_output_limit: "Maximum velocity command from
\* the outer loop".  In cascade no tick commands more, also none that only holds
\* the command of an earlier tick or mode.
SpeedCommandLimited ==
  [][ControlLoop /\ params.control_mode = "cascade"
       => LessEq(Abs(ctl'.v_cmd), params.pos_output_limit)]_vars

\* README.md of the package: "when saturated, integration is only allowed in the
\* direction that unwinds the integrator".
SaturationOnlyUnwinds ==
  [][ctl.pos_pid.saturated /\ ~ctl'.pos_pid.first_run
       => Abs(ctl'.pos_pid.integral) <= Abs(ctl.pos_pid.integral)]_vars

===============================================================================
