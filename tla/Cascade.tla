-------------------------------- MODULE Cascade -------------------------------
(***************************************************************************)
(* The cascaded control law of velocity_pid_node: an inner velocity loop,  *)
(* an outer position loop that runs every outer_loop_divider ticks, and    *)
(* three modes.  ShadowPidController repeats it for the simulated flap.    *)
(*                                                                         *)
(* ctl is the state of the law, cfg the parameters, meas = [pos, vel] the  *)
(* filtered measurement and ref = [pos, vel, accel] the reference.         *)
(***************************************************************************)
EXTENDS Pid

Modes == {"position_only", "velocity_only", "cascade"}

\* [0, 1) in tenths, for filter_alpha.
UnitRange == 0..9

IdleControl ==
  [vel_pid |-> Reset, pos_pid |-> Reset,
   outer_counter |-> 0, outer_dt_accum |-> 0, v_cmd |-> 0]

\* apply_vel_pid_config, apply_pos_pid_config.
VelConfig(cfg) ==
  [kp |-> cfg.kp, ki |-> cfg.ki, kd |-> cfg.kd,
   integral_limit |-> cfg.integral_limit, deadband |-> cfg.deadband_rad_s]
PosConfig(cfg) ==
  [kp |-> cfg.kp_pos, ki |-> cfg.ki_pos, kd |-> cfg.kd_pos,
   integral_limit |-> cfg.pos_integral_limit, deadband |-> 0]

\* The exponential moving average: the first reading is taken as it is, then the
\* average moves from its old value towards the raw one, how far is up to alpha
\* in [0, 1).  With alpha = 0 it gets there, but 0 * NaN is NaN all the same.
Smoothed(initialized, old, raw, alpha, bound) ==
  IF ~initialized THEN {raw}
  ELSE IF old = NaN \/ raw = NaN THEN {NaN}
  ELSE IF alpha = 0 THEN {raw}
  ELSE {v \in -bound..bound : Abs(v - raw) <= Abs(old - raw) /\ (v - raw) * (old - raw) >= 0}

\* The final clamp overrules the controller's own flag, for its next cycle.
Saturate(pid, v, limit) == [pid EXCEPT !.saturated = LessEq(limit, Abs(v))]

\* Feedforward needs the damping of kp.
Feedforward(cfg, setpoint, accel) ==
  IF cfg.kp > 0 THEN Plus(Times(cfg.kff, setpoint), cfg.kaff * accel) ELSE 0

InnerLoop(ctl, cfg, meas, setpoint, accel, dt) ==
  LET step == Compute(ctl.vel_pid, VelConfig(cfg), setpoint, meas.vel, dt)
      torque == Clamp(Plus(step.out, Feedforward(cfg, setpoint, accel)),
                      -cfg.torque_limit_nm, cfg.torque_limit_nm)
  IN  [ctl |-> [ctl EXCEPT !.vel_pid = Saturate(step.pid, torque, cfg.torque_limit_nm)],
       torque |-> torque]

\* llround of a divider given in halves.
Rounded(halves) == (halves + 1) \div 2

OuterDue(ctl, cfg) == ctl.outer_counter + 1 >= Rounded(cfg.outer_loop_divider)

\* Mutant of OuterLoop: the accumulated time is not given back.
OuterLoopHoards(ctl, cfg, meas, ref, dt) ==
  LET accum == ctl.outer_dt_accum + dt
      step == Compute(ctl.pos_pid, PosConfig(cfg), ref.pos, meas.pos, accum)
      v_cmd == Clamp(Plus(step.out, ref.vel), -cfg.pos_output_limit, cfg.pos_output_limit)
  IN  IF OuterDue(ctl, cfg)
      THEN [ctl EXCEPT !.outer_counter = 0, !.outer_dt_accum = accum, !.v_cmd = v_cmd,
                       !.pos_pid = Saturate(step.pid, v_cmd, cfg.pos_output_limit)]
      ELSE [ctl EXCEPT !.outer_counter = @ + 1, !.outer_dt_accum = accum]

OuterLoop(ctl, cfg, meas, ref, dt) ==
  LET accum == ctl.outer_dt_accum + dt
      step == Compute(ctl.pos_pid, PosConfig(cfg), ref.pos, meas.pos, accum)
      v_cmd == Clamp(Plus(step.out, ref.vel), -cfg.pos_output_limit, cfg.pos_output_limit)
  IN  IF OuterDue(ctl, cfg)
      THEN [ctl EXCEPT !.outer_counter = 0, !.outer_dt_accum = 0, !.v_cmd = v_cmd,
                       !.pos_pid = Saturate(step.pid, v_cmd, cfg.pos_output_limit)]
      ELSE [ctl EXCEPT !.outer_counter = @ + 1, !.outer_dt_accum = accum]

PositionOnly(ctl, cfg, meas, ref, dt) ==
  LET step == Compute(ctl.pos_pid, PosConfig(cfg), ref.pos, meas.pos, dt)
      torque == Clamp(step.out, -cfg.torque_limit_nm, cfg.torque_limit_nm)
  IN  [ctl |-> [ctl EXCEPT !.pos_pid = Saturate(step.pid, torque, cfg.torque_limit_nm),
                           !.v_cmd = 0],
       torque |-> torque]

\* One tick of the law, by mode: the next state and the torque.
Control(ctl, cfg, meas, ref, dt) ==
  CASE cfg.control_mode = "cascade" ->
         LET outer == OuterLoop(ctl, cfg, meas, ref, dt)
         IN  InnerLoop(outer, cfg, meas, outer.v_cmd, ref.accel, dt)
    [] cfg.control_mode = "position_only" -> PositionOnly(ctl, cfg, meas, ref, dt)
    [] cfg.control_mode = "velocity_only" ->
         InnerLoop([ctl EXCEPT !.v_cmd = ref.vel], cfg, meas, ref.vel, ref.accel, dt)

===============================================================================
