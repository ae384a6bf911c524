--------------------------- MODULE VelocityPidProofs --------------------------
(***************************************************************************)
(* The control law, with any readings and parameters, and the two nodes    *)
(* that run it: velocity_pid_node for any trajectory, reconfigurations,    *)
(* period and lateness, and its shadow in chrono_flap_node.  Types, that   *)
(* the rates it computes are over the time they are divided by, what stays *)
(* within its limits as long as its inputs are numbers, and how soon a     *)
(* lost joint and a changed limit reach the motor.                         *)
(***************************************************************************)
EXTENDS VelocityPid, FlapSim, SequenceTheorems, TLAPS

\* Every joint state is a number.
Numbers == \A r \in Readings : \A m \in DOMAIN r : r[m] \in Int

\* The values the law computes with: NaN only if one ever comes in.
Values == IF Numbers THEN Int ELSE Torques

\* What is shown of the law for either holds for both.
ValueSets == {Int, Torques}

\* What is within a limit, if it is a number; a limit below 0, which only the
\* simulator accepts, bounds nothing.
Within(x, limit) == limit >= 0 => x = NaN \/ x \in (-limit)..limit

PidState(V) == [integral : V, prev : V, saturated : BOOLEAN, first_run : BOOLEAN]
PidConfig == [kp : Int, ki : Int, kd : Int, integral_limit : Int, deadband : Int]
Ctl(V) == [vel_pid : PidState(V), pos_pid : PidState(V),
           outer_counter : Nat, outer_dt_accum : Nat, v_cmd : V]
Measurement(V) == [pos : V, vel : V]

-------------------------------------------------------------------------------
(***************************************************************************)
(* Arithmetic on doubles.                                                  *)
(***************************************************************************)
LEMMA ValuesClosed ==
  ASSUME NEW V \in ValueSets
  PROVE  /\ Int \subseteq V /\ V \subseteq Torques /\ 0 \in V
         /\ \A a, b \in V : /\ Plus(a, b) \in V /\ Minus(a, b) \in V
                            /\ Times(a, b) \in V /\ Negate(a) \in V
<1>1. \A a, b \in Int : a * b \in Int
  OBVIOUS
<1>2. CASE V = Int
  BY <1>1, <1>2, NaNIsNoNumber DEF Torques, Plus, Minus, Times, Negate
<1>3. CASE V = Torques
  BY <1>1, <1>3, NaNIsNoNumber DEF Torques, Plus, Minus, Times, Negate
<1> QED
  BY <1>2, <1>3 DEF ValueSets

\* The node's values are one of the two.
LEMMA NodeValues ==
  /\ Values \in ValueSets /\ Int \subseteq Values /\ Values \subseteq Torques /\ 0 \in Values
  /\ \A a \in Values : Negate(a) \in Values
<1>1. Values \in ValueSets
  BY DEF Values, ValueSets
<1> QED
  BY <1>1, ValuesClosed

\* A value is a number or the NaN, which there is none of among numbers.
LEMMA ValueIsNumber ==
  ASSUME NEW a \in Values, Numbers
  PROVE  a \in Int /\ a # NaN
BY NaNIsNoNumber DEF Values

\* The absolute value; of a NaN a NaN.
LEMMA AbsValue ==
  ASSUME NEW V \in ValueSets, NEW a \in V
  PROVE  Abs(a) \in V /\ (a # NaN => Abs(a) \in Int /\ Abs(a) = IF a < 0 THEN -a ELSE a)
<1>1. a \in Int \/ a = NaN
  BY ValuesClosed DEF Torques
<1>2. CASE a = NaN
  BY <1>2 DEF Abs, Less
<1>3. CASE a \in Int
  BY <1>3, NaNIsNoNumber, ValuesClosed DEF Abs, Less
<1> QED
  BY <1>1, <1>2, <1>3

\* Division by a positive time yields a value.
LEMMA QuotientValue ==
  ASSUME NEW V \in ValueSets, NEW a \in V, NEW b \in Nat, b > 0
  PROVE  Quotient(a, b) \in V
<1>1. \A x \in Int : x \div b \in Int
  OBVIOUS
<1>2. CASE a = NaN
  BY <1>2 DEF Quotient
<1>3. CASE a # NaN
  <2>1. a \in Int
    BY <1>3, ValuesClosed DEF Torques
  <2>2. a \div b \in Int /\ (-a) \div b \in Int
    BY <1>1, <2>1
  <2>3. Quotient(a, b) \in Int
    BY <1>3, <2>1, <2>2 DEF Quotient
  <2> QED
    BY <2>3, ValuesClosed
<1> QED
  BY <1>2, <1>3

\* std::clamp returns a number within its bounds, or the NaN.
LEMMA ClampValue ==
  ASSUME NEW V \in ValueSets, NEW v \in V, NEW limit \in Int
  PROVE  /\ Clamp(v, -limit, limit) \in V /\ Within(Clamp(v, -limit, limit), limit)
         /\ Clamp(v, -limit, limit) = NaN => v = NaN
<1>1. v \in Int \/ v = NaN
  BY ValuesClosed DEF Torques
<1>2. CASE v = NaN
  BY <1>2 DEF Clamp, Less, Within
<1>3. CASE v \in Int
  <2>1. v # NaN /\ limit # NaN /\ -limit # NaN /\ limit \in Int /\ -limit \in Int
    BY <1>3, NaNIsNoNumber
  <2>2. Clamp(v, -limit, limit) \in Int
        /\ (limit >= 0 => Clamp(v, -limit, limit) \in (-limit)..limit)
    BY <1>3, <2>1 DEF Clamp, Less
  <2> QED
    BY <2>1, <2>2, NaNIsNoNumber, ValuesClosed DEF Within
<1> QED
  BY <1>1, <1>2, <1>3

\* Without NaNs Within is a bound.
LEMMA WithinIsBounded ==
  ASSUME NEW x \in Values, NEW limit \in Nat, Within(x, limit), Numbers
  PROVE  x \in (-limit)..limit /\ LessEq(Abs(x), limit)
<1>1. x \in Int /\ x # NaN /\ limit # NaN
  BY ValueIsNumber, NaNIsNoNumber
<1>2. x \in (-limit)..limit
  BY <1>1 DEF Within
<1>3. Abs(x) \in Int /\ Abs(x) <= limit /\ Abs(x) # NaN
  BY <1>1, <1>2, NodeValues, AbsValue, NaNIsNoNumber
<1> QED
  BY <1>1, <1>2, <1>3 DEF LessEq

-------------------------------------------------------------------------------
(***************************************************************************)
(* PidController: a step leaves a state that has run, with its integral    *)
(* within the limit.                                                       *)
(***************************************************************************)
LEMMA IntegralIsLimited ==
  ASSUME NEW V \in ValueSets, NEW pid \in PidState(V), NEW cfg \in PidConfig,
         NEW e \in V, NEW dt \in Nat
  PROVE  Integral(pid, cfg, e, dt) \in V /\ Within(Integral(pid, cfg, e, dt), cfg.integral_limit)
<1>1. pid.integral \in V /\ cfg.integral_limit \in Int /\ dt \in V
  BY ValuesClosed DEF PidState, PidConfig
<1>2. Plus(pid.integral, Times(e, dt)) \in V
  BY <1>1, ValuesClosed
<1> QED
  BY <1>1, <1>2, ClampValue DEF Integral, Integrated, Limited

\* The error, with the deadband, is a value.
LEMMA ErrorValue ==
  ASSUME NEW V \in ValueSets, NEW cfg \in PidConfig, NEW setpoint \in V, NEW measurement \in V
  PROVE  Error(cfg, setpoint, measurement) \in V
BY ValuesClosed DEF Error

\* The derivative on measurement is a value.
LEMMA DerivativeValue ==
  ASSUME NEW V \in ValueSets, NEW pid \in PidState(V), NEW measurement \in V, NEW dt \in Nat
  PROVE  Derivative(pid, measurement, dt) \in V
<1>1. pid.prev \in V
  BY DEF PidState
<1>2. Minus(pid.prev, measurement) \in V
  BY <1>1, ValuesClosed
<1>3. dt > 0 => Quotient(Minus(pid.prev, measurement), dt) \in V
  BY <1>2, QuotientValue
<1> QED
  BY <1>3, ValuesClosed DEF Derivative

\* compute() keeps the PID's types, ends its first run and clamps its integral.
LEMMA ComputeStep ==
  ASSUME NEW V \in ValueSets, NEW pid \in PidState(V), NEW cfg \in PidConfig, NEW setpoint \in V,
         NEW measurement \in V, NEW dt \in Nat,
         NEW step, step = Compute(pid, cfg, setpoint, measurement, dt)
  PROVE  /\ step.pid \in PidState(V) /\ ~step.pid.first_run /\ step.out \in V
         /\ Within(step.pid.integral, cfg.integral_limit)
<1> DEFINE e == Error(cfg, setpoint, measurement)
           i == Integral(pid, cfg, e, dt)
           d == Derivative(pid, measurement, dt)
           out == Plus(Plus(Times(cfg.kp, e), Times(cfg.ki, i)), Times(cfg.kd, d))
<1>1. e \in V
  BY ErrorValue
<1> HIDE DEF e
<1>2. i \in V /\ Within(i, cfg.integral_limit)
  BY <1>1, IntegralIsLimited
<1>3. d \in V
  BY DerivativeValue
<1> HIDE DEF i, d
<1>4. out \in V
  <2>1. cfg.kp \in V /\ cfg.ki \in V /\ cfg.kd \in V
    BY ValuesClosed DEF PidConfig
  <2>2. Times(cfg.kp, e) \in V /\ Times(cfg.ki, i) \in V /\ Times(cfg.kd, d) \in V
    BY <1>1, <1>2, <1>3, <2>1, ValuesClosed
  <2>3. Plus(Times(cfg.kp, e), Times(cfg.ki, i)) \in V
    BY <2>2, ValuesClosed
  <2> QED
    BY <2>2, <2>3, ValuesClosed
<1>5. step = [pid |-> [integral |-> i, prev |-> measurement, saturated |-> FALSE,
                       first_run |-> FALSE], out |-> out]
  BY DEF Compute, e, i, d
<1> HIDE DEF out
<1>6. step.pid = [integral |-> i, prev |-> measurement, saturated |-> FALSE, first_run |-> FALSE]
      /\ step.out = out
  BY <1>5
<1> QED
  BY <1>2, <1>4, <1>6 DEF PidState

\* Saturation changes nothing but its flag.
LEMMA SaturatedState ==
  ASSUME NEW V \in ValueSets, NEW pid \in PidState(V), NEW v, NEW limit
  PROVE  /\ Saturate(pid, v, limit) \in PidState(V)
         /\ Saturate(pid, v, limit).integral = pid.integral
         /\ Saturate(pid, v, limit).first_run = pid.first_run
<1> DEFINE b == LessEq(limit, Abs(v))
<1>1. b \in BOOLEAN
  BY DEF LessEq
<1>2. Saturate(pid, v, limit) = [pid EXCEPT !.saturated = b]
  BY DEF Saturate
<1> HIDE DEF b
<1> QED
  BY <1>1, <1>2 DEF PidState

-------------------------------------------------------------------------------
(***************************************************************************)
(* The law, by mode.                                                       *)
(***************************************************************************)
LawParams(cfg) ==
  /\ cfg.control_mode \in Modes
  /\ \A p \in Gains : cfg[p] \in Int
  /\ cfg.integral_limit \in Int
  /\ \A p \in Positive \ {"integral_limit"} : cfg[p] \in Nat

\* Parameters with their types configure both PIDs.
LEMMA LawConfigs ==
  ASSUME NEW cfg, LawParams(cfg)
  PROVE  /\ VelConfig(cfg) \in PidConfig /\ VelConfig(cfg).integral_limit = cfg.integral_limit
         /\ PosConfig(cfg) \in PidConfig /\ PosConfig(cfg).integral_limit = cfg.pos_integral_limit
         /\ cfg.kff \in Int /\ cfg.kaff \in Int /\ cfg.kp \in Int
         /\ cfg.torque_limit_nm \in Nat /\ cfg.pos_output_limit \in Nat
         /\ cfg.integral_limit \in Int /\ cfg.pos_integral_limit \in Nat
         /\ cfg.outer_loop_divider \in Nat
<1>1. /\ cfg.kp \in Int /\ cfg.ki \in Int /\ cfg.kd \in Int /\ cfg.kff \in Int /\ cfg.kaff \in Int
      /\ cfg.kp_pos \in Int /\ cfg.ki_pos \in Int /\ cfg.kd_pos \in Int
      /\ cfg.deadband_rad_s \in Int
  BY DEF LawParams, Gains, ResetsVel, ResetsPos
<1>2. /\ cfg.torque_limit_nm \in Nat /\ cfg.pos_output_limit \in Nat
      /\ cfg.integral_limit \in Int /\ cfg.pos_integral_limit \in Nat
      /\ cfg.outer_loop_divider \in Nat
  BY DEF LawParams, Positive
<1> QED
  BY <1>1, <1>2 DEF VelConfig, PosConfig, PidConfig

\* The velocity loop: a clamped torque, a clamped integral, nothing else of the law.
LEMMA InnerLoopStep ==
  ASSUME NEW V \in ValueSets, NEW c \in Ctl(V), NEW cfg, LawParams(cfg), NEW m \in Measurement(V),
         NEW setpoint \in V,
         NEW accel \in Int, NEW dt \in Nat, NEW r, r = InnerLoop(c, cfg, m, setpoint, accel, dt)
  PROVE  /\ r.torque \in V /\ Within(r.torque, cfg.torque_limit_nm)
         /\ r.ctl \in Ctl(V) /\ ~r.ctl.vel_pid.first_run
         /\ Within(r.ctl.vel_pid.integral, cfg.integral_limit)
         /\ r.ctl.pos_pid = c.pos_pid /\ r.ctl.v_cmd = c.v_cmd
         /\ r.ctl.outer_counter = c.outer_counter /\ r.ctl.outer_dt_accum = c.outer_dt_accum
<1> DEFINE step == Compute(c.vel_pid, VelConfig(cfg), setpoint, m.vel, dt)
           commanded == Clamp(Plus(step.out, Feedforward(cfg, setpoint, accel)),
                           -cfg.torque_limit_nm, cfg.torque_limit_nm)
           pid == Saturate(step.pid, commanded, cfg.torque_limit_nm)
<1>1. /\ step.pid \in PidState(V) /\ ~step.pid.first_run /\ step.out \in V
      /\ Within(step.pid.integral, cfg.integral_limit)
  <2>1. c.vel_pid \in PidState(V) /\ m.vel \in V
    BY DEF Ctl, Measurement
  <2> QED
    BY <2>1, LawConfigs, ComputeStep
<1>2. Feedforward(cfg, setpoint, accel) \in V
  <2>1. cfg.kaff * accel \in Int
    BY LawConfigs
  <2>2. cfg.kff \in V /\ cfg.kaff * accel \in V
    BY <2>1, LawConfigs, ValuesClosed
  <2> QED
    BY <2>2, ValuesClosed DEF Feedforward
<1>3. r = [ctl |-> [c EXCEPT !.vel_pid = pid], torque |-> commanded]
  BY DEF InnerLoop
<1> HIDE DEF step
<1>4. commanded \in V /\ Within(commanded, cfg.torque_limit_nm)
  <2>1. Plus(step.out, Feedforward(cfg, setpoint, accel)) \in V
    BY <1>1, <1>2, ValuesClosed
  <2> QED
    BY <2>1, LawConfigs, ClampValue
<1> HIDE DEF commanded
<1>5. pid \in PidState(V) /\ ~pid.first_run /\ Within(pid.integral, cfg.integral_limit)
  BY <1>1, SaturatedState
<1> HIDE DEF pid
<1>6. r.ctl = [c EXCEPT !.vel_pid = pid] /\ r.torque = commanded
  BY <1>3
<1> QED
  BY <1>4, <1>5, <1>6 DEF Ctl

\* The position law: the same for its PID.
LEMMA PositionOnlyStep ==
  ASSUME NEW V \in ValueSets, NEW c \in Ctl(V), NEW cfg, LawParams(cfg), NEW m \in Measurement(V),
         NEW ref \in [pos : Int, vel : Int, accel : Int],
         NEW dt \in Nat, NEW r, r = PositionOnly(c, cfg, m, ref, dt)
  PROVE  /\ r.torque \in V /\ Within(r.torque, cfg.torque_limit_nm)
         /\ r.ctl \in Ctl(V) /\ ~r.ctl.pos_pid.first_run
         /\ Within(r.ctl.pos_pid.integral, cfg.pos_integral_limit)
         /\ r.ctl.vel_pid = c.vel_pid
         /\ r.ctl.outer_counter = c.outer_counter /\ r.ctl.outer_dt_accum = c.outer_dt_accum
<1> DEFINE step == Compute(c.pos_pid, PosConfig(cfg), ref.pos, m.pos, dt)
           commanded == Clamp(step.out, -cfg.torque_limit_nm, cfg.torque_limit_nm)
           pid == Saturate(step.pid, commanded, cfg.torque_limit_nm)
<1>1. /\ step.pid \in PidState(V) /\ ~step.pid.first_run /\ step.out \in V
      /\ Within(step.pid.integral, cfg.pos_integral_limit)
  <2>1. c.pos_pid \in PidState(V) /\ m.pos \in V /\ ref.pos \in V
    BY ValuesClosed DEF Ctl, Measurement
  <2> QED
    BY <2>1, LawConfigs, ComputeStep
<1>2. r = [ctl |-> [c EXCEPT !.pos_pid = pid, !.v_cmd = 0], torque |-> commanded]
  BY DEF PositionOnly
<1> HIDE DEF step
<1>3. commanded \in V /\ Within(commanded, cfg.torque_limit_nm)
  <2>1. step.out \in V /\ cfg.torque_limit_nm \in Int
    BY <1>1, LawConfigs
  <2> QED
    BY <2>1, ClampValue
<1> HIDE DEF commanded
<1>4. pid \in PidState(V) /\ ~pid.first_run /\ Within(pid.integral, cfg.pos_integral_limit)
  BY <1>1, SaturatedState
<1> HIDE DEF pid
<1> DEFINE d == [c EXCEPT !.pos_pid = pid]
<1>5. d \in Ctl(V) /\ d.pos_pid = pid /\ d.vel_pid = c.vel_pid
      /\ d.outer_counter = c.outer_counter /\ d.outer_dt_accum = c.outer_dt_accum
  BY <1>4 DEF Ctl
<1>6. r.ctl = [d EXCEPT !.v_cmd = 0] /\ r.torque = commanded
  BY <1>2 DEF Ctl
<1>7. 0 \in V
  BY ValuesClosed
<1> HIDE DEF d
<1> QED
  BY <1>3, <1>4, <1>5, <1>6, <1>7 DEF Ctl

\* The outer loop counts ticks and their time until it is due, and gives both
\* back when it computes.
LEMMA OuterLoopStep ==
  ASSUME NEW V \in ValueSets, NEW c \in Ctl(V), NEW cfg, LawParams(cfg), NEW m \in Measurement(V),
         NEW ref \in [pos : Int, vel : Int, accel : Int],
         NEW dt \in Nat, NEW r, r = OuterLoop(c, cfg, m, ref, dt)
  PROVE  /\ r \in Ctl(V) /\ r.vel_pid = c.vel_pid
         /\ OuterDue(c, cfg) =>
              /\ r.outer_counter = 0 /\ r.outer_dt_accum = 0
              /\ ~r.pos_pid.first_run /\ Within(r.pos_pid.integral, cfg.pos_integral_limit)
         /\ ~OuterDue(c, cfg) =>
              /\ r.outer_counter = c.outer_counter + 1
              /\ r.outer_dt_accum = c.outer_dt_accum + dt
              /\ r.pos_pid = c.pos_pid
<1> DEFINE accum == c.outer_dt_accum + dt
           step == Compute(c.pos_pid, PosConfig(cfg), ref.pos, m.pos, accum)
           v_cmd == Clamp(Plus(step.out, ref.vel), -cfg.pos_output_limit, cfg.pos_output_limit)
           pid == Saturate(step.pid, v_cmd, cfg.pos_output_limit)
<1>0. accum \in Nat
  BY DEF Ctl
<1>1. /\ step.pid \in PidState(V) /\ ~step.pid.first_run /\ step.out \in V
      /\ Within(step.pid.integral, cfg.pos_integral_limit)
  <2>1. c.pos_pid \in PidState(V) /\ m.pos \in V /\ ref.pos \in V
    BY ValuesClosed DEF Ctl, Measurement
  <2> HIDE DEF accum
  <2> QED
    BY <1>0, <2>1, LawConfigs, ComputeStep
<1>2. /\ OuterDue(c, cfg) =>
           r = [c EXCEPT !.outer_counter = 0, !.outer_dt_accum = 0, !.v_cmd = v_cmd,
                         !.pos_pid = pid]
      /\ ~OuterDue(c, cfg) =>
           r = [c EXCEPT !.outer_counter = @ + 1, !.outer_dt_accum = accum]
  BY Zenon DEF OuterLoop
<1> HIDE DEF accum, step
<1>3. v_cmd \in V
  <2>1. ref.vel \in V
    BY ValuesClosed
  <2>2. Plus(step.out, ref.vel) \in V
    BY <1>1, <2>1, ValuesClosed
  <2> QED
    BY <2>2, LawConfigs, ClampValue
<1> HIDE DEF v_cmd
<1>4. pid \in PidState(V) /\ ~pid.first_run /\ Within(pid.integral, cfg.pos_integral_limit)
  BY <1>1, SaturatedState
<1> HIDE DEF pid
<1>5. CASE OuterDue(c, cfg)
  <2> DEFINE counted == [c EXCEPT !.outer_counter = 0]
             timed == [counted EXCEPT !.outer_dt_accum = 0]
             commanded == [timed EXCEPT !.v_cmd = v_cmd]
  <2>1. r = [commanded EXCEPT !.pos_pid = pid]
    BY <1>2, <1>5 DEF Ctl
  <2>2. counted \in Ctl(V) /\ counted.vel_pid = c.vel_pid /\ counted.outer_counter = 0
    BY DEF Ctl
  <2> HIDE DEF counted
  <2>3. timed \in Ctl(V) /\ timed.vel_pid = c.vel_pid /\ timed.outer_counter = 0
        /\ timed.outer_dt_accum = 0
    BY <2>2 DEF Ctl
  <2> HIDE DEF timed
  <2>4. commanded \in Ctl(V) /\ commanded.vel_pid = c.vel_pid /\ commanded.outer_counter = 0
        /\ commanded.outer_dt_accum = 0
    BY <1>3, <2>3 DEF Ctl
  <2> HIDE DEF commanded
  <2>5. r \in Ctl(V) /\ r.vel_pid = c.vel_pid /\ r.outer_counter = 0
        /\ r.outer_dt_accum = 0 /\ r.pos_pid = pid
    BY <1>4, <2>1, <2>4 DEF Ctl
  <2> QED
    BY <1>4, <1>5, <2>5
<1>6. CASE ~OuterDue(c, cfg)
  <2> DEFINE counted == [c EXCEPT !.outer_counter = c.outer_counter + 1]
  <2>1. r = [counted EXCEPT !.outer_dt_accum = accum]
    BY <1>2, <1>6 DEF Ctl
  <2>2. counted \in Ctl(V) /\ counted.vel_pid = c.vel_pid /\ counted.pos_pid = c.pos_pid
        /\ counted.outer_counter = c.outer_counter + 1
    BY DEF Ctl
  <2> HIDE DEF counted
  <2>3. r \in Ctl(V) /\ r.vel_pid = c.vel_pid /\ r.pos_pid = c.pos_pid
        /\ r.outer_counter = c.outer_counter + 1 /\ r.outer_dt_accum = accum
    BY <1>0, <2>1, <2>2 DEF Ctl
  <2> QED
    BY <1>6, <2>3 DEF accum
<1> QED
  BY <1>5, <1>6

\* One tick.
LEMMA ControlStep ==
  ASSUME NEW V \in ValueSets, NEW c \in Ctl(V), NEW cfg, LawParams(cfg), NEW m \in Measurement(V),
         NEW ref \in [pos : Int, vel : Int, accel : Int],
         NEW dt \in Nat, NEW r, r = Control(c, cfg, m, ref, dt)
  PROVE  /\ r.torque \in V /\ Within(r.torque, cfg.torque_limit_nm) /\ r.ctl \in Ctl(V)
         /\ cfg.control_mode # "position_only" =>
              /\ ~r.ctl.vel_pid.first_run /\ Within(r.ctl.vel_pid.integral, cfg.integral_limit)
         /\ cfg.control_mode = "position_only" =>
              /\ ~r.ctl.pos_pid.first_run
              /\ Within(r.ctl.pos_pid.integral, cfg.pos_integral_limit)
              /\ r.ctl.vel_pid = c.vel_pid
         /\ cfg.control_mode = "velocity_only" => r.ctl.pos_pid = c.pos_pid
         /\ cfg.control_mode # "cascade" =>
              /\ r.ctl.outer_counter = c.outer_counter
              /\ r.ctl.outer_dt_accum = c.outer_dt_accum
         /\ cfg.control_mode = "cascade" /\ OuterDue(c, cfg) =>
              /\ r.ctl.outer_counter = 0 /\ r.ctl.outer_dt_accum = 0
              /\ ~r.ctl.pos_pid.first_run
              /\ Within(r.ctl.pos_pid.integral, cfg.pos_integral_limit)
         /\ cfg.control_mode = "cascade" /\ ~OuterDue(c, cfg) =>
              /\ r.ctl.outer_counter = c.outer_counter + 1
              /\ r.ctl.outer_dt_accum = c.outer_dt_accum + dt
              /\ r.ctl.pos_pid = c.pos_pid
<1>1. CASE cfg.control_mode = "cascade"
  <2> DEFINE outer == OuterLoop(c, cfg, m, ref, dt)
  <2>1. r = InnerLoop(outer, cfg, m, outer.v_cmd, ref.accel, dt)
    BY <1>1 DEF Control
  <2>2. /\ outer \in Ctl(V)
        /\ OuterDue(c, cfg) =>
             /\ outer.outer_counter = 0 /\ outer.outer_dt_accum = 0
             /\ ~outer.pos_pid.first_run
             /\ Within(outer.pos_pid.integral, cfg.pos_integral_limit)
        /\ ~OuterDue(c, cfg) =>
             /\ outer.outer_counter = c.outer_counter + 1
             /\ outer.outer_dt_accum = c.outer_dt_accum + dt
             /\ outer.pos_pid = c.pos_pid
    BY OuterLoopStep
  <2> HIDE DEF outer
  <2>3. outer.v_cmd \in V /\ ref.accel \in Int
    BY <2>2 DEF Ctl
  <2>4. /\ r.torque \in V /\ Within(r.torque, cfg.torque_limit_nm)
        /\ r.ctl \in Ctl(V) /\ ~r.ctl.vel_pid.first_run
        /\ Within(r.ctl.vel_pid.integral, cfg.integral_limit)
        /\ r.ctl.pos_pid = outer.pos_pid
        /\ r.ctl.outer_counter = outer.outer_counter
        /\ r.ctl.outer_dt_accum = outer.outer_dt_accum
    BY <2>1, <2>2, <2>3, InnerLoopStep
  <2> QED
    BY <1>1, <2>2, <2>4
<1>2. CASE cfg.control_mode = "position_only"
  <2>1. r = PositionOnly(c, cfg, m, ref, dt)
    BY <1>2 DEF Control
  <2> QED
    BY <1>2, <2>1, PositionOnlyStep
<1>3. CASE cfg.control_mode = "velocity_only"
  <2> DEFINE d == [c EXCEPT !.v_cmd = ref.vel]
  <2>1. r = InnerLoop(d, cfg, m, ref.vel, ref.accel, dt)
    BY <1>3 DEF Control
  <2>2. ref.vel \in V /\ ref.accel \in Int
    BY ValuesClosed
  <2>3. d \in Ctl(V) /\ d.pos_pid = c.pos_pid /\ d.outer_counter = c.outer_counter
        /\ d.outer_dt_accum = c.outer_dt_accum
    BY <2>2 DEF Ctl
  <2> HIDE DEF d
  <2>4. /\ r.torque \in V /\ Within(r.torque, cfg.torque_limit_nm)
        /\ r.ctl \in Ctl(V) /\ ~r.ctl.vel_pid.first_run
        /\ Within(r.ctl.vel_pid.integral, cfg.integral_limit)
        /\ r.ctl.pos_pid = d.pos_pid
        /\ r.ctl.outer_counter = d.outer_counter
        /\ r.ctl.outer_dt_accum = d.outer_dt_accum
    BY <2>1, <2>2, <2>3, InnerLoopStep
  <2> QED
    BY <1>3, <2>3, <2>4
<1> QED
  BY <1>1, <1>2, <1>3 DEF LawParams, Modes

-------------------------------------------------------------------------------
(***************************************************************************)
(* The inductive invariant.  RatesSpanTheirDt by itself is not inductive:  *)
(* a history that reached its cap would no longer tell the time, and a     *)
(* loop that runs in the instant of the last one would count a period that *)
(* has not passed.  The outer loop's time is bounded by its ticks, and its *)
(* ticks by the divider, so the ages stay below the cap; and the timer     *)
(* cannot expire before the clock has moved.                               *)
(***************************************************************************)
Configured ==
  /\ DOMAIN params = Mutable
  /\ LawParams(params)
  /\ \A p \in Positive : params[p] \in 0..MaxLimit
  /\ \A p \in Positive \ {"integral_limit"} : params[p] > 0
  /\ params.filter_alpha \in UnitRange

Clocks ==
  /\ since_loop \in 0..MaxGap /\ tick_in \in (-Jitter)..Period
  /\ since_loop = 0 => tick_in > 0
  /\ vel_age \in 0..AgeCap /\ pos_age \in 0..AgeCap

OuterLoopBounded ==
  /\ ctl.outer_counter < Rounded(params.outer_loop_divider)
  /\ ctl.outer_dt_accum <= ctl.outer_counter * MaxGap

Inv ==
  /\ joint \in BOOLEAN /\ filtering \in BOOLEAN /\ running \in BOOLEAN /\ settling \in BOOLEAN
  /\ meas \in Measurement(Values) /\ ctl \in Ctl(Values) /\ torque \in Values
  /\ Configured /\ Clocks /\ OuterLoopBounded
  /\ RatesSpanTheirDt

\* What the assumption says of the constants, as numbers.
LEMMA Constants ==
  /\ MaxSpeed \in Nat /\ MaxLimit \in Nat /\ MaxLimit > 0 /\ Period \in Nat /\ Period > 0
  /\ Jitter \in Nat /\ Jitter < Period /\ MaxGap \in Nat /\ MaxGap > 0
  /\ AgeCap \in Nat /\ Rounded(MaxLimit) \in Nat /\ Rounded(MaxLimit) > 0
  /\ AgeCap = MaxGap * (Rounded(MaxLimit) + 1)
<1>1. Rounded(MaxLimit) \in Nat /\ Rounded(MaxLimit) > 0
  BY PidAssumption DEF Rounded
<1>2. \A a, b \in Nat : a * (b + 1) \in Nat
  OBVIOUS
<1> QED
  BY <1>1, <1>2, PidAssumption DEF AgeCap

\* What the outer loop has counted and the time since the last loop, together,
\* never reach the cap.
LEMMA AgesFit ==
  ASSUME NEW divider \in Nat, divider <= MaxLimit, NEW counter \in Nat,
         counter < Rounded(divider),
         NEW accum \in Nat, accum <= counter * MaxGap, NEW gap \in 0..MaxGap
  PROVE  accum + gap < AgeCap /\ MaxGap <= AgeCap
<1>1. Rounded(divider) \in Int /\ Rounded(divider) <= Rounded(MaxLimit)
  BY Constants DEF Rounded
<1> DEFINE n == Rounded(MaxLimit)
<1>2. n \in Nat /\ n > 0 /\ counter + 1 <= n /\ AgeCap = MaxGap * (n + 1)
  BY <1>1, Constants
<1> HIDE DEF n
<1>3. \A a, b, k \in Nat : a <= b => a * k <= b * k
  OBVIOUS
<1>4. (counter + 1) * MaxGap <= n * MaxGap /\ 1 * MaxGap <= n * MaxGap
  BY <1>2, <1>3, Constants
<1>5. (counter + 1) * MaxGap = counter * MaxGap + MaxGap /\ n * MaxGap \in Nat
      /\ MaxGap * (n + 1) = n * MaxGap + MaxGap /\ 1 * MaxGap = MaxGap
      /\ counter * MaxGap \in Nat
  BY <1>2, Constants
<1> QED
  BY <1>2, <1>4, <1>5, Constants

\* The moving average is a value.
LEMMA SmoothedValue ==
  ASSUME NEW initialized \in BOOLEAN, NEW old \in Values, NEW raw \in Values, NEW alpha,
         NEW v \in Smoothed(initialized, old, raw, alpha, MaxSpeed)
  PROVE  v \in Values
<1>1. CASE ~initialized
  BY <1>1 DEF Smoothed
<1>2. CASE initialized /\ (old = NaN \/ raw = NaN)
  BY <1>2 DEF Smoothed
<1>3. CASE initialized /\ ~(old = NaN \/ raw = NaN)
  <2>1. v = raw \/ v \in (-MaxSpeed)..MaxSpeed
    BY <1>3 DEF Smoothed
  <2> QED
    BY <2>1, Constants, NodeValues
<1> QED
  BY <1>1, <1>2, <1>3

\* A reading consists of values.
LEMMA ReadingValue ==
  ASSUME NEW r \in Readings, NEW k \in DOMAIN r
  PROVE  r[k] \in Values
<1>1. r[k] \in Torques
  BY PidAssumption
<1> QED
  BY <1>1 DEF Values, Numbers

\* The node starts with both PIDs reset.
LEMMA InvInit == Init => Inv
<1> SUFFICES ASSUME Init PROVE Inv
  OBVIOUS
<1>1. PICK raw \in LaunchParams : params = Launch(raw)
  BY DEF Init
<1>2. /\ \A p \in Gains \cup Positive : raw[p] \in Int /\ (p \in Positive => raw[p] <= MaxLimit)
      /\ Positive \cup Gains \cup ResetsOuter \cup {"filter_alpha", "invert_output"} \subseteq Mutable
      /\ \A p \in Positive :
           /\ DefaultParams[p] \in Nat /\ DefaultParams[p] <= MaxLimit
           /\ p # "integral_limit" => DefaultParams[p] > 0
      /\ DefaultParams.filter_alpha \in UnitRange
  <2>1. \A p \in Positive : DefaultParams[p] \in (IF p = "integral_limit" THEN 0 ELSE 1)..MaxLimit
    BY PidAssumption
  <2> QED
    BY <2>1, PidAssumption
<1>3. DOMAIN params = Mutable
  BY <1>1 DEF Launch
<1>4. \A p \in Positive : params[p] = IF raw[p] > 0 THEN raw[p] ELSE DefaultParams[p]
  <2> TAKE p \in Positive
  <2>1. p \in Mutable /\ p # "filter_alpha" /\ p # "control_mode"
    BY <1>2 DEF Positive
  <2> QED
    BY <1>1, <2>1 DEF Launch
<1>5. params.filter_alpha \in UnitRange
  BY <1>1, <1>2 DEF Launch, Positive
<1>6. params.control_mode \in Modes
  <2>1. params["control_mode"] = IF raw["control_mode"] \in Modes THEN raw["control_mode"]
                                 ELSE "position_only"
    BY <1>1, <1>2 DEF Launch, Positive, ResetsOuter
  <2> QED
    BY <2>1 DEF Modes
<1>7. \A p \in Gains : params[p] = raw[p]
  BY <1>1, <1>2 DEF Launch, Positive, Gains, ResetsVel, ResetsPos
<1>8. \A p \in Positive : params[p] \in Nat /\ params[p] <= MaxLimit
                           /\ (p # "integral_limit" => params[p] > 0)
  BY <1>2, <1>4
<1>9. Configured
  <2>1. LawParams(params)
    BY <1>2, <1>6, <1>7, <1>8 DEF LawParams, Positive
  <2>2. MaxLimit \in Nat /\ \A p \in Positive : params[p] \in 0..MaxLimit
    BY <1>8, Constants
  <2> QED
    BY <1>3, <1>5, <1>8, <2>1, <2>2 DEF Configured
<1>10. ctl \in Ctl(Values) /\ meas \in Measurement(Values) /\ torque \in Values
  BY NodeValues DEF Init, IdleControl, Reset, Ctl, PidState, Measurement
<1>11. Clocks
  BY Constants DEF Init, Clocks
<1>12. OuterLoopBounded
  <2>1. params.outer_loop_divider \in Nat /\ params.outer_loop_divider > 0
    BY <1>8 DEF Positive
  <2>2. Rounded(params.outer_loop_divider) > 0
    BY <2>1 DEF Rounded
  <2>3. ctl.outer_counter = 0 /\ ctl.outer_dt_accum = 0
    BY DEF Init, IdleControl
  <2> QED
    BY <2>2, <2>3, Constants DEF OuterLoopBounded
<1>13. ctl.vel_pid.first_run /\ ctl.pos_pid.first_run
  BY DEF Init, IdleControl, Reset
<1>14. RatesSpanTheirDt
  BY <1>13 DEF RatesSpanTheirDt, TimeSpansPrev
<1> QED
  BY <1>9, <1>10, <1>11, <1>12, <1>14 DEF Inv, Init

\* A new measurement touches no PID.
LEMMA JointStatesPreserves == Inv /\ JointStates => Inv'
<1> SUFFICES ASSUME Inv, JointStates PROVE Inv'
  OBVIOUS
<1>1. PICK r \in Readings :
        \E v \in IF "vel" \in DOMAIN r THEN Filtered(Signed(r.vel)) ELSE {meas.vel} :
          /\ meas' = [pos |-> IF "pos" \in DOMAIN r THEN Signed(r.pos) ELSE meas.pos, vel |-> v]
          /\ filtering' = (filtering \/ "vel" \in DOMAIN r)
  BY DEF JointStates
<1>2. PICK v \in IF "vel" \in DOMAIN r THEN Filtered(Signed(r.vel)) ELSE {meas.vel} :
        /\ meas' = [pos |-> IF "pos" \in DOMAIN r THEN Signed(r.pos) ELSE meas.pos, vel |-> v]
        /\ filtering' = (filtering \/ "vel" \in DOMAIN r)
  BY <1>1
<1>3. \A x \in Values : Signed(x) \in Values
  BY NodeValues DEF Signed
<1>4. meas.pos \in Values /\ meas.vel \in Values /\ filtering \in BOOLEAN
  BY DEF Inv, Measurement
<1>5. v \in Values
  <2>1. CASE "vel" \in DOMAIN r
    <3>1. Signed(r.vel) \in Values
      BY <1>3, <2>1, ReadingValue
    <3>2. v \in Smoothed(filtering, meas.vel, Signed(r.vel), params.filter_alpha, MaxSpeed)
      BY <1>2, <2>1 DEF Filtered
    <3> QED
      BY <1>4, <3>1, <3>2, SmoothedValue
  <2>2. CASE "vel" \notin DOMAIN r
    BY <1>2, <1>4, <2>2
  <2> QED
    BY <2>1, <2>2
<1>6. (IF "pos" \in DOMAIN r THEN Signed(r.pos) ELSE meas.pos) \in Values
  <2>1. CASE "pos" \in DOMAIN r
    BY <1>3, <2>1, ReadingValue
  <2>2. CASE "pos" \notin DOMAIN r
    BY <1>4, <2>2
  <2> QED
    BY <2>1, <2>2
<1>7. meas' \in Measurement(Values)
  BY <1>2, <1>5, <1>6 DEF Measurement
<1>8. joint' \in BOOLEAN /\ filtering' \in BOOLEAN
  BY <1>1, <1>4 DEF JointStates
<1>9. UNCHANGED <<params, ctl, torque, since_loop, tick_in, running, history>>
  BY DEF JointStates
<1> QED
  BY <1>7, <1>8, <1>9
     DEF Inv, Configured, Clocks, OuterLoopBounded, RatesSpanTheirDt, TimeSpansPrev, UsesVel,
         history

\* Nor does a message without the joint.
LEMMA JointMissingPreserves == Inv /\ JointMissing => Inv'
<1> SUFFICES ASSUME Inv, JointMissing PROVE Inv'
  OBVIOUS
<1>1. joint' = FALSE
      /\ UNCHANGED <<meas, filtering, params, ctl, torque, since_loop, tick_in, running, history>>
  BY DEF JointMissing
<1> QED
  BY <1>1
     DEF Inv, Configured, Clocks, OuterLoopBounded, RatesSpanTheirDt, TimeSpansPrev, UsesVel,
         history

\* What a batch leaves of the law: each PID as it was or reset, the outer loop's
\* counter and time as they were or 0.
LEMMA ReconfiguredState ==
  ASSUME NEW req, ctl \in Ctl(Values), NEW r, r = Reconfigured(req)
  PROVE  /\ r \in Ctl(Values)
         /\ r.vel_pid.first_run \/ r.vel_pid = ctl.vel_pid
         /\ r.pos_pid.first_run \/ r.pos_pid = ctl.pos_pid
         /\ DOMAIN req \cap ResetsOuter # {} => r.outer_counter = 0 /\ r.outer_dt_accum = 0
         /\ DOMAIN req \cap ResetsOuter = {} =>
              r.outer_counter = ctl.outer_counter /\ r.outer_dt_accum = ctl.outer_dt_accum
<1> DEFINE hits(names) == DOMAIN req \cap names # {}
           vel == IF hits(ResetsVel) THEN Reset ELSE ctl.vel_pid
           pos == IF hits(ResetsPos) THEN Reset ELSE ctl.pos_pid
           counter == IF hits(ResetsOuter) THEN 0 ELSE ctl.outer_counter
           accum == IF hits(ResetsOuter) THEN 0 ELSE ctl.outer_dt_accum
           one == [ctl EXCEPT !.vel_pid = vel]
           two == [one EXCEPT !.pos_pid = pos]
           three == [two EXCEPT !.outer_counter = counter]
<1>1. Reset \in PidState(Values) /\ Reset.first_run
  BY NodeValues DEF Reset, PidState
<1>2. vel \in PidState(Values) /\ (vel.first_run \/ vel = ctl.vel_pid)
  BY <1>1 DEF Ctl
<1>3. pos \in PidState(Values) /\ (pos.first_run \/ pos = ctl.pos_pid)
  BY <1>1 DEF Ctl
<1>4. counter \in Nat /\ accum \in Nat
  BY DEF Ctl
<1>5. /\ DOMAIN req \cap ResetsOuter # {} => counter = 0 /\ accum = 0
      /\ DOMAIN req \cap ResetsOuter = {} =>
           counter = ctl.outer_counter /\ accum = ctl.outer_dt_accum
  OBVIOUS
<1>6. r = [ctl EXCEPT !.vel_pid = vel, !.pos_pid = pos, !.outer_counter = counter,
                      !.outer_dt_accum = accum]
  BY DEF Reconfigured, Ctl
<1> HIDE DEF hits, vel, pos, counter, accum
<1>7. r = [three EXCEPT !.outer_dt_accum = accum]
  BY <1>6 DEF Ctl
<1>8. one \in Ctl(Values) /\ one.vel_pid = vel
  BY <1>2 DEF Ctl
<1> HIDE DEF one
<1>9. two \in Ctl(Values) /\ two.vel_pid = vel /\ two.pos_pid = pos
  BY <1>3, <1>8 DEF Ctl
<1> HIDE DEF two
<1>10. three \in Ctl(Values) /\ three.vel_pid = vel /\ three.pos_pid = pos
       /\ three.outer_counter = counter
  BY <1>4, <1>9 DEF Ctl
<1> HIDE DEF three
<1>11. r \in Ctl(Values) /\ r.vel_pid = vel /\ r.pos_pid = pos /\ r.outer_counter = counter
       /\ r.outer_dt_accum = accum
  BY <1>4, <1>7, <1>10 DEF Ctl
<1> QED
  BY <1>2, <1>3, <1>5, <1>11

\* A batch resets what it must: limits in force bound integrals, dividers counters.
LEMMA SetParametersPreserves == Inv /\ SetParameters => Inv'
<1> SUFFICES ASSUME Inv, SetParameters PROVE Inv'
  OBVIOUS
<1>1. PICK req \in ParamRequests :
        /\ Acceptable(req)
        /\ params' = [p \in Mutable |-> IF p \in DOMAIN req THEN req[p] ELSE params[p]]
        /\ ctl' = Reconfigured(req)
        /\ settling' = (settling \/ DOMAIN req \cap ResetsOuter # {})
  BY DEF SetParameters
<1>2. UNCHANGED <<inputs, torque, since_loop, tick_in, running, vel_age, pos_age>>
  BY DEF SetParameters
<1>3. Positive \cup Gains \cup ResetsOuter \cup {"filter_alpha", "invert_output"} \subseteq Mutable
      /\ \A p \in DOMAIN req \cap (Gains \cup Positive) :
           req[p] \in Int /\ (p \in Positive => req[p] <= MaxLimit)
  BY PidAssumption
<1>4. \A p \in Mutable : params'[p] = IF p \in DOMAIN req THEN req[p] ELSE params[p]
  BY <1>1
<1>5. Configured'
  <2>1. DOMAIN params' = Mutable
    BY <1>1
  <2>2. \A p \in Gains : params'[p] \in Int
    BY <1>3, <1>4 DEF Inv, Configured, LawParams
  <2>3. \A p \in Positive : /\ params'[p] \in Nat /\ params'[p] <= MaxLimit
                             /\ (p # "integral_limit" => params'[p] > 0)
    <3> TAKE p \in Positive
    <3>1. CASE p \in DOMAIN req
      BY <1>1, <1>3, <1>4, <3>1 DEF Acceptable
    <3>2. CASE p \notin DOMAIN req
      BY <1>3, <1>4, <3>2 DEF Inv, Configured, LawParams
    <3> QED
      BY <3>1, <3>2
  <2>4. params'["filter_alpha"] \in UnitRange
    BY <1>1, <1>3, <1>4 DEF Inv, Configured, Acceptable
  <2>5. params'["control_mode"] \in Modes
    BY <1>1, <1>3, <1>4 DEF Inv, Configured, LawParams, Acceptable, ResetsOuter
  <2>6. LawParams(params')
    BY <2>2, <2>3, <2>5 DEF LawParams, Positive
  <2>7. \A p \in Positive : params'[p] \in 0..MaxLimit
    BY <2>3, Constants
  <2> QED
    BY <2>1, <2>3, <2>4, <2>6, <2>7 DEF Configured, LawParams
<1>6. /\ ctl' \in Ctl(Values)
      /\ ctl'.vel_pid.first_run \/ ctl'.vel_pid = ctl.vel_pid
      /\ ctl'.pos_pid.first_run \/ ctl'.pos_pid = ctl.pos_pid
      /\ DOMAIN req \cap ResetsOuter # {} => ctl'.outer_counter = 0 /\ ctl'.outer_dt_accum = 0
      /\ DOMAIN req \cap ResetsOuter = {} =>
           ctl'.outer_counter = ctl.outer_counter /\ ctl'.outer_dt_accum = ctl.outer_dt_accum
  BY <1>1, ReconfiguredState DEF Inv
<1>7. DOMAIN req \cap ResetsOuter = {} =>
        /\ params'["control_mode"] = params["control_mode"]
        /\ params'["outer_loop_divider"] = params["outer_loop_divider"]
        /\ settling' = settling
  <2>1. "control_mode" \in ResetsOuter /\ "outer_loop_divider" \in ResetsOuter
    BY DEF ResetsOuter
  <2>2. settling \in BOOLEAN
    BY DEF Inv
  <2> QED
    BY <1>1, <1>3, <1>4, <2>1, <2>2
<1>8. OuterLoopBounded'
  <2>1. CASE DOMAIN req \cap ResetsOuter = {}
    BY <1>6, <1>7, <2>1 DEF Inv, OuterLoopBounded
  <2>2. CASE DOMAIN req \cap ResetsOuter # {}
    <3>1. params'["outer_loop_divider"] \in Nat /\ params'["outer_loop_divider"] > 0
      BY <1>5 DEF Configured, LawParams, Positive
    <3>2. Rounded(params'["outer_loop_divider"]) > 0
      BY <3>1 DEF Rounded
    <3> QED
      BY <1>6, <2>2, <3>2, Constants DEF OuterLoopBounded
  <2> QED
    BY <2>1, <2>2
<1>9. RatesSpanTheirDt'
  <2>1. CASE DOMAIN req \cap ResetsOuter = {}
    BY <1>2, <1>6, <1>7, <2>1 DEF Inv, RatesSpanTheirDt, TimeSpansPrev, UsesVel
  <2>2. CASE DOMAIN req \cap ResetsOuter # {}
    BY <1>1, <2>2 DEF RatesSpanTheirDt
  <2> QED
    BY <2>1, <2>2
<1>10. settling' \in BOOLEAN
  BY <1>1 DEF Inv
<1> QED
  BY <1>2, <1>5, <1>6, <1>8, <1>9, <1>10 DEF Inv, Clocks, inputs

\* A tick of the law leaves its state typed, its counter below the divider, and
\* what it commands and has integrated within the limits.
LEMMA TickStep ==
  ASSUME Inv, ControlLoop
  PROVE  /\ ctl' \in Ctl(Values) /\ torque' \in Values /\ Within(torque', params.torque_limit_nm)
         /\ UsesVel => /\ ~ctl'.vel_pid.first_run
                       /\ Within(ctl'.vel_pid.integral, params.integral_limit)
         /\ RunsPos => /\ ~ctl'.pos_pid.first_run
                       /\ Within(ctl'.pos_pid.integral, params.pos_integral_limit)
         /\ ~RunsPos => ctl'.pos_pid = ctl.pos_pid
         /\ ~UsesVel => ctl'.vel_pid = ctl.vel_pid
         /\ params.control_mode # "cascade" =>
              ctl'.outer_counter = ctl.outer_counter /\ ctl'.outer_dt_accum = ctl.outer_dt_accum
         /\ params.control_mode = "cascade" /\ RunsPos =>
              ctl'.outer_counter = 0 /\ ctl'.outer_dt_accum = 0
         /\ params.control_mode = "cascade" /\ ~RunsPos =>
              /\ ctl'.outer_counter = ctl.outer_counter + 1
              /\ ctl'.outer_dt_accum = ctl.outer_dt_accum + since_loop
              /\ ~OuterDue(ctl, params)
<1>1. PICK ref \in References : /\ ctl' = Control(ctl, params, meas, ref, Dt).ctl
                               /\ torque' = Control(ctl, params, meas, ref, Dt).torque
  BY DEF ControlLoop
<1>2. since_loop \in Nat /\ since_loop > 0 /\ Dt = since_loop
  <2>1. since_loop \in Nat /\ tick_in \in Int /\ tick_in <= 0 /\ (since_loop = 0 => tick_in > 0)
    BY Constants DEF Inv, Clocks, ControlLoop
  <2> QED
    BY <2>1 DEF Dt
<1>3. ref \in [pos : Int, vel : Int, accel : Int]
  BY PidAssumption
<1>4. LawParams(params) /\ ctl \in Ctl(Values) /\ meas \in Measurement(Values)
  BY DEF Inv, Configured
<1> DEFINE r == Control(ctl, params, meas, ref, Dt)
<1>5. r = Control(ctl, params, meas, ref, Dt) /\ ctl' = r.ctl /\ torque' = r.torque
  BY <1>1
<1> HIDE DEF r
<1>6. /\ r.torque \in Values /\ Within(r.torque, params.torque_limit_nm) /\ r.ctl \in Ctl(Values)
      /\ params.control_mode # "position_only" =>
           /\ ~r.ctl.vel_pid.first_run
           /\ Within(r.ctl.vel_pid.integral, params.integral_limit)
      /\ params.control_mode = "position_only" =>
           /\ ~r.ctl.pos_pid.first_run
           /\ Within(r.ctl.pos_pid.integral, params.pos_integral_limit)
           /\ r.ctl.vel_pid = ctl.vel_pid
      /\ params.control_mode = "velocity_only" => r.ctl.pos_pid = ctl.pos_pid
      /\ params.control_mode # "cascade" =>
           /\ r.ctl.outer_counter = ctl.outer_counter
           /\ r.ctl.outer_dt_accum = ctl.outer_dt_accum
      /\ params.control_mode = "cascade" /\ OuterDue(ctl, params) =>
           /\ r.ctl.outer_counter = 0 /\ r.ctl.outer_dt_accum = 0
           /\ ~r.ctl.pos_pid.first_run
           /\ Within(r.ctl.pos_pid.integral, params.pos_integral_limit)
      /\ params.control_mode = "cascade" /\ ~OuterDue(ctl, params) =>
           /\ r.ctl.outer_counter = ctl.outer_counter + 1
           /\ r.ctl.outer_dt_accum = ctl.outer_dt_accum + since_loop
           /\ r.ctl.pos_pid = ctl.pos_pid
  BY <1>2, <1>3, <1>4, <1>5, NodeValues, ControlStep
<1>7. params.control_mode \in {"position_only", "velocity_only", "cascade"}
  BY <1>4 DEF LawParams, Modes
<1> QED
  BY <1>5, <1>6, <1>7 DEF UsesVel, RunsPos

\* A tick brings each PID it runs up to date and ages the other.
LEMMA ControlLoopPreserves == Inv /\ ControlLoop => Inv'
<1> SUFFICES ASSUME Inv, ControlLoop PROVE Inv'
  OBVIOUS
<1>1. /\ since_loop' = 0 /\ tick_in' = tick_in + Period
      /\ vel_age' = (IF UsesVel THEN 0 ELSE vel_age)
      /\ pos_age' = (IF RunsPos THEN 0 ELSE pos_age)
      /\ settling' = (settling /\ params.control_mode = "cascade" /\ ~RunsPos)
      /\ UNCHANGED <<inputs, params, running>> /\ tick_in <= 0
  BY DEF ControlLoop
<1>2. settling' \in BOOLEAN
  BY <1>1 DEF Inv
<1>3. Clocks'
  BY <1>1, Constants DEF Inv, Clocks
<1>4. OuterLoopBounded'
  <2>1. ctl \in Ctl(Values) /\ ctl' \in Ctl(Values) /\ since_loop \in 0..MaxGap
    BY TickStep DEF Inv, Clocks
  <2>2. CASE params.control_mode # "cascade"
    BY <1>1, <2>2, TickStep DEF Inv, OuterLoopBounded
  <2>3. CASE params.control_mode = "cascade" /\ RunsPos
    <3>1. ctl.outer_counter \in Nat /\ ctl.outer_counter < Rounded(params.outer_loop_divider)
      BY <2>1 DEF Inv, OuterLoopBounded, Ctl
    <3>2. params.outer_loop_divider \in Nat
      BY DEF Inv, Configured, LawParams, Positive
    <3>3. Rounded(params.outer_loop_divider) \in Int
      BY <3>2 DEF Rounded
    <3> QED
      BY <1>1, <2>3, <3>1, <3>3, TickStep, Constants DEF OuterLoopBounded
  <2>4. CASE params.control_mode = "cascade" /\ ~RunsPos
    <3>1. ctl.outer_counter \in Nat /\ ctl.outer_dt_accum \in Nat
          /\ ctl.outer_dt_accum <= ctl.outer_counter * MaxGap
      BY <2>1 DEF Inv, OuterLoopBounded, Ctl
    <3>2. params.outer_loop_divider \in Nat
      BY DEF Inv, Configured, LawParams, Positive
    <3>3. Rounded(params.outer_loop_divider) \in Int
      BY <3>2 DEF Rounded
    <3>4. ctl'.outer_counter < Rounded(params.outer_loop_divider)
      BY <2>4, <3>1, <3>3, TickStep DEF OuterDue
    <3>5. (ctl.outer_counter + 1) * MaxGap = ctl.outer_counter * MaxGap + MaxGap
          /\ ctl.outer_counter * MaxGap \in Nat
      BY <3>1, Constants
    <3>6. ctl'.outer_dt_accum <= ctl'.outer_counter * MaxGap
      BY <2>1, <2>4, <3>1, <3>5, TickStep, Constants
    <3> QED
      BY <1>1, <3>4, <3>6 DEF OuterLoopBounded
  <2> QED
    BY <2>2, <2>3, <2>4
<1>5. RatesSpanTheirDt'
  <2> SUFFICES ASSUME ~settling' PROVE TimeSpansPrev'
    BY DEF RatesSpanTheirDt
  <2>1. params' = params
    BY <1>1
  <2>2. ASSUME UsesVel PROVE vel_age' = since_loop'
    BY <1>1, <2>2
  <2>3. ASSUME params.control_mode = "cascade", ~ctl'.pos_pid.first_run
        PROVE  pos_age' = ctl'.outer_dt_accum + since_loop'
    <3>1. CASE RunsPos
      BY <1>1, <2>3, <3>1, TickStep
    <3>2. CASE ~RunsPos
      <4>1. ~settling /\ ctl'.pos_pid = ctl.pos_pid
        BY <1>1, <2>3, <3>2, TickStep DEF Inv
      <4>2. pos_age = ctl.outer_dt_accum + since_loop
        BY <2>3, <4>1 DEF Inv, RatesSpanTheirDt, TimeSpansPrev
      <4>3. ctl'.outer_dt_accum = pos_age /\ pos_age \in Int
        BY <2>3, <3>2, <4>2, TickStep, Constants DEF Inv, Clocks
      <4> QED
        BY <1>1, <3>2, <4>3
    <3> QED
      BY <3>1, <3>2
  <2>4. ASSUME params.control_mode = "position_only" PROVE pos_age' = since_loop'
    BY <1>1, <2>4 DEF RunsPos
  <2> QED
    BY <2>1, <2>2, <2>3, <2>4 DEF TimeSpansPrev, UsesVel
<1> QED
  BY <1>1, <1>2, <1>3, <1>4, <1>5, TickStep DEF Inv, Configured, inputs

\* The early return leaves the loop's time alone.
LEMMA ControlLoopBlindPreserves == Inv /\ ControlLoopBlind => Inv'
<1> SUFFICES ASSUME Inv, ControlLoopBlind PROVE Inv'
  OBVIOUS
<1>1. /\ torque' = 0 /\ since_loop' = since_loop /\ tick_in' = tick_in + Period /\ tick_in <= 0
      /\ UNCHANGED <<inputs, params, ctl, running, history>>
  BY DEF ControlLoopBlind, Blind
<1>2. Clocks'
  BY <1>1, Constants DEF Inv, Clocks, history
<1> QED
  BY <1>1, <1>2, NodeValues
     DEF Inv, Configured, OuterLoopBounded, RatesSpanTheirDt, TimeSpansPrev, UsesVel,
         history, inputs

\* Shutdown changes the command only.
LEMMA ShutdownPreserves == Inv /\ Shutdown => Inv'
<1> SUFFICES ASSUME Inv, Shutdown PROVE Inv'
  OBVIOUS
<1>1. /\ running' = FALSE /\ torque' \in {0, torque}
      /\ UNCHANGED <<inputs, params, ctl, since_loop, tick_in, history>>
  BY DEF Shutdown
<1> QED
  BY <1>1, NodeValues
     DEF Inv, Configured, Clocks, OuterLoopBounded, RatesSpanTheirDt, TimeSpansPrev, UsesVel,
         history, inputs

\* Time ages the loop and both measurements alike.
LEMMA AdvancePreserves == Inv /\ Advance => Inv'
<1> SUFFICES ASSUME Inv, Advance PROVE Inv'
  OBVIOUS
<1>1. /\ tick_in > -Jitter /\ since_loop < MaxGap
      /\ tick_in' = tick_in - 1 /\ since_loop' = since_loop + 1
      /\ vel_age' = Older(vel_age, AgeCap) /\ pos_age' = Older(pos_age, AgeCap)
      /\ UNCHANGED <<inputs, params, ctl, torque, running, settling>>
  BY DEF Advance
<1>2. /\ since_loop \in 0..MaxGap /\ tick_in \in (-Jitter)..Period
      /\ vel_age \in 0..AgeCap /\ pos_age \in 0..AgeCap
      /\ ctl.outer_dt_accum \in Nat
  BY DEF Inv, Clocks, Ctl
<1>3. Clocks'
  BY <1>1, <1>2, Constants DEF Clocks, Older
<1>4. ctl.outer_dt_accum + since_loop < AgeCap /\ MaxGap <= AgeCap
  <2>1. /\ params.outer_loop_divider \in Nat /\ params.outer_loop_divider <= MaxLimit
        /\ ctl.outer_counter \in Nat
    BY DEF Inv, Configured, LawParams, Positive, Ctl
  <2> QED
    BY <1>2, <2>1, AgesFit DEF Inv, OuterLoopBounded
<1>5. RatesSpanTheirDt'
  <2> SUFFICES ASSUME ~settling' PROVE TimeSpansPrev'
    BY DEF RatesSpanTheirDt
  <2>1. TimeSpansPrev /\ params' = params /\ ctl' = ctl
    BY <1>1 DEF Inv, RatesSpanTheirDt
  <2>2. vel_age = since_loop => vel_age' = since_loop'
    BY <1>1, <1>2, <1>4, Constants DEF Older
  <2>3. pos_age = since_loop => pos_age' = since_loop'
    BY <1>1, <1>2, <1>4, Constants DEF Older
  <2>4. pos_age = ctl.outer_dt_accum + since_loop => pos_age' = ctl.outer_dt_accum + since_loop'
    BY <1>1, <1>2, <1>4, Constants DEF Older
  <2> QED
    BY <2>1, <2>2, <2>3, <2>4 DEF TimeSpansPrev, UsesVel
<1> QED
  BY <1>1, <1>3, <1>5 DEF Inv, Configured, OuterLoopBounded, inputs

\* The invariant survives every step.
LEMMA InvNext == Inv /\ [Next]_vars => Inv'
<1> SUFFICES ASSUME Inv, [Next]_vars PROVE Inv'
  OBVIOUS
<1>1. CASE UNCHANGED vars
  BY <1>1
     DEF Inv, Configured, Clocks, OuterLoopBounded, RatesSpanTheirDt, TimeSpansPrev, UsesVel,
         vars, history, inputs
<1> QED
  BY <1>1, JointStatesPreserves, JointMissingPreserves, SetParametersPreserves,
     ControlLoopPreserves, ControlLoopBlindPreserves, ShutdownPreserves, AdvancePreserves
     DEF Next

-------------------------------------------------------------------------------
(***************************************************************************)
(* What follows.                                                           *)
(***************************************************************************)
THEOREM InvInvariant == Spec => []Inv
BY InvInit, InvNext, PTL DEF Spec

\* The invariant contains TypeOK.
LEMMA InvTypes == Inv => TypeOK
<1> SUFFICES ASSUME Inv PROVE TypeOK
  OBVIOUS
<1>1. {joint, filtering, running, settling} \subseteq BOOLEAN
  BY DEF Inv
<1>2. meas \in [{"pos", "vel"} -> Torques]
  BY NodeValues DEF Inv, Measurement
<1>3. /\ DOMAIN params = Mutable /\ params.control_mode \in Modes
      /\ \A p \in Positive : params[p] \in 0..MaxLimit
      /\ \A p \in Positive \ {"integral_limit"} : params[p] > 0
      /\ params.filter_alpha \in UnitRange
  BY Constants DEF Inv, Configured, LawParams
<1>4. ctl.outer_counter \in 0..(Rounded(params.outer_loop_divider) - 1)
  <2>1. params.outer_loop_divider \in Nat /\ ctl.outer_counter \in Nat
    BY DEF Inv, Configured, LawParams, Positive, Ctl
  <2>2. Rounded(params.outer_loop_divider) \in Int
    BY <2>1 DEF Rounded
  <2> QED
    BY <2>1, <2>2 DEF Inv, OuterLoopBounded
<1>5. ctl.outer_dt_accum \in Nat /\ {ctl.v_cmd, torque} \subseteq Torques
  BY NodeValues DEF Inv, Ctl
<1>6. /\ since_loop \in 0..MaxGap /\ tick_in \in (-Jitter)..Period
      /\ vel_age \in 0..AgeCap /\ pos_age \in 0..AgeCap
  BY DEF Inv, Clocks
<1> QED
  BY <1>1, <1>2, <1>3, <1>4, <1>5, <1>6 DEF TypeOK

\* Whatever launch values and batches arrive, the limits stay valid bounds of
\* std::clamp and the outer loop's counter stays below the divider in force.
THEOREM TypeCorrect == Spec => []TypeOK
BY InvInvariant, InvTypes, PTL

\* Once the PIDs in use have run after a change of mode or divider, what a tick
\* divides by is the time since the measurement it subtracts.
THEOREM RatesSpan == Spec => []RatesSpanTheirDt
<1>1. Inv => RatesSpanTheirDt
  BY DEF Inv
<1> QED
  BY <1>1, InvInvariant, PTL

\* As long as the joint states are numbers, what a tick leaves in an integral it
\* has used is within the limit in force, also one lowered while the loop was
\* saturated.
THEOREM IntegralIsClamped ==
  ASSUME Numbers
  PROVE  Spec => IntegralClamped
<1> DEFINE Bound == ControlLoop =>
             /\ UsesVel => LessEq(Abs(ctl'.vel_pid.integral), params.integral_limit)
             /\ RunsPos => LessEq(Abs(ctl'.pos_pid.integral), params.pos_integral_limit)
<1>1. Inv /\ [Next]_vars => [Bound]_vars
  <2> SUFFICES ASSUME Inv, ControlLoop
               PROVE  /\ UsesVel => LessEq(Abs(ctl'.vel_pid.integral), params.integral_limit)
                      /\ RunsPos => LessEq(Abs(ctl'.pos_pid.integral), params.pos_integral_limit)
    OBVIOUS
  <2>1. ctl'.vel_pid.integral \in Values /\ ctl'.pos_pid.integral \in Values
    BY TickStep DEF Ctl, PidState
  <2>2. params.integral_limit \in Nat /\ params.pos_integral_limit \in Nat
    BY DEF Inv, Configured, LawParams, Positive
  <2>3. ASSUME UsesVel PROVE LessEq(Abs(ctl'.vel_pid.integral), params.integral_limit)
    BY <2>1, <2>2, <2>3, TickStep, WithinIsBounded
  <2>4. ASSUME RunsPos PROVE LessEq(Abs(ctl'.pos_pid.integral), params.pos_integral_limit)
    BY <2>1, <2>2, <2>4, TickStep, WithinIsBounded
  <2> QED
    BY <2>3, <2>4
<1> QED
  BY <1>1, InvInvariant, PTL DEF Spec, IntegralClamped

\* And so is what it commands.
THEOREM OutputIsWithinLimit ==
  ASSUME Numbers
  PROVE  Spec => OutputIsClamped
<1>1. Inv /\ [Next]_vars =>
        [ControlLoop => torque' \in (-params.torque_limit_nm)..params.torque_limit_nm]_vars
  <2> SUFFICES ASSUME Inv, ControlLoop
               PROVE  torque' \in (-params.torque_limit_nm)..params.torque_limit_nm
    OBVIOUS
  <2>1. params.torque_limit_nm \in Nat
    BY DEF Inv, Configured, LawParams, Positive
  <2> QED
    BY <2>1, TickStep, WithinIsBounded
<1> QED
  BY <1>1, InvInvariant, PTL DEF Spec, OutputIsClamped

-------------------------------------------------------------------------------
(***************************************************************************)
(* How soon a lost joint and a torque limit reach the motor.  Two history  *)
(* variables count the time and change nothing, so that LostJointReleases  *)
(* and LimitTakesEffect get a bound and become a matter of safety.         *)
(***************************************************************************)
VARIABLES blind_for,  \* history: time since the joint was last known
          limit_for   \* history: time since torque_limit_nm was changed

timed_vars == <<vars, blind_for, limit_for>>

\* The time counted starts again at every step that breaks the condition.
Counted(time, broken) == IF broken THEN 0 ELSE IF Advance THEN time + 1 ELSE time

TimedNext ==
  /\ Next
  /\ blind_for' = Counted(blind_for, joint')
  /\ limit_for' = Counted(limit_for, params'.torque_limit_nm # params.torque_limit_nm)

TimedSpec == Init /\ blind_for = 0 /\ limit_for = 0 /\ [][TimedNext]_timed_vars

\* The time since the timer last fired, or longer.
SinceTick == Period - tick_in

\* The inductive invariant: what contradicts the joint or the limit was commanded
\* before either changed, so no earlier than when the timer last fired.
TimedInv ==
  /\ Inv /\ blind_for \in Nat /\ limit_for \in Nat
  /\ joint => blind_for = 0
  /\ ~joint /\ torque # 0 => blind_for <= SinceTick
  /\ torque \in (-params.torque_limit_nm)..params.torque_limit_nm \/ limit_for <= SinceTick

\* Every step keeps it.
LEMMA TimedStep ==
  ASSUME Numbers, TimedInv, [TimedNext]_timed_vars
  PROVE  TimedInv'
<1>0. Inv'
  BY InvNext DEF TimedInv, TimedNext, timed_vars
<1>1. /\ tick_in \in (-Jitter)..Period /\ tick_in' \in (-Jitter)..Period
      /\ Period \in Nat /\ Period > 0 /\ Jitter \in Nat
      /\ joint \in BOOLEAN /\ joint' \in BOOLEAN
  BY <1>0, Constants DEF TimedInv, Inv, Clocks
<1>2. params.torque_limit_nm \in Nat /\ params'.torque_limit_nm \in Nat
  BY <1>0 DEF TimedInv, Inv, Configured, LawParams, Positive
<1>3. CASE UNCHANGED timed_vars
  BY <1>0, <1>3 DEF TimedInv, timed_vars, vars, inputs, SinceTick
<1>4. CASE TimedNext /\ Advance
  <2>1. /\ tick_in' = tick_in - 1 /\ UNCHANGED <<joint, params, torque>>
        /\ blind_for' = (IF joint THEN 0 ELSE blind_for + 1)
        /\ limit_for' = limit_for + 1
    BY <1>4 DEF TimedNext, Counted, Advance, inputs
  <2>2. blind_for' \in Nat /\ limit_for' \in Nat
    BY <2>1 DEF TimedInv
  <2> QED
    BY <1>0, <1>1, <1>2, <2>1, <2>2 DEF TimedInv, SinceTick
<1>5. CASE TimedNext /\ ~Advance
  <2>1. /\ blind_for' = (IF joint' THEN 0 ELSE blind_for)
        /\ limit_for' = (IF params'.torque_limit_nm # params.torque_limit_nm
                         THEN 0 ELSE limit_for)
    BY <1>5 DEF TimedNext, Counted
  <2>2. blind_for' \in Nat /\ limit_for' \in Nat /\ (joint' => blind_for' = 0)
    BY <2>1 DEF TimedInv
  <2>3. CASE ControlLoop
    <3>1. joint /\ joint' = joint /\ params' = params
      BY <2>3 DEF ControlLoop, inputs
    <3>2. torque' \in (-params.torque_limit_nm)..params.torque_limit_nm
      BY <1>2, <2>3, TickStep, WithinIsBounded DEF TimedInv
    <3> QED
      BY <1>0, <2>2, <3>1, <3>2 DEF TimedInv
  <2>4. CASE ControlLoopBlind
    <3>1. torque' = 0 /\ UNCHANGED <<joint, params>>
      BY <2>4 DEF ControlLoopBlind, Blind, inputs
    <3> QED
      BY <1>0, <1>2, <2>2, <3>1 DEF TimedInv
  <2>5. CASE Shutdown
    <3>1. torque' \in {0, torque} /\ UNCHANGED <<joint, params, tick_in>>
      BY <2>5 DEF Shutdown, inputs
    <3> QED
      BY <1>0, <1>1, <1>2, <2>1, <2>2, <3>1 DEF TimedInv, SinceTick
  <2>6. CASE JointStates \/ JointMissing \/ SetParameters
    <3>1. UNCHANGED <<torque, tick_in>>
      BY <2>6 DEF JointStates, JointMissing, SetParameters
    <3>2. SinceTick \in Int /\ SinceTick >= 0 /\ SinceTick' = SinceTick
      BY <1>1, <3>1 DEF SinceTick
    <3>3. ASSUME ~joint', torque' # 0 PROVE blind_for' <= SinceTick'
      <4>1. CASE joint
        <5>1. blind_for = 0
          BY <4>1 DEF TimedInv
        <5> QED
          BY <2>1, <3>2, <3>3, <5>1
      <4>2. CASE ~joint
        BY <2>1, <3>1, <3>2, <3>3, <4>2 DEF TimedInv
      <4> QED
        BY <4>1, <4>2
    <3>4. \/ torque' \in (-params'.torque_limit_nm)..params'.torque_limit_nm
          \/ limit_for' <= SinceTick'
      BY <1>2, <2>1, <3>1, <3>2 DEF TimedInv
    <3> QED
      BY <1>0, <2>2, <3>3, <3>4 DEF TimedInv
  <2> QED
    BY <1>5, <2>3, <2>4, <2>5, <2>6 DEF TimedNext, Next
<1> QED
  BY <1>3, <1>4, <1>5

\* LostJointReleases and LimitTakesEffect with their bound: a period and the
\* executor's lateness after the joint was lost the command is 0, and a limit that
\* has stood so long bounds it, whatever mode changes and joint states come.
THEOREM SafetyReachesTheMotorInTime ==
  ASSUME Numbers
  PROVE  TimedSpec =>
           [](/\ blind_for > Period + Jitter => torque = 0
              /\ limit_for > Period + Jitter
                   => torque \in (-params.torque_limit_nm)..params.torque_limit_nm)
<1>1. Init /\ blind_for = 0 /\ limit_for = 0 => TimedInv
  <2> SUFFICES ASSUME Init, blind_for = 0, limit_for = 0 PROVE TimedInv
    OBVIOUS
  <2>1. Inv
    BY InvInit
  <2>2. params.torque_limit_nm \in Nat
    BY <2>1 DEF Inv, Configured, LawParams, Positive
  <2> QED
    BY <2>1, <2>2 DEF Init, TimedInv
<1>2. TimedInv /\ [TimedNext]_timed_vars => TimedInv'
  BY TimedStep
<1>3. TimedInv => /\ blind_for > Period + Jitter => torque = 0
                  /\ limit_for > Period + Jitter
                       => torque \in (-params.torque_limit_nm)..params.torque_limit_nm
  <2> SUFFICES ASSUME TimedInv
               PROVE  /\ blind_for > Period + Jitter => torque = 0
                      /\ limit_for > Period + Jitter
                           => torque \in (-params.torque_limit_nm)..params.torque_limit_nm
    OBVIOUS
  <2>1. SinceTick \in Int /\ SinceTick <= Period + Jitter /\ Period + Jitter \in Int
    BY Constants DEF TimedInv, Inv, Clocks, SinceTick
  <2>2. joint => blind_for = 0
    BY DEF TimedInv
  <2> QED
    BY <2>1, <2>2, Constants DEF TimedInv
<1> QED
  BY <1>1, <1>2, <1>3, PTL DEF TimedSpec

-------------------------------------------------------------------------------
(***************************************************************************)
(* The shadow of this law in chrono_flap_node (FlapSim): the same lemmas   *)
(* about the law, under a node that resets it as a whole.                  *)
(***************************************************************************)

(***************************************************************************)
(* The inductive invariant: the outer loop's time is bounded by its ticks, *)
(* and its ticks by a divider within the cap of the history.               *)
(***************************************************************************)
FlapTypes ==
  /\ motion \in [pos : Int, vel : Int] /\ filter \in [initialized : BOOLEAN, vel : Int]
  /\ shadow_sync \in BOOLEAN /\ hydro_adapter \in BOOLEAN /\ hydro_engaged \in BOOLEAN
  /\ ext_pos \subseteq Int /\ ext_vel \subseteq Int
  /\ latest_torque \in Int /\ torque_cmd \in Int /\ accumulator \in Int
  /\ hydro_raw \in Int /\ hydro_applied \in Int
  /\ clip_history \in Seq(BOOLEAN) /\ Len(clip_history) <= Window
  /\ flap_vel_age \in 0..FlapAgeCap /\ flap_pos_age \in 0..FlapAgeCap

FlapConfigured ==
  /\ DOMAIN flap_params = FlapMutable /\ flap_params.control_mode \in Modes
  /\ \A p \in FlapPositive : flap_params[p] \in Nat \ {0}
  /\ \A p \in FlapGains : flap_params[p] \in Int
  /\ Rounded(flap_params.outer_loop_divider) <= FlapAgeCap

ShadowLaw ==
  /\ shadow_ctl \in Ctl(Int)
  /\ shadow_ctl.outer_counter < Rounded(flap_params.outer_loop_divider)
  /\ shadow_ctl.outer_dt_accum <= shadow_ctl.outer_counter

FlapInv == FlapTypes /\ FlapConfigured /\ ShadowLaw /\ ShadowRatesSpanTheirDt

\* The parameters in force are those the law's lemmas ask for.
LEMMA ShadowParams ==
  ASSUME FlapConfigured
  PROVE  /\ LawParams(flap_params) /\ flap_params.torque_limit_nm \in Nat
         /\ flap_params.outer_loop_divider \in Nat \ {0}
         /\ flap_params.hydro_torque_clip_nm \in Nat
<1>1. /\ flap_params.torque_limit_nm \in Nat \ {0} /\ flap_params.pos_integral_limit \in Nat \ {0}
      /\ flap_params.pos_output_limit \in Nat \ {0} /\ flap_params.outer_loop_divider \in Nat \ {0}
      /\ flap_params.hydro_torque_clip_nm \in Nat \ {0}
  BY DEF FlapConfigured, FlapPositive
<1>2. \A p \in Gains \cup {"integral_limit"} : flap_params[p] \in Int
  BY DEF FlapConfigured, FlapGains, Gains, ResetsVel, ResetsPos
<1> QED
  BY <1>1, <1>2 DEF LawParams, FlapConfigured, Positive

\* A law that has been reset has its type, and nothing to differentiate.
LEMMA IdleLaw ==
  /\ IdleControl \in Ctl(Int)
  /\ IdleControl.vel_pid.first_run /\ IdleControl.pos_pid.first_run
  /\ IdleControl.outer_counter = 0 /\ IdleControl.outer_dt_accum = 0
<1>1. Reset \in PidState(Int) /\ Reset.first_run
  BY DEF Reset, PidState
<1> QED
  BY <1>1 DEF IdleControl, Ctl

\* The window of the clip history.
LEMMA RememberedFits ==
  ASSUME NEW s \in Seq(BOOLEAN), NEW b \in BOOLEAN, Window \in Nat \ {0}
  PROVE  Remember(s, b) \in Seq(BOOLEAN) /\ Len(Remember(s, b)) <= Window
<1> DEFINE q == Append(s, b)
           first == IF Len(q) > Window THEN Len(q) - Window + 1 ELSE 1
<1>1. q \in Seq(BOOLEAN) /\ Len(q) \in Nat /\ Len(q) = Len(s) + 1 /\ Len(s) \in Nat
  OBVIOUS
<1>2. Remember(s, b) = SubSeq(q, first, Len(q))
  BY DEF Remember, LastOf
<1> HIDE DEF q
<1>3. first \in 1..Len(q) /\ Len(q) - first + 1 <= Window
  BY <1>1
<1> HIDE DEF first
<1>4. \A k \in first..Len(q) : q[k] \in BOOLEAN
  BY <1>1, <1>3
<1>5. SubSeq(q, first, Len(q)) \in Seq(BOOLEAN)
      /\ Len(SubSeq(q, first, Len(q))) = Len(q) - first + 1
  BY <1>1, <1>3, SubSeqProperties
<1> QED
  BY <1>2, <1>3, <1>5

\* The node starts with a law that has never run.
LEMMA FlapInvInit == FlapInit => FlapInv
<1> SUFFICES ASSUME FlapInit PROVE FlapInv
  OBVIOUS
<1>1. flap_params \in FlapLaunches /\ shadow_sync = flap_params.sync_trajectory
  BY DEF FlapInit
<1>2. /\ DOMAIN flap_params = FlapMutable /\ flap_params["control_mode"] \in Modes
      /\ flap_params["sync_trajectory"] \in BOOLEAN
      /\ \A p \in FlapPositive : flap_params[p] \in Nat \ {0}
  BY <1>1, FlapAssumption DEF FlapConstants, Modes
<1>3. FlapPositive \cup FlapGains \subseteq DOMAIN flap_params
  BY <1>2, FlapAssumption DEF FlapConstants
<1>4. \A p \in DOMAIN flap_params \cap (FlapGains \cup FlapPositive) : flap_params[p] \in Int
  BY <1>1, FlapAssumption DEF FlapConstants
<1>5. "outer_loop_divider" \in FlapPositive
  BY DEF FlapPositive
<1>6. Rounded(flap_params["outer_loop_divider"]) <= FlapAgeCap
  BY <1>1, <1>3, <1>5, FlapAssumption DEF FlapConstants, Rounded
<1>7. FlapConfigured
  BY <1>2, <1>3, <1>4, <1>6 DEF FlapConfigured
<1>8. ShadowLaw
  <2>1. Rounded(flap_params.outer_loop_divider) > 0
    BY <1>7, ShadowParams DEF Rounded
  <2>2. shadow_ctl = IdleControl
    BY DEF FlapInit
  <2> QED
    BY <2>1, <2>2, IdleLaw DEF ShadowLaw
<1>9. FlapTypes
  <2>1. FlapAgeCap \in Nat /\ Window \in Nat
    BY FlapAssumption DEF FlapConstants
  <2>2. <<>> \in Seq(BOOLEAN) /\ Len(<<>>) = 0
    OBVIOUS
  <2> QED
    BY <1>1, <1>2, <2>1, <2>2 DEF FlapInit, FlapTypes, NoFilter
<1>10. ShadowRatesSpanTheirDt
  BY IdleLaw DEF FlapInit, ShadowRatesSpanTheirDt
<1> QED
  BY <1>7, <1>8, <1>9, <1>10 DEF FlapInv

\* A batch either leaves the law and what configures it alone, or resets it.
LEMMA FlapInvSetParameters == FlapInv /\ SetFlapParameters => FlapInv'
<1> SUFFICES ASSUME FlapInv, SetFlapParameters PROVE FlapInv'
  OBVIOUS
<1>1. PICK req \in FlapRequests :
        /\ FlapAcceptable(req)
        /\ flap_params' = [p \in FlapMutable |->
                             IF p \in DOMAIN req THEN req[p] ELSE flap_params[p]]
        /\ IF ResetsShadow(req) THEN shadow_ctl' = IdleControl /\ filter' = NoFilter
                                     ELSE UNCHANGED <<shadow_ctl, filter>>
  BY DEF SetFlapParameters
<1>2. /\ UNCHANGED <<motion, shadow_sync, ext_pos, ext_vel, latest_torque, torque_cmd>>
      /\ UNCHANGED <<hydro_adapter, hydro_engaged, accumulator, hydro_raw, hydro_applied>>
      /\ UNCHANGED <<clip_history, flap_vel_age, flap_pos_age>>
  BY DEF SetFlapParameters, external, telemetry
<1>3. FlapPositive \cup FlapGains \cup {"control_mode", "use_shadow_pid"} \subseteq FlapMutable
      /\ (\A p \in DOMAIN req \cap (FlapGains \cup FlapPositive) : req[p] \in Int)
      /\ ("outer_loop_divider" \in DOMAIN req =>
            Rounded(req["outer_loop_divider"]) <= FlapAgeCap)
  BY FlapAssumption DEF FlapConstants, Rounded
<1>4. \A p \in FlapMutable :
        flap_params'[p] = IF p \in DOMAIN req THEN req[p] ELSE flap_params[p]
  BY <1>1
<1>5. "outer_loop_divider" \in FlapPositive /\ "outer_loop_divider" \in FlapMutable
  BY <1>3 DEF FlapPositive
<1>6. FlapConfigured'
  <2>1. DOMAIN flap_params' = FlapMutable
    BY <1>1
  <2>2. flap_params'["control_mode"] \in Modes
    BY <1>1, <1>3, <1>4 DEF FlapInv, FlapConfigured, FlapAcceptable, Modes
  <2>3. \A p \in FlapPositive : flap_params'[p] \in Nat \ {0}
    <3> TAKE p \in FlapPositive
    <3>1. CASE p \in DOMAIN req
      <4>1. req[p] > 0 /\ req[p] \in Int
        BY <1>1, <1>3, <3>1 DEF FlapAcceptable
      <4> QED
        BY <1>3, <1>4, <3>1, <4>1
    <3>2. CASE p \notin DOMAIN req
      BY <1>3, <1>4, <3>2 DEF FlapInv, FlapConfigured
    <3> QED
      BY <3>1, <3>2
  <2>4. \A p \in FlapGains : flap_params'[p] \in Int
    BY <1>3, <1>4 DEF FlapInv, FlapConfigured
  <2>5. Rounded(flap_params'["outer_loop_divider"]) <= FlapAgeCap
    BY <1>3, <1>4, <1>5 DEF FlapInv, FlapConfigured
  <2> QED
    BY <2>1, <2>2, <2>3, <2>4, <2>5 DEF FlapConfigured
<1>7. FlapTypes'
  <2>1. NoFilter \in [initialized : BOOLEAN, vel : Int]
    BY DEF NoFilter
  <2>2. filter' \in [initialized : BOOLEAN, vel : Int]
    BY <1>1, <2>1 DEF FlapInv, FlapTypes
  <2> QED
    BY <1>2, <2>2 DEF FlapInv, FlapTypes
<1>8. CASE ResetsShadow(req)
  <2>1. shadow_ctl' = IdleControl
    BY <1>1, <1>8
  <2>2. Rounded(flap_params'.outer_loop_divider) > 0
    <3>1. flap_params'["outer_loop_divider"] \in Nat \ {0}
      BY <1>5, <1>6 DEF FlapConfigured
    <3> QED
      BY <3>1 DEF Rounded
  <2>3. ShadowLaw'
    BY <2>1, <2>2, IdleLaw DEF ShadowLaw
  <2>4. ShadowRatesSpanTheirDt'
    BY <2>1, IdleLaw DEF ShadowRatesSpanTheirDt
  <2> QED
    BY <1>6, <1>7, <2>3, <2>4 DEF FlapInv
<1>9. CASE ~ResetsShadow(req)
  <2>1. UNCHANGED <<shadow_ctl, filter>>
    BY <1>1, <1>9
  <2>2. \A p \in {"control_mode", "use_shadow_pid", "outer_loop_divider"} : p \notin DOMAIN req
    BY <1>3, <1>5, <1>9 DEF ResetsShadow, Shadow
  <2>3. /\ flap_params'["control_mode"] = flap_params["control_mode"]
        /\ flap_params'["use_shadow_pid"] = flap_params["use_shadow_pid"]
        /\ flap_params'["outer_loop_divider"] = flap_params["outer_loop_divider"]
    BY <1>3, <1>4, <1>5, <2>2
  <2>4. ShadowLaw'
    BY <2>1, <2>3 DEF FlapInv, ShadowLaw
  <2>5. ShadowRatesSpanTheirDt'
    BY <1>2, <2>1, <2>3 DEF FlapInv, ShadowRatesSpanTheirDt, ShadowUsesVel
  <2> QED
    BY <1>6, <1>7, <2>4, <2>5 DEF FlapInv
<1> QED
  BY <1>8, <1>9

\* The moving average of integers is an integer.
LEMMA FlapFiltered ==
  ASSUME FlapTypes, FlapSpeed \in Nat, NEW v \in ShadowFiltered
  PROVE  v \in Int
<1>1. filter.vel \in Int /\ motion.vel \in Int
  BY DEF FlapTypes
<1>2. filter.vel # NaN /\ motion.vel # NaN
  BY <1>1, NaNIsNoNumber
<1> QED
  BY <1>1, <1>2 DEF ShadowFiltered, Smoothed

\* What the law follows is numbers, synced or not.
LEMMA ShadowReference ==
  ASSUME FlapTypes, NEW ref \in ShadowReferences
  PROVE  ref \in [pos : Int, vel : Int, accel : Int]
<1>1. CASE ~shadow_sync
  BY <1>1, FlapAssumption DEF ShadowReferences, FlapConstants
<1>2. CASE shadow_sync
  <2>1. ref \in [pos : ext_pos, vel : ext_vel, accel : {0}]
        \/ ref \in {[pos |-> 0, vel |-> 0, accel |-> 0]}
    BY <1>2, Zenon DEF ShadowReferences
  <2>2. ext_pos \subseteq Int /\ ext_vel \subseteq Int
    BY DEF FlapTypes
  <2>3. CASE ref \in [pos : ext_pos, vel : ext_vel, accel : {0}]
    <3>1. PICK p \in ext_pos, v \in ext_vel : ref = [pos |-> p, vel |-> v, accel |-> 0]
      BY <2>3
    <3> QED
      BY <2>2, <3>1
  <2>4. CASE ref = [pos |-> 0, vel |-> 0, accel |-> 0]
    BY <2>4
  <2> QED
    BY <2>1, <2>3, <2>4
<1> QED
  BY <1>1, <1>2

\* A tick of the shadow law takes the measurements it divides by the age of.
LEMMA ShadowTickStep ==
  ASSUME FlapInv, flap_params.use_shadow_pid, ShadowTick,
         UNCHANGED flap_params
  PROVE  /\ filter' \in [initialized : BOOLEAN, vel : Int] /\ torque_cmd' \in Int
         /\ flap_vel_age' \in 0..FlapAgeCap /\ flap_pos_age' \in 0..FlapAgeCap
         /\ ShadowLaw' /\ ShadowRatesSpanTheirDt'
         /\ Within(torque_cmd', flap_params.torque_limit_nm)
         /\ ShadowRunsPos
              => Within(shadow_ctl'.pos_pid.integral, flap_params.pos_integral_limit)
<1>1. PICK v \in ShadowFiltered :
        /\ filter' = [initialized |-> TRUE, vel |-> v]
        /\ \E tick \in {Control(shadow_ctl, flap_params,
                                    [pos |-> motion.pos, vel |-> v], ref, 1) :
                         ref \in ShadowReferences} :
             shadow_ctl' = tick.ctl /\ torque_cmd' = tick.torque
  BY DEF ShadowTick
<1>2. PICK ref \in ShadowReferences :
        \E tick : /\ tick = Control(shadow_ctl, flap_params,
                                        [pos |-> motion.pos, vel |-> v], ref, 1)
                  /\ shadow_ctl' = tick.ctl /\ torque_cmd' = tick.torque
  BY <1>1
<1>3. v \in Int /\ [pos |-> motion.pos, vel |-> v] \in Measurement(Int)
  <2>1. v \in Int /\ motion.pos \in Int
    BY <1>1, FlapFiltered, FlapAssumption DEF FlapInv, FlapTypes, FlapConstants
  <2> QED
    BY <2>1 DEF Measurement
<1>4. ref \in [pos : Int, vel : Int, accel : Int]
  BY <1>2, ShadowReference DEF FlapInv
<1>5. PICK m, r : /\ m \in Measurement(Int) /\ r = Control(shadow_ctl, flap_params, m, ref, 1)
                  /\ shadow_ctl' = r.ctl /\ torque_cmd' = r.torque
  BY <1>2, <1>3
<1>6. Int \in ValueSets /\ shadow_ctl \in Ctl(Int) /\ LawParams(flap_params) /\ 1 \in Nat
  BY ShadowParams DEF ValueSets, FlapInv, ShadowLaw
<1>7. /\ torque_cmd' \in Int /\ shadow_ctl' \in Ctl(Int)
      /\ flap_params.control_mode # "position_only" => ~shadow_ctl'.vel_pid.first_run
      /\ flap_params.control_mode = "position_only" => ~shadow_ctl'.pos_pid.first_run
      /\ flap_params.control_mode # "cascade" =>
           /\ shadow_ctl'.outer_counter = shadow_ctl.outer_counter
           /\ shadow_ctl'.outer_dt_accum = shadow_ctl.outer_dt_accum
      /\ flap_params.control_mode = "cascade" /\ OuterDue(shadow_ctl, flap_params) =>
           shadow_ctl'.outer_counter = 0 /\ shadow_ctl'.outer_dt_accum = 0
      /\ flap_params.control_mode = "cascade" /\ ~OuterDue(shadow_ctl, flap_params) =>
           /\ shadow_ctl'.outer_counter = shadow_ctl.outer_counter + 1
           /\ shadow_ctl'.outer_dt_accum = shadow_ctl.outer_dt_accum + 1
           /\ shadow_ctl'.pos_pid = shadow_ctl.pos_pid
  BY <1>4, <1>5, <1>6, ControlStep
<1>8. /\ shadow_ctl.outer_counter \in Nat /\ shadow_ctl.outer_dt_accum \in Nat
      /\ shadow_ctl.outer_counter < Rounded(flap_params.outer_loop_divider)
      /\ shadow_ctl.outer_dt_accum <= shadow_ctl.outer_counter
      /\ flap_params.outer_loop_divider \in Nat \ {0}
      /\ Rounded(flap_params.outer_loop_divider) <= FlapAgeCap
  BY ShadowParams DEF FlapInv, ShadowLaw, FlapConfigured, Ctl
<1>9. Rounded(flap_params.outer_loop_divider) \in Int /\ FlapAgeCap \in Nat
  BY <1>8, FlapAssumption DEF Rounded, FlapConstants
<1>10. flap_vel_age \in 0..FlapAgeCap /\ flap_pos_age \in 0..FlapAgeCap
  BY DEF FlapInv, FlapTypes
<1>11. /\ flap_vel_age' = IF ShadowUsesVel THEN 0 ELSE Older(flap_vel_age, FlapAgeCap)
       /\ flap_pos_age' = IF ShadowRunsPos THEN 0 ELSE Older(flap_pos_age, FlapAgeCap)
  BY DEF ShadowTick
<1>12. ShadowRunsPos <=> \/ flap_params.control_mode = "position_only"
                       \/ /\ flap_params.control_mode = "cascade"
                          /\ OuterDue(shadow_ctl, flap_params)
  BY DEF ShadowRunsPos
<1>13. flap_vel_age' \in 0..FlapAgeCap /\ flap_pos_age' \in 0..FlapAgeCap
  BY <1>9, <1>10, <1>11 DEF Older
<1>14. ShadowLaw'
  <2>1. CASE flap_params.control_mode # "cascade"
    BY <1>7, <1>8, <2>1 DEF ShadowLaw
  <2>2. CASE flap_params.control_mode = "cascade" /\ OuterDue(shadow_ctl, flap_params)
    <3>1. 0 < Rounded(flap_params.outer_loop_divider)
      BY <1>8, <1>9
    <3> QED
      BY <1>7, <2>2, <3>1 DEF ShadowLaw
  <2>3. CASE flap_params.control_mode = "cascade" /\ ~OuterDue(shadow_ctl, flap_params)
    <3>1. shadow_ctl.outer_counter + 1 < Rounded(flap_params.outer_loop_divider)
      BY <1>8, <1>9, <2>3 DEF OuterDue
    <3> QED
      BY <1>7, <1>8, <2>3, <3>1 DEF ShadowLaw
  <2> QED
    BY <2>1, <2>2, <2>3
<1>15. ShadowRatesSpanTheirDt'
  <2>1. ASSUME flap_params.control_mode # "position_only" PROVE flap_vel_age' = 0
    BY <1>11, <2>1 DEF ShadowUsesVel
  <2>2. ASSUME flap_params.control_mode = "position_only" PROVE flap_pos_age' = 0
    BY <1>11, <1>12, <2>2
  <2>3. ASSUME flap_params.control_mode = "cascade", ~shadow_ctl'.pos_pid.first_run
        PROVE  flap_pos_age' = shadow_ctl'.outer_dt_accum
    <3>1. CASE OuterDue(shadow_ctl, flap_params)
      BY <1>7, <1>11, <1>12, <2>3, <3>1
    <3>2. CASE ~OuterDue(shadow_ctl, flap_params)
      <4>1. ~shadow_ctl.pos_pid.first_run
        BY <1>7, <2>3, <3>2
      <4>2. flap_pos_age = shadow_ctl.outer_dt_accum
        BY <2>3, <4>1 DEF FlapInv, ShadowRatesSpanTheirDt
      <4>3. flap_pos_age < FlapAgeCap
        BY <1>8, <1>9, <4>2
      <4>4. flap_pos_age' = flap_pos_age + 1
        BY <1>11, <1>12, <2>3, <3>2, <4>3 DEF Older
      <4> QED
        BY <1>7, <2>3, <3>2, <4>2, <4>4
    <3> QED
      BY <3>1, <3>2
  <2> QED
    BY <2>1, <2>2, <2>3 DEF ShadowRatesSpanTheirDt, ShadowUsesVel
<1>16. filter' \in [initialized : BOOLEAN, vel : Int]
  BY <1>1, <1>3
<1>17. /\ Within(torque_cmd', flap_params.torque_limit_nm)
       /\ ShadowRunsPos
            => Within(shadow_ctl'.pos_pid.integral, flap_params.pos_integral_limit)
  <2>1. /\ Within(torque_cmd', flap_params.torque_limit_nm)
        /\ flap_params.control_mode = "position_only" =>
             Within(shadow_ctl'.pos_pid.integral, flap_params.pos_integral_limit)
        /\ flap_params.control_mode = "cascade" /\ OuterDue(shadow_ctl, flap_params) =>
             Within(shadow_ctl'.pos_pid.integral, flap_params.pos_integral_limit)
    BY <1>4, <1>5, <1>6, ControlStep
  <2> QED
    BY <1>12, <2>1
<1> QED
  BY <1>7, <1>13, <1>14, <1>15, <1>16, <1>17

\* SEA-Stack's moment, clipped, and the history of its clipping.
LEMMA HydroStepTypes ==
  ASSUME FlapInv, HydroStep \/ HydroIdle
  PROVE  /\ hydro_raw' \in Int /\ hydro_applied' \in Int /\ accumulator' \in Int
         /\ clip_history' \in Seq(BOOLEAN) /\ Len(clip_history') <= Window
<1>1. Window \in Nat \ {0} /\ HydroMoments \subseteq Int /\ clip_history \in Seq(BOOLEAN)
  BY FlapAssumption DEF FlapInv, FlapTypes, FlapConstants
<1>2. CASE HydroStep
  <2>1. PICK raw \in HydroMoments : \E applied :
          /\ applied = Clamp(raw, -flap_params.hydro_torque_clip_nm,
                                  flap_params.hydro_torque_clip_nm)
          /\ hydro_raw' = raw /\ hydro_applied' = applied /\ accumulator' = applied
          /\ clip_history' = Remember(clip_history, raw # applied)
    BY <1>2 DEF HydroStep
  <2>2. PICK applied :
          /\ applied = Clamp(raw, -flap_params.hydro_torque_clip_nm,
                                  flap_params.hydro_torque_clip_nm)
          /\ hydro_raw' = raw /\ hydro_applied' = applied /\ accumulator' = applied
          /\ clip_history' = Remember(clip_history, raw # applied)
    BY <2>1
  <2>3. raw \in Int /\ flap_params.hydro_torque_clip_nm \in Nat
    BY <1>1, <2>1, ShadowParams DEF FlapInv
  <2>4. applied \in Int
    BY <2>2, <2>3 DEF Clamp
  <2>5. (raw # applied) \in BOOLEAN
    OBVIOUS
  <2> QED
    BY <1>1, <2>2, <2>3, <2>4, <2>5, RememberedFits
<1>3. CASE HydroIdle
  <2>1. accumulator \in Int
    BY DEF FlapInv, FlapTypes
  <2>2. /\ hydro_raw' = 0 /\ hydro_applied' = 0 /\ accumulator' = accumulator
        /\ clip_history' = Remember(clip_history, FALSE)
    BY <1>3 DEF HydroIdle
  <2>3. PICK b \in BOOLEAN : clip_history' = Remember(clip_history, b)
    BY <2>2, Zenon
  <2>4. clip_history' \in Seq(BOOLEAN) /\ Len(clip_history') <= Window
    BY <1>1, <2>3, RememberedFits, Zenon
  <2>5. hydro_raw' \in Int /\ hydro_applied' \in Int /\ accumulator' \in Int
    BY <2>1, <2>2
  <2> QED
    BY <2>4, <2>5
<1> QED
  BY <1>2, <1>3

\* One iteration of the simulator.
LEMMA FlapInvTick == FlapInv /\ Tick => FlapInv'
<1> SUFFICES ASSUME FlapInv, Tick PROVE FlapInv'
  OBVIOUS
<1>1. /\ IF flap_params.use_shadow_pid THEN ShadowTick ELSE EffortTick
      /\ HydroStep \/ HydroIdle
      /\ motion' \in Motions
      /\ UNCHANGED <<flap_params, shadow_sync, ext_pos, ext_vel, latest_torque>>
      /\ UNCHANGED <<hydro_adapter, hydro_engaged>>
  BY DEF Tick, external
<1>2. motion' \in [pos : Int, vel : Int] /\ FlapAgeCap \in Nat
  BY <1>1, FlapAssumption DEF FlapConstants
<1>3. /\ filter' \in [initialized : BOOLEAN, vel : Int] /\ torque_cmd' \in Int
      /\ flap_vel_age' \in 0..FlapAgeCap /\ flap_pos_age' \in 0..FlapAgeCap
      /\ ShadowLaw' /\ ShadowRatesSpanTheirDt'
  <2>1. CASE flap_params.use_shadow_pid
    BY <1>1, <2>1, ShadowTickStep
  <2>2. CASE ~flap_params.use_shadow_pid
    <3>1. /\ torque_cmd' = latest_torque /\ UNCHANGED <<filter, shadow_ctl>>
          /\ flap_vel_age' = Older(flap_vel_age, FlapAgeCap)
          /\ flap_pos_age' = Older(flap_pos_age, FlapAgeCap)
      BY <1>1, <2>2 DEF EffortTick
    <3>2. ShadowLaw'
      BY <1>1, <3>1 DEF FlapInv, ShadowLaw
    <3>3. ShadowRatesSpanTheirDt'
      BY <1>1, <2>2 DEF ShadowRatesSpanTheirDt
    <3> QED
      BY <1>2, <3>1, <3>2, <3>3 DEF FlapInv, FlapTypes, Older
  <2> QED
    BY <2>1, <2>2
<1>4. FlapTypes'
  BY <1>1, <1>2, <1>3, HydroStepTypes DEF FlapInv, FlapTypes
<1>5. FlapConfigured'
  BY <1>1 DEF FlapInv, FlapConfigured
<1> QED
  BY <1>3, <1>4, <1>5 DEF FlapInv

\* The simulator's invariant survives every step.
LEMMA FlapInvStep == FlapInv /\ [FlapNext]_flap_vars => FlapInv'
<1> SUFFICES ASSUME FlapInv, [FlapNext]_flap_vars PROVE FlapInv'
  OBVIOUS
<1>1. CASE EffortSub \/ PosCommandSub \/ VelCommandSub \/ EnableHydroService
  <2>1. /\ latest_torque' \in Int /\ ext_pos' \subseteq Int /\ ext_vel' \subseteq Int
        /\ hydro_engaged' \in BOOLEAN
    BY <1>1, FlapAssumption DEF FlapInv, FlapTypes, FlapConstants, EffortSub, PosCommandSub,
                VelCommandSub, EnableHydroService, external
  <2>2. /\ UNCHANGED <<motion, filter, shadow_ctl, flap_vel_age, flap_pos_age, flap_params>>
        /\ UNCHANGED <<shadow_sync, torque_cmd, hydro_adapter, accumulator>>
        /\ UNCHANGED <<hydro_raw, hydro_applied, clip_history>>
    BY <1>1 DEF EffortSub, PosCommandSub, VelCommandSub,
                EnableHydroService, shadow, telemetry
  <2>3. FlapTypes' /\ FlapConfigured' /\ ShadowLaw'
    BY <2>1, <2>2 DEF FlapInv, FlapTypes, FlapConfigured, ShadowLaw
  <2>4. ShadowRatesSpanTheirDt'
    BY <2>2 DEF FlapInv, ShadowRatesSpanTheirDt, ShadowUsesVel
  <2> QED
    BY <2>3, <2>4 DEF FlapInv
<1>2. CASE SetFlapParameters
  BY <1>2, FlapInvSetParameters
<1>3. CASE Tick
  BY <1>3, FlapInvTick
<1>4. CASE UNCHANGED flap_vars
  <2>1. /\ UNCHANGED <<motion, filter, shadow_ctl, flap_vel_age, flap_pos_age, flap_params>>
        /\ UNCHANGED <<shadow_sync, torque_cmd, hydro_adapter, accumulator>>
        /\ UNCHANGED <<hydro_raw, hydro_applied, clip_history>>
        /\ UNCHANGED <<ext_pos, ext_vel, latest_torque, hydro_engaged>>
    BY <1>4 DEF flap_vars, shadow, telemetry, external
  <2> QED
    BY <2>1 DEF FlapInv, FlapTypes, FlapConfigured, ShadowLaw, ShadowRatesSpanTheirDt,
                ShadowUsesVel
<1> QED
  BY <1>1, <1>2, <1>3, <1>4 DEF FlapNext

\* FlapSim: validated limits stay positive whatever batches arrive, the outer
\* counter stays below the divider in force and the clip history in its window.
THEOREM ShadowTypeCorrect == FlapSpec => []FlapTypeOK
<1>1. FlapInv => FlapTypeOK
  <2> SUFFICES ASSUME FlapInv PROVE FlapTypeOK
    OBVIOUS
  <2>1. flap_params.control_mode \in Modes
    BY DEF FlapInv, FlapConfigured, Modes
  <2>2. shadow_ctl.outer_counter \in 0..(Rounded(flap_params.outer_loop_divider) - 1)
    <3>1. /\ shadow_ctl.outer_counter \in Nat
          /\ shadow_ctl.outer_counter < Rounded(flap_params.outer_loop_divider)
          /\ flap_params.outer_loop_divider \in Nat
      BY ShadowParams DEF FlapInv, ShadowLaw, Ctl
    <3> QED
      BY <3>1 DEF Rounded
  <2>3. motion \in [{"pos", "vel"} -> Int]
    BY DEF FlapInv, FlapTypes
  <2> QED
    BY <2>1, <2>2, <2>3 DEF FlapInv, FlapTypes, FlapConfigured, FlapTypeOK
<1> QED
  BY <1>1, FlapInvInit, FlapInvStep, PTL DEF FlapSpec

\* ShadowPidController differentiates and integrates over the time since its last
\* measurement, switched off and on and reconfigured as anyone likes.
THEOREM ShadowRatesSpan == FlapSpec => []ShadowRatesSpanTheirDt
<1>1. FlapInv => ShadowRatesSpanTheirDt
  BY DEF FlapInv
<1> QED
  BY <1>1, FlapInvInit, FlapInvStep, PTL DEF FlapSpec

\* What a shadow tick commands is within the limit in force, and so is what it
\* leaves in the outer integral, whatever trajectory or external references it
\* follows: the README of velocity_pid_node promises it of the node, and the
\* shadow keeps it.  The inner integral_limit is not validated and bounds nothing
\* once it is 0 or less.
THEOREM ShadowStaysWithinLimits ==
  FlapSpec =>
    [][Tick /\ flap_params.use_shadow_pid =>
         /\ torque_cmd' \in (-flap_params.torque_limit_nm)..flap_params.torque_limit_nm
         /\ ShadowRunsPos =>
              shadow_ctl'.pos_pid.integral
                \in (-flap_params.pos_integral_limit)..flap_params.pos_integral_limit]_flap_vars
<1>1. ASSUME FlapInv, Tick, flap_params.use_shadow_pid
      PROVE  /\ torque_cmd' \in (-flap_params.torque_limit_nm)..flap_params.torque_limit_nm
             /\ ShadowRunsPos =>
                  shadow_ctl'.pos_pid.integral
                    \in (-flap_params.pos_integral_limit)..flap_params.pos_integral_limit
  <2>1. ShadowTick /\ UNCHANGED flap_params
    BY <1>1 DEF Tick
  <2>2. /\ torque_cmd' \in Int /\ ShadowLaw'
        /\ Within(torque_cmd', flap_params.torque_limit_nm)
        /\ ShadowRunsPos
             => Within(shadow_ctl'.pos_pid.integral, flap_params.pos_integral_limit)
    BY <1>1, <2>1, ShadowTickStep
  <2>3. flap_params.torque_limit_nm \in Nat /\ flap_params.pos_integral_limit \in Nat
    BY <1>1 DEF FlapInv, FlapConfigured, FlapPositive
  <2>4. shadow_ctl'.pos_pid.integral \in Int
    BY <2>2 DEF ShadowLaw, Ctl, PidState
  <2> QED
    BY <2>2, <2>3, <2>4, NaNIsNoNumber DEF Within
<1>2. FlapInv /\ [FlapNext]_flap_vars =>
        [Tick /\ flap_params.use_shadow_pid =>
           /\ torque_cmd' \in (-flap_params.torque_limit_nm)..flap_params.torque_limit_nm
           /\ ShadowRunsPos =>
                shadow_ctl'.pos_pid.integral
                  \in (-flap_params.pos_integral_limit)..flap_params.pos_integral_limit]_flap_vars
  BY <1>1
<1> QED
  BY <1>2, FlapInvInit, FlapInvStep, PTL DEF FlapSpec

-------------------------------------------------------------------------------
(***************************************************************************)
(* How soon a closed hydro gate is out of the clip statistics.  A history  *)
(* variable counts the iterations since the gate was last open, so that    *)
(* ClipHistoryClears gets its bound, the length of the window.             *)
(***************************************************************************)
VARIABLE closed_for   \* history: iterations since hydro_engaged was last true

FlapCountedNext ==
  /\ FlapNext
  /\ closed_for' = IF hydro_engaged' THEN 0
                   ELSE IF Tick THEN closed_for + 1 ELSE closed_for

FlapCountedSpec ==
  FlapInit /\ closed_for = 0 /\ [][FlapCountedNext]_<<flap_vars, closed_for>>

\* The entries of the iterations since the gate closed are the last ones.
TailIsClear ==
  /\ closed_for \in Nat
  /\ \A k \in 1..Len(clip_history) : clip_history[k] => k + closed_for <= Len(clip_history)

\* A window that was shifted by a number of entries and ends in a new one.
Shifted(s, b, r, dropped) ==
  /\ Len(r) = Len(s) + 1 - dropped /\ Len(r) \in Nat /\ Len(s) \in Nat
  /\ r[Len(r)] = b
  /\ \A k \in 1..(Len(r) - 1) : k + dropped \in 1..Len(s) /\ r[k] = s[k + dropped]

\* Remember does that to the history.
LEMMA RememberedEntries ==
  ASSUME NEW s \in Seq(BOOLEAN), NEW b \in BOOLEAN, Window \in Nat \ {0},
         NEW r, r = Remember(s, b)
  PROVE  \E dropped \in Nat : Shifted(s, b, r, dropped)
<1> DEFINE q == Append(s, b)
           first == IF Len(q) > Window THEN Len(q) - Window + 1 ELSE 1
<1>1. q \in Seq(BOOLEAN) /\ Len(q) = Len(s) + 1 /\ Len(s) \in Nat /\ q[Len(q)] = b
  OBVIOUS
<1>2. \A k \in 1..Len(s) : q[k] = s[k]
  OBVIOUS
<1>3. r = SubSeq(q, first, Len(q))
  BY DEF Remember, LastOf
<1> HIDE DEF q
<1>4. first \in 1..Len(q)
  BY <1>1
<1> HIDE DEF first
<1>5. \A k \in first..Len(q) : q[k] \in BOOLEAN
  BY <1>1, <1>4
<1>6. /\ Len(r) = Len(q) - first + 1
      /\ \A k \in 1..(Len(q) - first + 1) : r[k] = q[first + k - 1]
  BY <1>1, <1>3, <1>4, <1>5, SubSeqProperties
<1>7. first - 1 \in Nat /\ Len(r) = Len(s) + 1 - (first - 1) /\ Len(r) \in Nat /\ Len(r) > 0
  BY <1>1, <1>4, <1>6
<1>8. r[Len(r)] = b
  <2>1. first + Len(r) - 1 = Len(q) /\ Len(r) \in 1..(Len(q) - first + 1)
    BY <1>1, <1>4, <1>6, <1>7
  <2> QED
    BY <1>1, <1>6, <2>1
<1>9. ASSUME NEW k \in 1..(Len(r) - 1)
      PROVE  k + (first - 1) \in 1..Len(s) /\ r[k] = s[k + (first - 1)]
  <2>1. /\ k \in 1..(Len(q) - first + 1) /\ first + k - 1 = k + (first - 1)
        /\ k + (first - 1) \in 1..Len(s)
    BY <1>1, <1>4, <1>6, <1>7
  <2> QED
    BY <1>2, <1>6, <2>1
<1> QED
  BY <1>1, <1>7, <1>8, <1>9 DEF Shifted

\* Every step keeps the tail clear.
LEMMA TailStep ==
  ASSUME FlapInv, FlapInv', TailIsClear, [FlapCountedNext]_<<flap_vars, closed_for>>
  PROVE  TailIsClear'
<1>1. /\ clip_history \in Seq(BOOLEAN) /\ clip_history' \in Seq(BOOLEAN)
      /\ Window \in Nat \ {0} /\ closed_for \in Nat
      /\ Len(clip_history') \in Nat /\ Len(clip_history) \in Nat
  <2>1. clip_history \in Seq(BOOLEAN) /\ clip_history' \in Seq(BOOLEAN)
    BY DEF FlapInv, FlapTypes
  <2> QED
    BY <2>1, FlapAssumption DEF FlapConstants, TailIsClear
<1>2. CASE UNCHANGED <<flap_vars, closed_for>>
  BY <1>2 DEF TailIsClear, flap_vars, telemetry
<1>3. CASE FlapCountedNext /\ hydro_engaged'
  BY <1>1, <1>3 DEF FlapCountedNext, TailIsClear
<1>4. CASE FlapCountedNext /\ ~hydro_engaged' /\ ~Tick
  <2>1. closed_for' = closed_for /\ clip_history' = clip_history
    BY <1>4 DEF FlapCountedNext, FlapNext, EffortSub, PosCommandSub, VelCommandSub,
                EnableHydroService, SetFlapParameters, telemetry
  <2> QED
    BY <2>1 DEF TailIsClear
<1>5. CASE FlapCountedNext /\ ~hydro_engaged' /\ Tick
  <2>1. closed_for' = closed_for + 1 /\ clip_history' = Remember(clip_history, FALSE)
    BY <1>5 DEF FlapCountedNext, Tick, HydroIdle
  <2>2. PICK b \in BOOLEAN : clip_history' = Remember(clip_history, b) /\ b = FALSE
    BY <2>1, Zenon
  <2>3. PICK dropped \in Nat : Shifted(clip_history, b, clip_history', dropped)
    <3>1. b \in BOOLEAN /\ clip_history' = Remember(clip_history, b)
      BY <2>2, Zenon
    <3> QED
      BY <1>1, <3>1, RememberedEntries, Zenon
  <2>4. ~clip_history'[Len(clip_history')]
    BY <2>2, <2>3, Zenon DEF Shifted
  <2>5. ASSUME NEW k \in 1..Len(clip_history'), clip_history'[k]
        PROVE  k + closed_for' <= Len(clip_history')
    <3>1. k # Len(clip_history')
      BY <2>4, <2>5, Zenon
    <3>2. k \in 1..(Len(clip_history') - 1)
      BY <1>1, <3>1
    <3>3. clip_history[k + dropped] /\ k + dropped \in 1..Len(clip_history)
      BY <2>3, <2>5, <3>2, Zenon DEF Shifted
    <3>4. k + dropped + closed_for <= Len(clip_history)
      BY <3>3 DEF TailIsClear
    <3>5. Len(clip_history') = Len(clip_history) + 1 - dropped /\ closed_for' = closed_for + 1
      BY <2>1, <2>3 DEF Shifted
    <3> QED
      BY <1>1, <3>2, <3>4, <3>5
  <2>6. closed_for' \in Nat
    BY <1>1, <2>1
  <2> QED
    BY <2>5, <2>6 DEF TailIsClear
<1> QED
  BY <1>2, <1>3, <1>4, <1>5 DEF FlapCountedNext

\* ClipHistoryClears with its bound: after as many iterations with the gate closed
\* as the window is long nothing in it is clipped, so ~/hydro_clip_engaged_pct is
\* 0, whatever is reconfigured meanwhile.
THEOREM ClipHistoryClearsInTime ==
  FlapCountedSpec =>
    [](closed_for >= Window => \A k \in DOMAIN clip_history : ~clip_history[k])
<1>1. FlapInit /\ closed_for = 0 => TailIsClear
  BY DEF FlapInit, TailIsClear
<1>2. FlapInv /\ [FlapCountedNext]_<<flap_vars, closed_for>> => FlapInv'
  BY FlapInvStep DEF FlapCountedNext
<1>3. FlapInv /\ TailIsClear
        => (closed_for >= Window => \A k \in DOMAIN clip_history : ~clip_history[k])
  <2> SUFFICES ASSUME FlapInv, TailIsClear, closed_for >= Window,
                      NEW k \in DOMAIN clip_history, clip_history[k]
               PROVE  FALSE
    OBVIOUS
  <2>1. /\ clip_history \in Seq(BOOLEAN) /\ Len(clip_history) <= Window
        /\ Len(clip_history) \in Nat /\ Window \in Nat
    BY FlapAssumption DEF FlapInv, FlapTypes, FlapConstants
  <2>2. k \in 1..Len(clip_history) /\ k + closed_for <= Len(clip_history)
    BY <2>1 DEF TailIsClear
  <2> QED
    BY <2>1, <2>2 DEF TailIsClear
<1>4. FlapInv /\ FlapInv' /\ TailIsClear /\ [FlapCountedNext]_<<flap_vars, closed_for>>
        => TailIsClear'
  BY TailStep
<1> QED
  BY <1>1, <1>2, <1>3, <1>4, FlapInvInit, PTL DEF FlapCountedSpec

===============================================================================
