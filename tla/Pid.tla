---------------------------------- MODULE Pid ---------------------------------
(***************************************************************************)
(* PidController: the reusable PID step of both control loops, as          *)
(* operators on the record of its private state.  Doubles are integers of  *)
(* the model's unit or NaN; quotients are truncated.                       *)
(***************************************************************************)
EXTENDS Torque

\* reset(): also the state of a new controller.
Reset == [integral |-> 0, prev |-> 0, saturated |-> FALSE, first_run |-> TRUE]

\* std::abs, and a quotient truncated: a NaN comes back.
Abs(x) == IF Less(x, 0) THEN -x ELSE x
Quotient(a, b) ==
  IF a = NaN THEN NaN ELSE IF a < 0 THEN -((-a) \div b) ELSE a \div b

\* setpoint - measurement, 0 inside the deadband.
Error(cfg, setpoint, measurement) ==
  LET error == Minus(setpoint, measurement)
  IN  IF Less(Abs(error), cfg.deadband) THEN 0 ELSE error

\* Derivative on measurement: none on the first run, so no kick.
Derivative(pid, measurement, dt) ==
  IF pid.first_run \/ dt <= 0 THEN 0 ELSE Quotient(Minus(pid.prev, measurement), dt)

Limited(i, cfg) == Clamp(i, -cfg.integral_limit, cfg.integral_limit)

\* Directional anti-windup: a saturated controller integrates only against the
\* sign of its integral.
MayIntegrate(pid, error) == ~pid.saturated \/ LessEq(Times(error, pid.integral), 0)

Integrated(pid, cfg, error, dt) == Limited(Plus(pid.integral, Times(error, dt)), cfg)

\* Mutant of Integral: without the clamp on leaving saturation.
IntegralKept(pid, cfg, error, dt) ==
  IF MayIntegrate(pid, error) THEN Integrated(pid, cfg, error, dt) ELSE pid.integral

\* The saturated flag that compute() sets itself compares with output_min/max,
\* which both users leave at their +/-1e9: compute() always leaves it false,
\* and the clamp "on leaving saturation" runs after every saturated cycle.
Integral(pid, cfg, error, dt) ==
  IF MayIntegrate(pid, error) THEN Integrated(pid, cfg, error, dt)
  ELSE Limited(pid.integral, cfg)

\* compute(): the controller's next state and its output.
Compute(pid, cfg, setpoint, measurement, dt) ==
  LET error == Error(cfg, setpoint, measurement)
      integral == Integral(pid, cfg, error, dt)
  IN  [pid |-> [integral |-> integral, prev |-> measurement,
                saturated |-> FALSE, first_run |-> FALSE],
       out |-> Plus(Plus(Times(cfg.kp, error), Times(cfg.ki, integral)),
                    Times(cfg.kd, Derivative(pid, measurement, dt)))]

===============================================================================
