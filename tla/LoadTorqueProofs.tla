--------------------------- MODULE LoadTorqueProofs ---------------------------
(***************************************************************************)
(* Type correctness of the load node, that its feedback watchdog           *)
(* implements DeadMan, that a closed gate falls silent and an open one     *)
(* takes nothing away, and how soon ~/enable_hydro and a changed clip      *)
(* reach the topic, for every choice of torques, parameters, timeouts,     *)
(* ramps, period and lateness.                                             *)
(***************************************************************************)
EXTENDS LoadTorque, TLAPS

\* The bounds are numbers and outlast every timeout and every ramp.
LEMMA CapsAreNatural ==
  /\ AgeCap \in Nat /\ MaxTimeout < AgeCap /\ RampCap \in Nat /\ MaxRamp < RampCap
  /\ MaxTorque \in Nat /\ MaxTimeout \in Nat /\ MaxRamp \in Nat
  /\ Period \in Nat /\ 0 < Period /\ Jitter \in Nat
BY LoadAssumption DEF LoadConstants, AgeCap, RampCap

\* Whatever batch passes on_validate_parameters leaves the parameters legal.
LEMMA RequestIsLegal ==
  ASSUME TypeOK, NEW req \in ParamRequests, Acceptable(req),
         NEW q, q = [p \in Mutable |-> IF p \in DOMAIN req THEN req[p] ELSE params[p]]
  PROVE  q \in Params
<1> USE CapsAreNatural
<1>1. ASSUME NEW p \in DOMAIN req \cap Mutable
      PROVE  /\ req[p] \in Int
             /\ p \in {"hil_torque_clip_nm", "hydro_torque_clip_nm"} => req[p] <= MaxTorque
             /\ p = "hil_feedback_timeout_s" => req[p] <= MaxTimeout
             /\ p = "hil_ramp_time_s" => req[p] <= MaxRamp
             /\ p \in Positive => req[p] > 0
             /\ p = "hil_ramp_time_s" => req[p] >= 0
  BY LoadAssumption, NaNIsNoNumber DEF LoadConstants, Acceptable, LessEq, Less
<1>2. /\ params.hil_torque_clip_nm \in 1..MaxTorque
      /\ params.hydro_torque_clip_nm \in 1..MaxTorque
      /\ params.hil_feedback_timeout_s \in 1..MaxTimeout
      /\ params.hil_ramp_time_s \in 0..MaxRamp
  BY DEF TypeOK, Params
<1>3. q.hil_torque_clip_nm \in 1..MaxTorque
  BY <1>1, <1>2 DEF Mutable, Positive
<1>4. q.hydro_torque_clip_nm \in 1..MaxTorque
  BY <1>1, <1>2 DEF Mutable, Positive
<1>5. q.hil_feedback_timeout_s \in 1..MaxTimeout
  BY <1>1, <1>2 DEF Mutable, Positive
<1>6. q.hil_ramp_time_s \in 0..MaxRamp
  BY <1>1, <1>2 DEF Mutable
<1>7. q = [hil_torque_clip_nm |-> q.hil_torque_clip_nm,
           hydro_torque_clip_nm |-> q.hydro_torque_clip_nm,
           hil_feedback_timeout_s |-> q.hil_feedback_timeout_s,
           hil_ramp_time_s |-> q.hil_ramp_time_s]
  BY DEF Mutable
<1> QED
  BY <1>3, <1>4, <1>5, <1>6, <1>7 DEF Params

\* What the sources ask for is a torque, and a number when they are finite.
LEMMA TargetsAreTorques ==
  ASSUME TypeOK
  PROVE  Targets \subseteq Torques
<1>1. /\ params.hil_torque_clip_nm \in Int /\ params.hydro_torque_clip_nm \in Int
      /\ StubTorque[reading] \subseteq Torques /\ HydroTorque[reading] \subseteq Torques
  BY LoadAssumption, CapsAreNatural DEF LoadConstants, TypeOK, Params
<1> QED
  BY <1>1 DEF Targets, Clamp, Torques

\* The ramp keeps a torque a torque.
LEMMA RampedIsTorque ==
  ASSUME TypeOK, NEW tau \in Torques
  PROVE  Ramped(tau) \in Torques
<1>1. params.hil_ramp_time_s \in Nat /\ ramp_age \in Nat
  BY CapsAreNatural DEF TypeOK, Params
<1>2. Elapsed \in Int /\ params.hil_ramp_time_s - Elapsed \in Int
  BY <1>1 DEF Elapsed, Least
<1>3. ASSUME NEW num \in Int, params.hil_ramp_time_s # 0
      PROVE  Scale(tau, num, params.hil_ramp_time_s) \in Torques
  BY <1>1, <1>3 DEF Scale, Torques
<1> QED
  BY <1>1, <1>2, <1>3 DEF Ramped, Torques

-------------------------------------------------------------------------------
\* The constructor's values have their types.
LEMMA TypeInit == Init => TypeOK
<1> SUFFICES ASSUME Init PROVE TypeOK
  OBVIOUS
<1>1. hw_age \in 0..AgeCap /\ ramp_age \in 0..RampCap /\ loop_in \in (-Jitter)..Period
  BY CapsAreNatural DEF Init
<1>2. {hw_received, hil_engaged, hydro_adapter, hydro_engaged, ever_engaged, running}
        \subseteq BOOLEAN
  BY Zenon DEF Init
<1>3. params \in Params /\ reading \in Readings /\ load \in Torques
  BY LoadAssumption DEF LoadConstants, Init, Torques
<1> QED
  BY <1>1, <1>2, <1>3 DEF Init, TypeOK

\* Types survive every step.
LEMMA TypeStep == TypeOK /\ [Next]_vars => TypeOK'
<1> SUFFICES ASSUME TypeOK, [Next]_vars PROVE TypeOK'
  OBVIOUS
<1> USE CapsAreNatural
<1>1. CASE JointStates
  BY <1>1 DEF JointStates, TypeOK, gates
<1>2. CASE EngageService
  BY <1>2 DEF EngageService, TypeOK, inputs
<1>3. CASE EnableHydroService
  BY <1>3 DEF EnableHydroService, TypeOK, inputs
<1>4. CASE SetParameters
  <2>1. params' \in Params
    BY <1>4, RequestIsLegal DEF SetParameters
  <2> QED
    BY <1>4, <2>1 DEF SetParameters, TypeOK, inputs, gates
<1>5. CASE Tick
  <2>1. source' \in {"none", "stub", "hydro"}
    BY <1>5 DEF Tick
  <2>2. CASE FeedbackOk
    <3>1. PICK tau \in Targets : load' = Ramped(tau)
      BY <1>5, <2>2 DEF Tick
    <3>2. Ramped(tau) \in Torques
      BY TargetsAreTorques, RampedIsTorque
    <3> QED
      BY <1>5, <2>1, <3>1, <3>2 DEF Tick, TypeOK, inputs, gates
  <2>3. CASE ~FeedbackOk
    BY <1>5, <2>1, <2>3 DEF Tick, TypeOK, Torques, inputs, gates
  <2> QED
    BY <2>2, <2>3
<1>6. CASE Shutdown
  <2>1. load' \in Torques /\ source' \in {"none", "stub", "hydro"}
    BY <1>6 DEF Shutdown, TypeOK, Torques
  <2> QED
    BY <1>6, <2>1 DEF Shutdown, TypeOK, inputs, gates
<1>7. CASE Advance
  BY <1>7 DEF Advance, TypeOK, Older
<1>8. CASE UNCHANGED vars
  BY <1>8 DEF vars, TypeOK, inputs, gates
<1> QED
  BY <1>1, <1>2, <1>3, <1>4, <1>5, <1>6, <1>7, <1>8 DEF Next

\* Every variable keeps its type; clips and timeout stay positive.
THEOREM TypeCorrect == Spec => []TypeOK
<1> QED
  BY TypeInit, TypeStep, PTL DEF Spec

-------------------------------------------------------------------------------
(***************************************************************************)
(* The inductive invariant: a standing load is no older than the largest   *)
(* timeout plus the time since its iteration.                              *)
(***************************************************************************)
Standing == load # 0 => hw_age <= MaxTimeout + Period - loop_in

IInv == TypeOK /\ Standing

\* The bound on a standing load's age survives every step.
LEMMA StandingStep ==
  ASSUME IInv, [Next]_vars
  PROVE  Standing'
<1> USE CapsAreNatural
<1>0. hw_age \in 0..AgeCap /\ loop_in \in (-Jitter)..Period /\ Standing
  BY DEF IInv, TypeOK
<1>1. CASE JointStates
  BY <1>0, <1>1 DEF JointStates, Standing
<1>2. CASE EngageService \/ EnableHydroService \/ SetParameters \/ UNCHANGED vars
  BY <1>0, <1>2 DEF EngageService, EnableHydroService, SetParameters, vars, inputs, Standing
<1>3. CASE Tick
  <2>1. hw_age' = hw_age /\ loop_in' = Period
    BY <1>3 DEF Tick, inputs
  <2>2. CASE FeedbackOk
    <3>1. params.hil_feedback_timeout_s \in 1..MaxTimeout
      BY DEF IInv, TypeOK, Params
    <3>2. hw_age <= MaxTimeout
      BY <1>0, <2>2, <3>1, NaNIsNoNumber DEF FeedbackOk, Less
    <3> QED
      BY <1>0, <2>1, <3>2 DEF Standing
  <2>3. CASE ~FeedbackOk
    BY <1>3, <2>3 DEF Tick, Standing
  <2> QED
    BY <2>2, <2>3
<1>4. CASE Shutdown
  BY <1>0, <1>4 DEF Shutdown, inputs, Standing
<1>5. CASE Advance
  BY <1>0, <1>5 DEF Advance, Standing, Older
<1> QED
  BY <1>1, <1>2, <1>3, <1>4, <1>5 DEF Next

\* A standing load is always young enough to outlive the loop.
THEOREM StandingInvariant == Spec => []IInv
<1>1. Init => IInv
  BY TypeInit DEF Init, IInv, Standing
<1>2. IInv /\ [Next]_vars => IInv'
  BY TypeStep, StandingStep DEF IInv
<1> QED
  BY <1>1, <1>2, PTL DEF Spec

\* The feedback watchdog is a dead man's switch: see FeedbackIsDeadMan.
THEOREM FeedbackWatchdogImplements == Spec => FeedbackIsDeadMan
<1> USE CapsAreNatural
<1>1. Init => FeedbackSwitch!Init
  BY DEF Init, FeedbackSwitch!Init
<1>2. ASSUME IInv, IInv', [Next]_vars
      PROVE  [FeedbackSwitch!Next]_<<load, AgeCap - hw_age>>
  <2>0. /\ hw_age \in 0..AgeCap /\ hw_age' \in 0..AgeCap /\ load' \in Torques
        /\ loop_in' \in (-Jitter)..Period /\ Standing'
    BY <1>2 DEF IInv, TypeOK
  <2>1. CASE JointStates
    BY <2>0, <2>1 DEF JointStates, FeedbackSwitch!Next, FeedbackSwitch!Refresh
  <2>2. CASE EngageService \/ EnableHydroService \/ SetParameters \/ UNCHANGED vars
    BY <2>2 DEF EngageService, EnableHydroService, SetParameters, vars, inputs
  <2>3. CASE Tick
    <3>1. hw_age' = hw_age
      BY <2>3 DEF Tick, inputs
    <3>2. hw_age = AgeCap => load' = 0
      <4>1. params.hil_feedback_timeout_s \in 1..MaxTimeout
        BY <1>2 DEF IInv, TypeOK, Params
      <4>2. hw_age = AgeCap => ~FeedbackOk
        BY <2>0, <4>1, NaNIsNoNumber DEF FeedbackOk, Less
      <4> QED
        BY <2>3, <4>2 DEF Tick
    <3> QED
      BY <2>0, <3>1, <3>2 DEF FeedbackSwitch!Next, FeedbackSwitch!Decide
  <2>4. CASE Shutdown
    BY <2>0, <2>4 DEF Shutdown, inputs, FeedbackSwitch!Next, FeedbackSwitch!Decide
  <2>5. CASE Advance
    <3>1. hw_age' = Older(hw_age, AgeCap) /\ load' = load
      BY <2>5 DEF Advance
    <3>2. hw_age' = AgeCap => load = 0
      BY <2>0, <3>1 DEF Standing, AgeCap
    <3> QED
      BY <2>0, <3>1, <3>2 DEF Older, FeedbackSwitch!Next, FeedbackSwitch!Elapse
  <2> QED
    BY <1>2, <2>1, <2>2, <2>3, <2>4, <2>5 DEF Next
<1> QED
  BY <1>1, <1>2, StandingInvariant, PTL DEF Spec, FeedbackIsDeadMan, FeedbackSwitch!Spec

-------------------------------------------------------------------------------
(***************************************************************************)
(* The closed gate.  The sources must be finite: 0 times NaN is NaN, so a  *)
(* NaN reading gets through a ramp that has come down to 0.                *)
(***************************************************************************)
FiniteSources ==
  \A r \in Readings : StubTorque[r] \subseteq Int /\ HydroTorque[r] \subseteq Int

RampingDown ==
  (~hil_engaged /\ load # 0) => ramp_age < MaxRamp + Period - loop_in

\* A finite torque through a ramp that is over comes out as 0.
LEMMA EndOfRampIsZero ==
  ASSUME FiniteSources, TypeOK, ~hil_engaged, ramp_age >= params.hil_ramp_time_s,
         NEW tau \in Targets
  PROVE  Ramped(tau) = 0
<1>1. params.hil_ramp_time_s \in Nat /\ ramp_age \in Nat
  BY CapsAreNatural DEF TypeOK, Params
<1>2. Elapsed = params.hil_ramp_time_s
  BY <1>1 DEF Elapsed, Least
<1>3. tau \in Int
  <2>1. /\ params.hil_torque_clip_nm \in Int /\ params.hydro_torque_clip_nm \in Int
        /\ StubTorque[reading] \subseteq Int /\ HydroTorque[reading] \subseteq Int
    BY CapsAreNatural DEF TypeOK, Params, FiniteSources
  <2> QED
    BY <2>1 DEF Targets, Clamp
<1>4. params.hil_ramp_time_s # 0 => (tau * 0) \div params.hil_ramp_time_s = 0
  BY <1>1, <1>3
<1> QED
  BY <1>1, <1>2, <1>3, <1>4, NaNIsNoNumber DEF Ramped, Scale

\* With a closed gate, a non-zero load stays within the time of its ramp.
LEMMA RampingDownStep ==
  ASSUME FiniteSources, TypeOK, RampingDown, [Next]_vars
  PROVE  RampingDown'
<1> USE CapsAreNatural
<1>0. ramp_age \in 0..RampCap /\ loop_in \in (-Jitter)..Period
  BY DEF TypeOK
<1>1. CASE EngageService
  BY <1>0, <1>1 DEF EngageService, RampingDown, Spinning
<1>2. CASE JointStates \/ EnableHydroService \/ SetParameters \/ UNCHANGED vars
  BY <1>0, <1>2 DEF JointStates, EnableHydroService, SetParameters, vars, gates, RampingDown
<1>3. CASE Tick
  <2>1. UNCHANGED <<hil_engaged, ramp_age>> /\ loop_in' = Period
    BY <1>3 DEF Tick, gates
  <2>2. ASSUME ~hil_engaged, load' # 0 PROVE ramp_age < MaxRamp
    <3>1. PICK tau \in Targets : load' = Ramped(tau)
      BY <1>3, <2>2 DEF Tick
    <3>2. params.hil_ramp_time_s \in 0..MaxRamp
      BY DEF TypeOK, Params
    <3> QED
      BY <1>0, <2>2, <3>1, <3>2, EndOfRampIsZero
  <2> QED
    BY <1>0, <2>1, <2>2 DEF RampingDown
<1>4. CASE Shutdown
  BY <1>0, <1>4 DEF Shutdown, gates, RampingDown
<1>5. CASE Advance
  BY <1>0, <1>5 DEF Advance, RampingDown, Older
<1> QED
  BY <1>1, <1>2, <1>3, <1>4, <1>5 DEF Next

\* A gate closed for long enough is silent, whatever happened to the ramp time
\* meanwhile: see ShutGateIsSilent.
THEOREM ShutGateStaysSilent ==
  ASSUME FiniteSources
  PROVE  Spec => []ShutGateIsSilent
<1>1. Init => TypeOK /\ RampingDown
  BY TypeInit DEF Init, RampingDown
<1>2. TypeOK /\ RampingDown /\ [Next]_vars => (TypeOK /\ RampingDown)'
  BY TypeStep, RampingDownStep
<1>3. TypeOK /\ RampingDown => ShutGateIsSilent
  BY CapsAreNatural DEF TypeOK, RampingDown, ShutGateIsSilent, RampCap
<1> QED
  BY <1>1, <1>2, <1>3, PTL DEF Spec

-------------------------------------------------------------------------------
(***************************************************************************)
(* The ramp as arithmetic: a fraction of a torque is a torque of the same  *)
(* sign and no larger, and the whole of it is the torque itself.           *)
(***************************************************************************)

\* A part of a magnitude is no more than the whole.
LEMMA PartOfProduct ==
  ASSUME NEW size \in Nat, NEW num \in Nat, NEW den \in Nat, num <= den
  PROVE  0 <= size * num /\ size * num <= size * den
<1>1. size * (den - num) >= 0
  <2> DEFINE rest == den - num
  <2>1. rest \in Nat
    OBVIOUS
  <2>2. size * rest >= 0
    <3> HIDE DEF rest
    <3> QED
      BY <2>1
  <2> QED
    BY <2>2
<1>2. size * (den - num) = size * den - size * num
  OBVIOUS
<1>3. size * num >= 0 /\ size * num \in Int /\ size * den \in Int
  OBVIOUS
<1> QED
  BY <1>1, <1>2, <1>3

\* A positive factor cancels from an inequality.
LEMMA FactorCancels ==
  ASSUME NEW a \in Int, NEW b \in Int, NEW den \in Nat \ {0}, den * a < den * b + den
  PROVE  a <= b
<1> SUFFICES ASSUME a > b PROVE FALSE
  OBVIOUS
<1>1. a - b - 1 \in Nat
  OBVIOUS
<1>2. den * (a - b - 1) >= 0
  BY <1>1
<1> QED
  BY <1>2

\* So a torque scaled by a fraction lies between 0 and the torque.
LEMMA FractionOfTorque ==
  ASSUME NEW tau \in Int, NEW num \in Nat, NEW den \in Nat \ {0}, num <= den
  PROVE  /\ (tau * num) \div den \in Int
         /\ tau >= 0 => 0 <= (tau * num) \div den /\ (tau * num) \div den <= tau
         /\ tau <= 0 => tau <= (tau * num) \div den /\ (tau * num) \div den <= 0
<1> DEFINE q == (tau * num) \div den
<1>1. /\ q \in Int /\ tau * num \in Int
      /\ den * q <= tau * num /\ tau * num < den * q + den
  OBVIOUS
<1>2. CASE tau >= 0
  <2>1. 0 <= tau * num /\ tau * num <= tau * den
    BY <1>2, PartOfProduct
  <2>2. den * 0 < den * q + den /\ den * q < den * tau + den
    <3> HIDE DEF q
    <3> QED
      BY <1>1, <2>1
  <2>3. 0 <= q /\ q <= tau
    <3> HIDE DEF q
    <3> QED
      BY <1>1, <2>2, FactorCancels
  <2> QED
    BY <1>1, <1>2, <2>3
<1>3. CASE tau < 0
  <2>1. -tau \in Nat
    BY <1>3
  <2>2. 0 <= (-tau) * num /\ (-tau) * num <= (-tau) * den
    BY <2>1, PartOfProduct
  <2>3. den * tau < den * q + den /\ den * q < den * 0 + den
    <3> HIDE DEF q
    <3> QED
      BY <1>1, <2>2
  <2>4. tau <= q /\ q <= 0
    <3> HIDE DEF q
    <3> QED
      BY <1>1, <2>3, FactorCancels
  <2> QED
    BY <1>1, <1>3, <2>4
<1> QED
  BY <1>2, <1>3

\* A finite source asks for a number within its own clip.
LEMMA TargetsAreClipped ==
  ASSUME FiniteSources, TypeOK, NEW tau \in Targets
  PROVE  /\ tau \in Int
         /\ HydroActive => tau \in -params.hydro_torque_clip_nm..params.hydro_torque_clip_nm
         /\ ~HydroActive => tau \in -params.hil_torque_clip_nm..params.hil_torque_clip_nm
<1>1. /\ params.hil_torque_clip_nm \in 1..MaxTorque
      /\ params.hydro_torque_clip_nm \in 1..MaxTorque
      /\ StubTorque[reading] \subseteq Int /\ HydroTorque[reading] \subseteq Int
  BY DEF TypeOK, Params, FiniteSources
<1>2. ASSUME NEW raw \in Int, NEW clip \in 1..MaxTorque
      PROVE  Clamp(raw, -clip, clip) \in -clip..clip
  BY CapsAreNatural, NaNIsNoNumber DEF Clamp, Less
<1>3. CASE HydroActive
  <2>1. PICK raw \in HydroTorque[reading] :
          tau = Clamp(raw, -params.hydro_torque_clip_nm, params.hydro_torque_clip_nm)
    BY <1>3 DEF Targets
  <2> QED
    BY <1>1, <1>2, <1>3, <2>1
<1>4. CASE ~HydroActive
  <2>1. PICK raw \in StubTorque[reading] :
          tau = Clamp(raw, -params.hil_torque_clip_nm, params.hil_torque_clip_nm)
    BY <1>4 DEF Targets
  <2> QED
    BY <1>1, <1>2, <1>4, <2>1
<1> QED
  BY <1>3, <1>4

\* The ramp's numerator never leaves 0..hil_ramp_time_s, up or down.
LEMMA RampedIsFraction ==
  ASSUME TypeOK, NEW tau \in Int
  PROVE  /\ Ramped(tau) \in Int
         /\ tau >= 0 => 0 <= Ramped(tau) /\ Ramped(tau) <= tau
         /\ tau <= 0 => tau <= Ramped(tau) /\ Ramped(tau) <= 0
<1> DEFINE den == params.hil_ramp_time_s
           num == IF hil_engaged THEN Elapsed ELSE params.hil_ramp_time_s - Elapsed
<1>1. den \in Nat /\ ramp_age \in Nat
  BY CapsAreNatural DEF TypeOK, Params
<1>2. num \in Nat /\ num <= den
  BY <1>1 DEF Elapsed, Least
<1>3. CASE den = 0
  BY <1>3 DEF Ramped
<1>4. CASE den # 0
  <2>1. Ramped(tau) = (tau * num) \div den
    BY <1>4, NaNIsNoNumber DEF Ramped, Scale
  <2> HIDE DEF num, den
  <2>2. den \in Nat \ {0}
    BY <1>1, <1>4
  <2> QED
    BY <1>2, <2>1, <2>2, FractionOfTorque
<1> QED
  BY <1>3, <1>4

\* What an iteration publishes is within the clip of the source it came from.
LEMMA TickIsClipped ==
  ASSUME FiniteSources, TypeOK, Tick
  PROVE  /\ source' = "hydro"
              => load' \in -params.hydro_torque_clip_nm..params.hydro_torque_clip_nm
         /\ source' # "hydro"
              => load' \in -params.hil_torque_clip_nm..params.hil_torque_clip_nm
<1>1. /\ params.hil_torque_clip_nm \in 1..MaxTorque
      /\ params.hydro_torque_clip_nm \in 1..MaxTorque
  BY DEF TypeOK, Params
<1>2. CASE FeedbackOk
  <2>1. PICK tau \in Targets : load' = Ramped(tau)
    BY <1>2 DEF Tick
  <2>2. source' = "hydro" <=> HydroActive
    BY <1>2 DEF Tick
  <2>3. /\ tau \in Int /\ load' \in Int
        /\ tau >= 0 => 0 <= load' /\ load' <= tau
        /\ tau <= 0 => tau <= load' /\ load' <= 0
    BY <2>1, TargetsAreClipped, RampedIsFraction
  <2> QED
    BY <1>1, <2>2, <2>3, TargetsAreClipped
<1>3. CASE ~FeedbackOk
  BY <1>1, <1>3, CapsAreNatural DEF Tick
<1> QED
  BY <1>2, <1>3

\* An iteration with an open gate beyond its ramp and fresh feedback.
GateIsOpen == hil_engaged /\ ramp_age >= params.hil_ramp_time_s /\ FeedbackOk

\* The safety half of OpenGateDelivers: an open gate past its ramp takes nothing
\* away, so every iteration publishes exactly what the active source asked for.
THEOREM OpenGateIsTransparent ==
  ASSUME FiniteSources
  PROVE  Spec => [][Tick /\ GateIsOpen => load' \in Targets]_vars
<1>1. ASSUME TypeOK, Tick, GateIsOpen
      PROVE  load' \in Targets
  <2>1. PICK tau \in Targets : load' = Ramped(tau)
    BY <1>1 DEF Tick, GateIsOpen
  <2>2. tau \in Int
    BY <1>1, TargetsAreClipped
  <2>3. params.hil_ramp_time_s \in Nat /\ ramp_age \in Nat
    BY <1>1, CapsAreNatural DEF TypeOK, Params
  <2>4. Elapsed = params.hil_ramp_time_s
    BY <1>1, <2>3 DEF Elapsed, Least, GateIsOpen
  <2>5. ASSUME NEW den \in Nat \ {0}
        PROVE  (tau * den) \div den = tau
    BY <2>2
  <2>6. Ramped(tau) = tau
    BY <1>1, <2>2, <2>3, <2>4, <2>5, NaNIsNoNumber DEF Ramped, Scale, GateIsOpen
  <2> QED
    BY <2>1, <2>6
<1> QED
  BY <1>1, TypeCorrect, PTL DEF Spec

-------------------------------------------------------------------------------
(***************************************************************************)
(* How soon ~/enable_hydro and a clip reach the topic.  Two history        *)
(* variables count the time and change nothing, so that HydroLeaves gets a *)
(* bound and becomes a matter of safety.                                   *)
(***************************************************************************)
VARIABLES off_for,    \* history: time since hydro_engaged_ was last true
          clip_for    \* history: time since a clip was changed

timed_vars == <<vars, off_for, clip_for>>

\* The time counted starts again at every step that breaks the condition.
Counted(time, broken) == IF broken THEN 0 ELSE IF Advance THEN time + 1 ELSE time

Clips == <<params.hil_torque_clip_nm, params.hydro_torque_clip_nm>>

TimedNext ==
  /\ Next
  /\ off_for' = Counted(off_for, hydro_engaged')
  /\ clip_for' = Counted(clip_for, Clips' # Clips)

TimedSpec == Init /\ off_for = 0 /\ clip_for = 0 /\ [][TimedNext]_timed_vars

\* How long this iteration has been due; negative before it is.
Overdue == -loop_in

SourceClip ==
  IF source = "hydro" THEN params.hydro_torque_clip_nm ELSE params.hil_torque_clip_nm

\* The inductive invariant: callbacks run only in an iteration that is due, so what
\* contradicts the switch or the clips waits for the tick of the same iteration.
TimedInv ==
  /\ TypeOK /\ off_for \in Nat /\ clip_for \in Nat
  /\ hydro_engaged => off_for = 0
  /\ source = "hydro" /\ ~hydro_engaged => off_for <= Overdue
  /\ load \in -SourceClip..SourceClip \/ clip_for <= Overdue
  /\ load \in -MaxTorque..MaxTorque

\* Every step keeps it.
LEMMA TimedStep ==
  ASSUME FiniteSources, TimedInv, [TimedNext]_timed_vars
  PROVE  TimedInv'
<1> USE CapsAreNatural
<1>0. TypeOK'
  BY TypeStep DEF TimedInv, TimedNext, timed_vars
<1>1. /\ loop_in \in (-Jitter)..Period /\ loop_in' \in (-Jitter)..Period
      /\ params.hil_torque_clip_nm \in 1..MaxTorque
      /\ params.hydro_torque_clip_nm \in 1..MaxTorque
  BY <1>0 DEF TimedInv, TypeOK, Params
<1>2. CASE UNCHANGED timed_vars
  BY <1>0, <1>2 DEF TimedInv, timed_vars, vars, gates, Overdue, SourceClip
<1>3. CASE TimedNext /\ Advance
  <2>1. /\ loop_in' = loop_in - 1 /\ UNCHANGED <<params, load, source, hydro_engaged>>
        /\ off_for' = (IF hydro_engaged THEN 0 ELSE off_for + 1)
        /\ clip_for' = clip_for + 1
    BY <1>3 DEF TimedNext, Counted, Advance, Clips
  <2> QED
    BY <1>0, <1>1, <2>1 DEF TimedInv, Overdue, SourceClip
<1>4. CASE TimedNext /\ ~Advance
  <2>1. /\ off_for' = (IF hydro_engaged' THEN 0 ELSE off_for)
        /\ clip_for' = (IF Clips' # Clips THEN 0 ELSE clip_for)
    BY <1>4 DEF TimedNext, Counted
  <2>2. CASE Tick
    <3>1. /\ UNCHANGED <<params, hydro_engaged>> /\ loop_in' = Period
          /\ source' = "hydro" => hydro_engaged
      BY <2>2 DEF Tick, HydroActive, gates
    <3>2. load' \in -SourceClip'..SourceClip' /\ load' \in -MaxTorque..MaxTorque
      BY <1>1, <2>2, <3>1, TickIsClipped DEF TimedInv, SourceClip
    <3>3. off_for' \in Nat /\ clip_for' \in Nat /\ (hydro_engaged' => off_for' = 0)
      BY <2>1 DEF TimedInv
    <3> QED
      BY <1>0, <2>1, <3>1, <3>2, <3>3 DEF TimedInv, Overdue
  <2>3. CASE Shutdown
    <3>1. /\ UNCHANGED <<params, loop_in, hydro_engaged>>
          /\ \/ load' = 0 /\ source' = "none"
             \/ UNCHANGED <<load, source>>
      BY <2>3 DEF Shutdown, gates
    <3> QED
      BY <1>0, <1>1, <2>1, <3>1 DEF TimedInv, Overdue, SourceClip, Clips
  <2>4. CASE JointStates \/ EngageService \/ EnableHydroService \/ SetParameters
    <3>1. UNCHANGED <<load, source, loop_in>> /\ loop_in <= 0
      BY <2>4 DEF JointStates, EngageService, EnableHydroService, SetParameters, Spinning
    <3>2. /\ off_for' \in Nat /\ off_for' <= off_for
          /\ hydro_engaged' => off_for' = 0
      BY <2>1 DEF TimedInv
    <3>3. clip_for' \in Nat /\ clip_for' <= clip_for
      BY <2>1 DEF TimedInv
    <3>4. source' = "hydro" /\ ~hydro_engaged' => off_for' <= Overdue'
      <4>1. CASE hydro_engaged
        BY <1>1, <3>1, <3>2, <4>1 DEF TimedInv, Overdue
      <4>2. CASE ~hydro_engaged
        BY <1>1, <3>1, <3>2, <4>2 DEF TimedInv, Overdue
      <4> QED
        BY <4>1, <4>2
    <3>5. load' \in -SourceClip'..SourceClip' \/ clip_for' <= Overdue'
      BY <1>1, <2>1, <3>1, <3>3 DEF TimedInv, Overdue, SourceClip, Clips
    <3> QED
      BY <1>0, <3>1, <3>2, <3>3, <3>4, <3>5 DEF TimedInv
  <2> QED
    BY <1>4, <2>2, <2>3, <2>4 DEF TimedNext, Next
<1> QED
  BY <1>2, <1>3, <1>4

\* HydroLeaves with its bound, and the clips': no load ever exceeds the largest
\* clip; the loop's lateness, and not a whole period, after ~/enable_hydro was
\* closed SEA-Stack's torque is off the topic, and after a batch changed a clip
\* what stands there is within the clip of its source.
THEOREM ServicesReachTheTopicInTime ==
  ASSUME FiniteSources
  PROVE  TimedSpec =>
           [](/\ load \in -MaxTorque..MaxTorque
              /\ off_for > Jitter => source # "hydro"
              /\ clip_for > Jitter => load \in -SourceClip..SourceClip)
<1>1. Init /\ off_for = 0 /\ clip_for = 0 => TimedInv
  <2> SUFFICES ASSUME Init, off_for = 0, clip_for = 0 PROVE TimedInv
    OBVIOUS
  <2>1. TypeOK
    BY TypeInit
  <2>2. params.hil_torque_clip_nm \in 1..MaxTorque
    BY <2>1 DEF TypeOK, Params
  <2> QED
    BY <2>1, <2>2, CapsAreNatural DEF Init, TimedInv, Overdue, SourceClip
<1>2. TimedInv /\ [TimedNext]_timed_vars => TimedInv'
  BY TimedStep
<1>3. TimedInv => /\ load \in -MaxTorque..MaxTorque
                  /\ off_for > Jitter => source # "hydro"
                  /\ clip_for > Jitter => load \in -SourceClip..SourceClip
  <2> SUFFICES ASSUME TimedInv
               PROVE  Overdue \in Int /\ Overdue <= Jitter
    BY CapsAreNatural DEF TimedInv
  <2> QED
    BY CapsAreNatural DEF TimedInv, TypeOK, Overdue
<1> QED
  BY <1>1, <1>2, <1>3, PTL DEF TimedSpec

===============================================================================
