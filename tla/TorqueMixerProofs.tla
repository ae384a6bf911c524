-------------------------- MODULE TorqueMixerProofs ---------------------------
(***************************************************************************)
(* The mixer's type correctness, that each of its two watchdogs implements *)
(* DeadMan, and how soon a closed gate and a changed clip reach the motor, *)
(* for every choice of samples, parameters, timeouts, timer period and     *)
(* executor lateness.                                                      *)
(***************************************************************************)
EXTENDS TorqueMixer, TLAPS

\* The bounds are numbers and outlast every timeout.
LEMMA CapIsNatural ==
  /\ AgeCap \in Nat /\ MaxTimeout < AgeCap /\ 0 < AgeCap
  /\ MaxTimeout \in Nat /\ Period \in Nat /\ 0 < Period /\ Jitter \in Nat
BY MixerAssumption DEF MixerConstants, AgeCap

\* What an input contributes to a command is a torque, and one that is not 0
\* comes from a sample no older than the largest timeout.
LEMMA ContributionIsFresh ==
  ASSUME TypeOK, NEW i \in Inputs
  PROVE  /\ Effective(i) \in Torques
         /\ Effective(i) # 0 => age[i] <= MaxTimeout
<1>1. Timeout(i) \in Int /\ Timeout(i) <= MaxTimeout
  BY DEF TypeOK, Timeout, Params
<1>2. age[i] \in 0..AgeCap /\ tau[i] \in Torques
  BY DEF TypeOK
<1>3. Effective(i) \in Torques
  BY <1>2 DEF Effective, Torques
<1>4. ASSUME Effective(i) # 0 PROVE age[i] <= MaxTimeout
  <2>1. ~Less(Timeout(i), age[i])
    BY <1>4 DEF Effective
  <2>2. Timeout(i) # NaN /\ age[i] # NaN
    BY <1>1, <1>2, NaNIsNoNumber, CapIsNatural
  <2> QED
    BY <1>1, <1>2, <2>1, <2>2, CapIsNatural DEF Less
<1> QED
  BY <1>3, <1>4

\* The clamped command is a torque: with a NaN sum it is that NaN.
LEMMA CommandIsTorque ==
  ASSUME NEW v \in Torques, NEW clip \in Int
  PROVE  Clamp(v, Negate(clip), clip) \in Torques
BY NaNIsNoNumber DEF Clamp, Negate, Less, Torques

\* A finite sum leaves the clamp within the clip.
LEMMA FiniteCommandIsClamped ==
  ASSUME NEW v \in Int, NEW clip \in Int, clip > 0
  PROVE  Clamp(v, Negate(clip), clip) \in -clip..clip
BY NaNIsNoNumber DEF Clamp, Negate, Less

\* Whatever values the node is launched with, it starts with legal parameters.
LEMMA LaunchIsLegal ==
  ASSUME NEW raw \in LaunchParams
  PROVE  /\ Launch(raw) \in Params
         /\ \A p \in Positive : Launch(raw)[p] > 0
         /\ Launch(raw).pid_timeout_s <= MaxTimeout
         /\ Launch(raw).load_timeout_s <= MaxTimeout
<1> DEFINE q == Launch(raw)
<1>1. raw \in Params /\ DefaultParams \in Params
  BY MixerAssumption DEF MixerConstants
<1>2. /\ raw.pid_timeout_s <= MaxTimeout /\ raw.load_timeout_s <= MaxTimeout
      /\ DefaultParams.pid_timeout_s <= MaxTimeout
      /\ DefaultParams.load_timeout_s <= MaxTimeout
      /\ \A p \in Positive : DefaultParams[p] > 0
  BY MixerAssumption DEF MixerConstants
<1>3. ASSUME NEW p \in Positive
      PROVE  /\ q[p] \in Int /\ q[p] > 0
             /\ q[p] = raw[p] \/ q[p] = DefaultParams[p]
  <2>1. raw[p] \in Int /\ DefaultParams[p] \in Int /\ p \in Mutable
    BY <1>1 DEF Params, Positive, Mutable
  <2> QED
    BY <2>1, <1>2, NaNIsNoNumber DEF Launch, LessEq
<1>4. q.enable_load \in BOOLEAN
  BY <1>1 DEF Launch, Mutable, Positive, Params
<1>5. q = [hard_clip_nm |-> q.hard_clip_nm, pid_timeout_s |-> q.pid_timeout_s,
           load_timeout_s |-> q.load_timeout_s, enable_load |-> q.enable_load]
  BY DEF Launch, Mutable
<1>6. q.hard_clip_nm \in Int /\ q.pid_timeout_s \in Int /\ q.load_timeout_s \in Int
  BY <1>3 DEF Positive
<1>7. q \in Params
  BY <1>4, <1>5, <1>6 DEF Params
<1>8. q.pid_timeout_s <= MaxTimeout /\ q.load_timeout_s <= MaxTimeout
  BY <1>2, <1>3 DEF Positive
<1> QED
  BY <1>3, <1>7, <1>8

\* Whatever batch passes on_validate_parameters leaves the parameters legal.
LEMMA RequestIsLegal ==
  ASSUME TypeOK, NEW req \in ParamRequests, Acceptable(req),
         NEW q, q = [p \in Mutable |-> IF p \in DOMAIN req THEN req[p] ELSE params[p]]
  PROVE  /\ q \in Params
         /\ \A p \in Positive : q[p] > 0
         /\ q.pid_timeout_s <= MaxTimeout
         /\ q.load_timeout_s <= MaxTimeout
<1>1. ASSUME NEW p \in Positive PROVE q[p] \in Int /\ q[p] > 0
  <2>1. CASE p \in DOMAIN req
    <3>1. req[p] \in Int /\ ~LessEq(req[p], 0) /\ q[p] = req[p]
      BY <2>1, MixerAssumption DEF MixerConstants, Acceptable, Positive, Mutable
    <3> QED
      BY <3>1, NaNIsNoNumber DEF LessEq
  <2>2. CASE p \notin DOMAIN req
    BY <2>2 DEF TypeOK, Params, Positive, Mutable
  <2> QED
    BY <2>1, <2>2
<1>2. q.enable_load \in BOOLEAN
  BY MixerAssumption DEF MixerConstants, TypeOK, Params, Mutable
<1>3. q = [hard_clip_nm |-> q.hard_clip_nm, pid_timeout_s |-> q.pid_timeout_s,
           load_timeout_s |-> q.load_timeout_s, enable_load |-> q.enable_load]
  BY DEF Mutable
<1>4. q.hard_clip_nm \in Int /\ q.pid_timeout_s \in Int /\ q.load_timeout_s \in Int
  BY <1>1 DEF Positive
<1>5. q \in Params
  BY <1>2, <1>3, <1>4 DEF Params
<1>6. q.pid_timeout_s <= MaxTimeout /\ q.load_timeout_s <= MaxTimeout
  BY MixerAssumption DEF MixerConstants, TypeOK, Mutable, Positive
<1> QED
  BY <1>1, <1>5, <1>6

-------------------------------------------------------------------------------
\* Type correctness: in particular the clip and the timeouts stay positive.
LEMMA TypeInit == Init => TypeOK
<1> SUFFICES ASSUME Init PROVE TypeOK
  OBVIOUS
<1>1. PICK raw \in LaunchParams : params = Launch(raw)
  BY DEF Init
<1>2. /\ params \in Params /\ \A p \in Positive : params[p] > 0
      /\ params.pid_timeout_s <= MaxTimeout /\ params.load_timeout_s <= MaxTimeout
  BY <1>1, LaunchIsLegal
<1> QED
  BY <1>2, CapIsNatural DEF Init, TypeOK, Torques

\* Types survive every step.
LEMMA TypeStep == TypeOK /\ [Next]_vars => TypeOK'
<1> SUFFICES ASSUME TypeOK, [Next]_vars PROVE TypeOK'
  OBVIOUS
<1> USE CapIsNatural
<1>1. CASE PidSub
  BY <1>1, MixerAssumption DEF MixerConstants, PidSub, Store, TypeOK, Inputs
<1>2. CASE LoadSub
  BY <1>2, MixerAssumption DEF MixerConstants, LoadSub, LoadMessage, Store, TypeOK, Inputs
<1>3. CASE EnableLoadService
  <2>1. PICK data \in BOOLEAN : params' = [params EXCEPT !.enable_load = data]
    BY <1>3 DEF EnableLoadService
  <2>2. params' \in Params
    BY <2>1 DEF TypeOK, Params
  <2>3. \A p \in Positive : params'[p] = params[p]
    BY <2>1 DEF TypeOK, Params, Positive
  <2> QED
    BY <1>3, <2>2, <2>3 DEF EnableLoadService, TypeOK, Positive
<1>4. CASE SetParameters
  <2>1. PICK req \in ParamRequests :
          /\ Acceptable(req)
          /\ params' = [p \in Mutable |-> IF p \in DOMAIN req THEN req[p] ELSE params[p]]
    BY <1>4 DEF SetParameters
  <2>2. /\ params' \in Params /\ \A p \in Positive : params'[p] > 0
        /\ params'.pid_timeout_s <= MaxTimeout /\ params'.load_timeout_s <= MaxTimeout
    BY <2>1, RequestIsLegal
  <2> QED
    BY <1>4, <2>2 DEF SetParameters, TypeOK
<1>5. CASE Tick
  <2>1. contrib' = [i \in Inputs |-> Effective(i)]
    BY <1>5 DEF Tick
  <2>2. contrib' \in [Inputs -> Torques]
    BY <2>1, ContributionIsFresh
  <2>3. Plus(contrib'["pid"], contrib'["load"]) \in Torques
    BY <2>2, NaNIsNoNumber DEF Plus, Torques, Inputs
  <2>4. output' \in Torques
    <3>1. params.hard_clip_nm \in Int
      BY DEF TypeOK, Params
    <3>2. output' = Clamp(Plus(contrib'["pid"], contrib'["load"]),
                          Negate(params.hard_clip_nm), params.hard_clip_nm)
      BY <1>5 DEF Tick
    <3> QED
      BY <2>3, <3>1, <3>2, CommandIsTorque
  <2>5. tick_in' \in (-Jitter)..Period
    BY <1>5 DEF Tick, TypeOK
  <2> QED
    BY <1>5, <2>2, <2>4, <2>5 DEF Tick, TypeOK
<1>6. CASE Shutdown
  <2>1. /\ running' \in BOOLEAN
        /\ UNCHANGED <<tau, age, received, params, tick_in>>
    BY <1>6 DEF Shutdown
  <2>2. contrib' \in [Inputs -> Torques] /\ output' \in Torques
    BY <1>6 DEF Shutdown, TypeOK, Torques
  <2> QED
    BY <2>1, <2>2 DEF TypeOK
<1>7. CASE Advance
  BY <1>7 DEF Advance, TypeOK, Older
<1>8. CASE UNCHANGED vars
  BY <1>8 DEF vars, TypeOK
<1> QED
  BY <1>1, <1>2, <1>3, <1>4, <1>5, <1>6, <1>7, <1>8 DEF Next

\* Every variable keeps its type; the clip and the timeouts stay positive.
THEOREM TypeCorrect == Spec => []TypeOK
<1> QED
  BY TypeInit, TypeStep, PTL DEF Spec

-------------------------------------------------------------------------------
(***************************************************************************)
(* The inductive invariant.  DeadMan speaks of the moment life runs out;   *)
(* between ticks what holds is that a standing contribution is no older    *)
(* than the largest timeout plus the time since the tick was scheduled.    *)
(***************************************************************************)
Standing(i) == contrib[i] # 0 => age[i] <= MaxTimeout + Period - tick_in

IInv == TypeOK /\ \A i \in Inputs : Standing(i)

\* The bound on a standing contribution's age survives every step.
LEMMA StandingStep ==
  ASSUME IInv, [Next]_vars, NEW i \in Inputs
  PROVE  Standing(i)'
<1> USE CapIsNatural
<1>0. /\ age[i] \in 0..AgeCap /\ tick_in \in (-Jitter)..Period
      /\ age \in [Inputs -> 0..AgeCap] /\ Standing(i)
  BY DEF IInv, TypeOK
<1>1. CASE PidSub
  BY <1>0, <1>1 DEF PidSub, Store, Standing, Inputs
<1>2. CASE LoadSub
  BY <1>0, <1>2 DEF LoadSub, LoadMessage, Store, Standing, Inputs
<1>3. CASE EnableLoadService \/ SetParameters \/ UNCHANGED vars
  BY <1>0, <1>3 DEF EnableLoadService, SetParameters, vars, Standing
<1>4. CASE Tick
  <2>1. contrib'[i] = Effective(i) /\ age' = age /\ tick_in <= 0
        /\ tick_in' = tick_in + Period
    BY <1>4 DEF Tick
  <2>2. Effective(i) # 0 => age[i] <= MaxTimeout
    BY ContributionIsFresh DEF IInv
  <2> QED
    BY <1>0, <2>1, <2>2 DEF Standing
<1>5. CASE Shutdown
  BY <1>0, <1>5 DEF Shutdown, Standing
<1>6. CASE Advance
  BY <1>0, <1>6 DEF Advance, Standing, Older
<1> QED
  BY <1>1, <1>2, <1>3, <1>4, <1>5, <1>6 DEF Next

\* A standing contribution is always young enough to outlive the timer.
THEOREM StandingInvariant == Spec => []IInv
<1>1. Init => IInv
  BY TypeInit DEF Init, IInv, Standing
<1>2. IInv /\ [Next]_vars => IInv'
  BY TypeStep, StandingStep DEF IInv
<1> QED
  BY <1>1, <1>2, PTL DEF Spec

-------------------------------------------------------------------------------
\* One step of the mixer, seen through either input's switch: a sample
\* refreshes it, a tick or a delivered shutdown decides, time elapses.
LEMMA SwitchStep ==
  ASSUME IInv, IInv', [Next]_vars, NEW i \in Inputs
  PROVE  LET life == AgeCap - age[i]
         IN  \/ life' \in life..AgeCap /\ contrib'[i] = contrib[i]
             \/ /\ contrib'[i] \in Torques
                /\ life = 0 => contrib'[i] = 0
                /\ life' = life
             \/ /\ life' = IF life = 0 THEN 0 ELSE life - 1
                /\ life' = 0 => contrib[i] = 0
                /\ contrib'[i] = contrib[i]
<1> USE CapIsNatural
<1>0. /\ age[i] \in 0..AgeCap /\ age'[i] \in 0..AgeCap /\ contrib'[i] \in Torques
      /\ age \in [Inputs -> 0..AgeCap] /\ contrib[i] \in Torques
      /\ tick_in' \in (-Jitter)..Period /\ Standing(i)'
  BY DEF IInv, TypeOK
<1>1. CASE PidSub \/ LoadSub
  BY <1>0, <1>1 DEF PidSub, LoadSub, LoadMessage, Store, Inputs
<1>2. CASE EnableLoadService \/ SetParameters \/ UNCHANGED vars
  BY <1>0, <1>2 DEF EnableLoadService, SetParameters, vars
<1>3. CASE Tick
  <2>1. contrib'[i] = Effective(i) /\ age' = age
    BY <1>3 DEF Tick
  <2>2. Effective(i) # 0 => age[i] <= MaxTimeout
    BY ContributionIsFresh DEF IInv
  <2> QED
    BY <1>0, <2>1, <2>2
<1>4. CASE Shutdown
  BY <1>0, <1>4 DEF Shutdown
<1>5. CASE Advance
  <2>1. age'[i] = Older(age[i], AgeCap) /\ contrib' = contrib
    BY <1>5 DEF Advance
  <2>2. age'[i] = AgeCap => contrib'[i] = 0
    BY <1>0 DEF Standing, AgeCap
  <2> QED
    BY <1>0, <2>1, <2>2 DEF Older
<1> QED
  BY <1>1, <1>2, <1>3, <1>4, <1>5 DEF Next

\* The PID watchdog is a dead man's switch: see PidIsDeadMan.
THEOREM PidWatchdogImplements == Spec => PidIsDeadMan
<1>1. Init => PidSwitch!Init
  BY CapIsNatural DEF Init, PidSwitch!Init, Inputs
<1>2. IInv /\ IInv' /\ [Next]_vars
        => [PidSwitch!Next]_<<contrib["pid"], AgeCap - age["pid"]>>
  BY SwitchStep DEF PidSwitch!Next, PidSwitch!Refresh, PidSwitch!Decide,
                    PidSwitch!Elapse, Inputs
<1> QED
  BY <1>1, <1>2, StandingInvariant, PTL DEF Spec, PidIsDeadMan, PidSwitch!Spec

\* The load watchdog is another, independent of it: see LoadIsDeadMan.
THEOREM LoadWatchdogImplements == Spec => LoadIsDeadMan
<1>1. Init => LoadSwitch!Init
  BY CapIsNatural DEF Init, LoadSwitch!Init, Inputs
<1>2. IInv /\ IInv' /\ [Next]_vars
        => [LoadSwitch!Next]_<<contrib["load"], AgeCap - age["load"]>>
  BY SwitchStep DEF LoadSwitch!Next, LoadSwitch!Refresh, LoadSwitch!Decide,
                    LoadSwitch!Elapse, Inputs
<1> QED
  BY <1>1, <1>2, StandingInvariant, PTL DEF Spec, LoadIsDeadMan, LoadSwitch!Spec

-------------------------------------------------------------------------------
(***************************************************************************)
(* With finite samples every command published is within the clip in       *)
(* force.  The hypothesis is needed: a NaN sample goes through the clamp.  *)
(***************************************************************************)
FiniteSamples == PidSamples \subseteq Int /\ LoadSamples \subseteq Int

FiniteInv == TypeOK /\ tau \in [Inputs -> Int]

\* Finite samples keep the stored inputs finite.
LEMMA FiniteStep ==
  ASSUME FiniteSamples, FiniteInv, [Next]_vars
  PROVE  tau' \in [Inputs -> Int]
<1>1. CASE PidSub
  BY <1>1 DEF FiniteSamples, FiniteInv, PidSub, Store
<1>2. CASE LoadSub
  BY <1>2 DEF FiniteSamples, FiniteInv, LoadSub, LoadMessage, Store
<1>3. CASE UNCHANGED tau
  BY <1>3 DEF FiniteInv
<1> QED
  BY <1>1, <1>2, <1>3 DEF Next, EnableLoadService, SetParameters, Tick, Shutdown,
                          Advance, vars

\* A tick on finite inputs commands within the clip.
LEMMA FiniteTickClamps ==
  ASSUME FiniteInv, Tick
  PROVE  output' \in -params.hard_clip_nm..params.hard_clip_nm
<1>1. params.hard_clip_nm \in Int /\ params.hard_clip_nm > 0
  BY DEF FiniteInv, TypeOK, Params, Positive
<1>2. \A i \in Inputs : contrib'[i] \in Int
  BY DEF Tick, Effective, FiniteInv
<1>3. Plus(contrib'["pid"], contrib'["load"]) \in Int
  BY <1>2, NaNIsNoNumber DEF Plus, Inputs
<1>4. output' = Clamp(Plus(contrib'["pid"], contrib'["load"]),
                      Negate(params.hard_clip_nm), params.hard_clip_nm)
  BY DEF Tick
<1> QED
  BY <1>1, <1>3, <1>4, FiniteCommandIsClamped

\* So does whatever else changes the command.
LEMMA FiniteTickIsClamped ==
  ASSUME FiniteInv, [Next]_vars, output' # output
  PROVE  output' \in -params.hard_clip_nm..params.hard_clip_nm
<1>1. params.hard_clip_nm \in Int /\ params.hard_clip_nm > 0
  BY DEF FiniteInv, TypeOK, Params, Positive
<1>2. CASE Tick
  BY <1>2, FiniteTickClamps
<1>3. CASE Shutdown
  BY <1>1, <1>3 DEF Shutdown
<1> QED
  BY <1>2, <1>3 DEF Next, PidSub, LoadSub, LoadMessage, EnableLoadService, SetParameters, Advance, vars

\* No command outside the clip is ever published while the samples are finite.
THEOREM FiniteCommandsClamped ==
  ASSUME FiniteSamples
  PROVE  Spec => CommandIsClamped
<1>1. Init => FiniteInv
  BY TypeInit DEF Init, FiniteInv
<1>2. FiniteInv /\ [Next]_vars => FiniteInv'
  BY TypeStep, FiniteStep DEF FiniteInv
<1>3. FiniteInv /\ [Next]_vars
        => [output' # output => output' \in -params.hard_clip_nm..params.hard_clip_nm]_vars
  BY FiniteTickIsClamped
<1> QED
  BY <1>1, <1>2, <1>3, PTL DEF Spec, CommandIsClamped

-------------------------------------------------------------------------------
(***************************************************************************)
(* How soon a gate and a clip reach the motor.  DisabledLoadLeaves and     *)
(* ClipTakesEffect say that they do; with two history variables, which     *)
(* count the time and change nothing, the bound is a matter of safety.     *)
(***************************************************************************)
VARIABLES shut_for,   \* history: time since enable_load was last true
          clip_for    \* history: time since the clip was changed

timed_vars == <<vars, shut_for, clip_for>>

\* The time counted starts again at every step that breaks the condition.
Counted(time, broken) == IF broken THEN 0 ELSE IF Advance THEN time + 1 ELSE time

TimedNext ==
  /\ Next
  /\ shut_for' = Counted(shut_for, params'.enable_load)
  /\ clip_for' = Counted(clip_for, params'.hard_clip_nm # params.hard_clip_nm)

TimedSpec == Init /\ shut_for = 0 /\ clip_for = 0 /\ [][TimedNext]_timed_vars

\* The inductive invariant: what contradicts the parameters was commanded by a
\* tick before they were set, so no earlier than the last one.
Bound == Period - tick_in

TimedInv ==
  /\ FiniteInv /\ shut_for \in Nat /\ clip_for \in Nat
  /\ contrib["load"] # 0 => shut_for <= Bound
  /\ output \in -params.hard_clip_nm..params.hard_clip_nm \/ clip_for <= Bound

\* Every step keeps it.
LEMMA TimedStep ==
  ASSUME FiniteSamples, TimedInv, [TimedNext]_timed_vars
  PROVE  TimedInv'
<1> USE CapIsNatural
<1>0. FiniteInv'
  BY TypeStep, FiniteStep DEF TimedInv, FiniteInv, TimedNext, timed_vars, vars
<1>1. tick_in \in (-Jitter)..Period /\ tick_in' \in (-Jitter)..Period
  BY <1>0 DEF TimedInv, FiniteInv, TypeOK
<1>2. CASE UNCHANGED timed_vars
  BY <1>0, <1>2 DEF TimedInv, timed_vars, vars, Bound
<1>3. CASE TimedNext /\ Advance
  <2>1. /\ tick_in' = tick_in - 1 /\ UNCHANGED <<params, contrib, output>>
        /\ shut_for' = (IF params.enable_load THEN 0 ELSE shut_for + 1)
        /\ clip_for' = clip_for + 1
    BY <1>3 DEF TimedNext, Counted, Advance
  <2> QED
    BY <1>0, <1>1, <2>1 DEF TimedInv, Bound
<1>4. CASE TimedNext /\ ~Advance
  <2>1. /\ shut_for' = IF params'.enable_load THEN 0 ELSE shut_for
        /\ clip_for' = IF params'.hard_clip_nm # params.hard_clip_nm THEN 0 ELSE clip_for
    BY <1>4 DEF TimedNext, Counted
  <2>2. CASE Tick
    <3>1. /\ contrib'["load"] # 0 => params.enable_load
          /\ UNCHANGED params /\ tick_in' = tick_in + Period /\ tick_in <= 0
      BY <2>2 DEF Tick, Effective, Enabled, Inputs
    <3>2. output' \in -params.hard_clip_nm..params.hard_clip_nm
      BY <2>2, FiniteTickClamps DEF TimedInv
    <3> QED
      BY <1>0, <1>1, <2>1, <3>1, <3>2 DEF TimedInv, Bound
  <2>3. CASE Shutdown
    <3>1. /\ UNCHANGED <<params, tick_in>>
          /\ \/ contrib'["load"] = 0 /\ output' = 0
             \/ UNCHANGED <<contrib, output>>
      BY <2>3 DEF Shutdown, Inputs
    <3>2. params.hard_clip_nm \in Int /\ params.hard_clip_nm > 0
      BY DEF TimedInv, FiniteInv, TypeOK, Params, Positive
    <3> QED
      BY <1>0, <1>1, <2>1, <3>1, <3>2 DEF TimedInv, Bound
  <2>4. CASE PidSub \/ LoadSub \/ EnableLoadService \/ SetParameters
    <3>1. UNCHANGED <<contrib, output, tick_in>>
      BY <2>4 DEF PidSub, LoadSub, LoadMessage, EnableLoadService, SetParameters
    <3> QED
      BY <1>0, <1>1, <2>1, <3>1 DEF TimedInv, Bound
  <2> QED
    BY <1>4, <2>2, <2>3, <2>4 DEF TimedNext, Next
<1> QED
  BY <1>2, <1>3, <1>4

\* DisabledLoadLeaves and ClipTakesEffect with their bound: a period and the
\* executor's lateness after the load was disabled, by service or parameter, it is
\* out of the standing command, and a clip that has stood so long bounds it,
\* however inputs, services and batches go on.
THEOREM SettingsReachTheMotorInTime ==
  ASSUME FiniteSamples
  PROVE  TimedSpec =>
           [](/\ shut_for > Period + Jitter => contrib["load"] = 0
              /\ clip_for > Period + Jitter
                   => output \in -params.hard_clip_nm..params.hard_clip_nm)
<1>1. Init /\ shut_for = 0 /\ clip_for = 0 => TimedInv
  <2> SUFFICES ASSUME Init, shut_for = 0, clip_for = 0 PROVE TimedInv
    OBVIOUS
  <2>1. FiniteInv
    BY TypeInit DEF Init, FiniteInv
  <2>2. params.hard_clip_nm \in Int /\ params.hard_clip_nm > 0
    BY <2>1 DEF FiniteInv, TypeOK, Params, Positive
  <2> QED
    BY <2>1, <2>2, CapIsNatural DEF Init, TimedInv, Bound, Inputs
<1>2. TimedInv /\ [TimedNext]_timed_vars => TimedInv'
  BY TimedStep
<1>3. TimedInv => /\ shut_for > Period + Jitter => contrib["load"] = 0
                  /\ clip_for > Period + Jitter
                       => output \in -params.hard_clip_nm..params.hard_clip_nm
  <2> SUFFICES ASSUME TimedInv
               PROVE  Bound \in Int /\ Bound <= Period + Jitter
    BY CapIsNatural DEF TimedInv
  <2> QED
    BY CapIsNatural DEF TimedInv, FiniteInv, TypeOK, Bound
<1> QED
  BY <1>1, <1>2, <1>3, PTL DEF TimedSpec

===============================================================================
