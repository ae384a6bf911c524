---------------------------- MODULE HilLoopProofs -----------------------------
(***************************************************************************)
(* The load path end to end, for every choice of torques, parameters,      *)
(* periods, lateness, transit time and queue depth: the types of the       *)
(* composition; that nothing older than its watchdog allows is under way   *)
(* at any point; that the two watchdogs with the lossy topic between them  *)
(* implement one DeadMan; that a closed ~/engage_hil reaches the motor in  *)
(* time; and that each component in the loop implements its own module.    *)
(* The components' own lemmas speak of their own constants and variables;  *)
(* what is needed of them here is stated for the two instances L and M.    *)
(***************************************************************************)
EXTENDS HilLoop, SequenceTheorems, TLAPS

\* The bounds are numbers.
LEMMA BoundsAreNatural ==
  /\ MaxFeedback \in Nat /\ MaxTorque \in Nat /\ MaxRamp \in Nat
  /\ LoadPeriod \in Nat /\ 0 < LoadPeriod /\ LoadJitter \in Nat
  /\ MaxTimeout \in Nat /\ MixerPeriod \in Nat /\ 0 < MixerPeriod /\ MixerJitter \in Nat
  /\ MaxDelay \in Nat /\ Depth \in Nat /\ 0 < Depth /\ SilenceCap \in Nat
  /\ L!AgeCap \in Nat /\ MaxFeedback < L!AgeCap /\ L!RampCap \in Nat
  /\ M!AgeCap = MaxTimeout + MixerPeriod + MixerJitter + 1
  /\ AgeCap = MaxFeedback + MaxDelay + M!AgeCap /\ M!AgeCap \in Nat /\ AgeCap \in Nat
BY LoopAssumption DEF L!LoadConstants, M!MixerConstants, L!AgeCap, L!RampCap, M!AgeCap,
                      AgeCap, EndToEnd

-------------------------------------------------------------------------------
(***************************************************************************)
(* chrono_flap_node.                                                       *)
(***************************************************************************)

\* What the load node publishes is a torque.
LEMMA LoadIsTorque ==
  ASSUME L!TypeOK, NEW v \in L!Targets
  PROVE  L!Ramped(v) \in Torques
<1>1. /\ load_params.hil_torque_clip_nm \in Int /\ load_params.hydro_torque_clip_nm \in Int
      /\ load_params.hil_ramp_time_s \in Nat /\ ramp_age \in Nat
      /\ StubTorque[reading] \subseteq Torques /\ HydroTorque[reading] \subseteq Torques
  BY LoopAssumption, BoundsAreNatural
     DEF L!LoadConstants, L!TypeOK, L!Params, Torques, L!Torques
<1>2. v \in Torques
  BY <1>1 DEF L!Targets, L!Clamp, Torques
<1>3. L!Elapsed \in Int /\ load_params.hil_ramp_time_s - L!Elapsed \in Int
  BY <1>1 DEF L!Elapsed, L!Least
<1>4. ASSUME NEW num \in Int, load_params.hil_ramp_time_s # 0
      PROVE  L!Scale(v, num, load_params.hil_ramp_time_s) \in Torques
  BY <1>1, <1>2, <1>4 DEF L!Scale, Torques
<1> QED
  BY <1>1, <1>2, <1>3, <1>4 DEF L!Ramped, Torques

\* The load node's variables start with their types.
LEMMA LoadTypeInit == L!Init => L!TypeOK
<1> SUFFICES ASSUME L!Init PROVE L!TypeOK
  OBVIOUS
<1>1. hw_age \in 0..L!AgeCap /\ ramp_age \in 0..L!RampCap /\ loop_in \in (-LoadJitter)..LoadPeriod
  BY BoundsAreNatural DEF L!Init
<1>2. {hw_received, hil_engaged, hydro_adapter, hydro_engaged, ever_engaged, load_running}
        \subseteq BOOLEAN
  BY Zenon DEF L!Init
<1>3. load_params \in L!Params /\ reading \in Readings /\ load \in L!Torques
  BY LoopAssumption DEF L!LoadConstants, L!Init, L!Torques
<1> QED
  BY <1>1, <1>2, <1>3 DEF L!Init, L!TypeOK

\* Whatever batch the load node accepts leaves its parameters legal.
LEMMA LoadRequestIsLegal ==
  ASSUME L!TypeOK, NEW req \in LoadRequests, L!Acceptable(req),
         NEW q, q = [p \in L!Mutable |-> IF p \in DOMAIN req THEN req[p] ELSE load_params[p]]
  PROVE  q \in L!Params
<1> USE BoundsAreNatural
<1>1. ASSUME NEW p \in DOMAIN req \cap L!Mutable
      PROVE  /\ req[p] \in Int
             /\ p \in {"hil_torque_clip_nm", "hydro_torque_clip_nm"} => req[p] <= MaxTorque
             /\ p = "hil_feedback_timeout_s" => req[p] <= MaxFeedback
             /\ p = "hil_ramp_time_s" => req[p] <= MaxRamp
             /\ p \in L!Positive => req[p] > 0
             /\ p = "hil_ramp_time_s" => req[p] >= 0
  BY LoopAssumption, NaNIsNoNumber DEF L!LoadConstants, L!Acceptable, L!LessEq, L!Less
<1>2. /\ load_params.hil_torque_clip_nm \in 1..MaxTorque
      /\ load_params.hydro_torque_clip_nm \in 1..MaxTorque
      /\ load_params.hil_feedback_timeout_s \in 1..MaxFeedback
      /\ load_params.hil_ramp_time_s \in 0..MaxRamp
  BY DEF L!TypeOK, L!Params
<1>3. q.hil_torque_clip_nm \in 1..MaxTorque
  BY <1>1, <1>2 DEF L!Mutable, L!Positive
<1>4. q.hydro_torque_clip_nm \in 1..MaxTorque
  BY <1>1, <1>2 DEF L!Mutable, L!Positive
<1>5. q.hil_feedback_timeout_s \in 1..MaxFeedback
  BY <1>1, <1>2 DEF L!Mutable, L!Positive
<1>6. q.hil_ramp_time_s \in 0..MaxRamp
  BY <1>1, <1>2 DEF L!Mutable
<1>7. q = [hil_torque_clip_nm |-> q.hil_torque_clip_nm,
           hydro_torque_clip_nm |-> q.hydro_torque_clip_nm,
           hil_feedback_timeout_s |-> q.hil_feedback_timeout_s,
           hil_ramp_time_s |-> q.hil_ramp_time_s]
  BY DEF L!Mutable
<1> QED
  BY <1>3, <1>4, <1>5, <1>6, <1>7 DEF L!Params

\* The load node's steps keep them.
LEMMA LoadTypeStep ==
  ASSUME L!TypeOK,
         \/ L!JointStates \/ L!EngageService \/ L!EnableHydroService \/ L!SetParameters
         \/ L!Tick \/ L!Shutdown \/ L!Advance \/ UNCHANGED loadVars
  PROVE  L!TypeOK'
<1> USE BoundsAreNatural
<1>1. CASE L!JointStates
  BY <1>1 DEF L!JointStates, L!TypeOK, L!gates
<1>2. CASE L!EngageService
  BY <1>2 DEF L!EngageService, L!TypeOK, L!inputs
<1>3. CASE L!Tick
  <2>1. source' \in {"none", "stub", "hydro"}
    BY <1>3 DEF L!Tick
  <2>2. load' \in L!Torques
    <3>1. CASE L!FeedbackOk
      <4>1. PICK v \in L!Targets : load' = L!Ramped(v)
        BY <1>3, <3>1 DEF L!Tick
      <4> QED
        BY <4>1, LoadIsTorque DEF L!Torques, Torques
    <3>2. CASE ~L!FeedbackOk
      BY <1>3, <3>2 DEF L!Tick, L!Torques
    <3> QED
      BY <3>1, <3>2
  <2> QED
    BY <1>3, <2>1, <2>2 DEF L!Tick, L!TypeOK, L!inputs, L!gates
<1>4. CASE L!Shutdown
  <2>1. load' \in L!Torques /\ source' \in {"none", "stub", "hydro"}
    BY <1>4 DEF L!Shutdown, L!TypeOK, L!Torques
  <2> QED
    BY <1>4, <2>1 DEF L!Shutdown, L!TypeOK, L!inputs, L!gates
<1>5. CASE L!Advance
  BY <1>5 DEF L!Advance, L!TypeOK, L!Older
<1>6. CASE UNCHANGED loadVars
  BY <1>6 DEF loadVars, L!TypeOK
<1>7. CASE L!EnableHydroService
  BY <1>7 DEF L!EnableHydroService, L!TypeOK, L!inputs
<1>8. CASE L!SetParameters
  <2>1. load_params' \in L!Params
    BY <1>8, LoadRequestIsLegal DEF L!SetParameters
  <2> QED
    BY <1>8, <2>1 DEF L!SetParameters, L!TypeOK, L!inputs, L!gates
<1> QED
  BY <1>1, <1>2, <1>3, <1>4, <1>5, <1>6, <1>7, <1>8

\* Only a sample within the feedback timeout is answered with a torque.
LEMMA LoadIsFresh ==
  ASSUME L!TypeOK, L!Tick, load' # 0
  PROVE  hw_age \in Nat /\ hw_age <= MaxFeedback
<1>1. /\ load_params.hil_feedback_timeout_s \in Int /\ hw_age \in Nat
      /\ load_params.hil_feedback_timeout_s <= MaxFeedback
  BY BoundsAreNatural DEF L!TypeOK, L!Params
<1>2. ~L!Less(load_params.hil_feedback_timeout_s, hw_age)
  BY DEF L!Tick, L!FeedbackOk
<1> QED
  BY <1>1, <1>2, NaNIsNoNumber, BoundsAreNatural DEF L!Less

-------------------------------------------------------------------------------
(***************************************************************************)
(* hil_torque_mixer_node.                                                  *)
(***************************************************************************)

\* What an input contributes is a torque, and only a message within the
\* watchdog's timeout contributes.
LEMMA ContributionIsFresh ==
  ASSUME M!TypeOK, NEW i \in {"pid", "load"}
  PROVE  /\ M!Effective(i) \in Torques
         /\ M!Effective(i) # 0 => age[i] <= MaxTimeout /\ tau[i] # 0
<1>1. M!Timeout(i) \in Int /\ M!Timeout(i) <= MaxTimeout
  BY DEF M!TypeOK, M!Timeout, M!Params
<1>2. age[i] \in Nat /\ tau[i] \in Torques
  BY BoundsAreNatural DEF M!TypeOK, M!Inputs, M!Torques, Torques
<1>3. M!Effective(i) \in Torques
  BY <1>2 DEF M!Effective, Torques
<1>4. ASSUME M!Effective(i) # 0 PROVE age[i] <= MaxTimeout /\ tau[i] # 0
  <2>1. ~M!Less(M!Timeout(i), age[i]) /\ tau[i] # 0
    BY <1>4 DEF M!Effective
  <2>2. M!Timeout(i) # NaN /\ age[i] # NaN
    BY <1>1, <1>2, NaNIsNoNumber
  <2> QED
    BY <1>1, <1>2, <2>1, <2>2, BoundsAreNatural DEF M!Less
<1> QED
  BY <1>3, <1>4

\* The constructor makes a legal configuration of any launch values.
LEMMA MixerLaunchIsLegal ==
  ASSUME NEW raw \in MixerLaunches
  PROVE  /\ M!Launch(raw) \in M!Params
         /\ \A p \in M!Positive : M!Launch(raw)[p] > 0
         /\ M!Launch(raw).pid_timeout_s <= MaxTimeout
         /\ M!Launch(raw).load_timeout_s <= MaxTimeout
<1> DEFINE q == M!Launch(raw)
<1>1. raw \in M!Params /\ MixerDefaults \in M!Params
  BY LoopAssumption DEF M!MixerConstants
<1>2. /\ raw.pid_timeout_s <= MaxTimeout /\ raw.load_timeout_s <= MaxTimeout
      /\ MixerDefaults.pid_timeout_s <= MaxTimeout
      /\ MixerDefaults.load_timeout_s <= MaxTimeout
      /\ \A p \in M!Positive : MixerDefaults[p] > 0
  BY LoopAssumption DEF M!MixerConstants
<1>3. ASSUME NEW p \in M!Positive
      PROVE  /\ q[p] \in Int /\ q[p] > 0
             /\ q[p] = raw[p] \/ q[p] = MixerDefaults[p]
  <2>1. raw[p] \in Int /\ MixerDefaults[p] \in Int /\ p \in M!Mutable
    BY <1>1 DEF M!Params, M!Positive, M!Mutable
  <2> QED
    BY <2>1, <1>2, NaNIsNoNumber DEF M!Launch, M!LessEq
<1>4. q.enable_load \in BOOLEAN
  BY <1>1 DEF M!Launch, M!Mutable, M!Positive, M!Params
<1>5. q = [hard_clip_nm |-> q.hard_clip_nm, pid_timeout_s |-> q.pid_timeout_s,
           load_timeout_s |-> q.load_timeout_s, enable_load |-> q.enable_load]
  BY DEF M!Launch, M!Mutable
<1>6. q.hard_clip_nm \in Int /\ q.pid_timeout_s \in Int /\ q.load_timeout_s \in Int
  BY <1>3 DEF M!Positive
<1>7. q \in M!Params
  BY <1>4, <1>5, <1>6 DEF M!Params
<1>8. q.pid_timeout_s <= MaxTimeout /\ q.load_timeout_s <= MaxTimeout
  BY <1>2, <1>3 DEF M!Positive
<1> QED
  BY <1>3, <1>7, <1>8

\* Whatever batch the mixer accepts leaves its parameters legal.
LEMMA MixerRequestIsLegal ==
  ASSUME M!TypeOK, NEW req \in MixerRequests, M!Acceptable(req),
         NEW q, q = [p \in M!Mutable |-> IF p \in DOMAIN req THEN req[p] ELSE mixer_params[p]]
  PROVE  /\ q \in M!Params
         /\ \A p \in M!Positive : q[p] > 0
         /\ q.pid_timeout_s <= MaxTimeout
         /\ q.load_timeout_s <= MaxTimeout
<1>1. ASSUME NEW p \in M!Positive PROVE q[p] \in Int /\ q[p] > 0
  <2>1. CASE p \in DOMAIN req
    <3>1. req[p] \in Int /\ ~M!LessEq(req[p], 0) /\ q[p] = req[p]
      BY <2>1, LoopAssumption DEF M!MixerConstants, M!Acceptable, M!Positive, M!Mutable
    <3> QED
      BY <3>1, NaNIsNoNumber DEF M!LessEq
  <2>2. CASE p \notin DOMAIN req
    BY <2>2 DEF M!TypeOK, M!Params, M!Positive, M!Mutable
  <2> QED
    BY <2>1, <2>2
<1>2. q.enable_load \in BOOLEAN
  BY LoopAssumption DEF M!MixerConstants, M!TypeOK, M!Params, M!Mutable
<1>3. q = [hard_clip_nm |-> q.hard_clip_nm, pid_timeout_s |-> q.pid_timeout_s,
           load_timeout_s |-> q.load_timeout_s, enable_load |-> q.enable_load]
  BY DEF M!Mutable
<1>4. q.hard_clip_nm \in Int /\ q.pid_timeout_s \in Int /\ q.load_timeout_s \in Int
  BY <1>1 DEF M!Positive
<1>5. q \in M!Params
  BY <1>2, <1>3, <1>4 DEF M!Params
<1>6. q.pid_timeout_s <= MaxTimeout /\ q.load_timeout_s <= MaxTimeout
  BY LoopAssumption DEF M!MixerConstants, M!TypeOK, M!Mutable, M!Positive
<1> QED
  BY <1>1, <1>5, <1>6

\* The mixer's variables start with their types.
LEMMA MixerTypeInit == M!Init => M!TypeOK
<1> SUFFICES ASSUME M!Init PROVE M!TypeOK
  OBVIOUS
<1>1. PICK raw \in MixerLaunches : mixer_params = M!Launch(raw)
  BY DEF M!Init
<1>2. /\ mixer_params \in M!Params /\ \A p \in M!Positive : mixer_params[p] > 0
      /\ mixer_params.pid_timeout_s <= MaxTimeout /\ mixer_params.load_timeout_s <= MaxTimeout
  BY <1>1, MixerLaunchIsLegal
<1> QED
  BY <1>2, BoundsAreNatural DEF M!Init, M!TypeOK, M!Torques

\* The mixer's steps keep them.
LEMMA MixerTypeStep ==
  ASSUME M!TypeOK,
         \/ \E v \in Torques : M!LoadMessage(v)
         \/ M!PidSub \/ M!SetParameters \/ M!EnableLoadService \/ M!Tick \/ M!Shutdown \/ M!Advance
         \/ UNCHANGED mixerVars
  PROVE  M!TypeOK'
<1> USE BoundsAreNatural
<1>1. CASE \E v \in Torques : M!LoadMessage(v)
  BY <1>1 DEF M!LoadMessage, M!Store, M!TypeOK, M!Inputs, M!Torques, Torques
<1>2. CASE M!EnableLoadService
  <2>1. PICK data \in BOOLEAN : mixer_params' = [mixer_params EXCEPT !.enable_load = data]
    BY <1>2 DEF M!EnableLoadService
  <2>2. mixer_params' \in M!Params
    BY <2>1 DEF M!TypeOK, M!Params
  <2>3. \A p \in M!Positive : mixer_params'[p] = mixer_params[p]
    BY <2>1 DEF M!TypeOK, M!Params, M!Positive
  <2> QED
    BY <1>2, <2>2, <2>3 DEF M!EnableLoadService, M!TypeOK, M!Positive
<1>3. CASE M!Tick
  <2>1. contrib' = [i \in M!Inputs |-> M!Effective(i)]
    BY <1>3 DEF M!Tick
  <2>2. contrib' \in [M!Inputs -> M!Torques]
    BY <2>1, ContributionIsFresh DEF M!Inputs, Torques, M!Torques
  <2>3. M!Plus(contrib'["pid"], contrib'["load"]) \in M!Torques
    BY <2>2, NaNIsNoNumber DEF M!Plus, M!Torques, M!Inputs
  <2>4. mixer_params.hard_clip_nm \in Int
    BY DEF M!TypeOK, M!Params
  <2>5. output' \in M!Torques
    BY <1>3, <2>3, <2>4, NaNIsNoNumber DEF M!Tick, M!Clamp, M!Negate, M!Less, M!Torques
  <2>6. tick_in' \in (-MixerJitter)..MixerPeriod
    BY <1>3 DEF M!Tick, M!TypeOK
  <2> QED
    BY <1>3, <2>2, <2>5, <2>6 DEF M!Tick, M!TypeOK
<1>4. CASE M!Shutdown
  <2>1. mixer_running' \in BOOLEAN /\ UNCHANGED <<tau, age, received, mixer_params, tick_in>>
    BY <1>4 DEF M!Shutdown
  <2>2. contrib' \in [M!Inputs -> M!Torques] /\ output' \in M!Torques
    BY <1>4 DEF M!Shutdown, M!TypeOK, M!Torques
  <2> QED
    BY <2>1, <2>2 DEF M!TypeOK
<1>5. CASE M!Advance
  BY <1>5 DEF M!Advance, M!TypeOK, M!Older
<1>6. CASE UNCHANGED mixerVars
  BY <1>6 DEF mixerVars, M!TypeOK
<1>7. CASE M!PidSub
  BY <1>7, LoopAssumption DEF M!MixerConstants, M!PidSub, M!Store, M!TypeOK, M!Inputs
<1>8. CASE M!SetParameters
  <2>1. PICK req \in MixerRequests :
          /\ M!Acceptable(req)
          /\ mixer_params' =
               [p \in M!Mutable |-> IF p \in DOMAIN req THEN req[p] ELSE mixer_params[p]]
    BY <1>8 DEF M!SetParameters
  <2>2. /\ mixer_params' \in M!Params /\ \A p \in M!Positive : mixer_params'[p] > 0
        /\ mixer_params'.pid_timeout_s <= MaxTimeout
        /\ mixer_params'.load_timeout_s <= MaxTimeout
    BY <2>1, MixerRequestIsLegal
  <2> QED
    BY <1>8, <2>2 DEF M!SetParameters, M!TypeOK
<1> QED
  BY <1>1, <1>2, <1>3, <1>4, <1>5, <1>6, <1>7, <1>8

-------------------------------------------------------------------------------
(***************************************************************************)
(* The topic between them.                                                 *)
(***************************************************************************)
Messages == [torque : Torques, age : 0..MaxDelay]

\* A topic with nothing under way.
LEMMA EmptyQueue == <<>> \in Seq(Messages) /\ Len(<<>>) = 0
BY EmptySeq

\* The queue takes a message and keeps its bound.
LEMMA EnqueueKeepsQueue ==
  ASSUME NEW q \in Seq(Messages), Len(q) <= Depth, NEW m \in Messages
  PROVE  /\ Enqueue(q, m) \in Seq(Messages) /\ Len(Enqueue(q, m)) <= Depth
         /\ \A k \in DOMAIN Enqueue(q, m) :
              Enqueue(q, m)[k] = m \/ \E j \in DOMAIN q : Enqueue(q, m)[k] = q[j]
<1> USE BoundsAreNatural
<1>1. CASE Len(q) < Depth
  BY <1>1 DEF Enqueue
<1>2. CASE ~(Len(q) < Depth)
  <2>1. q # <<>>
    BY <1>2, EmptyQueue
  <2>2. /\ Tail(q) \in Seq(Messages) /\ Len(Tail(q)) = Len(q) - 1
        /\ \A k \in 1..Len(Tail(q)) : Tail(q)[k] = q[k + 1] /\ k + 1 \in DOMAIN q
    BY <2>1
  <2> QED
    BY <1>2, <2>2 DEF Enqueue
<1> QED
  BY <1>1, <1>2

\* Losing or taking the oldest message leaves the others.
LEMMA DequeueKeepsQueue ==
  ASSUME NEW q \in Seq(Messages), Len(q) <= Depth, q # <<>>
  PROVE  /\ Tail(q) \in Seq(Messages) /\ Len(Tail(q)) <= Depth
         /\ Head(q) \in Messages /\ 1 \in DOMAIN q /\ Head(q) = q[1]
         /\ \A k \in DOMAIN Tail(q) : k + 1 \in DOMAIN q /\ Tail(q)[k] = q[k + 1]
BY BoundsAreNatural

-------------------------------------------------------------------------------
\* All variables start with their types.
LEMMA TypeInit == Init => TypeOK
BY LoadTypeInit, MixerTypeInit, BoundsAreNatural, LoopAssumption, EmptyQueue
   DEF Init, TypeOK, Messages

\* Types survive every step of the composition.
LEMMA TypeStep == TypeOK /\ [Next]_vars => TypeOK'
<1> SUFFICES ASSUME TypeOK, [Next]_vars PROVE TypeOK'
  OBVIOUS
<1> USE BoundsAreNatural
<1>0. /\ L!TypeOK /\ M!TypeOK /\ transit \in Seq(Messages) /\ Len(transit) <= Depth
      /\ sample_age \in 0..AgeCap
      /\ estimate \in Readings /\ earlier \subseteq Readings /\ silence \in 0..SilenceCap
  BY DEF TypeOK, Messages
<1>1. L!TypeOK'
  BY <1>0, LoadTypeStep, Zenon
     DEF Next, EncoderEstimate, JointStates, LoadService, LoadTick, LoadStops, Deliver,
         Lose, MixerStep, Advance, vars
<1>2. M!TypeOK'
  <2>1. CASE Deliver
    <3>1. Head(transit).torque \in Torques
      BY <1>0, <2>1, DequeueKeepsQueue DEF Deliver, Messages
    <3> QED
      BY <1>0, <2>1, <3>1, MixerTypeStep DEF Deliver
  <2>2. CASE MixerStep
    BY <1>0, <2>2, MixerTypeStep DEF MixerStep
  <2>3. CASE Advance
    BY <1>0, <2>3, MixerTypeStep DEF Advance
  <2>4. CASE UNCHANGED mixerVars
    BY <1>0, <2>4, MixerTypeStep
  <2> QED
    BY <2>1, <2>2, <2>3, <2>4
       DEF Next, EncoderEstimate, JointStates, LoadService, LoadTick, LoadStops, Lose, vars
<1>3. transit' \in Seq(Messages) /\ Len(transit') <= Depth
  <2>1. CASE LoadTick \/ LoadStops
    <3>1. load' \in Torques
      BY <1>1 DEF L!TypeOK, L!Torques, Torques
    <3>2. [torque |-> load', age |-> 0] \in Messages /\ [torque |-> 0, age |-> 0] \in Messages
      BY <3>1 DEF Messages, Torques
    <3> QED
      BY <1>0, <2>1, <3>2, EnqueueKeepsQueue DEF LoadTick, LoadStops
  <2>2. CASE Deliver \/ Lose
    BY <1>0, <2>2, DequeueKeepsQueue DEF Deliver, Lose
  <2>3. CASE Advance
    <3>1. \A k \in DOMAIN transit : transit[k] \in Messages /\ transit[k].age < MaxDelay
      <4>1. \A k \in DOMAIN transit : transit[k] \in Messages
        BY <1>0, ElementOfSeq
      <4> QED
        BY <2>3, <4>1 DEF Advance
    <3>2. \A k \in DOMAIN transit : [transit[k] EXCEPT !.age = @ + 1] \in Messages
      BY <3>1 DEF Messages
    <3>3. transit' = [k \in DOMAIN transit |-> [transit[k] EXCEPT !.age = @ + 1]]
      BY <2>3 DEF Advance
    <3>4. DOMAIN transit = 1..Len(transit) /\ Len(transit) \in Nat
      BY <1>0
    <3>5. transit' \in [1..Len(transit) -> Messages]
      BY <3>2, <3>3, <3>4
    <3>6. transit' \in Seq(Messages)
      BY <3>4, <3>5, SeqDef
    <3>7. Len(transit') = Len(transit)
      BY <3>4, <3>5, <3>6
    <3> QED
      BY <1>0, <3>6, <3>7
  <2>4. CASE UNCHANGED transit
    BY <1>0, <2>4
  <2> QED
    BY <2>1, <2>2, <2>3, <2>4
       DEF Next, EncoderEstimate, JointStates, LoadService, MixerStep, vars
<1>4. sample_age' \in 0..AgeCap
  <2>1. CASE JointStates
    <3>1. sample_age' = Least(hw_age', AgeCap) /\ hw_age' \in Nat
      BY <1>1, <2>1 DEF JointStates, L!TypeOK
    <3> QED
      BY <3>1 DEF Least
  <2>2. CASE Advance
    <3>1. sample_age' = Older(sample_age, AgeCap)
      BY <2>2 DEF Advance
    <3> QED
      BY <1>0, <3>1 DEF Older
  <2>3. CASE UNCHANGED sample_age
    BY <1>0, <2>3
  <2> QED
    BY <2>1, <2>2, <2>3
       DEF Next, EncoderEstimate, LoadService, LoadTick, LoadStops, Deliver, Lose,
           MixerStep, vars
<1>5. estimate' \in Readings /\ earlier' \subseteq Readings /\ silence' \in 0..SilenceCap
  <2>1. CASE EncoderEstimate
    BY <1>0, <2>1 DEF EncoderEstimate
  <2>2. CASE Advance
    <3>1. /\ silence' = IF estimate = NoEstimate THEN 0 ELSE Older(silence, SilenceCap)
          /\ UNCHANGED <<estimate, earlier>>
      BY <2>2 DEF Advance
    <3> QED
      BY <1>0, <3>1 DEF Older
  <2>3. CASE UNCHANGED busVars
    BY <1>0, <2>3 DEF busVars
  <2> QED
    BY <2>1, <2>2, <2>3
       DEF Next, JointStates, LoadService, LoadTick, LoadStops, Deliver, Lose,
           MixerStep, vars
<1> QED
  BY <1>1, <1>2, <1>3, <1>4, <1>5 DEF TypeOK, Messages

\* Both nodes keep their types and the topic its depth and its delay, whatever
\* is lost, pushed out or stopped: see TypeOK.
THEOREM TypeCorrect == Spec => []TypeOK
<1> QED
  BY TypeInit, TypeStep, PTL DEF Spec

-------------------------------------------------------------------------------
(***************************************************************************)
(* The inductive invariant.  What the load node takes for the age of its   *)
(* sample is the age of the newest sample, up to the two caps; what is     *)
(* under way was published for a sample still young enough (that is        *)
(* NothingOlderUnderWay); and what stands in the motor command is no older *)
(* than all the delays on the way plus the time since the mixer's tick.    *)
(***************************************************************************)
Synced ==
  load_running =>
    /\ Least(hw_age, AgeCap) <= sample_age
    /\ hw_age < L!AgeCap => sample_age <= hw_age

Standing ==
  contrib["load"] # 0 =>
    sample_age <= MaxFeedback + MaxDelay + MaxTimeout + MixerPeriod - tick_in

Inv == TypeOK /\ Synced /\ NothingOlderUnderWay /\ Standing

\* A unit of time makes an age older by one, up to its cap.
LEMMA OlderByOne ==
  ASSUME NEW n \in Nat, NEW cap \in Nat, n <= cap
  PROVE  /\ Older(n, cap) \in Nat /\ Older(n, cap) <= cap /\ Older(n, cap) <= n + 1
         /\ Older(n, cap) = IF n < cap THEN n + 1 ELSE n
         /\ M!Older(n, cap) = Older(n, cap) /\ L!Older(n, cap) = Older(n, cap)
BY DEF Older, M!Older, L!Older

\* The numbers the invariant compares.
LEMMA AgesAreNumbers ==
  ASSUME TypeOK
  PROVE  /\ sample_age \in Nat /\ sample_age <= AgeCap
         /\ hw_age \in Nat /\ hw_age <= L!AgeCap
         /\ age \in [{"pid", "load"} -> 0..M!AgeCap]
         /\ tick_in \in Int /\ -MixerJitter <= tick_in /\ tick_in <= MixerPeriod
         /\ transit \in Seq(Messages) /\ Len(transit) <= Depth
BY BoundsAreNatural DEF TypeOK, L!TypeOK, M!TypeOK, M!Inputs, Messages

\* The age the load node counts and the sample's own agree, up to their caps.
LEMMA SyncedStep ==
  ASSUME TypeOK, Synced, [Next]_vars
  PROVE  Synced'
<1> USE BoundsAreNatural
<1>num. /\ sample_age \in Nat /\ sample_age <= AgeCap
      /\ hw_age \in Nat /\ hw_age <= L!AgeCap
      /\ age \in [{"pid", "load"} -> 0..M!AgeCap]
      /\ tick_in \in Int /\ -MixerJitter <= tick_in /\ tick_in <= MixerPeriod
      /\ transit \in Seq(Messages) /\ Len(transit) <= Depth
  BY AgesAreNumbers
<1> USE <1>num
<1>1. CASE JointStates
  BY <1>1 DEF JointStates, L!JointStates, Synced, Least
<1>2. CASE Advance
  <2>1. CASE load_running
    <3>1. /\ sample_age' = Older(sample_age, AgeCap) /\ hw_age' = L!Older(hw_age, L!AgeCap)
      BY <1>2, <2>1 DEF Advance, L!Advance
    <3>2. /\ Least(hw_age, AgeCap) <= sample_age
          /\ hw_age < L!AgeCap => sample_age <= hw_age
      BY <2>1 DEF Synced
    <3>3. Least(hw_age', AgeCap) <= sample_age'
      BY <3>1, <3>2 DEF Least, Older, L!Older
    <3>4. hw_age' < L!AgeCap => sample_age' <= hw_age'
      BY <3>1, <3>2 DEF Older, L!Older
    <3> QED
      BY <3>3, <3>4 DEF Synced
  <2>2. CASE ~load_running
    BY <1>2, <2>2 DEF Advance, loadVars, Synced
  <2> QED
    BY <2>1, <2>2
<1>3. CASE LoadStops
  BY <1>3 DEF LoadStops, L!Shutdown, Synced
<1>4. CASE EncoderEstimate \/ LoadService \/ LoadTick \/ Deliver \/ Lose \/ MixerStep
           \/ UNCHANGED vars
  <2>1. UNCHANGED <<hw_age, load_running, sample_age>>
    BY <1>4 DEF EncoderEstimate, LoadService, LoadTick, Deliver, Lose, MixerStep,
                L!EngageService, L!EnableHydroService, L!SetParameters, L!Tick, L!inputs,
                loadVars, vars
  <2> QED
    BY <2>1 DEF Synced
<1> QED
  BY <1>1, <1>2, <1>3, <1>4 DEF Next

\* A sample that arrives is no older than the newest one.
LEMMA SampleIsNewer ==
  ASSUME TypeOK, Synced, JointStates
  PROVE  sample_age' \in 0..sample_age
BY BoundsAreNatural, AgesAreNumbers
   DEF JointStates, L!JointStates, L!Spinning, Synced, Least

\* A torque published now was computed from a sample within the timeout.
LEMMA PublishedIsFresh ==
  ASSUME TypeOK, Synced, L!Tick, load' # 0
  PROVE  sample_age <= MaxFeedback
BY BoundsAreNatural, AgesAreNumbers, LoadIsFresh DEF TypeOK, Synced, L!Tick, L!Spinning

\* No step makes a load older than its place on the way allows.
LEMMA UnderWayStep ==
  ASSUME TypeOK, Synced, NothingOlderUnderWay, [Next]_vars
  PROVE  NothingOlderUnderWay'
<1> USE BoundsAreNatural
<1>num. /\ sample_age \in Nat /\ sample_age <= AgeCap
      /\ hw_age \in Nat /\ hw_age <= L!AgeCap
      /\ age \in [{"pid", "load"} -> 0..M!AgeCap]
      /\ tick_in \in Int /\ -MixerJitter <= tick_in /\ tick_in <= MixerPeriod
      /\ transit \in Seq(Messages) /\ Len(transit) <= Depth
  BY AgesAreNumbers
<1> USE <1>num
<1> DEFINE Young(m, s) == m.torque # 0 => s <= MaxFeedback + m.age
<1>0. \A k \in DOMAIN transit : transit[k] \in Messages /\ Young(transit[k], sample_age)
  <2>1. DOMAIN transit = 1..Len(transit)
    OBVIOUS
  <2>2. \A k \in DOMAIN transit : transit[k] \in Messages
    BY <2>1, ElementOfSeq
  <2> QED
    BY <2>2 DEF NothingOlderUnderWay
<1>1. \A m \in Messages, s \in 0..sample_age : Young(m, sample_age) => Young(m, s)
  BY DEF Messages
<1>2. CASE JointStates
  <2>1. sample_age' \in 0..sample_age /\ UNCHANGED <<transit, tau, age>>
    BY <1>2, SampleIsNewer DEF JointStates, mixerVars
  <2>2. \A k \in DOMAIN transit' : Young(transit'[k], sample_age')
    BY <1>0, <1>1, <2>1
  <2>3. tau'["load"] # 0 => sample_age' <= MaxFeedback + MaxDelay + age'["load"]
    <3>1. tau["load"] # 0 => sample_age <= MaxFeedback + MaxDelay + age["load"]
      BY DEF NothingOlderUnderWay
    <3>2. age["load"] \in Nat /\ sample_age \in Nat
      OBVIOUS
    <3>3. sample_age' \in Nat /\ sample_age' <= sample_age /\ tau' = tau /\ age' = age
      BY <2>1
    <3> HIDE <1>num DEF Young
    <3> QED
      BY <3>1, <3>2, <3>3
  <2> QED
    BY <2>2, <2>3 DEF NothingOlderUnderWay
<1>3. CASE LoadTick \/ LoadStops
  <2>1. UNCHANGED <<sample_age, tau, age>>
    BY <1>3 DEF LoadTick, LoadStops, mixerVars
  <2>2. ASSUME NEW m \in Messages, Young(m, sample_age), transit' = Enqueue(transit, m)
        PROVE  NothingOlderUnderWay'
    <3>1. \A k \in DOMAIN transit' : Young(transit'[k], sample_age)
      <4>1. \A k \in DOMAIN transit' :
              transit'[k] = m \/ \E j \in DOMAIN transit : transit'[k] = transit[j]
        BY <2>2, EnqueueKeepsQueue
      <4> HIDE DEF Young
      <4> QED
        BY <1>0, <2>2, <4>1
    <3> QED
      BY <2>1, <3>1 DEF NothingOlderUnderWay
  <2>3. CASE LoadTick
    <3>1. load' \in Torques
      BY <2>3, TypeStep DEF LoadTick, TypeOK, L!TypeOK, L!Torques, Torques
    <3>2. [torque |-> load', age |-> 0] \in Messages
      BY <3>1 DEF Messages
    <3>3. Young([torque |-> load', age |-> 0], sample_age)
      BY <2>3, PublishedIsFresh DEF LoadTick
    <3> QED
      BY <2>2, <2>3, <3>2, <3>3 DEF LoadTick
  <2>4. CASE LoadStops /\ transit' = Enqueue(transit, [torque |-> 0, age |-> 0])
    BY <2>2, <2>4 DEF Messages, Torques
  <2>5. CASE UNCHANGED transit
    BY <2>1, <2>5 DEF NothingOlderUnderWay
  <2> QED
    BY <1>3, <2>3, <2>4, <2>5 DEF LoadStops
<1>4. CASE Deliver \/ Lose
  <2>1. /\ transit # <<>> /\ transit' = Tail(transit) /\ sample_age' = sample_age
    BY <1>4 DEF Deliver, Lose
  <2>2. \A k \in DOMAIN transit' : Young(transit'[k], sample_age)
    <3>1. \A k \in DOMAIN transit' : k + 1 \in DOMAIN transit /\ transit'[k] = transit[k + 1]
      BY <2>1, DequeueKeepsQueue
    <3> HIDE DEF Young
    <3> QED
      BY <1>0, <3>1
  <2>3. Head(transit) \in Messages /\ Young(Head(transit), sample_age)
    BY <1>0, <2>1, DequeueKeepsQueue
  <2>4. tau'["load"] # 0 => sample_age <= MaxFeedback + MaxDelay + age'["load"]
    <3>1. CASE Deliver
      <4>1. tau'["load"] = Head(transit).torque /\ age'["load"] = 0
        BY <3>1 DEF Deliver, M!LoadMessage, M!Store, M!TypeOK, TypeOK, M!Inputs
      <4> QED
        BY <2>3, <4>1 DEF Messages
    <3>2. CASE Lose
      BY <3>2 DEF Lose, mixerVars, NothingOlderUnderWay
    <3> QED
      BY <1>4, <3>1, <3>2
  <2> QED
    BY <2>1, <2>2, <2>4 DEF NothingOlderUnderWay
<1>5. CASE Advance
  <2>1. /\ tau' = tau /\ age'["load"] = M!Older(age["load"], M!AgeCap)
        /\ sample_age' = Older(sample_age, AgeCap)
        /\ transit' = [k \in DOMAIN transit |-> [transit[k] EXCEPT !.age = @ + 1]]
    BY <1>5 DEF Advance, M!Advance, M!Inputs
  <2>2. ASSUME NEW k \in DOMAIN transit, transit[k].torque # 0
        PROVE  sample_age' <= MaxFeedback + transit[k].age + 1
    <3>1. transit[k].age \in Nat
      BY <1>0 DEF Messages
    <3>2. sample_age <= MaxFeedback + transit[k].age
      BY <1>0, <2>2
    <3>3. sample_age \in Nat /\ sample_age' \in Nat /\ sample_age' <= sample_age + 1
      BY <2>1, OlderByOne
    <3> HIDE <1>num DEF Young
    <3> QED
      BY <3>1, <3>2, <3>3
  <2>3. \A k \in DOMAIN transit :
          transit'[k].torque = transit[k].torque /\ transit'[k].age = transit[k].age + 1
    BY <1>0, <2>1 DEF Messages
  <2>4. tau["load"] # 0 => sample_age' <= MaxFeedback + MaxDelay + age'["load"]
    <3>1. age["load"] \in Nat /\ age["load"] <= M!AgeCap
      OBVIOUS
    <3>2. tau["load"] # 0 => sample_age <= MaxFeedback + MaxDelay + age["load"]
      BY DEF NothingOlderUnderWay
    <3>3. /\ sample_age' = IF sample_age < AgeCap THEN sample_age + 1 ELSE sample_age
          /\ age'["load"] = IF age["load"] < M!AgeCap THEN age["load"] + 1 ELSE age["load"]
      <4>1. sample_age' = IF sample_age < AgeCap THEN sample_age + 1 ELSE sample_age
        BY <2>1, OlderByOne
      <4>2. M!Older(age["load"], M!AgeCap)
                 = IF age["load"] < M!AgeCap THEN age["load"] + 1 ELSE age["load"]
        BY <3>1, OlderByOne
      <4> QED
        BY <2>1, <4>1, <4>2, Zenon
    <3>4. CASE age["load"] < M!AgeCap
      <4>1. /\ age'["load"] = age["load"] + 1
            /\ sample_age' \in Nat /\ sample_age' <= sample_age + 1
        BY <3>1, <3>3, <3>4
      <4> QED
        BY <3>1, <3>2, <4>1
    <3>5. CASE age["load"] = M!AgeCap
      <4>1. age'["load"] = M!AgeCap /\ sample_age' <= AgeCap
        BY <3>1, <3>3, <3>5
      <4> QED
        BY <4>1
    <3> QED
      BY <3>1, <3>4, <3>5
  <2>5. DOMAIN transit' = DOMAIN transit
    BY <2>1
  <2>6. ASSUME NEW k \in DOMAIN transit, transit'[k].torque # 0
        PROVE  sample_age' <= MaxFeedback + transit'[k].age
    <3>1. transit[k].age \in Nat
      BY <1>0 DEF Messages
    <3>2. sample_age' <= MaxFeedback + transit[k].age + 1
      BY <2>2, <2>3, <2>6
    <3>3. sample_age' \in Nat
      BY <2>1, OlderByOne
    <3>4. transit'[k].age = transit[k].age + 1
      BY <2>3
    <3>5. sample_age' <= MaxFeedback + (transit[k].age + 1)
      BY <3>1, <3>2, <3>3
    <3> QED
      BY <3>4, <3>5, Zenon
  <2> QED
    BY <2>1, <2>4, <2>5, <2>6 DEF NothingOlderUnderWay
<1>6. CASE EncoderEstimate \/ LoadService \/ MixerStep \/ UNCHANGED vars
  <2>1. UNCHANGED <<transit, sample_age>>
    BY <1>6 DEF EncoderEstimate, LoadService, MixerStep, vars
  <2>2. tau'["load"] = tau["load"] /\ age'["load"] = age["load"]
    BY <1>6 DEF EncoderEstimate, LoadService, MixerStep, M!PidSub, M!Store, M!SetParameters,
                M!EnableLoadService, M!Tick, M!Shutdown, M!TypeOK, TypeOK, M!Inputs, mixerVars, vars
  <2> QED
    BY <2>1, <2>2 DEF NothingOlderUnderWay
<1> QED
  BY <1>2, <1>3, <1>4, <1>5, <1>6 DEF Next

\* A load the mixer lets into the command now comes from a young sample.
LEMMA ContributedIsFresh ==
  ASSUME TypeOK, NothingOlderUnderWay, M!Tick
  PROVE  /\ contrib'["load"] \in Torques
         /\ contrib'["load"] # 0 => sample_age <= MaxFeedback + MaxDelay + MaxTimeout
<1>1. contrib'["load"] = M!Effective("load")
  BY DEF M!Tick, M!Inputs
<1>2. age["load"] \in Nat
  BY AgesAreNumbers, BoundsAreNatural
<1>3. M!Effective("load") # 0 => age["load"] <= MaxTimeout /\ tau["load"] # 0
  BY ContributionIsFresh DEF TypeOK
<1>4. M!Effective("load") \in Torques
  BY ContributionIsFresh DEF TypeOK
<1>5. tau["load"] # 0 => sample_age <= MaxFeedback + MaxDelay + age["load"]
  BY DEF NothingOlderUnderWay
<1>6. M!Effective("load") # 0 => sample_age <= MaxFeedback + MaxDelay + MaxTimeout
  <2>1. sample_age \in Nat
    BY AgesAreNumbers
  <2>2. MaxFeedback \in Nat /\ MaxDelay \in Nat /\ MaxTimeout \in Nat
    BY BoundsAreNatural
  <2> QED
    BY <1>2, <1>3, <1>5, <2>1, <2>2
<1> QED
  BY <1>1, <1>4, <1>6

\* A load that the mixer took in time stands no longer than until its next tick.
LEMMA StandingStep ==
  ASSUME TypeOK, Synced, NothingOlderUnderWay, Standing, [Next]_vars
  PROVE  Standing'
<1> USE BoundsAreNatural
<1>num. /\ sample_age \in Nat /\ sample_age <= AgeCap
      /\ hw_age \in Nat /\ hw_age <= L!AgeCap
      /\ age \in [{"pid", "load"} -> 0..M!AgeCap]
      /\ tick_in \in Int /\ -MixerJitter <= tick_in /\ tick_in <= MixerPeriod
      /\ transit \in Seq(Messages) /\ Len(transit) <= Depth
  BY AgesAreNumbers
<1> USE <1>num
<1>1. CASE JointStates
  <2>1. sample_age' \in 0..sample_age /\ UNCHANGED <<contrib, tick_in>>
    BY <1>1, SampleIsNewer DEF JointStates, mixerVars
  <2> QED
    BY <2>1 DEF Standing
<1>2. CASE MixerStep /\ M!Tick
  <2>1. contrib'["load"] # 0 => sample_age <= MaxFeedback + MaxDelay + MaxTimeout
    BY <1>2, ContributedIsFresh
  <2>2. sample_age' = sample_age /\ tick_in <= 0 /\ tick_in' = tick_in + MixerPeriod
    BY <1>2 DEF MixerStep, M!Tick
  <2> QED
    BY <2>1, <2>2 DEF Standing
<1>3. CASE MixerStep /\ M!Shutdown
  BY <1>3 DEF MixerStep, M!Shutdown, M!Inputs, Standing
<1>4. CASE Advance
  <2>1. /\ contrib' = contrib /\ tick_in' = tick_in - 1
        /\ sample_age' = Older(sample_age, AgeCap)
    BY <1>4 DEF Advance, M!Advance
  <2>2. sample_age' <= sample_age + 1 /\ sample_age' \in Nat
    BY <2>1, OlderByOne
  <2>3. contrib["load"] # 0 =>
          sample_age <= MaxFeedback + MaxDelay + MaxTimeout + MixerPeriod - tick_in
    BY DEF Standing
  <2> QED
    BY <2>1, <2>2, <2>3 DEF Standing
<1>5. CASE \/ EncoderEstimate \/ LoadService \/ LoadTick \/ LoadStops \/ Deliver \/ Lose
           \/ (MixerStep /\ (M!PidSub \/ M!EnableLoadService \/ M!SetParameters))
           \/ UNCHANGED vars
  <2>1. UNCHANGED <<contrib, tick_in, sample_age>>
    BY <1>5 DEF EncoderEstimate, LoadService, LoadTick, LoadStops, Deliver, Lose, MixerStep,
                M!LoadMessage, M!PidSub, M!EnableLoadService, M!SetParameters, mixerVars, vars
  <2> QED
    BY <2>1 DEF Standing
<1> QED
  BY <1>1, <1>2, <1>3, <1>4, <1>5 DEF Next, MixerStep

\* The inductive invariant of the whole path: types, ages, and the age a load may
\* have at every point between the shaft's sample and the motor command.
THEOREM InvInvariant == Spec => []Inv
<1>1. Init => Inv
  <2> SUFFICES ASSUME Init PROVE Inv
    OBVIOUS
  <2>1. TypeOK
    BY TypeInit
  <2>2. /\ sample_age = AgeCap /\ hw_age = L!AgeCap /\ transit = <<>>
        /\ tau["load"] = 0 /\ contrib["load"] = 0
    BY DEF Init, L!Init, M!Init, M!Inputs
  <2> QED
    BY <2>1, <2>2, BoundsAreNatural, AgesAreNumbers, EmptyQueue
       DEF Inv, Synced, Least, NothingOlderUnderWay, Standing
<1>2. Inv /\ [Next]_vars => Inv'
  BY TypeStep, SyncedStep, UnderWayStep, StandingStep DEF Inv
<1> QED
  BY <1>1, <1>2, PTL DEF Spec

\* No torque is under way, or held by the mixer, for a sample older than the
\* delays up to that point allow: see NothingOlderUnderWay.
THEOREM NothingOlderEver == Spec => []NothingOlderUnderWay
<1>1. Inv => NothingOlderUnderWay
  BY DEF Inv
<1> QED
  BY <1>1, InvInvariant, PTL

-------------------------------------------------------------------------------
\* A younger sample has more life in it.
LEMMA YoungerLivesLonger ==
  ASSUME NEW cap \in Nat, NEW old \in Nat, NEW new \in 0..old
  PROVE  cap - new \in (cap - old)..cap
OBVIOUS

\* One step of the whole path is a step of the one switch, or none.
LEMMA EndToEndStep ==
  ASSUME Inv, Inv', [Next]_vars
  PROVE  [EndToEndSwitch!Next]_<<contrib["load"], AgeCap - sample_age>>
<1> USE BoundsAreNatural
<1>num. /\ sample_age \in Nat /\ sample_age <= AgeCap
      /\ hw_age \in Nat /\ hw_age <= L!AgeCap
      /\ age \in [{"pid", "load"} -> 0..M!AgeCap]
      /\ tick_in \in Int /\ -MixerJitter <= tick_in /\ tick_in <= MixerPeriod
      /\ transit \in Seq(Messages) /\ Len(transit) <= Depth
  BY AgesAreNumbers DEF Inv
<1> USE <1>num
<1>0. TypeOK /\ Synced /\ NothingOlderUnderWay /\ Standing' /\ TypeOK'
  BY DEF Inv
<1>1. CASE JointStates
  <2>1. sample_age' \in 0..sample_age /\ UNCHANGED contrib
    BY <1>0, <1>1, SampleIsNewer DEF JointStates, mixerVars
  <2>2. AgeCap - sample_age' \in (AgeCap - sample_age)..AgeCap
    BY <2>1, YoungerLivesLonger
  <2> QED
    BY <2>1, <2>2 DEF EndToEndSwitch!Next, EndToEndSwitch!Refresh
<1>2. CASE MixerStep /\ M!Tick
  <2>1. /\ contrib'["load"] \in Torques
        /\ contrib'["load"] # 0 => sample_age <= MaxFeedback + MaxDelay + MaxTimeout
    BY <1>0, <1>2, ContributedIsFresh
  <2>2. sample_age' = sample_age
    BY <1>2 DEF MixerStep
  <2> QED
    BY <1>0, <2>1, <2>2 DEF EndToEndSwitch!Next, EndToEndSwitch!Decide
<1>3. CASE MixerStep /\ M!Shutdown
  <2>1. sample_age' = sample_age /\ (contrib'["load"] = 0 \/ contrib' = contrib)
    BY <1>3 DEF MixerStep, M!Shutdown, M!Inputs
  <2> QED
    BY <1>0, <2>1 DEF EndToEndSwitch!Next, EndToEndSwitch!Decide, Torques
<1>4. CASE Advance
  <2>1. contrib' = contrib /\ sample_age' = Older(sample_age, AgeCap)
    BY <1>4 DEF Advance, M!Advance
  <2>2. tick_in' \in Int /\ -MixerJitter <= tick_in'
    BY <1>0 DEF TypeOK, M!TypeOK
  <2>3. sample_age' = AgeCap => contrib["load"] = 0
    BY <1>0, <2>1, <2>2 DEF Standing
  <2> QED
    BY <1>0, <2>1, <2>3 DEF EndToEndSwitch!Next, EndToEndSwitch!Elapse, Older
<1>5. CASE \/ EncoderEstimate \/ LoadService \/ LoadTick \/ LoadStops \/ Deliver \/ Lose
           \/ (MixerStep /\ (M!PidSub \/ M!EnableLoadService \/ M!SetParameters))
           \/ UNCHANGED vars
  BY <1>5 DEF EncoderEstimate, LoadService, LoadTick, LoadStops, Deliver, Lose, MixerStep,
              M!LoadMessage, M!PidSub, M!EnableLoadService, M!SetParameters, mixerVars, vars
<1> QED
  BY <1>1, <1>2, <1>3, <1>4, <1>5 DEF Next, MixerStep

\* The two watchdogs and the lossy topic are one dead man's switch between the
\* shaft's samples and the motor command: see LoadPathIsDeadMan.
THEOREM LoadPathImplements == Spec => LoadPathIsDeadMan
<1>1. Init => EndToEndSwitch!Init
  BY BoundsAreNatural DEF Init, M!Init, M!Inputs, EndToEndSwitch!Init
<1>2. Inv /\ Inv' /\ [Next]_vars
        => [EndToEndSwitch!Next]_<<contrib["load"], AgeCap - sample_age>>
  BY EndToEndStep
<1> QED
  BY <1>1, <1>2, InvInvariant, PTL DEF Spec, LoadPathIsDeadMan, EndToEndSwitch!Spec

-------------------------------------------------------------------------------
(***************************************************************************)
(* What implementing a dead man's switch buys, for any commands and life.  *)
(***************************************************************************)
CONSTANTS Commands, Life
VARIABLES command, life

Switch == INSTANCE DeadMan

SwitchInv == life \in 0..Life /\ Switch!Released

\* When the life of its input has run out, the command is 0: what a component
\* gains by implementing DeadMan.
THEOREM SwitchReleases ==
  ASSUME Life \in Nat
  PROVE  Switch!Spec => []Switch!Released
<1>1. Switch!Init => SwitchInv
  BY DEF Switch!Init, SwitchInv, Switch!Released
<1>2. SwitchInv /\ [Switch!Next]_<<command, life>> => SwitchInv'
  BY DEF SwitchInv, Switch!Released, Switch!Next, Switch!Refresh, Switch!Decide, Switch!Elapse
<1>3. SwitchInv => Switch!Released
  BY DEF SwitchInv
<1> QED
  BY <1>1, <1>2, <1>3, PTL DEF Switch!Spec

\* On the load path: once the newest sample of the shaft is older than both
\* watchdogs and the topic between them allow, no load is in the motor command.
THEOREM LoadPathReleases == Spec => []EndToEndSwitch!Released
<1> DEFINE PathInv == AgeCap - sample_age \in 0..AgeCap /\ EndToEndSwitch!Released
<1>1. EndToEndSwitch!Init => PathInv
  BY BoundsAreNatural DEF EndToEndSwitch!Init, EndToEndSwitch!Released
<1>2. PathInv /\ [EndToEndSwitch!Next]_<<contrib["load"], AgeCap - sample_age>> => PathInv'
  BY BoundsAreNatural
     DEF EndToEndSwitch!Released, EndToEndSwitch!Next, EndToEndSwitch!Refresh,
         EndToEndSwitch!Decide, EndToEndSwitch!Elapse
<1>3. PathInv => EndToEndSwitch!Released
  OBVIOUS
<1> QED
  BY <1>1, <1>2, <1>3, LoadPathImplements, PTL DEF LoadPathIsDeadMan, EndToEndSwitch!Spec

-------------------------------------------------------------------------------
(***************************************************************************)
(* The engage gate end to end.  A history variable counts how long the     *)
(* gate has been closed: since ~/engage_hil was last called, as every call *)
(* restarts the ramp, or since the load node stopped if it was open then.  *)
(* What the drive has measured must give a finite torque, as for           *)
(* ShutGateStaysSilent of LoadTorque.  What it has not measured yet does   *)
(* not: a NaN passes a ramp factor of 0, so the time is not counted while  *)
(* the load node holds a sample from before the first frame.               *)
(***************************************************************************)
FiniteSources ==
  \A r \in Readings \ {NoEstimate} : StubTorque[r] \subseteq Int /\ HydroTorque[r] \subseteq Int

VARIABLE closed_for    \* history: how long the gate has been closed

\* The gate is open, a call of ~/engage_hil has just restarted its ramp, or the
\* ramp is applied to what may be a NaN.
GateUsed == load_running /\ (hil_engaged \/ ramp_age = 0 \/ reading = NoEstimate)

GateNext ==
  /\ Next
  /\ closed_for' = IF GateUsed' THEN 0
                   ELSE IF Advance THEN closed_for + 1 ELSE closed_for

gateVars == <<vars, closed_for>>

GateSpec == Init /\ closed_for = 0 /\ [][GateNext]_gateVars

\* The largest ramp, and then what a message needs from topic to motor.
GateLife == MaxRamp + MaxDelay + MaxTimeout + MixerPeriod + MixerJitter

\* While the load node runs, its ramp knows how long the gate has been closed,
\* and the time is counted only for a shaft that was measured.
GateKnown ==
  load_running =>
    /\ hil_engaged \/ reading = NoEstimate => closed_for = 0
    /\ ramp_age < L!RampCap => closed_for <= ramp_age

\* How long the gate may have been closed when a load is at each point of the way.
GateUnderWay ==
  /\ \A k \in DOMAIN transit :
       transit[k].torque # 0 => closed_for <= MaxRamp + transit[k].age
  /\ tau["load"] # 0 /\ age["load"] < M!AgeCap
       => closed_for <= MaxRamp + MaxDelay + age["load"]

GateStanding ==
  contrib["load"] # 0
    => closed_for <= MaxRamp + MaxDelay + MaxTimeout + MixerPeriod - tick_in

GateInv == TypeOK /\ closed_for \in Nat /\ GateKnown /\ GateUnderWay /\ GateStanding

\* A finite torque through a ramp that is over comes out as 0.
LEMMA EndOfRampIsZero ==
  ASSUME FiniteSources, L!TypeOK, ~hil_engaged, ramp_age >= load_params.hil_ramp_time_s,
         reading # NoEstimate, NEW v \in L!Targets
  PROVE  L!Ramped(v) = 0
<1>1. load_params.hil_ramp_time_s \in Nat /\ ramp_age \in Nat
  BY BoundsAreNatural DEF L!TypeOK, L!Params
<1>2. L!Elapsed = load_params.hil_ramp_time_s
  BY <1>1 DEF L!Elapsed, L!Least
<1>3. v \in Int
  <2>1. /\ load_params.hil_torque_clip_nm \in Int /\ load_params.hydro_torque_clip_nm \in Int
        /\ StubTorque[reading] \subseteq Int /\ HydroTorque[reading] \subseteq Int
    BY BoundsAreNatural DEF L!TypeOK, L!Params, FiniteSources
  <2> QED
    BY <2>1 DEF L!Targets, L!Clamp
<1>4. load_params.hil_ramp_time_s # 0 => (v * 0) \div load_params.hil_ramp_time_s = 0
  BY <1>1, <1>3
<1> QED
  BY <1>1, <1>2, <1>3, <1>4, NaNIsNoNumber DEF L!Ramped, L!Scale

\* A load that is published now was let through by a gate open or ramping down.
LEMMA PublishedThroughGate ==
  ASSUME FiniteSources, TypeOK, closed_for \in Nat, GateKnown, L!Tick, load' # 0
  PROVE  closed_for <= MaxRamp
<1> USE BoundsAreNatural
<1>1. CASE hil_engaged \/ reading = NoEstimate
  BY <1>1 DEF GateKnown, L!Tick, L!Spinning
<1>2. CASE ~hil_engaged /\ reading # NoEstimate
  <2>1. PICK v \in L!Targets : load' = L!Ramped(v)
    BY DEF L!Tick
  <2>2. load_params.hil_ramp_time_s \in 0..MaxRamp /\ ramp_age \in Nat
    BY DEF TypeOK, L!TypeOK, L!Params
  <2>3. ramp_age < load_params.hil_ramp_time_s
    BY <1>2, <2>1, <2>2, EndOfRampIsZero DEF TypeOK
  <2>4. closed_for <= ramp_age
    BY <2>2, <2>3 DEF GateKnown, L!Tick, L!Spinning, L!RampCap
  <2> QED
    BY <2>2, <2>3, <2>4
<1> QED
  BY <1>1, <1>2

\* The time counted is a number, and no longer than it was but for Advance.
LEMMA ClosedTime ==
  ASSUME closed_for \in Nat, GateNext
  PROVE  /\ closed_for' \in Nat /\ closed_for' <= closed_for + 1
         /\ ~Advance => closed_for' <= closed_for
         /\ GateUsed' => closed_for' = 0
BY DEF GateNext

\* The load node's ramp keeps knowing.
LEMMA GateKnownStep ==
  ASSUME GateInv, GateNext
  PROVE  GateKnown'
<1> USE BoundsAreNatural
<1>0. /\ closed_for \in Nat /\ closed_for' \in Nat /\ closed_for' <= closed_for + 1
      /\ ~Advance => closed_for' <= closed_for
      /\ GateUsed' => closed_for' = 0
      /\ ramp_age \in Nat /\ ramp_age <= L!RampCap
  BY ClosedTime DEF GateInv, TypeOK, L!TypeOK
<1>1. CASE LoadService /\ L!EngageService
  BY <1>0, <1>1 DEF GateInv, GateKnown, GateUsed, L!EngageService, L!inputs
<1>2. CASE Advance /\ load_running
  <2>1. /\ ramp_age' = L!Older(ramp_age, L!RampCap)
        /\ UNCHANGED <<hil_engaged, reading, load_running>>
    BY <1>2 DEF Advance, L!Advance
  <2> QED
    BY <1>0, <1>2, <2>1 DEF GateInv, GateKnown, GateUsed, L!Older
<1>3. CASE Advance /\ ~load_running
  BY <1>3 DEF Advance, loadVars, GateKnown
<1>4. CASE LoadStops
  BY <1>4 DEF LoadStops, L!Shutdown, GateKnown
<1>5. CASE /\ ~Advance
           /\ \/ EncoderEstimate \/ LoadTick \/ Deliver \/ Lose \/ MixerStep
              \/ (LoadService /\ (L!EnableHydroService \/ L!SetParameters))
  <2>1. UNCHANGED <<hil_engaged, ramp_age, reading, load_running>>
    BY <1>5 DEF EncoderEstimate, LoadService, LoadTick, Deliver, Lose, MixerStep,
                L!EnableHydroService, L!SetParameters, L!Tick, L!gates, L!inputs, loadVars
  <2> QED
    BY <1>0, <1>5, <2>1 DEF GateInv, GateKnown, GateUsed
<1>6. CASE ~Advance /\ JointStates
  <2>1. UNCHANGED <<hil_engaged, ramp_age, load_running>>
    BY <1>6 DEF JointStates, L!JointStates, L!gates
  <2> QED
    BY <1>0, <1>6, <2>1 DEF GateInv, GateKnown, GateUsed
<1> QED
  BY <1>1, <1>2, <1>3, <1>4, <1>5, <1>6 DEF GateNext, Next, LoadService

\* No step leaves a load under way for which the gate has been closed too long.
LEMMA GateUnderWayStep ==
  ASSUME FiniteSources, GateInv, GateNext
  PROVE  GateUnderWay'
<1> USE BoundsAreNatural
<1>num. /\ age \in [{"pid", "load"} -> 0..M!AgeCap]
        /\ transit \in Seq(Messages) /\ Len(transit) <= Depth
        /\ ~Advance => closed_for' <= closed_for
  BY AgesAreNumbers, ClosedTime DEF GateInv
<1>time. closed_for \in Nat /\ closed_for' \in Nat /\ closed_for' <= closed_for + 1
  BY ClosedTime DEF GateInv
<1> USE <1>num, <1>time
<1> DEFINE Let(m, s) == m.torque # 0 => s <= MaxRamp + m.age
<1>0. \A k \in DOMAIN transit : transit[k] \in Messages /\ Let(transit[k], closed_for)
  <2>1. \A k \in DOMAIN transit : transit[k] \in Messages
    <3>1. DOMAIN transit = 1..Len(transit)
      OBVIOUS
    <3> QED
      BY <3>1, ElementOfSeq
  <2> QED
    BY <2>1 DEF GateInv, GateUnderWay
<1>1. \A m \in Messages, s \in 0..closed_for : Let(m, closed_for) => Let(m, s)
  BY DEF Messages
<1>2. /\ TypeOK /\ GateKnown
      /\ tau["load"] # 0 /\ age["load"] < M!AgeCap
           => closed_for <= MaxRamp + MaxDelay + age["load"]
  BY DEF GateInv, GateUnderWay
<1>3. CASE ~Advance /\ (LoadTick \/ LoadStops)
  <2>1. closed_for' \in 0..closed_for /\ UNCHANGED <<tau, age>>
    BY <1>3 DEF LoadTick, LoadStops, mixerVars
  <2>2. ASSUME NEW m \in Messages, Let(m, closed_for), transit' = Enqueue(transit, m)
        PROVE  GateUnderWay'
    <3>1. \A k \in DOMAIN transit' : Let(transit'[k], closed_for')
      <4>1. \A k \in DOMAIN transit' :
              transit'[k] = m \/ \E j \in DOMAIN transit : transit'[k] = transit[j]
        BY <2>2, EnqueueKeepsQueue
      <4> HIDE DEF Let
      <4> QED
        BY <1>0, <1>1, <2>1, <2>2, <4>1
    <3> QED
      BY <1>2, <2>1, <3>1 DEF GateUnderWay
  <2>3. CASE LoadTick
    <3>1. load' \in Torques
      BY <1>2, <2>3, TypeStep DEF LoadTick, Next, TypeOK, L!TypeOK, L!Torques, Torques
    <3>2. [torque |-> load', age |-> 0] \in Messages
      BY <3>1 DEF Messages
    <3>3. Let([torque |-> load', age |-> 0], closed_for)
      BY <1>2, <2>3, PublishedThroughGate DEF LoadTick
    <3> QED
      BY <2>2, <2>3, <3>2, <3>3 DEF LoadTick
  <2>4. CASE LoadStops /\ transit' = Enqueue(transit, [torque |-> 0, age |-> 0])
    BY <2>2, <2>4 DEF Messages, Torques
  <2>5. CASE UNCHANGED transit
    <3>1. \A k \in DOMAIN transit' : Let(transit'[k], closed_for')
      <4> HIDE DEF Let
      <4> QED
        BY <1>0, <1>1, <2>1, <2>5
    <3> QED
      BY <1>2, <2>1, <3>1 DEF GateUnderWay
  <2> QED
    BY <1>3, <2>3, <2>4, <2>5 DEF LoadStops
<1>4. CASE ~Advance /\ (Deliver \/ Lose)
  <2>1. /\ transit # <<>> /\ transit' = Tail(transit) /\ closed_for' \in 0..closed_for
    BY <1>4 DEF Deliver, Lose
  <2>2. \A k \in DOMAIN transit' : Let(transit'[k], closed_for')
    <3> HIDE DEF Let
    <3> QED
      BY <1>0, <1>1, <2>1, DequeueKeepsQueue
  <2>3. Head(transit) \in Messages /\ Let(Head(transit), closed_for)
    BY <1>0, <2>1, DequeueKeepsQueue
  <2>4. tau'["load"] # 0 /\ age'["load"] < M!AgeCap
          => closed_for' <= MaxRamp + MaxDelay + age'["load"]
    <3>1. CASE Deliver
      <4>1. tau'["load"] = Head(transit).torque /\ age'["load"] = 0
        BY <1>2, <3>1 DEF Deliver, M!LoadMessage, M!Store, M!TypeOK, TypeOK, M!Inputs
      <4>2. /\ Head(transit).age \in 0..MaxDelay
            /\ Head(transit).torque # 0 => closed_for <= MaxRamp + Head(transit).age
        BY <2>3 DEF Messages
      <4> HIDE <1>num
      <4> QED
        BY <2>1, <4>1, <4>2
    <3>2. CASE Lose
      BY <1>2, <2>1, <3>2 DEF Lose, mixerVars
    <3> QED
      BY <1>4, <3>1, <3>2
  <2> QED
    BY <2>1, <2>2, <2>4 DEF GateUnderWay
<1>5. CASE Advance
  <2>1. /\ tau' = tau /\ age'["load"] = M!Older(age["load"], M!AgeCap)
        /\ transit' = [k \in DOMAIN transit |-> [transit[k] EXCEPT !.age = @ + 1]]
    BY <1>5 DEF Advance, M!Advance, M!Inputs
  <2>2. DOMAIN transit' = DOMAIN transit
    BY <2>1
  <2>3. \A k \in DOMAIN transit :
          transit'[k].torque = transit[k].torque /\ transit'[k].age = transit[k].age + 1
    BY <1>0, <2>1 DEF Messages
  <2>4. ASSUME NEW k \in DOMAIN transit, transit'[k].torque # 0
        PROVE  closed_for' <= MaxRamp + transit'[k].age
    <3>1. transit[k].age \in Nat
      BY <1>0 DEF Messages
    <3>2. closed_for <= MaxRamp + transit[k].age
      BY <1>0, <2>3, <2>4
    <3>3. closed_for' <= MaxRamp + (transit[k].age + 1)
      <4> HIDE <1>num
      <4> QED
        BY <3>1, <3>2
    <3>4. transit'[k].age = transit[k].age + 1
      BY <2>3
    <3> QED
      BY <3>3, <3>4, Zenon
  <2>5. tau'["load"] # 0 /\ age'["load"] < M!AgeCap
          => closed_for' <= MaxRamp + MaxDelay + age'["load"]
    <3>1. age["load"] \in Nat /\ age["load"] <= M!AgeCap
      OBVIOUS
    <3>2. M!Older(age["load"], M!AgeCap)
            = IF age["load"] < M!AgeCap THEN age["load"] + 1 ELSE age["load"]
      BY <3>1, OlderByOne
    <3>3. CASE age["load"] < M!AgeCap
      <4>1. age'["load"] = age["load"] + 1
        BY <2>1, <3>2, <3>3
      <4>2. tau["load"] # 0 => closed_for <= MaxRamp + MaxDelay + age["load"]
        BY <1>2, <3>3
      <4>3. tau["load"] # 0 => closed_for' <= MaxRamp + MaxDelay + (age["load"] + 1)
        BY <3>1, <4>2
      <4> QED
        BY <2>1, <4>1, <4>3, Zenon
    <3>4. CASE ~(age["load"] < M!AgeCap)
      <4>1. age'["load"] = age["load"]
        BY <2>1, <3>2, <3>4, Zenon
      <4> QED
        BY <3>4, <4>1, Zenon
    <3> QED
      BY <3>3, <3>4, Zenon
  <2> QED
    BY <2>2, <2>4, <2>5 DEF GateUnderWay
<1>6. CASE ~Advance /\ (EncoderEstimate \/ JointStates \/ LoadService \/ MixerStep)
  <2>1. UNCHANGED transit /\ closed_for' \in 0..closed_for
    BY <1>6 DEF EncoderEstimate, JointStates, LoadService, MixerStep
  <2>2. tau'["load"] = tau["load"] /\ age'["load"] = age["load"]
    BY <1>2, <1>6
       DEF EncoderEstimate, JointStates, LoadService, MixerStep, M!PidSub, M!Store,
           M!SetParameters, M!EnableLoadService, M!Tick, M!Shutdown, M!TypeOK, TypeOK,
           M!Inputs, mixerVars
  <2>3. \A k \in DOMAIN transit' : Let(transit'[k], closed_for')
    <3> HIDE DEF Let
    <3> QED
      BY <1>0, <1>1, <2>1
  <2>4. tau'["load"] # 0 /\ age'["load"] < M!AgeCap
          => closed_for' <= MaxRamp + MaxDelay + age'["load"]
    BY <1>2, <2>1, <2>2
  <2> QED
    BY <2>3, <2>4, Zenon DEF GateUnderWay
<1> QED
  BY <1>3, <1>4, <1>5, <1>6 DEF GateNext, Next

\* No step leaves a load standing in the motor command for too long.
LEMMA GateStandingStep ==
  ASSUME GateInv, GateNext
  PROVE  GateStanding'
<1> USE BoundsAreNatural
<1>num. /\ age \in [{"pid", "load"} -> 0..M!AgeCap]
        /\ tick_in \in Int /\ -MixerJitter <= tick_in /\ tick_in <= MixerPeriod
        /\ closed_for \in Nat /\ closed_for' \in Nat /\ closed_for' <= closed_for + 1
        /\ ~Advance => closed_for' <= closed_for
  BY AgesAreNumbers, ClosedTime DEF GateInv
<1> USE <1>num
<1>0. /\ contrib["load"] # 0
           => closed_for <= MaxRamp + MaxDelay + MaxTimeout + MixerPeriod - tick_in
      /\ tau["load"] # 0 /\ age["load"] < M!AgeCap
           => closed_for <= MaxRamp + MaxDelay + age["load"]
  BY DEF GateInv, GateStanding, GateUnderWay
<1>1. CASE ~Advance /\ MixerStep /\ M!Tick
  <2>1. contrib'["load"] = M!Effective("load")
    BY <1>1 DEF M!Tick, M!Inputs
  <2>2. M!Effective("load") # 0 => age["load"] <= MaxTimeout /\ tau["load"] # 0
    BY ContributionIsFresh DEF GateInv, TypeOK
  <2>3. age["load"] \in Nat
    OBVIOUS
  <2>4. contrib'["load"] # 0 => closed_for' <= MaxRamp + MaxDelay + MaxTimeout
    BY <1>0, <1>1, <2>1, <2>2, <2>3
  <2>5. tick_in <= 0 /\ tick_in' = tick_in + MixerPeriod
    BY <1>1 DEF M!Tick
  <2> QED
    BY <2>4, <2>5 DEF GateStanding
<1>2. CASE ~Advance /\ MixerStep /\ M!Shutdown
  <2>1. tick_in' = tick_in /\ (contrib'["load"] = 0 \/ contrib' = contrib)
    BY <1>2 DEF M!Shutdown, M!Inputs
  <2> QED
    BY <1>0, <1>2, <2>1 DEF GateStanding
<1>3. CASE Advance
  <2>1. contrib' = contrib /\ tick_in' = tick_in - 1
    BY <1>3 DEF Advance, M!Advance
  <2> QED
    BY <1>0, <2>1 DEF GateStanding
<1>4. CASE /\ ~Advance
           /\ \/ EncoderEstimate \/ JointStates \/ LoadService \/ LoadTick \/ LoadStops
              \/ Deliver \/ Lose
              \/ (MixerStep /\ (M!PidSub \/ M!EnableLoadService \/ M!SetParameters))
  <2>1. UNCHANGED <<contrib, tick_in>>
    BY <1>4 DEF EncoderEstimate, JointStates, LoadService, LoadTick, LoadStops, Deliver, Lose,
                MixerStep, M!LoadMessage, M!PidSub, M!EnableLoadService, M!SetParameters, mixerVars
  <2> QED
    BY <1>0, <1>4, <2>1 DEF GateStanding
<1> QED
  BY <1>1, <1>2, <1>3, <1>4 DEF GateNext, Next, MixerStep

\* Closing ~/engage_hil reaches the motor: the largest ramp, the transit, the
\* mixer's timeout and its tick after the last call, or after the load node has
\* had its first sample that a frame stands behind, no load is in the command,
\* whichever messages are lost, however the ramp time is changed meanwhile, and
\* also when the load node stops without its final zero.
THEOREM ClosedGateReachesTheMotor ==
  ASSUME FiniteSources
  PROVE  GateSpec => [](closed_for > GateLife => contrib["load"] = 0)
<1>1. Init /\ closed_for = 0 => GateInv
  <2> SUFFICES ASSUME Init, closed_for = 0 PROVE GateInv
    OBVIOUS
  <2>1. TypeOK
    BY TypeInit
  <2>2. transit = <<>> /\ tau["load"] = 0 /\ contrib["load"] = 0
    BY DEF Init, M!Init, M!Inputs
  <2>3. ramp_age \in Nat
    BY <2>1, BoundsAreNatural DEF TypeOK, L!TypeOK
  <2> QED
    BY <2>1, <2>2, <2>3, EmptyQueue
       DEF GateInv, GateKnown, GateUnderWay, GateStanding
<1>2. GateInv /\ [GateNext]_gateVars => GateInv'
  <2> SUFFICES ASSUME GateInv, [GateNext]_gateVars PROVE GateInv'
    OBVIOUS
  <2>1. CASE GateNext
    <3>1. TypeOK'
      BY <2>1, TypeStep DEF GateInv, GateNext
    <3>2. closed_for' \in Nat
      BY <2>1, ClosedTime DEF GateInv
    <3> QED
      BY <2>1, <3>1, <3>2, GateKnownStep, GateUnderWayStep, GateStandingStep DEF GateInv
  <2>2. CASE UNCHANGED gateVars
    <3>1. TypeOK'
      BY <2>2, TypeStep DEF GateInv, gateVars
    <3> QED
      BY <2>2, <3>1
         DEF GateInv, GateKnown, GateUnderWay, GateStanding, gateVars, vars, loadVars, mixerVars
  <2> QED
    BY <2>1, <2>2
<1>3. GateInv => (closed_for > GateLife => contrib["load"] = 0)
  <2> SUFFICES ASSUME GateInv, contrib["load"] # 0 PROVE ~(closed_for > GateLife)
    OBVIOUS
  <2>1. tick_in \in Int /\ -MixerJitter <= tick_in /\ closed_for \in Nat
    BY AgesAreNumbers DEF GateInv
  <2>2. closed_for <= MaxRamp + MaxDelay + MaxTimeout + MixerPeriod - tick_in
    BY DEF GateInv, GateStanding
  <2> QED
    BY <2>1, <2>2, BoundsAreNatural DEF GateLife
<1> QED
  BY <1>1, <1>2, <1>3, PTL DEF GateSpec

-------------------------------------------------------------------------------
(***************************************************************************)
(* Each component in the loop is the component specified alone: the        *)
(* composition and its timing constrain it, and do nothing to it that its  *)
(* own module does not allow.  M2 is the mixer with a load topic that may  *)
(* bring any torque.                                                       *)
(***************************************************************************)
M2 == INSTANCE TorqueMixer WITH
  params <- mixer_params, running <- mixer_running, LaunchParams <- MixerLaunches,
  LoadSamples <- Torques, DefaultParams <- MixerDefaults, ParamRequests <- MixerRequests,
  Period <- MixerPeriod, Jitter <- MixerJitter

\* chrono_flap_node in the loop implements LoadTorque: no step of the topic or of
\* the mixer touches its state, so what is proved of LoadTorque is true of it here.
THEOREM LoadNodeIsLoadTorque == Spec => L!Spec
<1>1. Init => L!Init
  BY DEF Init
<1>2. [Next]_vars => [L!Next]_(L!vars)
  <2> SUFFICES ASSUME [Next]_vars PROVE [L!Next]_(L!vars)
    OBVIOUS
  <2>1. CASE UNCHANGED loadVars
    BY <2>1 DEF loadVars, L!vars, L!inputs, L!gates
  <2>2. CASE \/ L!JointStates \/ L!EngageService \/ L!EnableHydroService \/ L!SetParameters
             \/ L!Tick \/ L!Shutdown \/ L!Advance
    BY <2>2, Zenon DEF L!Next
  <2> QED
    BY <2>1, <2>2, Zenon
       DEF Next, EncoderEstimate, JointStates, LoadService, LoadTick, LoadStops, Deliver, Lose,
           MixerStep, Advance, vars
<1> QED
  BY <1>1, <1>2, PTL DEF Spec, L!Spec

\* hil_torque_mixer_node in the loop implements TorqueMixer, whose assumption on its
\* constants holds: the load topic, for all it loses and delays, brings nothing but
\* torques.  So what is proved of TorqueMixer is true of it here.
THEOREM MixerIsTorqueMixer == M2!MixerConstants /\ (Spec => M2!Spec)
<1>1. M2!MixerConstants
  BY LoopAssumption
     DEF M!MixerConstants, M!Params, M!Positive, M!Torques,
         M2!MixerConstants, M2!Params, M2!Positive, M2!Torques, Torques
<1>2. Init => M2!Init
  BY DEF Init, M!Init, M2!Init, M!Inputs, M2!Inputs, M!AgeCap, M2!AgeCap, M!Launch, M2!Launch,
         M!Mutable, M2!Mutable, M!Positive, M2!Positive, M!LessEq, M2!LessEq
<1>3. TypeOK /\ [Next]_vars => [M2!Next]_(M2!vars)
  <2> SUFFICES ASSUME TypeOK, [Next]_vars PROVE [M2!Next]_(M2!vars)
    OBVIOUS
  <2>1. CASE UNCHANGED mixerVars
    BY <2>1 DEF mixerVars, M2!vars
  <2>2. CASE Deliver
    <3>1. Head(transit).torque \in Torques /\ M!LoadMessage(Head(transit).torque)
      BY <2>2, AgesAreNumbers, DequeueKeepsQueue DEF Deliver, Messages
    <3>2. M2!LoadMessage(Head(transit).torque)
      BY <3>1, Zenon DEF M!LoadMessage, M2!LoadMessage, M!Store, M2!Store
    <3> QED
      BY <3>1, <3>2, Zenon DEF M2!LoadSub, M2!Next
  <2>3. CASE M!PidSub
    BY <2>3, Zenon DEF M!PidSub, M2!PidSub, M!Store, M2!Store, M2!Next
  <2>4. CASE M!EnableLoadService
    BY <2>4, Zenon DEF M!EnableLoadService, M2!EnableLoadService, M2!Next
  <2>5. CASE M!SetParameters
    <3>1. M2!SetParameters
      BY <2>5 DEF M!SetParameters, M2!SetParameters, M!Acceptable, M2!Acceptable, M!LessEq,
                  M2!LessEq, M!Mutable, M2!Mutable, M!Immutable, M2!Immutable, M!Positive,
                  M2!Positive
    <3> QED
      BY <3>1, Zenon DEF M2!Next
  <2>6. CASE M!Tick
    <3>1. \A i \in M!Inputs : M!Effective(i) = M2!Effective(i)
      BY DEF M!Effective, M2!Effective, M!Enabled, M2!Enabled, M!Timeout, M2!Timeout,
             M!Less, M2!Less
    <3>2. M2!Tick
      BY <2>6, <3>1 DEF M!Tick, M2!Tick, M!Inputs, M2!Inputs, M!Clamp, M2!Clamp, M!Plus,
                        M2!Plus, M!Negate, M2!Negate, M!Less, M2!Less
    <3> QED
      BY <3>2, Zenon DEF M2!Next
  <2>7. CASE M!Shutdown
    BY <2>7, Zenon DEF M!Shutdown, M2!Shutdown, M!Inputs, M2!Inputs, M2!Next
  <2>8. CASE M!Advance
    BY <2>8, Zenon DEF M!Advance, M2!Advance, M!Inputs, M2!Inputs, M!AgeCap, M2!AgeCap,
                       M!Older, M2!Older, M2!Next
  <2> QED
    BY <2>1, <2>2, <2>3, <2>4, <2>5, <2>6, <2>7, <2>8, Zenon
       DEF Next, EncoderEstimate, JointStates, LoadService, LoadTick, LoadStops, Lose, MixerStep,
           Advance, vars
<1> QED
  BY <1>1, <1>2, <1>3, TypeCorrect, PTL DEF Spec, M2!Spec

===============================================================================
