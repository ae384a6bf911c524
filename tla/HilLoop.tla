------------------------------- MODULE HilLoop --------------------------------
(***************************************************************************)
(* The load path end to end, as hil_mode.launch.py wires it:               *)
(*                                                                         *)
(*   CAN estimate -> ODrive read() -> joint_state_broadcaster              *)
(*     -> chrono_flap_node (LoadTorque) -> load topic                      *)
(*     -> hil_torque_mixer_node (TorqueMixer)                              *)
(*                                                                         *)
(* Three processes and a best-effort topic on one time line.  Messages are *)
(* delayed up to MaxDelay, lost, or pushed out of the queue; either node   *)
(* stops at any moment with or without its final zero; CAN frames stop.    *)
(* The end of the mixer is the end of a behaviour: what the motor does     *)
(* with its last command is not this software's to decide.                 *)
(* Both nodes are whole: services, parameter batches and the PID input of  *)
(* the mixer are steps of the composition.                                 *)
(***************************************************************************)
EXTENDS Torque, Sequences

CONSTANTS Readings, Quiet, StubTorque, HydroTorque,   \* of LoadTorque
          LoadLaunches, LoadRequests, MaxTorque, MaxFeedback, MaxRamp, LoadPeriod, LoadJitter,
          PidSamples, MixerLaunches, MixerDefaults, MixerRequests,   \* of TorqueMixer
          MaxClip, MaxTimeout, MixerPeriod, MixerJitter,
          NoEstimate,   \* the reading before the first frame: pos_estimate_ = vel_estimate_ = NaN
          MaxDelay,     \* bound on the time a message is in transit
          Depth,        \* history depth of the load subscription
          SilenceCap    \* bound on the silence of the bus that is counted

VARIABLES reading, hw_age, hw_received, hil_engaged, ramp_age, hydro_adapter,
          hydro_engaged, load_params, load, source, ever_engaged, loop_in, load_running,
          tau, age, received, mixer_params, contrib, output, tick_in, mixer_running,
          transit,      \* load torques under way: sequence of [torque, age]
          sample_age,   \* history: age of the newest sample chrono_flap_node has seen
          estimate,     \* pos_estimate_, vel_estimate_ of the hardware interface
          earlier,      \* history: the estimates before the last frame
          silence       \* history: time since the last frame, 0 before the first

L == INSTANCE LoadTorque WITH
  params <- load_params, running <- load_running, LaunchParams <- LoadLaunches,
  ParamRequests <- LoadRequests, MaxTimeout <- MaxFeedback, Period <- LoadPeriod, Jitter <- LoadJitter

M == INSTANCE TorqueMixer WITH
  params <- mixer_params, running <- mixer_running, LaunchParams <- MixerLaunches,
  LoadSamples <- {}, DefaultParams <- MixerDefaults, ParamRequests <- MixerRequests,
  Period <- MixerPeriod, Jitter <- MixerJitter

\* What the two components assume of their constants, and a topic that exists.
ASSUME LoopAssumption ==
  /\ L!LoadConstants /\ M!MixerConstants
  /\ NoEstimate \in Readings
  /\ MaxDelay \in Nat /\ Depth \in Nat \ {0} /\ SilenceCap \in Nat \ {0}

loadVars == <<reading, hw_age, hw_received, hil_engaged, ramp_age, hydro_adapter,
              hydro_engaged, load_params, load, source, ever_engaged, loop_in, load_running>>
mixerVars == <<tau, age, received, mixer_params, contrib, output, tick_in, mixer_running>>
busVars == <<estimate, earlier, silence>>
vars == <<loadVars, mixerVars, transit, sample_age, busVars>>

(***************************************************************************)
(* How long a load torque may stand in the motor command after the shaft   *)
(* was sampled: it is published until the feedback times out, is under way *)
(* for MaxDelay, is taken for fresh until the mixer's own timeout, and     *)
(* stands until the next tick, which may be late.                          *)
(***************************************************************************)
EndToEnd == MaxFeedback + MaxDelay + MaxTimeout + MixerPeriod + MixerJitter
AgeCap == EndToEnd + 1

-------------------------------------------------------------------------------
Init ==
  /\ L!Init /\ M!Init
  /\ transit = <<>>
  /\ sample_age = AgeCap
  /\ estimate = NoEstimate /\ earlier = {NoEstimate} /\ silence = 0

\* read() takes a frame with an encoder estimate from the bus.  (That none comes
\* for as long as the bus is down or the drive is off needs no action.)
EncoderEstimate ==
  /\ estimate' \in Readings \ {NoEstimate}
  /\ earlier' = earlier \cup {estimate}
  /\ silence' = 0
  /\ UNCHANGED <<loadVars, mixerVars, transit, sample_age>>

\* What a sample of that age says: the estimate held when it was taken, the last
\* frame's or, before that frame, an earlier one (they are not told apart).
Held(sample) ==
  {r \in Readings : \/ r = estimate /\ (sample <= silence \/ silence = SilenceCap)
                    \/ r \in earlier /\ silence <= sample}

\* read() returns OK whether or not a frame came in, so the controller manager
\* keeps updating and the broadcaster stamps the estimate it still holds, NaN
\* before the first frame, with the time of this cycle: a sample is there to be
\* received however silent the bus is.
JointStates ==
  /\ L!JointStates
  /\ reading' \in Held(hw_age')
  /\ sample_age' = Least(hw_age', AgeCap)
  /\ UNCHANGED <<mixerVars, transit, busVars>>

\* ~/engage_hil, ~/enable_hydro and the load node's parameters.
LoadService ==
  /\ L!EngageService \/ L!EnableHydroService \/ L!SetParameters
  /\ UNCHANGED <<mixerVars, transit, sample_age, busVars>>

EnqueueUnbounded(q, m) == Append(q, m)   \* mutant: the history is not bounded

\* Keep-last history: a full queue loses its oldest message.
Enqueue(q, m) == IF Len(q) < Depth THEN Append(q, m) ELSE Append(Tail(q), m)

LoadTick ==
  /\ L!Tick
  /\ transit' = Enqueue(transit, [torque |-> load', age |-> 0])
  /\ UNCHANGED <<mixerVars, sample_age, busVars>>

\* The node stops; its final zero, if it is still carried, follows the rest.
LoadStops ==
  /\ L!Shutdown
  /\ \/ load' = 0 /\ transit' = Enqueue(transit, [torque |-> 0, age |-> 0])
     \/ load' = load /\ UNCHANGED transit
  /\ UNCHANGED <<mixerVars, sample_age, busVars>>

Deliver ==
  /\ transit # <<>>
  /\ M!LoadMessage(Head(transit).torque)
  /\ transit' = Tail(transit)
  /\ UNCHANGED <<loadVars, sample_age, busVars>>

\* Best effort: a message may be lost.
Lose ==
  /\ transit # <<>>
  /\ transit' = Tail(transit)
  /\ UNCHANGED <<loadVars, mixerVars, sample_age, busVars>>

\* All that goes on in the mixer but the load topic.
MixerStep ==
  /\ M!PidSub \/ M!EnableLoadService \/ M!SetParameters \/ M!Tick \/ M!Shutdown
  /\ UNCHANGED <<loadVars, transit, sample_age, busVars>>

\* One unit of time for everybody.  Nothing waits for a process that has
\* stopped, and no message is under way for longer than MaxDelay.
Advance ==
  /\ \A k \in DOMAIN transit : transit[k].age < MaxDelay
  /\ IF load_running THEN L!Advance ELSE UNCHANGED loadVars
  /\ M!Advance
  /\ transit' = [k \in DOMAIN transit |-> [transit[k] EXCEPT !.age = @ + 1]]
  /\ sample_age' = Older(sample_age, AgeCap)
  /\ silence' = IF estimate = NoEstimate THEN 0 ELSE Older(silence, SilenceCap)
  /\ UNCHANGED <<estimate, earlier>>

Next ==
  \/ EncoderEstimate \/ JointStates \/ LoadService \/ LoadTick \/ LoadStops
  \/ Deliver \/ Lose \/ MixerStep \/ Advance

Spec == Init /\ [][Next]_vars

-------------------------------------------------------------------------------
\* The composed system keeps both components' types, and the load topic holds
\* at most Depth messages, none under way for longer than MaxDelay.
TypeOK ==
  /\ L!TypeOK /\ M!TypeOK
  /\ transit \in Seq([torque : Torques, age : 0..MaxDelay]) /\ Len(transit) <= Depth
  /\ sample_age \in 0..AgeCap
  /\ estimate \in Readings /\ earlier \subseteq Readings /\ silence \in 0..SilenceCap

EndToEndSwitch == INSTANCE DeadMan WITH
  Commands <- Torques, Life <- AgeCap,
  command <- contrib["load"], life <- AgeCap - sample_age

\* The two watchdogs and the topic between them are one dead man's switch: a
\* load torque leaves the motor command within EndToEnd of the newest sample of
\* the shaft, whichever messages are lost and whether or not chrono_flap_node
\* stops meanwhile, as long as the mixer itself runs.
LoadPathIsDeadMan == EndToEndSwitch!Spec

\* What the mixer adds to the motor command has been published for a sample of
\* the shaft that is still young enough, at every point on the way.
NothingOlderUnderWay ==
  /\ \A k \in DOMAIN transit :
       transit[k].torque # 0 => sample_age <= MaxFeedback + transit[k].age
  /\ tau["load"] # 0 => sample_age <= MaxFeedback + MaxDelay + age["load"]

\* chrono_flap_sim/doc/hil_mode.md: "disconnect the CAN bus. Within
\* `hil_feedback_timeout_s` seconds, `/chrono_flap_node/load_torque` should drop
\* to 0.0": when the last frame is SilenceCap old, no load is in the motor command.
SilentBusSilencesLoad == silence = SilenceCap => contrib["load"] = 0

===============================================================================
