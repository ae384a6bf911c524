----------------------------- MODULE TorqueMixer ------------------------------
(***************************************************************************)
(* hil_torque_mixer_node: adds the velocity controller's torque and the    *)
(* hydrodynamic load, drops whichever input its watchdog finds stale,      *)
(* clamps the sum and commands the motor from a wall timer.                *)
(*                                                                         *)
(* rclcpp::spin runs every callback on one thread, so a callback is one    *)
(* action.  Time is a sequence of Advance steps; the age of an input is    *)
(* the time since its callback ran (the code stamps on receipt), and       *)
(* tick_in is the time to the timer's next scheduled expiry, negative      *)
(* while the executor is late.                                             *)
(***************************************************************************)
EXTENDS Torque

CONSTANTS PidSamples,     \* torques that arrive on the PID topic
          LoadSamples,    \* torques that arrive on the load topic
          LaunchParams,   \* parameter overrides the node may be started with
          DefaultParams,  \* hard_clip_nm 0.5, *_timeout_s 0.2, enable_load true
          ParamRequests,  \* set_parameters batches, functions of parameter names
          MaxClip,        \* bound on every clip a run configures
          MaxTimeout,     \* bound on every timeout a run configures
          Period,         \* 1 / output_rate_hz
          Jitter          \* bound on how late the executor runs the timer

Inputs == {"pid", "load"}

Mutable == {"hard_clip_nm", "pid_timeout_s", "load_timeout_s", "enable_load"}
Immutable == {"pid_torque_topic", "load_torque_topic", "output_topic", "output_rate_hz"}
Positive == {"hard_clip_nm", "pid_timeout_s", "load_timeout_s"}

Params == [hard_clip_nm : Int, pid_timeout_s : Int, load_timeout_s : Int,
           enable_load : BOOLEAN]

\* Parameters are numbers here; README.md says what a NaN parameter does.
MixerConstants ==
  /\ PidSamples \subseteq Torques /\ LoadSamples \subseteq Torques
  /\ MaxClip \in Nat /\ MaxTimeout \in Nat /\ Period \in Nat \ {0} /\ Jitter \in 0..(Period - 1)
  /\ LaunchParams \subseteq Params
  /\ DefaultParams \in Params
  /\ \A p \in Positive : DefaultParams[p] > 0
  /\ \A raw \in LaunchParams \cup {DefaultParams} :
       /\ raw.hard_clip_nm <= MaxClip
       /\ raw.pid_timeout_s <= MaxTimeout /\ raw.load_timeout_s <= MaxTimeout
  /\ \A req \in ParamRequests :
       \A p \in DOMAIN req :
         /\ p \in Positive => req[p] \in Int
         /\ p = "hard_clip_nm" => req[p] <= MaxClip
         /\ p \in Positive \ {"hard_clip_nm"} => req[p] <= MaxTimeout
         /\ p = "enable_load" => req[p] \in BOOLEAN

ASSUME MixerAssumption == MixerConstants

VARIABLES
  tau,        \* tau_pid_, tau_hydro_: last value received, by input
  age,        \* now() - pid_last_stamp_, now() - load_last_stamp_
  received,   \* pid_received_, load_received_
  params,     \* hard_clip_nm_, pid_timeout_s_, load_timeout_s_, enable_load_
  contrib,    \* effective_pid, effective_load of the last tick
  output,     \* last command published to the effort controller
  tick_in,    \* time to the next expiry of timer_
  running     \* the process has not been shut down

vars == <<tau, age, received, params, contrib, output, tick_in, running>>

\* An input older than this has outlived every timeout, the timer period and
\* the executor's lateness; ages stop growing here.
AgeCap == MaxTimeout + Period + Jitter + 1

-------------------------------------------------------------------------------
\* The constructor replaces non-positive launch values by the defaults.
Launch(raw) ==
  [p \in Mutable |->
     IF p \in Positive /\ LessEq(raw[p], 0) THEN DefaultParams[p] ELSE raw[p]]

Init ==
  /\ tau = [i \in Inputs |-> 0]
  /\ age = [i \in Inputs |-> AgeCap]
  /\ received = [i \in Inputs |-> FALSE]
  /\ \E raw \in LaunchParams : params = Launch(raw)
  /\ contrib = [i \in Inputs |-> 0]
  /\ output = 0
  /\ tick_in = Period
  /\ running = TRUE

-------------------------------------------------------------------------------
Store(i, v) ==
  /\ tau' = [tau EXCEPT ![i] = v]
  /\ age' = [age EXCEPT ![i] = 0]
  /\ received' = [received EXCEPT ![i] = TRUE]

\* Subscription callbacks.  (An empty PID array is ignored: a stuttering step.)
PidSub ==
  /\ running
  /\ \E v \in PidSamples : Store("pid", v)
  /\ UNCHANGED <<params, contrib, output, tick_in, running>>

LoadMessage(v) ==
  /\ running
  /\ Store("load", v)
  /\ UNCHANGED <<params, contrib, output, tick_in, running>>

LoadSub == \E v \in LoadSamples : LoadMessage(v)

\* The ~/enable_load service writes the member the parameter also writes.
EnableLoadService ==
  /\ running
  /\ \E data \in BOOLEAN : params' = [params EXCEPT !.enable_load = data]
  /\ UNCHANGED <<tau, age, received, contrib, output, tick_in, running>>

\* on_validate_parameters: one bad entry rejects the whole batch.
AcceptsAnyValue(req) == DOMAIN req \cap Immutable = {}   \* mutant

Acceptable(req) ==
  /\ DOMAIN req \cap Immutable = {}
  /\ \A p \in DOMAIN req \cap Positive : ~LessEq(req[p], 0)

\* set_parameters: the post-set callback applies an accepted batch as one.
SetParameters ==
  /\ running
  /\ \E req \in ParamRequests :
       /\ Acceptable(req)
       /\ params' = [p \in Mutable |-> IF p \in DOMAIN req THEN req[p] ELSE params[p]]
  /\ UNCHANGED <<tau, age, received, contrib, output, tick_in, running>>

Timeout(i) == IF i = "pid" THEN params.pid_timeout_s ELSE params.load_timeout_s

AlwaysEnabled(i) == TRUE   \* mutant: the load gate is forgotten

Enabled(i) == i = "load" => params.enable_load

\* Mutants: no PID watchdog; the load watchdog reads the PID stamp; no load watchdog.
UnwatchedPid(i) ==
  IF Enabled(i) /\ received[i] /\ (i = "pid" \/ ~Less(Timeout(i), age[i])) THEN tau[i] ELSE 0
CrossedStamps(i) ==
  IF Enabled(i) /\ received[i] /\ ~Less(Timeout(i), age["pid"]) THEN tau[i] ELSE 0
UnwatchedLoad(i) ==
  IF Enabled(i) /\ received[i] /\ (i = "load" \/ ~Less(Timeout(i), age[i])) THEN tau[i] ELSE 0

\* The watchdogs: what an input contributes to a command computed now.
Effective(i) ==
  IF Enabled(i) /\ received[i] /\ ~Less(Timeout(i), age[i]) THEN tau[i] ELSE 0

Tick ==
  /\ running
  /\ tick_in <= 0
  /\ contrib' = [i \in Inputs |-> Effective(i)]
  /\ output' = Clamp(Plus(contrib'["pid"], contrib'["load"]),
                     Negate(params.hard_clip_nm), params.hard_clip_nm)
  /\ tick_in' = tick_in + Period
  /\ UNCHANGED <<tau, age, received, params, running>>

\* The destructor publishes 0.  Whether the ROS context still carries the
\* message is up to the middleware, so both outcomes are possible.
Shutdown ==
  /\ running
  /\ running' = FALSE
  /\ \/ contrib' = [i \in Inputs |-> 0] /\ output' = 0
     \/ UNCHANGED <<contrib, output>>
  /\ UNCHANGED <<tau, age, received, params, tick_in>>

\* Time passes, but never further than Jitter beyond the timer's expiry.
Advance ==
  /\ running
  /\ tick_in > -Jitter
  /\ tick_in' = tick_in - 1
  /\ age' = [i \in Inputs |-> Older(age[i], AgeCap)]
  /\ UNCHANGED <<tau, received, params, contrib, output, running>>

Next ==
  \/ PidSub \/ LoadSub \/ EnableLoadService \/ SetParameters
  \/ Tick \/ Shutdown \/ Advance

Spec == Init /\ [][Next]_vars

\* The executor keeps spinning and time does not stop.
FairSpec == Spec /\ WF_vars(Tick) /\ WF_vars(Advance)

-------------------------------------------------------------------------------
\* Every variable has its type; in particular the clip and the timeouts stay
\* positive whatever launch values and parameter batches arrive (std::clamp
\* with lo > hi is undefined), and the timer is never later than Jitter.
TypeOK ==
  /\ tau \in [Inputs -> Torques]
  /\ age \in [Inputs -> 0..AgeCap]
  /\ received \in [Inputs -> BOOLEAN]
  /\ params \in Params
  /\ \A p \in Positive : params[p] > 0
  /\ params.pid_timeout_s <= MaxTimeout /\ params.load_timeout_s <= MaxTimeout
  /\ contrib \in [Inputs -> Torques]
  /\ output \in Torques
  /\ tick_in \in (-Jitter)..Period
  /\ running \in BOOLEAN

(***************************************************************************)
(* Each input commands the motor through a dead man's switch of its own:   *)
(* once nothing has arrived on it for MaxTimeout + Period + Jitter its     *)
(* contribution to the standing command is 0, whatever the other input,    *)
(* the service, the parameters and the executor do meanwhile.              *)
(***************************************************************************)
PidSwitch == INSTANCE DeadMan WITH
  Commands <- Torques, Life <- AgeCap,
  command <- contrib["pid"], life <- AgeCap - age["pid"]

LoadSwitch == INSTANCE DeadMan WITH
  Commands <- Torques, Life <- AgeCap,
  command <- contrib["load"], life <- AgeCap - age["load"]

\* The PID watchdog of tick() implements the dead man's switch.
PidIsDeadMan == PidSwitch!Spec

\* So does the load watchdog, independently of the PID one.
LoadIsDeadMan == LoadSwitch!Spec

\* When the load is disabled, by service or by parameter, a tick takes it out
\* of the standing command before long, however the inputs keep arriving.
DisabledLoadLeaves ==
  (running /\ ~params.enable_load)
    ~> (contrib["load"] = 0 \/ params.enable_load \/ ~running)

\* A clip accepted at run time binds the standing command before long: the
\* last command is within it unless it has been changed again.
ClipTakesEffect ==
  \A c \in 1..MaxClip :
    (running /\ params.hard_clip_nm = c)
      ~> (output \in -c..c \/ params.hard_clip_nm # c \/ ~running)

\* hil_torque_mixer/README.md: "tau_total is always clamped to +/-hard_clip_nm
\* before publishing".
CommandIsClamped ==
  [][output' # output => output' \in -params.hard_clip_nm..params.hard_clip_nm]_vars

===============================================================================
