# Specifications of the torque path

TLA+ specifications of the marine hardware-in-the-loop (HIL) stack in this
repository: the nodes that decide what torque the motor gets, the topic between
them, the controller that computes it, its shadow in the simulation, the loop the
two close in simulation, the driver plugin that arms the drive and reads it
back, and the CAN messages and the event loop underneath. TLC checks them on small
instances; TLAPS proves every invariant of these runs, and the action properties and
refinements that do not rest on fairness, for all values of the constants. File names below
are relative to `src/` of the repository unless they start with `docs/`.

## 1. The system

| Component | State it keeps | Operations | Specified in |
|---|---|---|---|
| `hil_torque_mixer_node` | last value, receipt stamp and received flag of each input; clip, two timeouts, `enable_load` | two subscriptions, `~/enable_load`, parameters, a wall timer `tick()`, destructor | `TorqueMixer` |
| `chrono_flap_node`, HIL mode | last shaft measurement and its stamp; engage gate and ramp start; hydro gate; clips, timeout, ramp time | `/joint_states`, `~/engage_hil`, `~/enable_hydro`, parameters, the loop `run()`, destructor | `LoadTorque` |
| `chrono_flap_node`, SIL and parallel mode | flap state, shadow controller, synced references, effort, hydro accumulator, clip statistics | effort and reference topics, `~/enable_hydro`, parameters, the loop | `FlapSim` |
| `velocity_pid_node` | filtered measurement, two PIDs, outer loop counter and time, `v_cmd_`, parameters | `/joint_states`, parameters, timer `control_loop()`, destructor | `VelocityPid`, `Cascade` |
| `PidController` | integral, previous measurement, saturation and first-run flags | `reset()`, `compute()` | `Pid` |
| `ODriveHardwareInterface` | `active_`, enabled inputs of each axis, estimates and set points | lifecycle callbacks, `perform_command_mode_switch`, `read`, `write` | `ODrive`; `DriveFeedback` for `read` |
| `SocketCanIntf` | descriptor, registration, `broken_` | `init`, `deinit`, `send_can_frame`, `read_nonblocking`, `on_socket_event` | `EventLoop`; `ODrive` for sending, `DriveFeedback` for receiving |
| `EpollEventLoop`, `EpollEvent` | kernel registrations, contexts, triggered events, `n_events_` | register, deregister, `run_until_empty`, `set` | `EventLoop` |
| CAN codec (`can_helpers.hpp`, `can_simple_messages.hpp`) | none | `encode_buf`, `decode_buf` of 26 messages | `CanMessages`, `CanCodec` |
| SEA-Stack adapter | clip, accumulator index | `step()`, `set_torque_clip()` | `FlapSim`, `LoadTorque` |
| HIL launch | the wiring of mixer, load node and drive | start | `HilLoop` |
| SIL launch | the wiring of controller and simulator | start, restart | `SilLoop` |
| visualization, URDF, scripts | none at run time | — | not modelled |

How they interact in HIL mode: the drive reports its shaft over CAN; the driver
plugin's `read()` hands the estimate to the joint state broadcaster, which
stamps it; `velocity_pid_node` and `chrono_flap_node` subscribe to it. The first
publishes the controller's torque, the second the hydrodynamic load, both to
the mixer, which adds them, clamps the sum and commands the effort controller;
the plugin's `write()` sends that to the drive. Topics are best effort between
the nodes, so samples may be late or lost. Each ROS node runs its callbacks on
one thread: concurrency is between processes, and inside a node it is the order
in which callbacks, service calls, parameter batches and the timer are run.

In SIL mode there is no drive: `chrono_flap_node` simulates the flap and
publishes its joint states, `velocity_pid_node` measures there and returns a
torque and two references, and a shadow copy of its law drives the simulated
flap with them. Each node waits for the other's first message.

What is hard about it:

* **Timeouts across processes.** Three clocks (shaft sample, load publication,
  mixer tick) and two watchdogs have to add up to one guarantee at the motor.
* **Gates that are changed at any moment.** Services and parameters write the
  same members between two ticks; the ramp can be restarted and its length changed.
* **Reconfiguration of a running controller.** Modes, dividers, gains and limits
  change while PIDs hold measurements and integrals of the old configuration.
* **Partial sends.** A mode command is three CAN frames and nobody looks at the
  result of a send; drives fault on their own and survive the driver process.
* **Starting and starting again.** In SIL either node may come first, die and come
  back, to messages of a predecessor and to members the predecessor has filled.
* **Callbacks that change what is being iterated.** The event loop calls clients
  that deregister themselves and others whose events are already in its hands;
  an interface that disappears deinitializes itself behind its owner's back.
* **Frames.** A frame may be cut short, belong to another node, come from memory
  nobody has initialized, or wait behind others when `read()` gives up.
* **Numbers.** NaN passes `std::clamp` and `<= 0.0`; `std::clamp` with a negative
  limit is undefined.

`PROJECT.json` lists each of these at its line under `hazards`, with the
properties that cover it.

## 2. Modules

    Torque ──┬── TorqueMixer ──┬── HilLoop
             ├── LoadTorque  ──┘
             └── Pid ── Cascade ──┬── VelocityPid
                                  └── FlapSim
    DeadMan   (abstract; implemented by TorqueMixer twice, LoadTorque, HilLoop)
    SilLoop   (VelocityPid and FlapSim, abstracted to who heard whom)
    CanMessages ── CanCodec ── DriveFeedback
    ODrive
    EventLoop
    *Proofs   theorems about the module they are named for; VelocityPidProofs also
              about FlapSim, which it extends too
    MC*       instances for TLC

**`Torque`** is the arithmetic all nodes share: integers in a unit of the
instance's choosing plus NaN, with C++ comparison and `std::clamp` semantics
(a NaN goes through). Ages stop growing at a cap above every timeout.

**`DeadMan`** is the abstract specification. A command may be other than 0 only
while the input that justifies it has life left; input restores life, time uses
it up. Everything a watchdog has to do is in its three actions.

**`TorqueMixer`.** `tau`, `age`, `received` are the three members of each input;
`age` is `now() - stamp`, so a receipt sets it to 0. `contrib` is
`effective_pid`, `effective_load` of the last tick, `output` the last published
command. `tick_in` counts to the timer's next expiry and goes below 0 while the
executor is late. `PidSub`, `LoadSub`, `EnableLoadService`, `SetParameters`
(validation and post-set callback as one), `Tick` and `Shutdown` are the
callbacks and the destructor, each one action because one thread runs them.

**`LoadTorque`.** The HIL branch of `run()`. `hw_age` is the age of the sample by
its sender's stamp, `ramp_age` the time since the last `~/engage_hil` (or the
start). Callbacks are guarded by `Spinning`: they run only in `spin_some`, before
the tick of the same iteration. `Targets` is the set of torques the stub
or SEA-Stack can ask for, clipped; `Ramped` the gate. `source` says which of the
two the load came from. `ever_engaged` is history.

**`HilLoop`** composes two instances of these with the load topic (`transit`: at
most `Depth` messages, each under way for at most `MaxDelay`, any of them lost)
and the CAN feedback in front. `estimate` is what the hardware interface holds, NaN
(`NoEstimate`) until `EncoderEstimate` brings the first frame; a sample of the shaft
says what was held when it was taken (`Held`), a frame or not since. So NaN torques
travel the path as well. `earlier` and `silence` are history. Both nodes are whole: `LoadService` is the two
services and the parameter batches of the load node, `MixerStep` all that goes on
in the mixer but the load topic.

**`Pid`, `Cascade`.** `compute()` and the three-mode control law as operators on
records, shared by the real node and the shadow controller, which repeats the
same code (`shadow_pid_controller.hpp`).

**`VelocityPid`.** `since_loop` is `now() - last_loop_time_`, the dt of the next
tick; `vel_age` and `pos_age` are history: how old each PID's previous
measurement really is. `ControlLoopBlind` is the early return without a joint,
which leaves the loop time alone. `settling` is history: a PID in use has not yet run since a mode or
divider change. The moving average is any value between the old and the raw one.

A measurement may be NaN throughout the law (`Smoothed`, `Compute`, `Control`);
`MCVelocityPidNaN.cfg` uses it.

**`FlapSim`.** An iteration of `run()` is the unit of time, as in the code, where
every tick counts `publish_dt_` however long it took. Its state and specification carry
names of their own (`flap_params`, `shadow_ctl`, `FlapInit`, `FlapSpec`), so that the
proofs can extend it together with `VelocityPid`. Chrono's dynamics
is any of `Motions`; `accumulator` is the torque Chrono adds on its own in every
sub-step. Plant parameters (flap geometry, joint friction) only shape `Motions`.

**`ODrive`.** A lifecycle callback, a mode switch or a `write()` decides what to send
and leaves it in `todo`, by axis; `HandOver` passes one frame at a time to the socket,
axis by axis, as the loops in the code do. `tx` is the transmit queue of the CAN link.
A frame that finds it full (`Depth`), or whose `write(2)` fails, is dropped and nobody is
told, and the link transmits between any two. `drive` is what the drives do with frames,
by the protocol's documented meaning (external). `complete` is history: no frame of the
axis's last mode command was lost. `Restart` is the driver process dying, between any two
frames, and coming back to drives that kept their state.

**`SilLoop`.** The SIL launch file's two nodes, each with its own clock. What they
compute is the other modules' subject; here a value is where it comes from: the
life (number of the start) of the controller that sent it, and the life of the
simulator whose motion it depends on, 0 for none. `VelStop` and `SimStop` kill a
process, `VelStart` and `SimStart` launch it with members as constructed and
empty subscriptions; `Lose` drops the oldest message of any topic. (The zero torque that a
stopping controller may still send has no origin and is left out.)

**`CanMessages`, `CanCodec`.** All 26 layouts, and the two functions that put a
signal into a payload and take it out. A bit is a set of marks (bit k of signal s,
or `Junk`, a bit the code leaves indeterminate), so that one evaluation of
`Decoded(Encoded)` stands for all values. `can_set_signal_raw` clears the field
and ors a whole 64 bit union in, of which only the value's own bits are assigned:
what it destroys beyond the field has to be set again by a later signal of the
message. The order of the signals is therefore part of the layout.

**`DriveFeedback`.** The plugin's receive side, from the broadcast of a drive to
the estimates. Frames are numbered, an estimate is the number of the frame it was
taken from. `Broadcast` may be cut to four bytes; `Overhear` is any message of any
node that is not an axis. `Read`, `ReadFrame`, `ReadEmpty` and `ReadFails` are the
loop in `read()` over `read_nonblocking()`. `newest` is history.

**`EventLoop`.** `loop` holds the kernel's side (open files, what is watched), the
contexts on the heap, `n_events_` and the triggered events; `calling` is the
callback under way, `client` the members of the `SocketCanIntf` and `EpollEvent`
objects. Contexts and descriptors are reused as the allocator and the kernel do
(any free address; the lowest free number). While a callback is in its owner's
code, `InitClient` and `DeinitClient` of any client may happen; `Set` may happen
at any time, from other threads; `owed` is history: the events that were set since their
own callback last began. The ODrive plugin registers its socket here and
never runs the loop, it polls in `read()`: the module is about the library. Five
things the code does are steps of the model and not called errors: a nulled
event is called through (`DispatchNull`, the process crashes); `n_events_` is
never counted down, so a loop that has lost all its clients waits on; an interface that has disappeared is closed a second time by
its owner, which may hit a number that has been given to somebody else; an
`EpollEvent` whose descriptor has become that of another blocks on it
(`DispatchEventBlocks`); and, where that other event has been set, a waiting trigger of
the first reads its counter and calls the first one's callback, so that the `set()` of
the other is lost (`DispatchEvent`). `SetReachesCallback` therefore speaks of events whose
descriptor stays theirs alone (`OwnDescriptor`).

Modelling conventions. A message is the value that matters of it; wording,
logging and diagnostic topics are left out. Measurements may be NaN, parameters are numbers:
`declare_parameter` and `set_parameters` accept a NaN, `NaN <= 0.0` is false, and
`age > NaN` would switch a watchdog off; this is a recorded hazard, not part of
the models. `filter_alpha` is in tenths, `outer_loop_divider` in halves. The end
of a node ends its part of a behaviour: what the effort controller does with a
command nobody renews is not in this repository.

## 3. Runs

Every run is exhaustive on its instance. Passing runs:

| Run | What it shows |
|---|---|
| `mixer` | `PidIsDeadMan`, `LoadIsDeadMan`: each input leaves the standing command within `MaxTimeout + Period + Jitter` (refinement of `DeadMan`). `CommandIsClamped` for finite samples. `DisabledLoadLeaves`, `ClipTakesEffect`: the gate and a changed clip reach the motor. |
| `load` | `FeedbackIsDeadMan` (refinement); `ShutGateIsSilent`: a closed gate is exactly 0 after the longest ramp, however the ramp time was changed on the way; `OpenGateDelivers`, `HydroLeaves` (liveness). |
| `hil_loop` | `LoadPathIsDeadMan`: the whole path refines one `DeadMan` of life `EndToEnd = MaxFeedback + MaxDelay + MaxTimeout + MixerPeriod + MixerJitter`; `NothingOlderUnderWay`: the bound that holds at every point on the way. |
| `velocity_pid` | `RatesSpanTheirDt`: the time a PID divides by is the age of its previous measurement, across skipped outer ticks and lost joints; `IntegralClamped` under changed limits; `LostJointReleases`, `LimitTakesEffect` (liveness). |
| `flap_sim` | `ShadowRatesSpanTheirDt`: the same for the shadow law, switched off and on; `ClipHistoryClears` (liveness). |
| `sil_loop` | `LoopCloses`: started in any order and after any restarts, the nodes get each other going and stay so; `ReferencesAreMeasured`: the shadow law never follows a controller that has not measured a flap; `CircleOpens`: leaving cascade takes the flap's motion out of the references. |
| `odrive` | `DrivesFollow`: after a whole command the drive is where the plugin believes; `ArmsAsOrdered`: never armed in another mode; `InputsMeetTheirMode`: set points are of the kind the drive's mode is for; `DeactivatedDrivesIdle` (liveness). |
| `drive_feedback` | `EstimatesBelongTogether`: position and velocity are of one frame, through cut and lost frames, errors, cleanup and restarts; `ReadLeavesTheNewest`: one `read()` catches up with the queue; `QueuedFramesArrive` (liveness); `FramesDecode`: every message decodes to what was encoded, whatever was in the frame's memory. |
| `event_loop` | `NoDanglingTrigger`: a triggered event leads to its own client or to nobody, never to a freed or reused context; `LoopLeavesNobodyBehind`: the loop ends only when nothing is watched; `SetReachesCallback`: no `set()` of an event that keeps its descriptor is swallowed (liveness). |

Each of these runs also checks the module's type invariant, `TypeOK` (`FlapTypeOK` in
`flap_sim`).

Runs that refute what a document or comment says (each is a finding in
`PROJECT.json`, with the quotation):

| Run | Refuted statement | What the code does |
|---|---|---|
| `load_start` | a gate that was never engaged yields exactly 0 | the ramp-down branch runs from the node's start |
| `hil_loop_bus` | a disconnected CAN bus silences the load | frames have come and come no more; `read()` succeeds without one and the old estimate gets a new stamp every cycle |
| `flap_sim_hydro` | `~/hydro_torque` is what acts on the body | a closed gate leaves the last torque in the accumulator |

Further instances are kept beside the runs, to be checked by hand with
`tlc -config <cfg> <module>`. TLC refutes the one property each of them names:

| Configuration | Property | Statement | What the code does |
|---|---|---|---|
| `MCTorqueMixerNaN.cfg` | `CommandIsClamped` | the sum is always clamped before publishing (`hil_torque_mixer/README.md:30`) | `std::clamp` returns a NaN sample as it is |
| `MCVelocityPidNaN.cfg` | `OutputIsClamped` | output is clamped every tick (`odrive_velocity_pid/README.md:266`) | the moving average keeps a NaN it has once taken in, as is the drive's velocity before its first frame |
| `MCVelocityPidMode.cfg` | `ModeStartsCleanly` | a new mode starts cleanly (`velocity_pid_node.cpp:345`) | the PIDs keep the old mode's previous measurement |
| `MCVelocityPidWindup.cfg` | `SaturationOnlyUnwinds` | a saturated controller only unwinds (`odrive_velocity_pid/README.md:268`) | at 0 and across 0 it winds up |
| `MCVelocityPidInvert.cfg` | `InvertedCommand` | `invert_output` negates the command (`odrive_velocity_pid/README.md:223`) | only the measurement is negated |
| `MCVelocityPidSpeed.cfg` | `SpeedCommandLimited` | `pos_output_limit` is the largest velocity command (`odrive_velocity_pid/README.md:215`) | after a switch to cascade the command of the old mode stands until the outer loop is due |
| `MCFlapSimSync.cfg` | `SyncAsConfigured` | all `shadow_*` parameters can be changed at run time (`chrono_flap_sim/README.md:305`) | `shadow_sync_trajectory` is read by the constructor only |
| `MCFlapSimUnlimited.cfg` | `ZeroLimitIsUnlimited` | an integral limit of 0 is unlimited (`shadow_pid_controller.hpp:61`) | the integral is clamped to [0, 0] |
| `MCSilLoopCircle.cfg` | `NoCircularDependency` | the references do not depend on `/joint_states` (`chrono_flap_sim/README.md:216`) | in cascade `~/velocity_command` is the outer loop's output on the measured position |

### Bounds

Time is in units of the shortest period of the instance.

* `MCTorqueMixer`: period 2, lateness 1, timeouts 1 and 2, clips 1 and 3, samples
  inside and outside the clip on both sides; a launch configuration that is sane
  and one the constructor has to replace. Timeouts lie below and at the
  period, so an input goes stale between two ticks and right at one.
* `MCLoadTorque`: the same timing; ramp times 0, 2 and a rejected -1; two
  readings whose stub and hydro torques lie inside and beyond both clips. Torques
  are multiples of every ramp time, so that the integer ramp divides evenly.
* `MCHilLoop`: all timeouts 1, load loop late by 1, delay 1, depth 2, which lets
  messages queue, be overtaken by time and be dropped. The load comes from the stub
  (`MCInit`: the node runs without SEA-Stack, and
  nobody opens its hydro gate) and has no ramp. Of two batches for each
  node one is accepted and one rejected; the mixer is launched with a timeout its
  constructor replaces, and nothing arrives on its PID input, which would multiply the
  states by what the load's way does not depend on. The gate is engaged from the launch and
  may be closed and opened. Before the first frame the stub yields NaN, then a torque of 2.
  The theorems of section 4 have no such limits. `hil_loop_bus` has a prompt load loop and
  topic, so `EndToEnd` is 3, and counts 6 units of silence after the last of one or more
  frames: the load that is then in the command comes from an estimate that old.
* `MCVelocityPid`: two outer-loop dividers (1 and 1.5, which round to 1 and 2),
  `MaxGap` 2, unit gains, limits up to 3; one reading lacks the position.
* `MCFlapSim`: a window of 2 instead of 100 ticks and dividers that round to 1
  and 2; moments within and beyond the clip.
* `MCODrive`: two axes (the motor, claimed by two kinds of controllers, and the
  PTO, by none), a queue of 2 frames, one less than a mode command: a command is sent
  whole only when the link drains in between, and loses frames otherwise.
* `MCDriveFeedback`: two axes, one stranger that may say any of the 26 messages, a
  queue of 2 and two frames of each drive, so that a frame of one axis waits behind
  another's and is lost to a full queue.
* `MCEventLoop`: an interface and two events on two descriptors, two contexts
  and batches of 2: a client can be deinitialized while its event waits, and its
  context and descriptor given to another in the same batch. Four registrations,
  as `n_events_` is never counted down; one frame in a socket.
* `MCSilLoop`: two starts of each node, subscriptions of one message (the
  code's are deeper; `SilLoopProofs` covers every depth for the invariants), all
  modes. A node is stopped only while a start is left, so the last life lasts.

Caps on ages (`AgeCap`, `RampCap`, `MaxGap`) lie above every value the code
compares them with, so a capped age behaves as an older one would; `MaxGap` bounds how long a joint may be missing.

### Fairness

`WF` of the timers and of `Advance`: the executor keeps spinning and time does
not stop, which `rclcpp::spin` and the loop of `run()` do. No fairness is assumed
of messages, services, parameters or of anything a person does. In `ODrive`
a callback that has begun goes on (`WF` of `HandOver`) and the link transmits (`WF` of
`Transmit`). In `DriveFeedback` the manager keeps cycling
(`WF` of `Read`) and a socket with frames does not report an error every time (`SF`
of `ReadFrame`). In `EventLoop` the thread keeps running and callbacks return
(`WF` of `Dispatch`), a socket is read faster than the link fills it (`SF` of
`Drains` and `SocketEventEnds`), and epoll puts what it has reported at the end of
its ready list, so no client is passed over for ever (`SF` of `WaitFinds`). In
`SilLoop` what is down is launched again, both loops keep turning, and a topic
that is published again and again delivers now and then (`SF`), which best-effort
transport on one machine does. `VelocityPid` and `FlapSim` state fairness of
an expired timer and of an idle iteration as seen in one variable (`TimerFires`,
`IdleIteration`), which is the same demand and cheaper to evaluate.
`CHECK_DEADLOCK FALSE` appears where a node may be shut down for good.

## 4. Proofs

The theorems hold for every value of the constants that satisfies the named assumptions
(`NaNIsNoNumber`, `MixerAssumption`, `LoadAssumption`, `HilLoop`'s and `EventLoop`'s
`LoopAssumption`, `PidAssumption`, `FlapAssumption`, `DriveAssumption`, `FeedbackAssumption`,
`SilAssumption`): any samples, parameter batches, periods, lateness, queue depths, numbers of
axes, clients or restarts. The assumptions fix signs and types of constants, that parameter
batches hold numbers, and that a cap lies above what it caps. TLC evaluates them in every
run. `ASSUME Numbers`, `FiniteSamples` and `FiniteSources` in a theorem ask for inputs that
are not NaN, which the results need: the NaN instances of section 3 show it for the
clamps, and a NaN torque times a ramp factor of 0 is not 0. `FiniteSources` of `HilLoop`
asks it only of what the drive has measured, not of the estimate before the first frame.

### Mixer and load node (`TorqueMixerProofs`, `LoadTorqueProofs`)

* `TypeCorrect` of both: types, with positive clip and timeouts, from the lemmas that the
  constructor's and the validator's checks suffice (`LaunchIsLegal`, `RequestIsLegal`).
* `StandingInvariant` of both. `DeadMan` only asks for 0 at the moment life runs out, which
  is not inductive: between two ticks nothing looks at ages. The strengthening relates the
  age of a standing contribution to the timer: `contrib[i] # 0 => age[i] <= MaxTimeout +
  Period - tick_in`. A tick establishes it (its input is younger than the timeout and
  `tick_in` is at most `Period` after it), time keeps it (age up, `tick_in` down), and
  `tick_in >= -Jitter` turns it into the bound `AgeCap` is made of.
* `PidWatchdogImplements`, `LoadWatchdogImplements`, `FeedbackWatchdogImplements`: from
  that invariant, initial states map to initial states and every step to a step of
  `DeadMan` or a stutter.
* `FiniteCommandsClamped`: `CommandIsClamped` when the samples are finite.
* `ShutGateStaysSilent`, from an invariant of its own: while the gate is closed a non-zero
  load means that the ramp began less than `MaxRamp` plus the time since the last
  iteration ago.
* `OpenGateIsTransparent`, the safety half of `OpenGateDelivers`: an iteration with an open
  gate past its ramp and fresh feedback publishes what the source asked for, no less.
* `SettingsReachTheMotorInTime` and `ServicesReachTheTopicInTime`, see below.

### How soon (in each `*Proofs` module)

That a closed gate, a changed limit or a lost joint takes effect *before long* is
liveness and rests on fairness. That it takes effect *in time* is safety, once time is
counted, and needs no fairness, because in the models time does not pass beyond an expired
timer's lateness. The proof modules therefore add history variables to the specification
(`TimedSpec`, `FlapCountedSpec`, `GateSpec`): they count the time since a condition was
last broken, and neither guard nor change anything. The invariants have one form: a
command that contradicts the setting in force has not yet met a tick since the setting
changed, so the time counted is at most the time since that tick was due.

| Theorem | Bound | Liveness property it goes with |
|---|---|---|
| `SettingsReachTheMotorInTime` (mixer) | `Period + Jitter` after the load was disabled, or the clip changed | `DisabledLoadLeaves`, `ClipTakesEffect` |
| `ServicesReachTheTopicInTime` (load node) | `Jitter` after `~/enable_hydro` closed, or a clip changed: callbacks run in the iteration that is due, so not a whole period. No load exceeds the largest clip at any time, ramp included | `HydroLeaves` |
| `SafetyReachesTheMotorInTime` (controller) | `Period + Jitter` after the joint was lost, or the limit changed | `LostJointReleases`, `LimitTakesEffect` |
| `ClipHistoryClearsInTime` (simulator) | `Window` iterations with a closed gate | `ClipHistoryClears` |
| `ClosedGateReachesTheMotor` (load path) | `GateLife = MaxRamp + MaxDelay + MaxTimeout + MixerPeriod + MixerJitter` after the last call of `~/engage_hil`, once the shaft has been measured | none |

The ramp's part in them is arithmetic, proved once: `(tau * num) \div den` with
`num <= den` lies between 0 and `tau` (`FractionOfTorque`, from `PartOfProduct` and
`FactorCancels`: products of variables are beyond what the prover finds by itself).

### The load path end to end (`HilLoopProofs`)

* `NothingOlderEver` and `LoadPathImplements`: the composition implements one `DeadMan` of
  life `EndToEnd`. The invariant follows the sample along the path. `Synced`: the age the
  load node counts is the age of the newest sample, up to the two caps.
  `NothingOlderUnderWay`: what the load node publishes, what waits in the topic and what
  the mixer has received was made for a sample young enough for its place.
  `Standing`: `contrib["load"] # 0 => sample_age <= MaxFeedback + MaxDelay + MaxTimeout +
  MixerPeriod - tick_in`, since only the mixer's tick looks at the age of what it holds. None of
  the three is inductive alone: `Standing` needs the bound on what was received, and this
  needs the load node to agree with the sample about its age.
* `SwitchReleases`: a dead man's switch whose life is used up commands 0, whatever
  implements it. With the refinement, `LoadPathReleases`: once the newest sample is older
  than all delays together, no load is in the motor command.
* `ClosedGateReachesTheMotor`: the other way to get rid of a load, `~/engage_hil`, with its
  bound at the motor. `closed_for` counts from the last call, or from the load node's first
  sample with a frame behind it if that comes later (until then the closed gate may let a
  NaN through), since every call restarts the
  ramp, also one that closes a closed gate: calling it again and again keeps
  the load up. The invariant follows the load as the one above follows the sample:
  the ramp of a running node knows how long its gate is closed (`GateKnown`), what is on the
  topic or in the mixer left a gate that was open or ramping (`GateUnderWay`), and the mixer's
  tick does the rest (`GateStanding`). A load node that stops without its final zero counts as
  a closed gate. The load loop's own lateness is not in the bound: a loop that is late
  publishes nothing.
* `LoadNodeIsLoadTorque`, `MixerIsTorqueMixer`: every behaviour of the composition is, for
  the variables of one node, a behaviour of its own module (the mixer's with any torque on its
  load topic). So what is proved of a component is true of it in the loop; this last step is
  made by the reader, as the prover does not cite theorems of instances.

### The control law and its shadow (`VelocityPidProofs`)

* `InvInvariant`, `TypeCorrect`, `RatesSpan`: `RatesSpanTheirDt` for any trajectory,
  readings, reconfigurations, period and lateness. It is not inductive, because an age at
  its cap says nothing: `OuterLoopBounded` (the outer loop has counted fewer ticks than
  its divider, and accumulated at most `MaxGap` for each) keeps the ages that matter below
  the cap, and `Clocks` says that the timer cannot expire before the clock has moved.
* `IntegralIsClamped` and `OutputIsWithinLimit`: what a tick leaves in an integral it has
  used, and what it commands, is within the limit in force, for readings that are numbers.
* `SafetyReachesTheMotorInTime`, see above.
* `ShadowTypeCorrect`, `ShadowRatesSpan`: the same of `ShadowPidController` in `FlapSim`, which
  this module extends as well: both nodes share `Cascade`, so the lemmas about the law are
  proved once, over a set of values that is `Int` or includes NaN.
* `ShadowStaysWithinLimits`: the shadow's torque and its outer integral are within the limits
  in force, whatever references it follows. The inner `integral_limit` is not validated and
  left out: at 0 or below it bounds nothing.

### The drive plugin (`ODriveProofs`, `DriveFeedbackProofs`)

* `DrivesFollowThePlugin`, `SetPointsFit`, `ArmedAsOrdered`: for any number of axes, claims
  and queue depth. `DrivesFollow` speaks of an axis whose queue has drained; the
  invariant says for each axis what its drive will have done when it has worked through
  the queue: of the mode frames in it the last is of the plugin's mode, or there is none and
  the drive is in that mode (`ModeFollows`); of the frames that arm, idle or clear the
  last one arms, or there is none and the drive is armed or in error (`ArmFollows`,
  `IdleFollows`); an arm frame meant for a mode finds the drive in it (`ArmFindsMode`); and
  set points after the last mode command are of its kind (`InputsFollow`). What is left in
  `todo` is the rest of one command (`Rest`).
* `TypeCorrect` and `EstimatesStayWhole` of `DriveFeedback`, for any axes, strangers,
  traffic and queue depth. A frame of a stranger in the queue could be taken for an axis's;
  the invariant says of every waiting frame that, if it routes to an axis, its number is
  one that axis's drive has sent. It rests on `CanId` being invertible for node numbers
  below 64, and on the handled messages all having 8 bytes, so that what passes the
  length check is whole.
* `NewestIsLeft`, the action property `ReadLeavesTheNewest`: between two reads the newest whole
  frame of an axis is in its estimate, or waits and no other of its message waits behind
  it (`OrderInv`).
* `EstimatesNeverGoBack`: between restarts of the driver an estimate is only replaced by a newer
  one, also when reads fail, are closed or give up half way. It needs that the frames of a drive
  wait in the order they were sent, each newer than its estimate (`SentInOrder`).
* `WaitingFramesDecode`: every one of the 26 messages decodes to what was encoded, whatever was
  in the memory of the frame. A signal may spoil what lies above its field and never what
  lies below; the signals of every layout are disjoint, in the order of their bits and at
  most eight (`Layout`), so eight steps replace the induction over `encode_buf`.

### Event loop and SIL loop (`EventLoopProofs`, `SilLoopProofs`)

* `TypeCorrect`, `NoTriggerDangles`, `NobodyIsLeftBehind` for any number of clients, contexts
  and descriptors and any size of a batch. The invariant of the loop's data (`LoopInv`)
  says that what is watched is an open descriptor with a context of whoever opened it, that
  `n_events_ = 0` only when nothing is watched, and that a triggered event is null or
  has a live context of its client. A deregistration keeps it only if the context a client hands
  back is its own, which is what the rest is about: an interface that has been
  deinitialized is broken for ever, so the context of one that is not is the one of its
  initialization (`OwnContext`, `ContextsOwned`, `CallOwned`).
* `TypeCorrect` and `ShadowFollowsMeasurements` of `SilLoop`, for any depth and any number
  of restarts. The strengthening carries the property back along the way a reference
  takes: it was sent by a life that had measured, and a controller with a joint has
  measured in its present life.

### Only model-checked

The twelve liveness properties rest on fairness and so on `ENABLED`, which the prover does
not handle. What can be said of them without fairness is proved: that `DisabledLoadLeaves`,
`ClipTakesEffect`, `HydroLeaves`, `LostJointReleases`, `LimitTakesEffect` and
`ClipHistoryClears` cannot be late, and that what `OpenGateDelivers` delivers is the whole
torque. `DeactivatedDrivesIdle`, `QueuedFramesArrive`, `SetReachesCallback`, `LoopCloses`
and `CircleOpens` are TLC's alone: the CAN link, the threads of the event loop and
best-effort topics have no bound on time that could be counted.

Every invariant, action property and refinement of the passing runs is proved:
`IntegralClamped`, `CommandIsClamped` and `ShutGateIsSilent` under the hypothesis that
inputs are numbers.

## 5. Not modelled

Chrono's rigid-body dynamics, SEA-Stack's hydrodynamics and the trajectory's
trigonometry (external or plain arithmetic: any value); visualization;
the name tables of the generated enumerations, which are data of the messages;
the failures of `SocketCanIntf::init`, which leave nothing behind; the parallel
launch, which starts the same two nodes beside the hardware and closes no loop
through the simulator; diagnostic topics; `invert_output` toggled at run
time (modelled, and launched with in `MCVelocityPidInvert.cfg`); NaN parameters; a clock that is set back.

## 6. Plan

Done: the torque path (mixer, load node, their composition), the controller, the
shadow simulation, the SIL loop, the drive plugin in both directions, the message
codec and the event loop as state machines; proofs of all invariants, action properties
and refinements of the passing runs.

Next, in this order:

1. NaN parameters through the validators and the watchdogs, and what remains of the
   `TypeCorrect` and watchdog theorems with them.
2. A bound on the link's and the bus's delays in `ODrive` and `DriveFeedback`, so that
   `DeactivatedDrivesIdle` and `QueuedFramesArrive` get bounds as the torque path has.
