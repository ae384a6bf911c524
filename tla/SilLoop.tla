------------------------------- MODULE SilLoop --------------------------------
(***************************************************************************)
(* The closed loop of sil_mode.launch.py: chrono_flap_node simulates the   *)
(* flap and publishes /joint_states, velocity_pid_node measures there and  *)
(* publishes its torque and the references ~/position_command and          *)
(* ~/velocity_command, which the shadow law of chrono_flap_node follows.   *)
(* Each waits for the other, so starting up and starting again matter.     *)
(*                                                                         *)
(* Values are abstracted to where they come from: the start (life) of      *)
(* velocity_pid_node that computed them and the start of chrono_flap_node  *)
(* on whose flap's motion they depend, 0 where they depend on none.        *)
(* Shadow synchronisation is on, as launched; what the shadow law makes of *)
(* its references is FlapSim's subject.                                    *)
(***************************************************************************)
EXTENDS Integers, Sequences, FiniteSets

CONSTANTS Depth,       \* messages a subscription holds
          MaxStarts,   \* bound on the starts of each node
          VelModes     \* control_mode values tried at run time

Modes == {"position_only", "velocity_only", "cascade"}

ASSUME SilAssumption ==
  Depth \in Nat \ {0} /\ MaxStarts \in Nat \ {0} /\ VelModes \subseteq Modes

VARIABLES
  vel,       \* velocity_pid_node: [up, life, joint_index_ >= 0, of: flap measured
             \* last, mode, v_of: flap v_cmd_ depends on]
  sim,       \* chrono_flap_node: [up, life, and the message received last, a set
             \* of at most one: shadow_ext_pos_ref_, shadow_ext_vel_ref_,
             \* latest_torque_]
  topic,     \* messages under way
  measured   \* history: lives of velocity_pid_node that had a joint state

vars == <<vel, sim, topic, measured>>

Topics == {"joint_states", "position_command", "velocity_command", "effort"}
Message == [from : 0..MaxStarts, of : 0..MaxStarts]

\* Members as constructed; cascade is the default of the launch file.
VelStarted(life) == [up |-> TRUE, life |-> life, joint |-> FALSE, of |-> 0,
                     mode |-> "cascade", v_of |-> 0]
SimStarted(life) == [up |-> TRUE, life |-> life, pos |-> {}, vel |-> {}, effort |-> {}]

Init ==
  /\ vel = [VelStarted(0) EXCEPT !.up = FALSE]
  /\ sim = [SimStarted(0) EXCEPT !.up = FALSE]
  /\ measured = {}
  /\ topic = [t \in Topics |-> <<>>]

\* Mutant of Sent: the subscription's history is not bounded.
SentUnbounded(up, q, m) == Append(q, m)

\* Keep-last; nobody subscribes for a node that is down.
Sent(up, q, m) == IF ~up THEN <<>> ELSE IF Len(q) < Depth THEN Append(q, m) ELSE Append(Tail(q), m)

-------------------------------------------------------------------------------
\* A process is launched, or launched again; its subscriptions are new.
VelStart ==
  /\ ~vel.up /\ vel.life < MaxStarts
  /\ vel' = VelStarted(vel.life + 1)
  /\ topic' = [topic EXCEPT !["joint_states"] = <<>>]
  /\ UNCHANGED <<sim, measured>>

SimStart ==
  /\ ~sim.up /\ sim.life < MaxStarts
  /\ sim' = SimStarted(sim.life + 1)
  /\ topic' = [t \in Topics |-> IF t = "joint_states" THEN topic[t] ELSE <<>>]
  /\ UNCHANGED <<vel, measured>>

\* A process dies and will be launched again.
VelStop ==
  /\ vel.up /\ vel.life < MaxStarts
  /\ vel' = [vel EXCEPT !.up = FALSE]
  /\ UNCHANGED <<sim, topic, measured>>

SimStop ==
  /\ sim.up /\ sim.life < MaxStarts
  /\ sim' = [sim EXCEPT !.up = FALSE]
  /\ UNCHANGED <<vel, topic, measured>>

Lose ==
  \E t \in Topics :
    /\ topic[t] # <<>>
    /\ topic' = [topic EXCEPT ![t] = Tail(@)]
    /\ UNCHANGED <<vel, sim, measured>>

-------------------------------------------------------------------------------
JointStateCallback ==
  /\ vel.up /\ topic["joint_states"] # <<>>
  /\ vel' = [vel EXCEPT !.joint = TRUE, !.of = Head(topic["joint_states"]).of]
  /\ topic' = [topic EXCEPT !["joint_states"] = Tail(@)]
  /\ measured' = measured \cup {vel.life}
  /\ UNCHANGED sim

SetControlMode ==
  /\ vel.up
  /\ \E m \in VelModes : vel' = [vel EXCEPT !.mode = m]
  /\ UNCHANGED <<sim, topic, measured>>

\* Mutants: the loop runs without a joint; position_only leaves v_cmd_ alone.
AlwaysRuns == TRUE
VCmdHeld == IF vel.mode = "cascade" THEN {vel.of, vel.v_of}
            ELSE IF vel.mode = "velocity_only" THEN {0} ELSE {vel.v_of}

\* control_loop returns early, with torque 0.0, as long as no joint was found.
RunsLoop == vel.joint

\* v_cmd_: the outer PID's, computed or held; the trajectory's; zero.
VCmd == IF vel.mode = "cascade" THEN {vel.of, vel.v_of} ELSE {0}

ControlLoop ==
  /\ vel.up /\ RunsLoop
  /\ \E v_of \in VCmd :
       LET says(of) == [from |-> vel.life, of |-> of]
       IN  /\ vel' = [vel EXCEPT !.v_of = v_of]
           /\ topic' = [topic EXCEPT !["effort"] = Sent(sim.up, @, says(vel.of)),
                                     !["position_command"] = Sent(sim.up, @, says(0)),
                                     !["velocity_command"] = Sent(sim.up, @, says(v_of))]
  /\ UNCHANGED <<sim, measured>>

ControlLoopBlind ==
  /\ vel.up /\ ~RunsLoop
  /\ topic' = [topic EXCEPT !["effort"] = Sent(sim.up, @, [from |-> vel.life, of |-> 0])]
  /\ UNCHANGED <<vel, sim, measured>>

-------------------------------------------------------------------------------
\* Callbacks of chrono_flap_node on the three topics it takes from the controller.
Inbox == [position_command |-> "pos", velocity_command |-> "vel", effort |-> "effort"]

Receive(t) ==
  /\ sim.up /\ topic[t] # <<>>
  /\ sim' = [sim EXCEPT ![Inbox[t]] = {Head(topic[t])}]
  /\ topic' = [topic EXCEPT ![t] = Tail(@)]
  /\ UNCHANGED <<vel, measured>>

\* Mutant of SimPublishes: /joint_states begins with the first references.
SimPublishesWhenDriven == sim.pos # {} /\ sim.vel # {}

\* Every iteration publishes /joint_states, whatever the flap was driven with.
SimPublishes == TRUE

SimTick ==
  /\ sim.up
  /\ topic' = IF SimPublishes
              THEN [topic EXCEPT !["joint_states"] = Sent(vel.up, @, [from |-> 0, of |-> sim.life])]
              ELSE topic
  /\ UNCHANGED <<vel, sim, measured>>

Next ==
  \/ VelStart \/ SimStart \/ VelStop \/ SimStop \/ Lose
  \/ JointStateCallback \/ SetControlMode \/ ControlLoop \/ ControlLoopBlind
  \/ \E t \in DOMAIN Inbox : Receive(t)
  \/ SimTick

Spec == Init /\ [][Next]_vars

\* What is down is launched, timer and loop keep turning, and a topic that is
\* published again and again delivers now and then.
FairSpec ==
  /\ Spec /\ WF_vars(VelStart) /\ WF_vars(SimStart)
  /\ WF_vars(ControlLoop \/ ControlLoopBlind) /\ WF_vars(SimTick)
  /\ SF_vars(JointStateCallback) /\ \A t \in DOMAIN Inbox : SF_vars(Receive(t))

-------------------------------------------------------------------------------
\* Every variable has its type and no subscription holds more than its depth.
TypeOK ==
  /\ {vel.up, vel.joint, sim.up} \subseteq BOOLEAN
  /\ {vel.life, vel.of, vel.v_of, sim.life} \subseteq 0..MaxStarts
  /\ vel.mode \in Modes /\ sim.pos \cup sim.vel \cup sim.effort \subseteq Message
  /\ \A m \in {sim.pos, sim.vel, sim.effort} : Cardinality(m) <= 1
  /\ \A t \in Topics : topic[t] \in Seq(Message) /\ Len(topic[t]) <= Depth

\* The shadow law never follows a velocity_pid_node that has not measured a flap
\* since it started, whichever node was restarted last.
ReferencesAreMeasured ==
  \A m \in sim.pos \cup sim.vel : m.from \in measured

\* Started in any order, and after any restarts, the nodes get each other going:
\* for good the controller measures the present flap, and references and torque
\* the simulation goes by are the present controller's.
Closed ==
  /\ vel.up /\ sim.up /\ vel.of = sim.life
  /\ \A m \in {sim.pos, sim.vel, sim.effort} : m # {} /\ \A r \in m : r.from = vel.life
  /\ \A r \in sim.effort : r.of = sim.life
LoopCloses == <>[]Closed

\* A controller that leaves cascade takes the flap's motion out of the references
\* the shadow law goes by, unless it returns to cascade.
CircleOpens ==
  vel.mode # "cascade"
    ~> (vel.mode = "cascade" \/ \A m \in sim.pos \cup sim.vel : m.of = 0)

\* README.md of chrono_flap_sim on SIL: "There is no circular dependency because the
\* trajectory references come from velocity_pid_node's internal generator, not from
\* /joint_states feedback."
NoCircularDependency == \A m \in sim.pos \cup sim.vel : m.of = 0

===============================================================================
