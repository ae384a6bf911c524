---------------------------- MODULE SilLoopProofs -----------------------------
(***************************************************************************)
(* SilLoop for any subscription depth, any number of starts and any modes: *)
(* types, and that the shadow law only follows a controller that measures. *)
(***************************************************************************)
EXTENDS SilLoop, FiniteSetTheorems, TLAPS

Lives == 0..MaxStarts
References == {"position_command", "velocity_command"}

\* What may be under way in a topic: references only from lives that measured.
Allowed(t) == {m \in Message : t \in References => m.from \in measured}

VelType ==
  vel \in [up : BOOLEAN, life : Lives, joint : BOOLEAN, of : Lives, mode : Modes, v_of : Lives]
SimType ==
  sim \in [up : BOOLEAN, life : Lives, pos : SUBSET Message, vel : SUBSET Message,
           effort : SUBSET Message]
OneEach == \A m \in {sim.pos, sim.vel, sim.effort} : m = {} \/ \E r \in Message : m = {r}
TopicType ==
  /\ DOMAIN topic = Topics /\ topic = [t \in Topics |-> topic[t]]
  /\ \A t \in Topics : topic[t] \in Seq(Allowed(t)) /\ Len(topic[t]) <= Depth

\* A controller that runs its loop has measured since it started.
Measuring == measured \subseteq Lives /\ (vel.joint => vel.life \in measured)

Inv == VelType /\ SimType /\ OneEach /\ TopicType /\ Measuring /\ ReferencesAreMeasured

-------------------------------------------------------------------------------
\* A new subscription.
LEMMA EmptyLemma == ASSUME NEW S PROVE <<>> \in Seq(S) /\ Len(<<>>) <= Depth
BY SilAssumption

\* A subscription's queue stays within its depth and among the allowed messages.
LEMMA SentLemma ==
  ASSUME NEW S, NEW q \in Seq(S), NEW m \in S, NEW up, Len(q) <= Depth
  PROVE  Sent(up, q, m) \in Seq(S) /\ Len(Sent(up, q, m)) <= Depth
<1>1. CASE ~up
  BY <1>1, SilAssumption DEF Sent
<1>2. CASE up /\ Len(q) < Depth
  BY <1>2, SilAssumption DEF Sent
<1>3. CASE up /\ ~(Len(q) < Depth)
  <2>1. Len(q) = Depth /\ q # <<>>
    BY <1>3, SilAssumption
  <2>2. Tail(q) \in Seq(S) /\ Len(Tail(q)) = Len(q) - 1
    BY <2>1
  <2> QED BY <1>3, <2>1, <2>2, SilAssumption DEF Sent
<1> QED BY <1>1, <1>2, <1>3

\* Taking the oldest message of a subscription's queue.
LEMMA TakenLemma ==
  ASSUME NEW S, NEW q \in Seq(S), q # <<>>, Len(q) <= Depth
  PROVE  Head(q) \in S /\ Tail(q) \in Seq(S) /\ Len(Tail(q)) <= Depth
BY SilAssumption

\* More lives that measured allow more messages.
LEMMA AllowedGrows ==
  ASSUME NEW A, NEW B, A \subseteq B, NEW q \in Seq(A)
  PROVE  q \in Seq(B)
OBVIOUS

\* A step that puts another queue in the place of one topic's.
LEMMA ReplacedLemma ==
  ASSUME TopicType, measured' = measured,
         NEW t \in Topics, NEW q \in Seq(Allowed(t)), Len(q) <= Depth,
         topic' = [topic EXCEPT ![t] = q]
  PROVE  TopicType'
<1>1. \A u \in Topics : Allowed(u)' = Allowed(u)
  BY DEF Allowed
<1>2. DOMAIN topic' = Topics /\ topic' = [u \in Topics |-> topic'[u]]
  BY DEF TopicType
<1>3. \A u \in Topics : topic'[u] \in Seq(Allowed(u)) /\ Len(topic'[u]) <= Depth
  BY DEF TopicType
<1> QED BY <1>1, <1>2, <1>3 DEF TopicType

\* A step that leaves the topics alone.
LEMMA UntouchedLemma ==
  ASSUME TopicType, measured' = measured, topic' = topic
  PROVE  TopicType'
<1>1. \A u \in Topics : Allowed(u)' = Allowed(u)
  BY DEF Allowed
<1> QED BY <1>1 DEF TopicType

\* The nodes before their first start satisfy the invariant.
LEMMA InitInv == Init => Inv
<1> SUFFICES ASSUME Init PROVE Inv
  OBVIOUS
<1>1. 0 \in Lives
  BY SilAssumption DEF Lives
<1>2. VelType /\ SimType /\ OneEach /\ Measuring /\ ReferencesAreMeasured
  BY <1>1 DEF Init, VelStarted, SimStarted, VelType, SimType, OneEach, Measuring,
              ReferencesAreMeasured, Modes
<1>3. TopicType
  BY SilAssumption DEF Init, TopicType
<1> QED BY <1>2, <1>3 DEF Inv

-------------------------------------------------------------------------------
\* Every step of either node, of the link and of whoever launches them keeps it.
LEMMA StepInv == Inv /\ [Next]_vars => Inv'
<1> SUFFICES ASSUME Inv, [Next]_vars PROVE Inv'
  OBVIOUS
<1> USE DEF Inv
<1>t. ASSUME measured \subseteq measured'
      PROVE  \A t \in Topics : Allowed(t) \subseteq Allowed(t)'
  BY <1>t DEF Allowed
<1>1. CASE VelStart
  <2>1. vel.life + 1 \in Lives
    BY <1>1, SilAssumption DEF VelStart, VelType, Lives
  <2>2. VelType' /\ Measuring'
    BY <1>1, <2>1, SilAssumption DEF VelStart, VelStarted, VelType, Measuring, Modes, Lives
  <2>3. TopicType'
    <3>1. \A t \in Topics : topic'[t] = topic[t] \/ topic'[t] = <<>>
      BY <1>1 DEF VelStart, TopicType
    <3>2. \A t \in Topics : Allowed(t)' = Allowed(t)
      BY <1>1 DEF VelStart, Allowed
    <3>3. DOMAIN topic' = Topics /\ topic' = [t \in Topics |-> topic'[t]]
      BY <1>1 DEF VelStart, TopicType
    <3>4. \A t \in Topics : topic'[t] \in Seq(Allowed(t)) /\ Len(topic'[t]) <= Depth
      BY <3>1, EmptyLemma DEF TopicType
    <3> QED BY <3>2, <3>3, <3>4 DEF TopicType
  <2> QED BY <1>1, <2>2, <2>3 DEF VelStart, SimType, OneEach, ReferencesAreMeasured
<1>2. CASE SimStart
  <2>1. sim.life + 1 \in Lives
    BY <1>2, SilAssumption DEF SimStart, SimType, Lives
  <2>2. SimType' /\ OneEach' /\ ReferencesAreMeasured'
    BY <1>2, <2>1 DEF SimStart, SimStarted, SimType, OneEach, ReferencesAreMeasured
  <2>3. TopicType'
    <3>1. \A t \in Topics : topic'[t] = topic[t] \/ topic'[t] = <<>>
      BY <1>2 DEF SimStart, TopicType
    <3>2. \A t \in Topics : Allowed(t)' = Allowed(t)
      BY <1>2 DEF SimStart, Allowed
    <3>3. DOMAIN topic' = Topics /\ topic' = [t \in Topics |-> topic'[t]]
      BY <1>2 DEF SimStart, TopicType
    <3>4. \A t \in Topics : topic'[t] \in Seq(Allowed(t)) /\ Len(topic'[t]) <= Depth
      BY <3>1, EmptyLemma DEF TopicType
    <3> QED BY <3>2, <3>3, <3>4 DEF TopicType
  <2> QED BY <1>2, <2>2, <2>3 DEF SimStart, VelType, Measuring
<1>3. CASE VelStop
  <2>1. TopicType'
    BY <1>3, UntouchedLemma DEF VelStop
  <2> QED BY <1>3, <2>1 DEF VelStop, VelType, SimType, OneEach, Measuring, ReferencesAreMeasured
<1>4. CASE SimStop
  <2>1. TopicType'
    BY <1>4, UntouchedLemma DEF SimStop
  <2> QED BY <1>4, <2>1 DEF SimStop, VelType, SimType, OneEach, Measuring, ReferencesAreMeasured
<1>5. CASE Lose
  <2>1. TopicType'
    <3> PICK t \in Topics : topic[t] # <<>> /\ topic' = [topic EXCEPT ![t] = Tail(@)]
                            /\ UNCHANGED measured
      BY <1>5 DEF Lose
    <3>1. Tail(topic[t]) \in Seq(Allowed(t)) /\ Len(Tail(topic[t])) <= Depth
      BY TakenLemma DEF TopicType
    <3> QED BY <3>1, ReplacedLemma
  <2> QED BY <1>5, <2>1 DEF Lose, VelType, SimType, OneEach, Measuring, ReferencesAreMeasured
<1>6. CASE JointStateCallback
  <2> DEFINE q == topic["joint_states"]
  <2>0. "joint_states" \in Topics
    BY DEF Topics
  <2>1. Head(q) \in Message /\ Tail(q) \in Seq(Allowed("joint_states")) /\ Len(Tail(q)) <= Depth
    BY <1>6, <2>0, TakenLemma DEF JointStateCallback, TopicType, Allowed
  <2>2. VelType' /\ Measuring'
    BY <1>6, <2>1 DEF JointStateCallback, VelType, Measuring, Message, Lives
  <2>3. TopicType'
    <3>1. \A t \in Topics : Allowed(t) \subseteq Allowed(t)'
      BY <1>6, <1>t DEF JointStateCallback
    <3>2. \A t \in Topics : topic'[t] \in Seq(Allowed(t)) /\ Len(topic'[t]) <= Depth
      BY <1>6, <2>1 DEF JointStateCallback, TopicType
    <3>3. \A t \in Topics : topic'[t] \in Seq(Allowed(t)')
      BY <3>1, <3>2, AllowedGrows
    <3> QED BY <1>6, <3>2, <3>3 DEF JointStateCallback, TopicType
  <2> QED BY <1>6, <2>2, <2>3 DEF JointStateCallback, SimType, OneEach, ReferencesAreMeasured
<1>7. CASE SetControlMode
  <2>1. TopicType'
    BY <1>7, UntouchedLemma DEF SetControlMode
  <2> QED BY <1>7, <2>1, SilAssumption
       DEF SetControlMode, VelType, SimType, OneEach, Measuring, ReferencesAreMeasured
<1>8. CASE ControlLoop
  <2>1. vel.joint /\ vel.life \in measured
    BY <1>8 DEF ControlLoop, RunsLoop, Measuring
  <2> DEFINE says(of) == [from |-> vel.life, of |-> of]
  <2>2. PICK v_of \in VCmd :
          /\ vel' = [vel EXCEPT !.v_of = v_of]
          /\ topic' = [topic EXCEPT !["effort"] = Sent(sim.up, @, says(vel.of)),
                                    !["position_command"] = Sent(sim.up, @, says(0)),
                                    !["velocity_command"] = Sent(sim.up, @, says(v_of))]
    BY <1>8 DEF ControlLoop
  <2>3. v_of \in Lives /\ 0 \in Lives /\ vel.of \in Lives /\ vel.life \in Lives
    BY <2>2, SilAssumption DEF VCmd, VelType, Lives
  <2>4. VelType'
    BY <2>2, <2>3 DEF VelType
  <2>5. \A t \in Topics, of \in Lives : says(of) \in Allowed(t)
    BY <2>1, <2>3 DEF Allowed, Message, Lives
  <2>6. \A t \in Topics, of \in Lives :
          /\ Sent(sim.up, topic[t], says(of)) \in Seq(Allowed(t))
          /\ Len(Sent(sim.up, topic[t], says(of))) <= Depth
    <3> TAKE t \in Topics, of \in Lives
    <3> HIDE DEF says
    <3> QED BY <2>5, SentLemma DEF TopicType
  <2>7. TopicType'
    <3> HIDE DEF says
    <3>1. /\ DOMAIN topic' = Topics /\ topic' = [t \in Topics |-> topic'[t]]
          /\ \A t \in Topics : \/ topic'[t] = topic[t]
                               \/ \E of \in Lives : topic'[t] = Sent(sim.up, topic[t], says(of))
      BY <2>2, <2>3 DEF TopicType, Topics
    <3>2. \A t \in Topics : Allowed(t)' = Allowed(t)
      BY <1>8 DEF ControlLoop, Allowed
    <3> QED BY <2>6, <3>1, <3>2 DEF TopicType
  <2> QED BY <1>8, <2>2, <2>4, <2>7
       DEF ControlLoop, SimType, OneEach, Measuring, ReferencesAreMeasured
<1>9. CASE ControlLoopBlind
  <2> DEFINE m == [from |-> vel.life, of |-> 0]
  <2>1. m \in Allowed("effort") /\ "effort" \in Topics
    BY SilAssumption DEF Allowed, Message, VelType, Lives, References, Topics
  <2>2. /\ Sent(sim.up, topic["effort"], m) \in Seq(Allowed("effort"))
        /\ Len(Sent(sim.up, topic["effort"], m)) <= Depth
    <3> HIDE DEF m
    <3> QED BY <2>1, SentLemma DEF TopicType
  <2>3. TopicType'
    <3>1. measured' = measured
             /\ topic' = [topic EXCEPT !["effort"] = Sent(sim.up, topic["effort"], m)]
      BY <1>9 DEF ControlLoopBlind
    <3> HIDE DEF m
    <3> QED BY <2>1, <2>2, <3>1, ReplacedLemma
  <2> QED BY <1>9, <2>3 DEF ControlLoopBlind, VelType, SimType, OneEach, Measuring,
                            ReferencesAreMeasured
<1>10. CASE \E t \in DOMAIN Inbox : Receive(t)
  <2> PICK t \in {"position_command", "velocity_command", "effort"} : Receive(t)
    BY <1>10 DEF Inbox
  <2>1. t \in Topics
    BY DEF Topics
  <2> DEFINE r == Head(topic[t])
  <2>2. r \in Allowed(t) /\ Tail(topic[t]) \in Seq(Allowed(t)) /\ Len(Tail(topic[t])) <= Depth
    BY <2>1, TakenLemma DEF Receive, TopicType
  <2>3. r \in Message /\ (t # "effort" => r.from \in measured)
    BY <2>2 DEF Allowed, References
  <2>4. /\ sim' = IF t = "effort" THEN [sim EXCEPT !.effort = {r}]
                  ELSE IF t = "position_command" THEN [sim EXCEPT !.pos = {r}]
                  ELSE [sim EXCEPT !.vel = {r}]
        /\ measured' = measured
    <3>1. CASE t = "effort"
      BY <3>1 DEF Receive, Inbox, SimType
    <3>2. CASE t = "position_command"
      BY <3>2 DEF Receive, Inbox, SimType
    <3>3. CASE t = "velocity_command"
      BY <3>3 DEF Receive, Inbox, SimType
    <3> QED BY <3>1, <3>2, <3>3
  <2>5. SimType' /\ OneEach' /\ ReferencesAreMeasured'
    <3> HIDE DEF r
    <3> QED BY <2>3, <2>4 DEF SimType, OneEach, ReferencesAreMeasured
  <2>6. TopicType'
    <3>1. measured' = measured /\ topic' = [topic EXCEPT ![t] = Tail(topic[t])]
      BY DEF Receive
    <3> QED BY <2>1, <2>2, <3>1, ReplacedLemma
  <2> QED BY <2>5, <2>6 DEF Receive, VelType, Measuring
<1>11. CASE SimTick
  <2> DEFINE m == [from |-> 0, of |-> sim.life]
  <2>1. m \in Allowed("joint_states") /\ "joint_states" \in Topics
    BY SilAssumption DEF Allowed, Message, SimType, Lives, References, Topics
  <2>2. /\ Sent(vel.up, topic["joint_states"], m) \in Seq(Allowed("joint_states"))
        /\ Len(Sent(vel.up, topic["joint_states"], m)) <= Depth
    <3> HIDE DEF m
    <3> QED BY <2>1, SentLemma DEF TopicType
  <2>3. TopicType'
    <3>1. measured' = measured
             /\ topic' = [topic EXCEPT !["joint_states"] =
                                        Sent(vel.up, topic["joint_states"], m)]
      BY <1>11 DEF SimTick, SimPublishes
    <3> HIDE DEF m
    <3> QED BY <2>1, <2>2, <3>1, ReplacedLemma
  <2> QED BY <1>11, <2>3 DEF SimTick, VelType, SimType, OneEach, Measuring,
                             ReferencesAreMeasured
<1>12. CASE UNCHANGED vars
  <2>1. TopicType'
    BY <1>12, UntouchedLemma DEF vars
  <2> QED BY <1>12, <2>1 DEF vars, VelType, SimType, OneEach, Measuring, ReferencesAreMeasured
<1> QED BY <1>1, <1>2, <1>3, <1>4, <1>5, <1>6, <1>7, <1>8, <1>9, <1>10, <1>11, <1>12 DEF Next

\* The invariant is strong enough for both properties.
LEMMA InvImplies == Inv => TypeOK /\ ReferencesAreMeasured
<1> SUFFICES ASSUME Inv PROVE TypeOK /\ ReferencesAreMeasured
  OBVIOUS
<1>1. \A m \in {sim.pos, sim.vel, sim.effort} : Cardinality(m) <= 1
  <2> SUFFICES ASSUME NEW m \in {sim.pos, sim.vel, sim.effort} PROVE Cardinality(m) <= 1
    OBVIOUS
  <2>1. CASE m = {}
    BY <2>1, FS_EmptySet
  <2>2. CASE \E r \in Message : m = {r}
    BY <2>2, FS_Singleton
  <2> QED BY <2>1, <2>2 DEF Inv, OneEach
<1>2. \A t \in Topics : topic[t] \in Seq(Message) /\ Len(topic[t]) <= Depth
  BY AllowedGrows DEF Inv, TopicType, Allowed
<1> QED BY <1>1, <1>2 DEF Inv, VelType, SimType, TypeOK, Lives

\* Whatever is lost or restarted: the variables keep their types and no
\* subscription exceeds its depth.
THEOREM TypeCorrect == Spec => []TypeOK
<1>1. Init => Inv
  BY InitInv
<1>2. Inv /\ [Next]_vars => Inv'
  BY StepInv
<1>3. Inv => TypeOK
  BY InvImplies
<1> QED BY <1>1, <1>2, <1>3, PTL DEF Spec

\* The shadow law's references are those of a velocity_pid_node that has measured
\* the flap since it started, for any number of restarts of either node.
THEOREM ShadowFollowsMeasurements == Spec => []ReferencesAreMeasured
<1>1. Init => Inv
  BY InitInv
<1>2. Inv /\ [Next]_vars => Inv'
  BY StepInv
<1>3. Inv => ReferencesAreMeasured
  BY InvImplies
<1> QED BY <1>1, <1>2, <1>3, PTL DEF Spec

===============================================================================
