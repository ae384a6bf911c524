-------------------------- MODULE DriveFeedbackProofs -------------------------
(***************************************************************************)
(* DriveFeedback for any axes, any other traffic on the link and any depth *)
(* of the receive queue: estimates are of the axis's own drive and whole,  *)
(* and never go back, a read leaves the newest, and every message decodes  *)
(* to what was encoded.                                                    *)
(***************************************************************************)
EXTENDS DriveFeedback, SequenceTheorems, TLAPS

Ids == 0..2047
Frame == [id : Ids, dlc : 0..8, n : Nat]
\* A frame that routes to an axis is one its drive has sent, or of nobody.
NodeOf(id) == id \div 32
OwnNumber(f, s) == \A a \in NodeIds : NodeOf(f.id) = a => f.n \in 0..s[a]

FlagType == open \in BOOLEAN /\ reading \in BOOLEAN
SentType == sent \in [NodeIds -> 0..MaxFrames]
RxType == rx \in Seq(Frame) /\ Len(rx) <= Depth
RxOwn == \A i \in DOMAIN rx : OwnNumber(rx[i], sent)
EstOwn == \A a \in NodeIds : \A cmd \in Commands : \A k \in 1..2 : est[a][cmd][k] \in 0..sent[a]

Inv == FlagType /\ SentType /\ RxType /\ RxOwn /\ EstOwn /\ EstimatesBelongTogether

-------------------------------------------------------------------------------
\* Identifiers and lengths of the message table are in range.
LEMMA TableLemma ==
  ASSUME NEW m \in Messages
  PROVE  m.cmd_id \in 0..31 /\ m.msg_length \in 0..8
BY DEF Messages, Message, TwoFloats, OneFloat, Get_Version, Heartbeat, Estop, Get_Error,
       Address, Set_Axis_State, Get_Encoder_Estimates, Set_Controller_Mode, Set_Input_Pos,
       Set_Input_Vel, Set_Input_Torque, Set_Limits, Set_Traj_Vel_Limit, Set_Traj_Accel_Limits,
       Set_Traj_Inertia, Get_Iq, Get_Temperature, Reboot, Get_Bus_Voltage_Current,
       Clear_Errors, Set_Absolute_Position, Set_Pos_Gain, Set_Vel_Gains, Get_Torques,
       Get_Powers, Enter_DFU_Mode

\* The messages an axis has a case for are eight bytes long.
LEMMA HandledLemma ==
  ASSUME NEW m \in Handled
  PROVE  m.msg_length = 8
BY DEF Handled, Message, TwoFloats, Get_Encoder_Estimates, Get_Torques, Get_Powers

\* The node can be taken out of an identifier again, for every node and message.
LEMMA CanIdLemma ==
  ASSUME NEW d \in 0..63, NEW m \in Messages
  PROVE  CanId(d, m) \in Ids /\ NodeOf(CanId(d, m)) = d
<1> DEFINE x == d * 32 + m.cmd_id
<1>1. m.cmd_id \in 0..31
  BY TableLemma
<1>2. x \in Int /\ 0 <= x /\ x < 2048
  BY <1>1
<1>3. x \div 32 = d
  BY <1>1
<1>4. x % 2048 = x
  <2> HIDE DEF x
  <2> QED BY <1>2
<1>5. CanId(d, m) = x
  BY <1>4 DEF CanId
<1> HIDE DEF x
<1> QED BY <1>2, <1>3, <1>5 DEF NodeOf, Ids

\* A queue without frames.
LEMMA EmptyLemma == <<>> \in Seq(Frame) /\ Len(<<>>) <= Depth /\ DOMAIN <<>> = {}
BY FeedbackAssumption

\* Before anything is configured.
LEMMA InitInv == Init => Inv
<1> SUFFICES ASSUME Init PROVE Inv
  OBVIOUS
<1>1. FlagType /\ SentType
  <2>1. FlagType
    BY Zenon DEF Init, FlagType
  <2>2. 0 \in 0..MaxFrames
    BY FeedbackAssumption
  <2> QED BY <2>1, <2>2 DEF Init, SentType
<1>3. RxType /\ RxOwn
  BY EmptyLemma DEF Init, RxType, RxOwn
<1>2. \A a \in NodeIds : \A cmd \in Commands : est[a][cmd] = <<0, 0>> /\ sent[a] = 0
  BY DEF Init, NoEstimate
<1> QED BY <1>1, <1>2, <1>3 DEF Inv, EstOwn, EstimatesBelongTogether

-------------------------------------------------------------------------------
\* Taking in a frame of a drive keeps the queue, whether it is queued or lost.
LEMMA ArrivesLemma ==
  ASSUME Inv, NEW d \in 0..63, NEW m \in Messages, NEW dlc \in 0..8, NEW n \in Nat,
         Arrives(d, m, dlc, n), sent' \in [NodeIds -> Nat],
         \A a \in NodeIds : sent[a] <= sent'[a], d \in NodeIds => n <= sent'[d]
  PROVE  RxType' /\ RxOwn'
<1> DEFINE f == [id |-> CanId(d, m), dlc |-> dlc, n |-> n]
<1>1. f \in Frame /\ NodeOf(f.id) = d /\ f.n = n
  <2>1. CanId(d, m) \in Ids /\ NodeOf(CanId(d, m)) = d
    BY CanIdLemma
  <2> HIDE DEF Messages, CanId
  <2>2. f = [id |-> CanId(d, m), dlc |-> dlc, n |-> n]
    OBVIOUS
  <2>3. f \in Frame
    BY <2>1, <2>2 DEF Frame
  <2> QED BY <2>1, <2>2, <2>3
<1> HIDE DEF f
<1>2. \A i \in DOMAIN rx : OwnNumber(rx[i], sent')
  <2> SUFFICES ASSUME NEW i \in DOMAIN rx, NEW a \in NodeIds, NodeOf(rx[i].id) = a
               PROVE  rx[i].n \in 0..sent'[a]
    BY DEF OwnNumber
  <2>1. rx[i].n \in 0..sent[a]
    BY DEF Inv, RxOwn, OwnNumber
  <2> QED BY <2>1 DEF Inv, SentType
<1>3. OwnNumber(f, sent')
  BY <1>1 DEF OwnNumber
<1>4. CASE rx' = rx
  BY <1>2, <1>4 DEF Inv, RxType, RxOwn, OwnNumber
<1>5. CASE rx' = Append(rx, f) /\ Len(rx) < Depth
  <2>1. rx' \in Seq(Frame) /\ Len(rx') = Len(rx) + 1
    BY <1>1, <1>5 DEF Inv, RxType
  <2>2. \A i \in DOMAIN rx' : rx'[i] = f \/ (i \in DOMAIN rx /\ rx'[i] = rx[i])
    BY <1>1, <1>5 DEF Inv, RxType
  <2>3. RxOwn'
    BY <1>2, <1>3, <2>2 DEF RxOwn, OwnNumber
  <2> QED BY <1>5, <2>1, <2>3, FeedbackAssumption DEF RxType, Inv
<1> QED BY <1>4, <1>5 DEF Arrives, Queued, f

\* read() takes the oldest frame; every axis keeps whole estimates of its own drive.
LEMMA ReadFrameLemma == Inv /\ ReadFrame => Inv'
<1> SUFFICES ASSUME Inv, ReadFrame PROVE Inv'
  OBVIOUS
<1> USE DEF Inv
<1> DEFINE f == Head(rx)
<1>1. f \in Frame /\ OwnNumber(f, sent) /\ rx' \in Seq(Frame) /\ Len(rx') <= Depth
  <2>1. 1 \in DOMAIN rx /\ f = rx[1]
    BY DEF ReadFrame, RxType
  <2> QED BY <2>1, FeedbackAssumption DEF ReadFrame, RxType, RxOwn
<1>2. RxOwn'
  <2>1. \A i \in DOMAIN rx' : i + 1 \in DOMAIN rx /\ rx'[i] = rx[i + 1]
    BY DEF ReadFrame, RxType
  <2> QED BY <2>1 DEF ReadFrame, RxOwn, OwnNumber
<1>3. ASSUME NEW a \in NodeIds, NEW cmd \in Commands
      PROVE  \/ est'[a][cmd] = est[a][cmd]
             \/ ForAxis(f, a) /\ est'[a][cmd] = <<f.n, f.n>>
  <2> HIDE DEF f
  <2>1. est'[a][cmd] = IF /\ ForAxis(f, a) /\ f.id % 32 = cmd
                          /\ \E m \in Handled : m.cmd_id = cmd /\ LongEnough(f.dlc, m)
                       THEN <<Value(f, 1), Value(f, 2)>> ELSE est[a][cmd]
    BY DEF ReadFrame, Dispatched, f
  <2>2. ASSUME NEW m \in Handled, LongEnough(f.dlc, m)
        PROVE  Value(f, 1) = f.n /\ Value(f, 2) = f.n
    <3>1. f.dlc \in Int /\ f.dlc >= 8
      BY <1>1, <2>2, HandledLemma DEF LongEnough, Frame
    <3> QED BY <3>1 DEF Value
  <2> QED BY <2>1, <2>2
<1>4. EstOwn' /\ EstimatesBelongTogether'
  <2> SUFFICES ASSUME NEW a \in NodeIds, NEW cmd \in Commands
               PROVE  /\ \A k \in 1..2 : est'[a][cmd][k] \in 0..sent[a]
                      /\ est'[a][cmd][1] = est'[a][cmd][2]
    BY DEF ReadFrame, EstOwn, EstimatesBelongTogether
  <2>1. ForAxis(f, a) => f.n \in 0..sent[a]
    BY <1>1 DEF ForAxis, OwnNumber, NodeOf
  <2> HIDE DEF f
  <2> QED BY <1>3, <2>1 DEF EstOwn, EstimatesBelongTogether
<1> QED BY <1>1, <1>2, <1>4 DEF ReadFrame, GoesOn, FlagType, SentType, RxType

\* Every step of the link, the manager and the plugin keeps the invariant.
LEMMA StepInv == Inv /\ [Next]_vars => Inv'
<1> SUFFICES ASSUME Inv, [Next]_vars PROVE Inv'
  OBVIOUS
<1> USE DEF Inv
<1>1. CASE OnConfigure
  BY <1>1 DEF OnConfigure, FlagType, SentType, RxType, RxOwn, OwnNumber, EstOwn,
              EstimatesBelongTogether
<1>2. CASE OnCleanup
  BY <1>2, EmptyLemma DEF OnCleanup, FlagType, SentType, RxType, RxOwn, EstOwn,
                          EstimatesBelongTogether
<1>3. CASE Broadcast
  <2> PICK a \in NodeIds, m \in Broadcasts, dlc \in {4, 8} :
        /\ sent[a] < MaxFrames /\ sent' = [sent EXCEPT ![a] = @ + 1]
        /\ Arrives(a, m, dlc, sent'[a]) /\ UNCHANGED <<open, reading, est>>
    BY <1>3 DEF Broadcast
  <2>1. SentType' /\ sent' \in [NodeIds -> Nat] /\ \A b \in NodeIds : sent[b] <= sent'[b]
    BY FeedbackAssumption DEF SentType
  <2>2. a \in 0..63 /\ m \in Messages /\ dlc \in 0..8
    BY FeedbackAssumption
  <2> PICK n \in Nat : n = sent'[a]
    BY <2>1
  <2>3. RxType' /\ RxOwn'
    <3>1. Arrives(a, m, dlc, n) /\ n <= sent'[a]
      BY DEF Arrives
    <3>2. Inv
      OBVIOUS
    <3> HIDE DEF Inv
    <3> QED BY <2>1, <2>2, <3>1, <3>2, ArrivesLemma
  <2>4. EstOwn'
    BY <2>1 DEF EstOwn, SentType
  <2> QED BY <2>1, <2>3, <2>4 DEF FlagType, EstimatesBelongTogether
<1>4. CASE Overhear
  <2> PICK d \in Strangers, m \in Messages :
        Arrives(d, m, m.msg_length, 0) /\ UNCHANGED <<open, reading, est, sent>>
    BY <1>4 DEF Overhear
  <2>1. d \in 0..63 /\ d \notin NodeIds /\ m.msg_length \in 0..8
    BY FeedbackAssumption, TableLemma
  <2>2. sent' \in [NodeIds -> Nat] /\ \A b \in NodeIds : sent[b] <= sent'[b]
    BY FeedbackAssumption DEF SentType
  <2>3. RxType' /\ RxOwn'
    BY <2>1, <2>2, ArrivesLemma
  <2> QED BY <2>3 DEF FlagType, SentType, EstOwn, EstimatesBelongTogether
<1>5. CASE Read
  BY <1>5 DEF Read, FlagType, SentType, RxType, RxOwn, OwnNumber, EstOwn,
              EstimatesBelongTogether
<1>6. CASE ReadFrame
  BY <1>6, ReadFrameLemma
<1>7. CASE ReadEmpty
  BY <1>7 DEF ReadEmpty, FlagType, SentType, RxType, RxOwn, OwnNumber, EstOwn,
              EstimatesBelongTogether
<1>8. CASE ReadFails
  BY <1>8 DEF ReadFails, FlagType, SentType, RxType, RxOwn, OwnNumber, EstOwn,
              EstimatesBelongTogether
<1>9. CASE Restart
  <2>1. \A a \in NodeIds : \A cmd \in Commands : est'[a][cmd] = <<0, 0>> /\ sent'[a] \in Nat
    BY <1>9, FeedbackAssumption DEF Restart, NoEstimate, SentType
  <2>2. FlagType' /\ SentType' /\ RxType' /\ RxOwn'
    BY <1>9, EmptyLemma DEF Restart, FlagType, SentType, RxType, RxOwn
  <2> QED BY <2>1, <2>2 DEF EstOwn, EstimatesBelongTogether
<1>10. CASE UNCHANGED vars
  BY <1>10 DEF vars, FlagType, SentType, RxType, RxOwn, OwnNumber, EstOwn,
               EstimatesBelongTogether
<1> QED BY <1>1, <1>2, <1>3, <1>4, <1>5, <1>6, <1>7, <1>8, <1>9, <1>10 DEF Next

\* Every variable has its type, and an estimate is NaN or of a frame the drive of
\* its axis has sent, whoever else speaks on the link.
THEOREM TypeCorrect == Spec => []TypeOK
<1>1. Init => Inv
  BY InitInv
<1>2. Inv /\ [Next]_vars => Inv'
  BY StepInv
<1>3. Inv => TypeOK
  BY DEF Inv, TypeOK, FlagType, SentType, RxType, EstOwn
<1> QED BY <1>1, <1>2, <1>3, PTL DEF Spec

\* The two values of an estimate are always of one frame, for any traffic, cut
\* frames, errors and restarts.
THEOREM EstimatesStayWhole == Spec => []EstimatesBelongTogether
<1>1. Init => Inv
  BY InitInv
<1>2. Inv /\ [Next]_vars => Inv'
  BY StepInv
<1>3. Inv => EstimatesBelongTogether
  BY DEF Inv
<1> QED BY <1>1, <1>2, <1>3, PTL DEF Spec

-------------------------------------------------------------------------------
(***************************************************************************)
(* read() adds no delay.  Between two reads the newest whole frame of an   *)
(* axis is either in its estimate or still waits, and then no other of the *)
(* same message waits behind it; a read that has emptied the queue has     *)
(* therefore left the newest.                                              *)
(***************************************************************************)

\* A waiting frame that will become an estimate.
Carries(f, a, cmd) ==
  /\ ForAxis(f, a) /\ f.id % 32 = cmd
  /\ \E m \in Handled : m.cmd_id = cmd /\ LongEnough(f.dlc, m)

Arrived(a, cmd) ==
  /\ \A i \in DOMAIN rx : ~Carries(rx[i], a, cmd)
  /\ est[a][cmd][1] = newest[a][cmd]
LastOne(a, cmd, i) ==
  /\ Carries(rx[i], a, cmd) /\ rx[i].n = newest[a][cmd]
  /\ \A j \in DOMAIN rx : j > i => ~Carries(rx[j], a, cmd)
Pending(a, cmd) == Arrived(a, cmd) \/ \E i \in DOMAIN rx : LastOne(a, cmd, i)

NewestType == newest \in [NodeIds -> [Commands -> Nat]]
NewestIsLast == \A a \in NodeIds : \A cmd \in Commands : Pending(a, cmd)

OrderInv == Inv /\ NewestType /\ NewestIsLast

\* A command identifies its message.
LEMMA HandledIsUnique ==
  ASSUME NEW m \in Messages, NEW h \in Handled, m.cmd_id = h.cmd_id
  PROVE  m = h
<1>1. /\ Get_Version.cmd_id = 0 /\ Heartbeat.cmd_id = 1 /\ Estop.cmd_id = 2
      /\ Get_Error.cmd_id = 3 /\ Address.cmd_id = 6 /\ Set_Axis_State.cmd_id = 7
      /\ Get_Encoder_Estimates.cmd_id = 9 /\ Set_Controller_Mode.cmd_id = 11
      /\ Set_Input_Pos.cmd_id = 12
      /\ Set_Input_Vel.cmd_id = 13 /\ Set_Input_Torque.cmd_id = 14 /\ Set_Limits.cmd_id = 15
      /\ Set_Traj_Vel_Limit.cmd_id = 17 /\ Set_Traj_Accel_Limits.cmd_id = 18
      /\ Set_Traj_Inertia.cmd_id = 19
      /\ Get_Iq.cmd_id = 20 /\ Get_Temperature.cmd_id = 21 /\ Reboot.cmd_id = 22
      /\ Get_Bus_Voltage_Current.cmd_id = 23 /\ Clear_Errors.cmd_id = 24
      /\ Set_Absolute_Position.cmd_id = 25
      /\ Set_Pos_Gain.cmd_id = 26 /\ Set_Vel_Gains.cmd_id = 27 /\ Get_Torques.cmd_id = 28
      /\ Get_Powers.cmd_id = 29 /\ Enter_DFU_Mode.cmd_id = 31
  BY DEF Message, TwoFloats, OneFloat, Get_Version, Heartbeat, Estop, Get_Error, Address,
         Set_Axis_State, Get_Encoder_Estimates, Set_Controller_Mode, Set_Input_Pos,
         Set_Input_Vel, Set_Input_Torque, Set_Limits, Set_Traj_Vel_Limit, Set_Traj_Accel_Limits,
         Set_Traj_Inertia, Get_Iq, Get_Temperature, Reboot, Get_Bus_Voltage_Current,
         Clear_Errors, Set_Absolute_Position, Set_Pos_Gain, Set_Vel_Gains, Get_Torques,
         Get_Powers, Enter_DFU_Mode
<1> QED BY <1>1 DEF Handled, Messages

\* And can be taken out of an identifier again, as the node can.
LEMMA CommandLemma ==
  ASSUME NEW d \in 0..63, NEW m \in Messages
  PROVE  CanId(d, m) % 32 = m.cmd_id /\ CanId(d, m) \div 32 = d
<1> DEFINE c == m.cmd_id
           x == d * 32 + c
<1>1. c \in 0..31
  BY TableLemma
<1> HIDE DEF c
<1>2. x \in Int /\ 0 <= x /\ x < 2048 /\ x % 32 = c
  BY <1>1
<1>3. x % 2048 = x
  <2> HIDE DEF x
  <2> QED BY <1>2
<1>4. CanId(d, m) = x
  BY <1>3 DEF CanId, c
<1>5. CanId(d, m) \div 32 = d
  BY CanIdLemma DEF NodeOf
<1> QED BY <1>2, <1>4, <1>5 DEF c

\* Which axis and message a frame that arrives is for.
LEMMA CarriesLemma ==
  ASSUME NEW d \in 0..63, NEW m \in Messages, NEW f, f.id = CanId(d, m),
         NEW a \in NodeIds, NEW cmd \in Commands
  PROVE  Carries(f, a, cmd) <=> a = d /\ m.cmd_id = cmd /\ m \in Handled /\ f.dlc >= m.msg_length
<1>2. f.id % 32 = m.cmd_id /\ f.id \div 32 = d
  BY CommandLemma
<1>3. \A h \in Handled : h.cmd_id = m.cmd_id => h = m
  BY HandledIsUnique
<1> QED BY <1>2, <1>3 DEF Carries, ForAxis, LongEnough

\* What keeps the queue and the two records keeps what is pending.
LEMMA PendingStays ==
  ASSUME NEW a \in NodeIds, NEW cmd \in Commands, Pending(a, cmd),
         rx' = rx, newest' = newest, est'[a][cmd] = est[a][cmd]
  PROVE  Pending(a, cmd)'
BY DEF Pending, Arrived, LastOne

\* A frame for another axis or message may join the queue.
LEMMA PendingBehind ==
  ASSUME NEW a \in NodeIds, NEW cmd \in Commands, Pending(a, cmd), rx \in Seq(Frame),
         NEW f \in Frame, rx' = Append(rx, f), ~Carries(f, a, cmd),
         est' = est, newest'[a][cmd] = newest[a][cmd]
  PROVE  Pending(a, cmd)'
<1>1. /\ \A i \in DOMAIN rx : i \in DOMAIN rx' /\ rx'[i] = rx[i]
      /\ \A i \in DOMAIN rx' : i \in DOMAIN rx \/ rx'[i] = f
  OBVIOUS
<1>2. CASE Arrived(a, cmd)
  <2>1. \A i \in DOMAIN rx' : ~Carries(rx'[i], a, cmd)
    BY <1>1, <1>2 DEF Arrived
  <2> QED BY <1>2, <2>1 DEF Pending, Arrived
<1>3. ASSUME NEW i \in DOMAIN rx, LastOne(a, cmd, i)
      PROVE  Pending(a, cmd)'
  <2>1. i \in DOMAIN rx' /\ rx'[i] = rx[i]
    BY <1>1
  <2>2. \A j \in DOMAIN rx' : j > i => ~Carries(rx'[j], a, cmd)
    BY <1>1, <1>3 DEF LastOne
  <2> QED BY <1>3, <2>1, <2>2 DEF Pending, LastOne
<1> QED BY <1>2, <1>3 DEF Pending

\* A frame of the axis and message that joins the queue is the newest.
LEMMA PendingNow ==
  ASSUME NEW a \in NodeIds, NEW cmd \in Commands, rx \in Seq(Frame),
         NEW f \in Frame, rx' = Append(rx, f), Carries(f, a, cmd), newest'[a][cmd] = f.n
  PROVE  Pending(a, cmd)'
<1>1. PICK k \in DOMAIN rx' : rx'[k] = f /\ \A j \in DOMAIN rx' : ~(j > k)
  <2>1. Len(rx) + 1 \in DOMAIN rx' /\ rx'[Len(rx) + 1] = f
        /\ \A j \in DOMAIN rx' : ~(j > Len(rx) + 1)
    OBVIOUS
  <2> QED BY <2>1
<1>2. LastOne(a, cmd, k)'
  BY <1>1 DEF LastOne
<1> QED BY <1>1, <1>2 DEF Pending

\* A drive's new frame is the newest of its axis and goes to the end of the queue.
LEMMA BroadcastKeepsOrder == OrderInv /\ Broadcast => NewestType' /\ NewestIsLast'
<1> SUFFICES ASSUME OrderInv, Broadcast PROVE NewestType' /\ NewestIsLast'
  OBVIOUS
<1> PICK d \in NodeIds, m \in Broadcasts, dlc \in {4, 8} :
      /\ sent[d] < MaxFrames
      /\ sent' = [sent EXCEPT ![d] = @ + 1]
      /\ Arrives(d, m, dlc, sent'[d])
      /\ newest' = IF Queued /\ m \in Handled /\ dlc >= m.msg_length
                   THEN [newest EXCEPT ![d][m.cmd_id] = sent'[d]] ELSE newest
      /\ UNCHANGED <<open, reading, est>>
  BY Zenon DEF Broadcast
<1>1. d \in 0..63 /\ m \in Messages /\ dlc \in 0..8
  BY FeedbackAssumption
<1> PICK n \in Nat : n = sent'[d]
  BY DEF OrderInv, Inv, SentType
<1>2. m \in Handled => m.cmd_id \in Commands
  BY DEF Commands
<1>3. NewestType'
  BY <1>2 DEF OrderInv, NewestType
<1>4. rx \in Seq(Frame)
  BY DEF OrderInv, Inv, RxType
<1> SUFFICES ASSUME NEW a \in NodeIds, NEW cmd \in Commands PROVE Pending(a, cmd)'
  BY <1>3 DEF NewestIsLast
<1>5. Pending(a, cmd)
  BY DEF OrderInv, NewestIsLast
<1>6. CASE ~Queued
  BY <1>5, <1>6, PendingStays DEF Arrives
<1>7. CASE Queued
  <2> DEFINE f == [id |-> CanId(d, m), dlc |-> dlc, n |-> n]
  <2>1. rx' = Append(rx, f) /\ f.n = n
    BY <1>7 DEF Arrives
  <2>2. f \in Frame
    <3>1. CanId(d, m) \in Ids
      BY <1>1, CanIdLemma
    <3> QED BY <1>1, <3>1 DEF Frame
  <2>0. f.id = CanId(d, m) /\ f.dlc = dlc
    OBVIOUS
  <2> HIDE DEF f
  <2>3. Carries(f, a, cmd) <=> a = d /\ m.cmd_id = cmd /\ m \in Handled /\ dlc >= m.msg_length
    BY <1>1, <2>0, CarriesLemma
  <2>4. CASE Carries(f, a, cmd)
    <3>1. newest'[a][cmd] = n
      BY <1>7, <2>3, <2>4 DEF OrderInv, NewestType
    <3> QED BY <1>4, <2>1, <2>2, <2>4, <3>1, PendingNow
  <2>5. CASE ~Carries(f, a, cmd)
    <3>1. newest'[a][cmd] = newest[a][cmd]
      BY <1>7, <2>3, <2>5 DEF OrderInv, NewestType
    <3> QED BY <1>4, <1>5, <2>1, <2>2, <2>5, <3>1, PendingBehind
  <2> QED BY <2>4, <2>5
<1> QED BY <1>6, <1>7

\* A stranger's frame is of no axis, so it moves no axis's newest frame.
LEMMA OverhearKeepsOrder == OrderInv /\ Overhear => NewestType' /\ NewestIsLast'
<1> SUFFICES ASSUME OrderInv, Overhear PROVE NewestType' /\ NewestIsLast'
  OBVIOUS
<1> PICK d \in Strangers, m \in Messages :
      Arrives(d, m, m.msg_length, 0) /\ Queued /\ UNCHANGED <<est, newest>>
  BY DEF Overhear
<1>1. d \in 0..63 /\ d \notin NodeIds /\ m.msg_length \in 0..8
  BY FeedbackAssumption, TableLemma
<1> SUFFICES ASSUME NEW a \in NodeIds, NEW cmd \in Commands PROVE Pending(a, cmd)'
  BY DEF NewestIsLast, OrderInv, NewestType
<1> DEFINE f == [id |-> CanId(d, m), dlc |-> m.msg_length, n |-> 0]
<1>2. rx' = Append(rx, f)
  BY DEF Arrives
<1>3. f \in Frame
  <2>1. CanId(d, m) \in Ids
    BY <1>1, CanIdLemma
  <2> QED BY <1>1, <2>1 DEF Frame
<1>0. f.id = CanId(d, m)
  OBVIOUS
<1> HIDE DEF f
<1>4. ~Carries(f, a, cmd)
  BY <1>0, <1>1, CarriesLemma
<1> QED BY <1>2, <1>3, <1>4, PendingBehind DEF OrderInv, NewestIsLast, Inv, RxType

\* The oldest frame becomes an estimate, or is for nobody.
LEMMA ReadFrameKeepsOrder == OrderInv /\ ReadFrame => NewestType' /\ NewestIsLast'
<1> SUFFICES ASSUME OrderInv, ReadFrame PROVE NewestType' /\ NewestIsLast'
  OBVIOUS
<1> SUFFICES ASSUME NEW a \in NodeIds, NEW cmd \in Commands PROVE Pending(a, cmd)'
  BY DEF NewestIsLast, OrderInv, NewestType, ReadFrame
<1> DEFINE f == Head(rx)
<1>1. /\ rx \in Seq(Frame) /\ rx # <<>> /\ rx' = Tail(rx) /\ newest' = newest
      /\ f = rx[1] /\ f \in Frame
  BY DEF OrderInv, Inv, RxType, ReadFrame
<1>2. /\ \A i \in DOMAIN rx' : i + 1 \in DOMAIN rx /\ rx'[i] = rx[i + 1]
      /\ \A i \in DOMAIN rx : i \in Nat /\ (i # 1 => i - 1 \in DOMAIN rx' /\ rx'[i - 1] = rx[i])
      /\ \A i \in DOMAIN rx' : i \in Nat /\ i > 0
  BY <1>1
<1>3. est'[a][cmd] = IF Carries(f, a, cmd) THEN <<Value(f, 1), Value(f, 2)>> ELSE est[a][cmd]
  <2> HIDE DEF f
  <2>1. est' = Dispatched(f)
    BY DEF ReadFrame, f
  <2> QED BY <2>1 DEF Dispatched, Carries
<1> HIDE DEF f
<1>4. Carries(f, a, cmd) => Value(f, 1) = f.n
  <2> SUFFICES ASSUME NEW m \in Handled, LongEnough(f.dlc, m) PROVE Value(f, 1) = f.n
    BY DEF Carries
  <2>1. f.dlc \in Int /\ f.dlc >= 8
    BY <1>1, HandledLemma DEF LongEnough, Frame
  <2> QED BY <2>1 DEF Value
<1>5. CASE Arrived(a, cmd)
  <2>1. ~Carries(f, a, cmd)
    BY <1>1, <1>5 DEF Arrived
  <2>2. \A i \in DOMAIN rx' : ~Carries(rx'[i], a, cmd)
    BY <1>2, <1>5 DEF Arrived
  <2> QED BY <1>1, <1>3, <1>5, <2>1, <2>2 DEF Pending, Arrived
<1>6. ASSUME NEW i \in DOMAIN rx, LastOne(a, cmd, i), i # 1
      PROVE  Pending(a, cmd)'
  <2> DEFINE k == i - 1
  <2>1. k \in DOMAIN rx' /\ rx'[k] = rx[i] /\ i \in Nat /\ k = i - 1
    BY <1>2, <1>6
  <2> HIDE DEF k
  <2>2. \A j \in DOMAIN rx' : j > k => ~Carries(rx'[j], a, cmd)
    BY <1>2, <1>6, <2>1 DEF LastOne
  <2>3. LastOne(a, cmd, k)'
    BY <1>1, <1>6, <2>1, <2>2 DEF LastOne
  <2> QED BY <2>1, <2>3 DEF Pending
<1>7. ASSUME LastOne(a, cmd, 1)
      PROVE  Pending(a, cmd)'
  <2>1. Carries(f, a, cmd) /\ f.n = newest[a][cmd]
    BY <1>1, <1>7 DEF LastOne
  <2>2. est'[a][cmd][1] = newest'[a][cmd]
    BY <1>1, <1>3, <1>4, <2>1
  <2>3. \A j \in DOMAIN rx' : ~Carries(rx'[j], a, cmd)
    BY <1>2, <1>7 DEF LastOne
  <2> QED BY <2>2, <2>3 DEF Pending, Arrived
<1>8. Pending(a, cmd)
  BY DEF OrderInv, NewestIsLast
<1> QED BY <1>5, <1>6, <1>7, <1>8 DEF Pending

\* The order of the queue survives every step.
LEMMA OrderStep == OrderInv /\ [Next]_vars => OrderInv'
<1> SUFFICES ASSUME OrderInv, [Next]_vars PROVE NewestType' /\ NewestIsLast'
  BY StepInv DEF OrderInv
<1>1. CASE OnConfigure \/ Read \/ ReadEmpty \/ ReadFails \/ UNCHANGED vars
  <2>1. rx' = rx /\ est' = est /\ newest' = newest
    BY <1>1 DEF OnConfigure, Read, ReadEmpty, ReadFails, vars
  <2> QED BY <2>1, PendingStays DEF OrderInv, NewestType, NewestIsLast
<1>2. CASE OnCleanup
  <2>1. \A a \in NodeIds : \A cmd \in Commands :
          newest'[a][cmd] = est[a][cmd][1] /\ est[a][cmd][1] \in Nat
    <3>1. \A a \in NodeIds : \A cmd \in Commands :
            est[a][cmd][1] \in 0..sent[a] /\ newest'[a][cmd] = est[a][cmd][1]
      BY <1>2 DEF OnCleanup, OrderInv, Inv, EstOwn
    <3> QED BY <3>1
  <2>2. NewestType'
    BY <1>2, <2>1 DEF OnCleanup, NewestType
  <2>3. rx' = <<>> /\ est' = est
    BY <1>2 DEF OnCleanup
  <2> QED BY <2>1, <2>2, <2>3, EmptyLemma DEF NewestIsLast, Pending, Arrived
<1>3. CASE Broadcast
  BY <1>3, BroadcastKeepsOrder
<1>4. CASE Overhear
  BY <1>4, OverhearKeepsOrder
<1>5. CASE ReadFrame
  BY <1>5, ReadFrameKeepsOrder
<1>6. CASE Restart
  <2>1. \A a \in NodeIds : \A cmd \in Commands : newest'[a][cmd] = 0 /\ est'[a][cmd][1] = 0
    BY <1>6 DEF Restart, NoEstimate
  <2>2. NewestType'
    BY <1>6 DEF Restart, NewestType
  <2>3. rx' = <<>>
    BY <1>6 DEF Restart
  <2> QED BY <2>1, <2>2, <2>3, EmptyLemma DEF NewestIsLast, Pending, Arrived
<1> QED BY <1>1, <1>2, <1>3, <1>4, <1>5, <1>6 DEF Next

\* The inductive invariant about order (on_can_msg, read): the newest frame of an axis
\* that reached the socket is in its estimate, or waits with none of its kind behind it.
THEOREM OrderInvariant == Spec => []OrderInv
<1>1. Init => OrderInv
  <2> SUFFICES ASSUME Init PROVE NewestType /\ NewestIsLast
    BY InitInv DEF OrderInv
  <2>1. \A a \in NodeIds : \A cmd \in Commands : newest[a][cmd] = 0 /\ est[a][cmd][1] = 0
    BY DEF Init, NoEstimate
  <2>2. NewestType /\ rx = <<>>
    BY DEF Init, NewestType
  <2> QED BY <2>1, <2>2, EmptyLemma DEF NewestIsLast, Pending, Arrived
<1> QED BY <1>1, OrderStep, PTL DEF Spec

\* However many frames came in since the last cycle, of however many axes, a read
\* that ends other than by an error leaves the newest of every axis.
THEOREM NewestIsLeft == Spec => ReadLeavesTheNewest
<1>1. OrderInv /\ [Next]_vars =>
        [reading /\ ~reading' /\ open' /\ (rx = <<>> \/ rx' # rx)
           => \A a \in NodeIds : \A cmd \in Commands : est'[a][cmd][1] = newest[a][cmd]]_vars
  <2> SUFFICES ASSUME OrderInv, Next, reading, ~reading', open', rx = <<>> \/ rx' # rx,
                      NEW a \in NodeIds, NEW cmd \in Commands
               PROVE  est'[a][cmd][1] = newest[a][cmd]
    OBVIOUS
  <2>1. est' = est /\ rx = <<>>
    BY DEF Next, OnConfigure, OnCleanup, Broadcast, Overhear, Read, ReadFrame, GoesOn, ReadEmpty,
           ReadFails, Restart
  <2>2. Arrived(a, cmd)
    BY <2>1, EmptyLemma DEF OrderInv, NewestIsLast, Pending
  <2> QED BY <2>1, <2>2 DEF Arrived
<1> QED BY <1>1, OrderInvariant, PTL DEF Spec, ReadLeavesTheNewest

-------------------------------------------------------------------------------
(***************************************************************************)
(* Estimates never go back.  The frames of one drive wait in the order it  *)
(* sent them, and all of them are newer than every estimate of its axis.   *)
(***************************************************************************)

\* A frame of a drive, whatever its message and however short.
From(f, a) == NodeOf(f.id) = a

InOrder(a) ==
  /\ \A i \in DOMAIN rx : \A j \in DOMAIN rx :
       i < j /\ From(rx[i], a) /\ From(rx[j], a) => rx[i].n < rx[j].n
  /\ \A i \in DOMAIN rx : From(rx[i], a) => \A cmd \in Commands : est[a][cmd][1] < rx[i].n
SentInOrder == \A a \in NodeIds : InOrder(a)

\* A frame that is newer than all that waits, or of another drive, may join.
LEMMA InOrderBehind ==
  ASSUME Inv, NEW a \in NodeIds, InOrder(a), NEW f \in Frame, rx' = Append(rx, f), est' = est,
         From(f, a) => sent[a] < f.n
  PROVE  InOrder(a)'
<1>1. rx \in Seq(Frame) /\ sent[a] \in Nat
  BY DEF Inv, RxType, SentType
<1>2. \A i \in DOMAIN rx' : \/ i \in DOMAIN rx /\ rx'[i] = rx[i]
                            \/ i = Len(rx) + 1 /\ rx'[i] = f
  BY <1>1
<1>3. \A i \in DOMAIN rx : i \in Nat /\ i < Len(rx) + 1 /\ rx[i] \in Frame
  BY <1>1
<1>4. ASSUME From(f, a) PROVE /\ \A i \in DOMAIN rx : From(rx[i], a) => rx[i].n < f.n
                              /\ \A cmd \in Commands : est[a][cmd][1] < f.n
  <2>1. f.n \in Nat /\ sent[a] < f.n
    BY <1>4 DEF Frame
  <2>2. \A i \in DOMAIN rx : From(rx[i], a) => rx[i].n \in 0..sent[a]
    BY DEF Inv, RxOwn, OwnNumber, From
  <2>3. \A cmd \in Commands : est[a][cmd][1] \in 0..sent[a]
    BY DEF Inv, EstOwn
  <2> QED BY <1>1, <2>1, <2>2, <2>3
<1>5. ASSUME NEW i \in DOMAIN rx', NEW j \in DOMAIN rx', i < j, From(rx'[i], a), From(rx'[j], a)
      PROVE  rx'[i].n < rx'[j].n
  <2>1. i \in DOMAIN rx /\ rx'[i] = rx[i]
    <3>1. i # Len(rx) + 1
      BY <1>1, <1>2, <1>3, <1>5
    <3> QED BY <1>2, <3>1
  <2>2. CASE j \in DOMAIN rx /\ rx'[j] = rx[j]
    BY <1>5, <2>1, <2>2 DEF InOrder
  <2>3. CASE rx'[j] = f
    BY <1>4, <1>5, <2>1, <2>3
  <2> QED BY <1>2, <2>2, <2>3
<1>6. ASSUME NEW i \in DOMAIN rx', From(rx'[i], a), NEW cmd \in Commands
      PROVE  est'[a][cmd][1] < rx'[i].n
  <2>1. CASE i \in DOMAIN rx /\ rx'[i] = rx[i]
    BY <1>6, <2>1 DEF InOrder
  <2>2. CASE rx'[i] = f
    BY <1>4, <1>6, <2>2
  <2> QED BY <1>2, <2>1, <2>2
<1> QED BY <1>5, <1>6 DEF InOrder

\* What read() makes of the oldest frame: for its own drive's axis a newer estimate
\* or none, for any other axis none.
LEMMA ReadFrameMovesOn ==
  ASSUME Inv, SentInOrder, ReadFrame, NEW a \in NodeIds, NEW cmd \in Commands
  PROVE  \/ est'[a][cmd] = est[a][cmd]
         \/ /\ From(rx[1], a) /\ est'[a][cmd][1] = rx[1].n
            /\ est[a][cmd][1] < rx[1].n
<1>1. rx \in Seq(Frame) /\ rx # <<>> /\ 1 \in DOMAIN rx /\ Head(rx) = rx[1] /\ rx[1] \in Frame
  BY DEF Inv, RxType, ReadFrame
<1> DEFINE f == rx[1]
<1>2. est'[a][cmd] = IF Carries(f, a, cmd) THEN <<Value(f, 1), Value(f, 2)>> ELSE est[a][cmd]
  <2>1. est' = Dispatched(f)
    BY <1>1 DEF ReadFrame
  <2> HIDE DEF f
  <2> QED BY <2>1 DEF Dispatched, Carries
<1>3. CASE Carries(f, a, cmd)
  <2>1. From(f, a)
    BY <1>3 DEF Carries, ForAxis, From, NodeOf
  <2>2. Value(f, 1) = f.n
    <3> SUFFICES ASSUME NEW m \in Handled, LongEnough(f.dlc, m) PROVE Value(f, 1) = f.n
      BY <1>3 DEF Carries
    <3>1. f.dlc \in Int /\ f.dlc >= 8
      BY <1>1, HandledLemma DEF LongEnough, Frame
    <3> QED BY <3>1 DEF Value
  <2>3. est[a][cmd][1] < f.n
    BY <1>1, <2>1 DEF SentInOrder, InOrder
  <2> QED BY <1>2, <1>3, <2>1, <2>2, <2>3
<1> QED BY <1>2, <1>3

\* The frames behind it are newer still.
LEMMA ReadFrameKeepsSent == Inv /\ SentInOrder /\ ReadFrame => SentInOrder'
<1> SUFFICES ASSUME Inv, SentInOrder, ReadFrame, NEW a \in NodeIds PROVE InOrder(a)'
  BY DEF SentInOrder
<1>1. rx \in Seq(Frame) /\ rx # <<>> /\ rx' = Tail(rx)
  BY DEF Inv, RxType, ReadFrame
<1>2. /\ \A i \in DOMAIN rx' : i \in Nat /\ i + 1 \in DOMAIN rx /\ rx'[i] = rx[i + 1] /\ 1 < i + 1
      /\ 1 \in DOMAIN rx
  BY <1>1
<1>3. InOrder(a)
  BY DEF SentInOrder
<1>4. ASSUME NEW i \in DOMAIN rx', NEW j \in DOMAIN rx', i < j, From(rx'[i], a), From(rx'[j], a)
      PROVE  rx'[i].n < rx'[j].n
  <2>1. i + 1 \in DOMAIN rx /\ j + 1 \in DOMAIN rx /\ i + 1 < j + 1
    BY <1>2, <1>4
  <2> QED BY <1>2, <1>3, <1>4, <2>1 DEF InOrder
<1>5. ASSUME NEW i \in DOMAIN rx', From(rx'[i], a), NEW cmd \in Commands
      PROVE  est'[a][cmd][1] < rx'[i].n
  <2>1. i + 1 \in DOMAIN rx /\ rx'[i] = rx[i + 1] /\ 1 < i + 1 /\ 1 \in DOMAIN rx
    BY <1>2
  <2>2. CASE est'[a][cmd] = est[a][cmd]
    BY <1>3, <1>5, <2>1, <2>2 DEF InOrder
  <2>3. CASE From(rx[1], a) /\ est'[a][cmd][1] = rx[1].n
    BY <1>3, <1>5, <2>1, <2>3 DEF InOrder
  <2> QED BY <2>2, <2>3, ReadFrameMovesOn
<1> QED BY <1>4, <1>5 DEF InOrder

\* The order of sending survives every step.
LEMMA SentStep == Inv /\ SentInOrder /\ [Next]_vars => SentInOrder'
<1> SUFFICES ASSUME Inv, SentInOrder, [Next]_vars PROVE SentInOrder'
  OBVIOUS
<1>1. CASE OnConfigure \/ Read \/ ReadEmpty \/ ReadFails \/ UNCHANGED vars
  <2>1. rx' = rx /\ est' = est
    BY <1>1 DEF OnConfigure, Read, ReadEmpty, ReadFails, vars
  <2> QED BY <2>1 DEF SentInOrder, InOrder
<1>2. CASE OnCleanup \/ Restart
  <2>1. rx' = <<>>
    BY <1>2 DEF OnCleanup, Restart
  <2> QED BY <2>1, EmptyLemma DEF SentInOrder, InOrder
<1>3. CASE Broadcast
  <2> PICK d \in NodeIds, m \in Broadcasts, dlc \in {4, 8} :
        sent' = [sent EXCEPT ![d] = @ + 1] /\ Arrives(d, m, dlc, sent'[d]) /\ est' = est
    BY <1>3, Zenon DEF Broadcast
  <2>1. d \in 0..63 /\ m \in Messages /\ dlc \in 0..8
    BY FeedbackAssumption
  <2>2. sent'[d] \in Nat /\ sent[d] \in Nat /\ sent'[d] > sent[d]
    BY DEF Inv, SentType
  <2> SUFFICES ASSUME NEW a \in NodeIds PROVE InOrder(a)'
    BY DEF SentInOrder
  <2>3. InOrder(a)
    BY DEF SentInOrder
  <2>4. CASE rx' = rx
    BY <2>3, <2>4 DEF InOrder
  <2>5. CASE rx' # rx
    <3> DEFINE f == [id |-> CanId(d, m), dlc |-> dlc, n |-> sent'[d]]
    <3>1. rx' = Append(rx, f) /\ f.n = sent'[d] /\ f.id = CanId(d, m)
      BY <2>5 DEF Arrives
    <3>2. CanId(d, m) \in Ids /\ NodeOf(CanId(d, m)) = d
      BY <2>1, CanIdLemma
    <3>3. f \in Frame
      BY <2>1, <2>2, <3>2 DEF Frame
    <3> HIDE DEF f
    <3>4. From(f, a) => sent[a] < f.n
      BY <2>2, <3>1, <3>2 DEF From
    <3> QED BY <2>3, <3>1, <3>3, <3>4, InOrderBehind
  <2> QED BY <2>4, <2>5
<1>4. CASE Overhear
  <2> PICK d \in Strangers, m \in Messages :
        Arrives(d, m, m.msg_length, 0) /\ Queued /\ est' = est
    BY <1>4 DEF Overhear
  <2>1. d \in 0..63 /\ d \notin NodeIds /\ m.msg_length \in 0..8
    BY FeedbackAssumption, TableLemma
  <2> SUFFICES ASSUME NEW a \in NodeIds PROVE InOrder(a)'
    BY DEF SentInOrder
  <2> DEFINE f == [id |-> CanId(d, m), dlc |-> m.msg_length, n |-> 0]
  <2>2. rx' = Append(rx, f) /\ f.id = CanId(d, m)
    BY DEF Arrives
  <2>3. CanId(d, m) \in Ids /\ NodeOf(CanId(d, m)) = d
    BY <2>1, CanIdLemma
  <2>4. f \in Frame
    BY <2>1, <2>3 DEF Frame
  <2> HIDE DEF f
  <2>5. ~From(f, a)
    BY <2>1, <2>2, <2>3 DEF From
  <2> QED BY <2>2, <2>4, <2>5, InOrderBehind DEF SentInOrder
<1>5. CASE ReadFrame
  BY <1>5, ReadFrameKeepsSent
<1> QED BY <1>1, <1>2, <1>3, <1>4, <1>5 DEF Next

\* Short of a restart of the driver no estimate is ever replaced by an older one:
\* whatever is lost, cut short, overheard, closed or left behind by a failed read,
\* what read() and on_can_msg put into an estimate is newer than what was there.
THEOREM EstimatesNeverGoBack ==
  Spec => [][~Restart => \A a \in NodeIds : \A cmd \in Commands :
                est'[a][cmd] = est[a][cmd] \/ est[a][cmd][1] < est'[a][cmd][1]]_vars
<1>1. Init => Inv /\ SentInOrder
  <2> SUFFICES ASSUME Init PROVE SentInOrder
    BY InitInv
  <2>1. rx = <<>>
    BY DEF Init
  <2> QED BY <2>1, EmptyLemma DEF SentInOrder, InOrder
<1>2. Inv /\ SentInOrder /\ [Next]_vars => (Inv /\ SentInOrder)'
  BY StepInv, SentStep
<1>3. Inv /\ SentInOrder /\ [Next]_vars =>
        [~Restart => \A a \in NodeIds : \A cmd \in Commands :
           est'[a][cmd] = est[a][cmd] \/ est[a][cmd][1] < est'[a][cmd][1]]_vars
  <2> SUFFICES ASSUME Inv, SentInOrder, Next, ~Restart, NEW a \in NodeIds, NEW cmd \in Commands
               PROVE  est'[a][cmd] = est[a][cmd] \/ est[a][cmd][1] < est'[a][cmd][1]
    OBVIOUS
  <2>1. CASE ReadFrame
    BY <2>1, ReadFrameMovesOn
  <2>2. CASE ~ReadFrame
    <3>1. est' = est
      BY <2>2 DEF Next, OnConfigure, OnCleanup, Broadcast, Overhear, Read, ReadEmpty, ReadFails
    <3> QED BY <3>1
  <2> QED BY <2>1, <2>2
<1> QED BY <1>1, <1>2, <1>3, PTL DEF Spec

-------------------------------------------------------------------------------
(***************************************************************************)
(* The codec.  A frame is built up signal by signal, each by clearing its  *)
(* field and adding the whole shifted value, so a later signal may spoil   *)
(* what lies above its field but never what lies below: as the signals of  *)
(* a message are in the order of their bits, and each clears its field     *)
(* first, all of them hold in the end.  No message has more than eight, so *)
(* eight steps replace the induction over encode_buf.                      *)
(***************************************************************************)

\* A signal that its type can hold and a frame of `bytes` bytes has room for.
Signal(bytes) ==
  {sig \in [type : DOMAIN Width, start : Nat, length : Nat, scaled : BOOLEAN] :
     sig.length <= Width[sig.type] /\ sig.start + sig.length <= 8 * bytes}
\* At most eight signals, none of which reaches into the next.
Layout(m) ==
  /\ m.signals \in Seq(Signal(m.msg_length)) /\ Len(m.signals) <= 8
  /\ \A s, t \in DOMAIN m.signals :
       s < t => m.signals[s].start + m.signals[s].length <= m.signals[t].start

\* S and Scaled describe signals of a frame that holds them.
LEMMA SignalFits ==
  ASSUME NEW bytes \in Nat, NEW type \in DOMAIN Width, NEW start \in Nat, NEW length \in Nat,
         length <= Width[type], start + length <= 8 * bytes
  PROVE  S(type, start, length) \in Signal(bytes) /\ Scaled(type, start, length) \in Signal(bytes)
         /\ S(type, start, length).start = start /\ Scaled(type, start, length).start = start
         /\ S(type, start, length).length = length /\ Scaled(type, start, length).length = length
BY DEF S, Scaled, Signal

\* The widths of the value types, by evaluation.
LEMMA Widths ==
  /\ DOMAIN Width = {"u8", "i16", "u32", "float", "u64"}
  /\ Width["u8"] = 8 /\ Width["i16"] = 16 /\ Width["u32"] = 32 /\ Width["float"] = 32
  /\ Width["u64"] = 64
BY DEF Width

\* A message whose signals follow one another without overlap has a layout.
LEMMA LayoutFrom ==
  ASSUME NEW m, NEW c, NEW bytes, NEW q \in Seq(Signal(bytes)), Len(q) <= 8,
         \A s, t \in DOMAIN q : s < t => q[s].start + q[s].length <= q[t].start,
         m = Message(c, bytes, q)
  PROVE  Layout(m)
<1>1. m.signals = q /\ m.msg_length = bytes
  BY DEF Message
<1> QED BY <1>1, Zenon DEF Layout

\* LayoutFrom for the messages without a signal.
LEMMA NoSignals ==
  ASSUME NEW m, NEW c, NEW bytes \in Nat, m = Message(c, bytes, <<>>)
  PROVE  Layout(m)
<1>1. <<>> \in Seq(Signal(bytes)) /\ Len(<<>>) = 0 /\ DOMAIN <<>> = {}
  OBVIOUS
<1> DEFINE q == <<>>
<1>2. q \in Seq(Signal(bytes)) /\ Len(q) <= 8 /\ m = Message(c, bytes, q) /\ DOMAIN q = {}
  BY <1>1
<1> HIDE DEF q
<1>3. \A s, t \in DOMAIN q : s < t => q[s].start + q[s].length <= q[t].start
  BY <1>2
<1> QED BY <1>2, <1>3, LayoutFrom

\* LayoutFrom for one signal.
LEMMA OneSignal ==
  ASSUME NEW m, NEW c, NEW bytes \in Nat, NEW a \in Signal(bytes), m = Message(c, bytes, <<a>>)
  PROVE  Layout(m)
<1>2. <<a>> \in Seq(Signal(bytes)) /\ Len(<<a>>) = 1 /\ DOMAIN <<a>> = {1}
  OBVIOUS
<1> DEFINE q == <<a>>
<1>3. q \in Seq(Signal(bytes)) /\ Len(q) <= 8 /\ m = Message(c, bytes, q)
      /\ \A s, t \in DOMAIN q : s < t => q[s].start + q[s].length <= q[t].start
  BY <1>2
<1> HIDE DEF q
<1> QED BY <1>3, LayoutFrom

\* LayoutFrom for two signals, given that the second begins after the first ends.
LEMMA TwoSignals ==
  ASSUME NEW m, NEW c, NEW bytes \in Nat, NEW a \in Signal(bytes), NEW b \in Signal(bytes),
         a.start + a.length <= b.start, m = Message(c, bytes, <<a, b>>)
  PROVE  Layout(m)
<1>2. <<a, b>> \in Seq(Signal(bytes)) /\ Len(<<a, b>>) = 2 /\ DOMAIN <<a, b>> = {1, 2}
      /\ <<a, b>>[1] = a /\ <<a, b>>[2] = b
  OBVIOUS
<1> DEFINE q == <<a, b>>
<1>3. q \in Seq(Signal(bytes)) /\ Len(q) <= 8 /\ m = Message(c, bytes, q)
      /\ \A s, t \in DOMAIN q : s < t => q[s].start + q[s].length <= q[t].start
  BY <1>2
<1> HIDE DEF q
<1> QED BY <1>3, LayoutFrom

\* LayoutFrom for three signals in order.
LEMMA ThreeSignals ==
  ASSUME NEW m, NEW k, NEW bytes \in Nat, NEW a \in Signal(bytes), NEW b \in Signal(bytes),
         NEW c \in Signal(bytes),
         a.start + a.length <= b.start, b.start + b.length <= c.start,
         m = Message(k, bytes, <<a, b, c>>)
  PROVE  Layout(m)
<1>2. <<a, b, c>> \in Seq(Signal(bytes)) /\ Len(<<a, b, c>>) = 3 /\ DOMAIN <<a, b, c>> = {1, 2, 3}
      /\ <<a, b, c>>[1] = a /\ <<a, b, c>>[2] = b /\ <<a, b, c>>[3] = c
  OBVIOUS
<1>3. a.start + a.length <= c.start
  BY DEF Signal
<1> DEFINE q == <<a, b, c>>
<1>4. q \in Seq(Signal(bytes)) /\ Len(q) <= 8 /\ m = Message(k, bytes, q)
      /\ \A s, t \in DOMAIN q : s < t => q[s].start + q[s].length <= q[t].start
  BY <1>2, <1>3
<1> HIDE DEF q
<1> QED BY <1>4, LayoutFrom

\* LayoutFrom for four signals in order.
LEMMA FourSignals ==
  ASSUME NEW m, NEW k, NEW bytes \in Nat, NEW a \in Signal(bytes), NEW b \in Signal(bytes),
         NEW c \in Signal(bytes), NEW d \in Signal(bytes),
         a.start + a.length <= b.start, b.start + b.length <= c.start,
         c.start + c.length <= d.start, m = Message(k, bytes, <<a, b, c, d>>)
  PROVE  Layout(m)
<1> DEFINE q == <<a, b, c, d>>
<1>1. m = Message(k, bytes, q)
  OBVIOUS
<1>2. q \in Seq(Signal(bytes)) /\ Len(q) = 4 /\ DOMAIN q = {1, 2, 3, 4}
      /\ q[1] = a /\ q[2] = b /\ q[3] = c /\ q[4] = d
  OBVIOUS
<1>3. a.start + a.length <= c.start /\ a.start + a.length <= d.start
      /\ b.start + b.length <= d.start
  BY DEF Signal
<1> HIDE DEF q
<1>4. \A s, t \in DOMAIN q : s < t => q[s].start + q[s].length <= q[t].start
  BY <1>2, <1>3
<1>5. q \in Seq(Signal(bytes)) /\ Len(q) <= 8
  BY <1>2
<1> QED BY <1>1, <1>4, <1>5, LayoutFrom

\* Get_Version: a byte each.
LEMMA EightSignals ==
  ASSUME NEW m, NEW c, m = Message(c, 8, [k \in 1..8 |-> S("u8", 8 * (k - 1), 8)])
  PROVE  Layout(m)
<1> DEFINE q == [k \in 1..8 |-> S("u8", 8 * (k - 1), 8)]
<1>1. m = Message(c, 8, q)
  OBVIOUS
<1>2. \A k \in 1..8 : q[k] \in Signal(8) /\ q[k].start = 8 * (k - 1) /\ q[k].length = 8
  <2> TAKE k \in 1..8
  <2> DEFINE start == 8 * (k - 1)
  <2>1. start \in Nat /\ start + 8 <= 8 * 8 /\ q[k] = S("u8", start, 8)
    OBVIOUS
  <2> HIDE DEF start
  <2>2. "u8" \in DOMAIN Width /\ 8 <= Width["u8"]
    BY Widths
  <2> HIDE DEF q
  <2> QED BY <2>1, <2>2, SignalFits DEF start
<1>3. DOMAIN q = 1..8
  OBVIOUS
<1>4. q \in [1..8 -> Signal(8)]
  BY <1>2
<1>5. q \in Seq(Signal(8))
  BY <1>4, SeqDef
<1> HIDE DEF q
<1>6. Len(q) = 8
  <2>1. PICK n \in Nat : n = Len(q) /\ 1..8 = 1..n
    BY <1>3, <1>5, LenProperties
  <2>2. 8 \in 1..n /\ 9 \notin 1..n
    BY <2>1
  <2>3. n = 8
    BY <2>2
  <2> QED BY <2>1, <2>3
<1>7. \A s, t \in DOMAIN q : s < t => q[s].start + q[s].length <= q[t].start
  BY <1>2, <1>3
<1>8. 8 \in Nat /\ Len(q) <= 8
  BY <1>6
<1> QED BY <1>1, <1>5, <1>7, <1>8, LayoutFrom

\* All 26 messages of the table have a layout.
LEMMA LayoutLemma ==
  ASSUME NEW m \in Messages
  PROVE  Layout(m)
<1> USE Widths
<1>1. /\ S("u32", 0, 32) \in Signal(8) /\ S("u32", 32, 32) \in Signal(8)
      /\ S("float", 0, 32) \in Signal(8) /\ S("float", 32, 32) \in Signal(8)
      /\ S("u8", 0, 8) \in Signal(8) /\ S("u8", 0, 8) \in Signal(1)
      /\ S("u8", 32, 8) \in Signal(8) /\ S("u8", 40, 8) \in Signal(8)
      /\ S("u8", 48, 1) \in Signal(8)
      /\ S("u64", 8, 48) \in Signal(8)
      /\ Scaled("i16", 32, 16) \in Signal(8) /\ Scaled("i16", 48, 16) \in Signal(8)
  BY SignalFits
<1>2. CASE \E c \in Nat : m = OneFloat(c)
  BY <1>1, <1>2, OneSignal DEF OneFloat
<1>3. CASE \E c \in Nat : m = TwoFloats(c)
  <2>1. S("float", 0, 32).start + S("float", 0, 32).length <= S("float", 32, 32).start
    BY DEF S
  <2> QED BY <1>1, <1>3, <2>1, TwoSignals DEF TwoFloats
<1>4. CASE m = Get_Version
  BY <1>4, EightSignals DEF Get_Version
<1>5. CASE m = Heartbeat
  <2>1. /\ S("u32", 0, 32).start + S("u32", 0, 32).length <= S("u8", 32, 8).start
        /\ S("u8", 32, 8).start + S("u8", 32, 8).length <= S("u8", 40, 8).start
        /\ S("u8", 40, 8).start + S("u8", 40, 8).length <= S("u8", 48, 1).start
    BY DEF S
  <2> QED BY <1>1, <1>5, <2>1, FourSignals DEF Heartbeat
<1>6. CASE m = Estop \/ m = Enter_DFU_Mode
  BY <1>6, NoSignals DEF Estop, Enter_DFU_Mode
<1>7. CASE m = Get_Error \/ m = Set_Controller_Mode
  <2>1. S("u32", 0, 32).start + S("u32", 0, 32).length <= S("u32", 32, 32).start
    BY DEF S
  <2> QED BY <1>1, <1>7, <2>1, TwoSignals DEF Get_Error, Set_Controller_Mode
<1>8. CASE m = Address
  <2>1. S("u8", 0, 8).start + S("u8", 0, 8).length <= S("u64", 8, 48).start
    BY DEF S
  <2> QED BY <1>1, <1>8, <2>1, TwoSignals DEF Address
<1>9. CASE m = Set_Axis_State
  BY <1>1, <1>9, OneSignal DEF Set_Axis_State
<1>10. CASE m = Set_Input_Pos
  <2>1. /\ S("float", 0, 32).start + S("float", 0, 32).length <= Scaled("i16", 32, 16).start
        /\ Scaled("i16", 32, 16).start + Scaled("i16", 32, 16).length <= Scaled("i16", 48, 16).start
    BY DEF S, Scaled
  <2> QED BY <1>1, <1>10, <2>1, ThreeSignals DEF Set_Input_Pos
<1>11. CASE m = Reboot \/ m = Clear_Errors
  BY <1>1, <1>11, OneSignal DEF Reboot, Clear_Errors
<1>12. \/ \E c \in Nat : m = OneFloat(c)
       \/ \E c \in Nat : m = TwoFloats(c)
       \/ m \in {Get_Version, Heartbeat, Estop, Enter_DFU_Mode, Get_Error, Set_Controller_Mode,
                 Address, Set_Axis_State, Set_Input_Pos, Reboot, Clear_Errors}
  <2>1. CASE m \in {Get_Encoder_Estimates, Set_Input_Vel, Set_Limits, Set_Traj_Accel_Limits,
                    Get_Iq, Get_Temperature, Get_Bus_Voltage_Current, Set_Vel_Gains,
                    Get_Torques, Get_Powers}
    BY <2>1 DEF Get_Encoder_Estimates, Set_Input_Vel, Set_Limits, Set_Traj_Accel_Limits,
                Get_Iq, Get_Temperature, Get_Bus_Voltage_Current, Set_Vel_Gains,
                Get_Torques, Get_Powers
  <2>2. CASE m \in {Set_Input_Torque, Set_Traj_Vel_Limit, Set_Traj_Inertia,
                    Set_Absolute_Position, Set_Pos_Gain}
    BY <2>2 DEF Set_Input_Torque, Set_Traj_Vel_Limit, Set_Traj_Inertia,
                Set_Absolute_Position, Set_Pos_Gain
  <2> QED BY <2>1, <2>2 DEF Messages
<1> QED BY <1>2, <1>3, <1>4, <1>5, <1>6, <1>7, <1>8, <1>9, <1>10, <1>11, <1>12

\* The payload after each signal, as encode_buf computes it.
IsEncoding(f, m, wild) ==
  f = [s \in 0..Len(m.signals) |->
         IF s = 0 THEN JunkPayload ELSE SetSignal(f[s - 1], s, m.signals[s], s \in wild)]

\* f goes by encode_buf in its first k signals.
EncodesFirst(f, m, wild, k) ==
  /\ f = [s \in 0..Len(m.signals) |-> f[s]]
  /\ f[0] = JunkPayload
  /\ \A s \in 1..Len(m.signals) :
       s <= k => f[s] = SetSignal(f[s - 1], s, m.signals[s], s \in wild)

\* A function that encodes the first k signals has one that encodes one more.
LEMMA EncodingGoesOn ==
  ASSUME NEW m, NEW wild, NEW k \in Nat, NEW f, EncodesFirst(f, m, wild, k), Len(m.signals) \in Nat
  PROVE  \E g : EncodesFirst(g, m, wild, k + 1)
<1> DEFINE n == Len(m.signals)
           next == SetSignal(f[k], k + 1, m.signals[k + 1], (k + 1) \in wild)
           g == [s \in 0..n |-> IF s = k + 1 THEN next ELSE f[s]]
<1> HIDE DEF next
<1>1. g = [s \in 0..n |-> g[s]]
  OBVIOUS
<1>2. g[0] = JunkPayload
  BY DEF EncodesFirst
<1>3. ASSUME NEW s \in 1..n, s <= k + 1
      PROVE  g[s] = SetSignal(g[s - 1], s, m.signals[s], s \in wild)
  <2>1. CASE s = k + 1
    <3>1. g[s] = next /\ g[s - 1] = f[k] /\ s - 1 = k
      BY <2>1
    <3> HIDE DEF g
    <3> QED BY <2>1, <3>1 DEF next
  <2>2. CASE s # k + 1
    <3>1. g[s] = f[s] /\ g[s - 1] = f[s - 1] /\ s <= k
      BY <1>3, <2>2
    <3>2. f[s] = SetSignal(f[s - 1], s, m.signals[s], s \in wild)
      BY <3>1 DEF EncodesFirst
    <3> HIDE DEF g
    <3> QED BY <3>1, <3>2
  <2> QED BY <2>1, <2>2
<1> HIDE DEF g
<1>4. EncodesFirst(g, m, wild, k + 1)
  BY <1>1, <1>2, <1>3 DEF EncodesFirst
<1> QED BY <1>4

\* So an encoding exists: eight steps are enough for every message of the table.
LEMMA EncodingExists ==
  ASSUME NEW m, NEW wild, Len(m.signals) \in Nat, Len(m.signals) <= 8
  PROVE  \E f : IsEncoding(f, m, wild)
<1> DEFINE Up(k) == \E f : EncodesFirst(f, m, wild, k)
           n == Len(m.signals)
<1>1. Up(0)
  <2> DEFINE f == [s \in 0..n |-> JunkPayload]
  <2>1. f = [s \in 0..n |-> f[s]] /\ f[0] = JunkPayload /\ \A s \in 1..n : ~(s <= 0)
    OBVIOUS
  <2> HIDE DEF f
  <2>2. EncodesFirst(f, m, wild, 0)
    BY <2>1 DEF EncodesFirst
  <2> QED BY <2>2
<1>2. ASSUME NEW k \in Nat, Up(k)
      PROVE  Up(k + 1)
  BY <1>2, EncodingGoesOn
<1> HIDE DEF Up
<1>3. Up(1) /\ Up(2) /\ Up(3) /\ Up(4)
  <2>1. Up(0 + 1)
    BY <1>1, <1>2
  <2>2. Up(1 + 1)
    BY <2>1, <1>2
  <2>3. Up(2 + 1)
    BY <2>2, <1>2
  <2>4. Up(3 + 1)
    BY <2>3, <1>2
  <2> QED BY <2>1, <2>2, <2>3, <2>4
<1>4. Up(8)
  <2>1. Up(4 + 1)
    BY <1>3, <1>2
  <2>2. Up(5 + 1)
    BY <2>1, <1>2
  <2>3. Up(6 + 1)
    BY <2>2, <1>2
  <2>4. Up(7 + 1)
    BY <2>3, <1>2
  <2> QED BY <2>4
<1>5. PICK f : EncodesFirst(f, m, wild, 8)
  BY <1>4 DEF Up
<1>6. \A s \in 0..n : f[s] = IF s = 0 THEN JunkPayload
                             ELSE SetSignal(f[s - 1], s, m.signals[s], s \in wild)
  BY <1>5 DEF EncodesFirst
<1>7. f = [s \in 0..n |-> IF s = 0 THEN JunkPayload
                          ELSE SetSignal(f[s - 1], s, m.signals[s], s \in wild)]
  BY <1>5, <1>6 DEF EncodesFirst
<1> QED BY <1>7 DEF IsEncoding

\* Encoded is the last value of such a function.
LEMMA EncodedLemma ==
  ASSUME NEW m, NEW wild, Len(m.signals) \in Nat, Len(m.signals) <= 8
  PROVE  \E f : IsEncoding(f, m, wild) /\ Encoded(m, wild) = f[Len(m.signals)]
<1> DEFINE f == CHOOSE f : IsEncoding(f, m, wild)
<1>1. IsEncoding(f, m, wild)
  BY EncodingExists
<1>2. Encoded(m, wild) = f[Len(m.signals)]
  BY DEF Encoded, IsEncoding
<1> QED BY <1>1, <1>2

\* What LayoutLemma says of a signal, as arithmetic on its field.
LEMMA SignalShape ==
  ASSUME NEW bytes \in 0..8, NEW sig \in Signal(bytes)
  PROVE  /\ sig.start \in Nat /\ sig.length \in Nat /\ Width[sig.type] \in Nat
         /\ sig.length <= Width[sig.type]
         /\ sig.start + sig.length <= 8 * bytes /\ sig.start + sig.length <= 64
         /\ \A b : b \in Field(sig) <=> b \in Nat /\ sig.start <= b /\ b < sig.start + sig.length
<1>1. /\ sig.type \in DOMAIN Width /\ sig.start \in Nat /\ sig.length \in Nat
      /\ sig.length <= Width[sig.type] /\ sig.start + sig.length <= 8 * bytes
  BY DEF Signal
<1>2. Width[sig.type] \in Nat
  BY <1>1, Widths
<1>3. PICK i, l \in Nat : i = sig.start /\ l = sig.length
  BY <1>1
<1>4. \A b : b \in i..(i + l - 1) <=> b \in Nat /\ i <= b /\ b < i + l
  OBVIOUS
<1>5. \A b : b \in Field(sig) <=> b \in Nat /\ i <= b /\ b < i + l
  BY <1>3, <1>4 DEF Field
<1>6. 8 * bytes <= 64
  OBVIOUS
<1> QED BY <1>1, <1>2, <1>3, <1>5, <1>6

\* The same for a bit of the payload and a value's bits.
LEMMA WithinSignal ==
  \A b, i, l, w \in Nat :
    i <= b /\ b < i + l /\ i + l <= 64 =>
      /\ b \in Bits /\ b - i \in Nat /\ b - i < l
      /\ l <= w => ~(b - i >= w)
BY DEF Bits

\* The first k signals that hold what their type can carry are in the payload.
Holds(p, m, wild, k) ==
  \A s \in 1..Len(m.signals) : s <= k /\ s \notin wild =>
    \A b \in Field(m.signals[s]) : p[b] = {<<s, b - m.signals[s].start>>}

\* can_set_signal_raw puts one signal in and leaves those before it alone.
LEMMA SetSignalHolds ==
  ASSUME NEW m, NEW bytes \in 0..8, m.msg_length = bytes, Layout(m), NEW wild,
         NEW k \in Nat, k + 1 <= Len(m.signals), NEW p, Holds(p, m, wild, k),
         NEW q, q = SetSignal(p, k + 1, m.signals[k + 1], (k + 1) \in wild)
  PROVE  Holds(q, m, wild, k + 1)
<1> DEFINE n == Len(m.signals)
<1>1. n \in Nat /\ DOMAIN m.signals = 1..n /\ \A s \in 1..n : m.signals[s] \in Signal(bytes)
  BY DEF Layout
<1>2. \A s, t \in 1..n : s < t => m.signals[s].start + m.signals[s].length <= m.signals[t].start
  BY <1>1 DEF Layout
<1> SUFFICES ASSUME NEW s \in 1..n, s <= k + 1, s \notin wild, NEW b \in Field(m.signals[s])
             PROVE  q[b] = {<<s, b - m.signals[s].start>>}
  BY DEF Holds
<1>3. k + 1 \in 1..n
  OBVIOUS
<1> HIDE DEF n
<1> DEFINE old == m.signals[s]
           new == m.signals[k + 1]
<1>4. old \in Signal(bytes) /\ new \in Signal(bytes) /\ b \in Field(old)
  BY <1>1, <1>3
<1>9. q = SetSignal(p, k + 1, new, (k + 1) \in wild) /\ (s = k + 1 => old = new)
      /\ (s < k + 1 => old.start + old.length <= new.start)
      /\ (s < k + 1 => \A x \in Field(old) : p[x] = {<<s, x - old.start>>})
  BY <1>2, <1>3 DEF Holds, n
<1> SUFFICES q[b] = {<<s, b - old.start>>}
  OBVIOUS
<1> HIDE DEF old, new
<1>5. /\ old.start \in Nat /\ old.length \in Nat /\ old.start + old.length <= 64
      /\ old.length <= Width[old.type] /\ Width[old.type] \in Nat
      /\ b \in Nat /\ old.start <= b /\ b < old.start + old.length
      /\ new.start \in Nat
      /\ b \in Field(new) => new.start <= b
  BY <1>4, SignalShape
<1>6. q[b] = (IF b \in Field(new) THEN {} ELSE p[b])
             \cup (IF b >= new.start
                   THEN ValueBit(k + 1, new, b - new.start, (k + 1) \in wild) ELSE {})
  <2>1. b \in Bits
    BY <1>5, WithinSignal
  <2> QED BY <1>9, <2>1 DEF SetSignal, Masked
<1>7. CASE s = k + 1
  <2>1. b \in Field(new) /\ b >= new.start /\ old = new /\ (k + 1) \notin wild
    BY <1>4, <1>5, <1>7, <1>9
  <2>2. b - old.start \in Nat /\ b - old.start < old.length /\ ~(b - old.start >= Width[old.type])
    BY <1>5, WithinSignal
  <2>3. ValueBit(s, old, b - old.start, FALSE) = {<<s, b - old.start>>}
    BY <2>2 DEF ValueBit
  <2>4. ((k + 1) \in wild) = FALSE
    BY <2>1
  <2> QED BY <1>6, <1>7, <2>1, <2>3, <2>4
<1>8. CASE s # k + 1
  <2>1. s < k + 1
    BY <1>3, <1>8 DEF n
  <2>2. ~(b >= new.start) /\ b \notin Field(new)
    BY <1>5, <1>9, <2>1
  <2>3. p[b] = {<<s, b - old.start>>}
    BY <1>4, <1>9, <2>1
  <2> QED BY <1>6, <2>2, <2>3
<1> QED BY <1>7, <1>8

\* After the last signal every signal's bits stand in its field.
LEMMA EncodedHolds ==
  ASSUME NEW m \in Messages, NEW wild
  PROVE  Holds(Encoded(m, wild), m, wild, Len(m.signals))
<1> DEFINE n == Len(m.signals)
<1>1. Layout(m) /\ m.msg_length \in 0..8 /\ n \in Nat /\ n <= 8
  BY LayoutLemma, TableLemma DEF Layout
<1>2. PICK f : IsEncoding(f, m, wild) /\ Encoded(m, wild) = f[n]
  BY <1>1, EncodedLemma
<1> HIDE DEF n
<1>3. /\ f[0] = JunkPayload
      /\ \A k \in Nat : k + 1 <= n =>
           f[k + 1] = SetSignal(f[k], k + 1, m.signals[k + 1], (k + 1) \in wild)
  BY <1>1, <1>2 DEF IsEncoding, n
<1> DEFINE Done(k) == k <= n => Holds(f[k], m, wild, k)
<1>4. Done(0)
  BY DEF Holds
<1>5. ASSUME NEW k \in Nat, Done(k)
      PROVE  Done(k + 1)
  <2> SUFFICES ASSUME k + 1 <= n PROVE Holds(f[k + 1], m, wild, k + 1)
    OBVIOUS
  <2>1. /\ Holds(f[k], m, wild, k)
        /\ f[k + 1] = SetSignal(f[k], k + 1, m.signals[k + 1], (k + 1) \in wild)
    BY <1>1, <1>3, <1>5
  <2> QED BY <1>1, <2>1, SetSignalHolds DEF n
<1> HIDE DEF Done
<1>6. Done(1) /\ Done(2) /\ Done(3) /\ Done(4)
  <2>1. Done(0 + 1)
    BY <1>4, <1>5
  <2>2. Done(1 + 1)
    BY <2>1, <1>5
  <2>3. Done(2 + 1)
    BY <2>2, <1>5
  <2>4. Done(3 + 1)
    BY <2>3, <1>5
  <2> QED BY <2>1, <2>2, <2>3, <2>4
<1>7. Done(5) /\ Done(6) /\ Done(7) /\ Done(8)
  <2>1. Done(4 + 1)
    BY <1>6, <1>5
  <2>2. Done(5 + 1)
    BY <2>1, <1>5
  <2>3. Done(6 + 1)
    BY <2>2, <1>5
  <2>4. Done(7 + 1)
    BY <2>3, <1>5
  <2> QED BY <2>1, <2>2, <2>3, <2>4
<1>8. Done(n)
  <2>1. n = 0 \/ n = 1 \/ n = 2 \/ n = 3 \/ n = 4 \/ n = 5 \/ n = 6 \/ n = 7 \/ n = 8
    BY <1>1
  <2> QED BY <1>4, <1>6, <1>7, <2>1
<1> QED BY <1>1, <1>2, <1>8 DEF Done, n

\* What is received of a message that is long enough is what was set.
LEMMA CodecLemma ==
  ASSUME NEW m \in Messages, NEW wild, NEW dlc \in 0..8, LongEnough(dlc, m)
  PROVE  DecodedAsEncoded(m, wild, dlc)
<1>1. /\ Layout(m) /\ m.msg_length \in 0..8 /\ Len(m.signals) \in Nat
      /\ DOMAIN m.signals = 1..Len(m.signals)
  BY LayoutLemma, TableLemma DEF Layout
<1> SUFFICES ASSUME NEW s \in DOMAIN m.signals \ wild
             PROVE  Decoded(OnWire(Encoded(m, wild), dlc), m)[s] = AsSet(s, m.signals[s])
  BY DEF DecodedAsEncoded
<1> DEFINE sig == m.signals[s]
           sentP == Encoded(m, wild)
           p == OnWire(sentP, dlc)
<1>2. /\ sig.start \in Nat /\ sig.length \in Nat
      /\ \A b : b \in Field(sig) <=> b \in Nat /\ sig.start <= b /\ b < sig.start + sig.length
      /\ sig.start + sig.length <= 64 /\ sig.start + sig.length <= 8 * m.msg_length
  <2>1. sig \in Signal(m.msg_length)
    BY <1>1 DEF Layout
  <2> HIDE DEF sig
  <2> QED BY <1>1, <2>1, SignalShape
<1>3. \A b \in Field(sig) : sentP[b] = {<<s, b - sig.start>>}
  BY <1>1, EncodedHolds DEF Holds
<1> HIDE DEF sentP, sig
<1>4. \A k \in 0..(sig.length - 1) : p[sig.start + k] = {<<s, k>>}
  <2> TAKE k \in 0..(sig.length - 1)
  <2> DEFINE b == sig.start + k
  <2>0. PICK i, l, len \in Nat :
          i = sig.start /\ l = sig.length /\ len = m.msg_length /\ len <= dlc
    <3>1. m.msg_length \in Nat /\ m.msg_length <= dlc
      BY <1>1 DEF LongEnough
    <3> QED BY <1>2, <3>1
  <2>1. b \in Nat /\ i <= b /\ b < i + l /\ i + l <= 64 /\ b < 8 * dlc /\ b - i = k
    BY <1>2, <2>0
  <2>3. b \in Field(sig) /\ b \in Bits
    BY <1>2, <2>0, <2>1, WithinSignal
  <2> HIDE DEF b
  <2>2. p[b] = {<<s, b - sig.start>>}
    BY <1>3, <2>1, <2>3 DEF OnWire
  <2> QED BY <2>0, <2>1, <2>2 DEF b
<1> HIDE DEF p
<1>5. GetSignal(p, sig) = AsSet(s, sig)
  BY <1>4 DEF GetSignal, AsSet
<1>6. Decoded(p, m)[s] = GetSignal(p, sig)
  BY DEF Decoded, sig
<1> QED BY <1>5, <1>6 DEF p, sentP, sig

\* Whatever waits to be received decodes, in the structure its command names, to
\* what its sender set, signal by signal.
THEOREM WaitingFramesDecode == Spec => []FramesDecode
<1>1. Inv => FramesDecode
  <2> SUFFICES ASSUME Inv, NEW i \in DOMAIN rx, NEW m \in Messages, LongEnough(rx[i].dlc, m),
                      NEW wild \in SUBSET ScaledSignals(m)
               PROVE  DecodedAsEncoded(m, wild, rx[i].dlc)
    BY DEF FramesDecode
  <2>1. rx[i].dlc \in 0..8
    <3>1. rx[i] \in Frame
      BY DEF Inv, RxType
    <3> QED BY <3>1 DEF Frame
  <2> QED BY <2>1, CodecLemma
<1>2. Init => Inv
  BY InitInv
<1>3. Inv /\ [Next]_vars => Inv'
  BY StepInv
<1> QED BY <1>1, <1>2, <1>3, PTL DEF Spec

===============================================================================
