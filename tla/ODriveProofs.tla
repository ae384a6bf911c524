----------------------------- MODULE ODriveProofs -----------------------------
(***************************************************************************)
(* Type correctness of the plugin with its queue and its drives, and what  *)
(* a mode command that was sent whole does to a drive, for any number of   *)
(* axes, any claims and any depth of the queue.                            *)
(***************************************************************************)
EXTENDS ODrive, SequenceTheorems, TLAPS

Kinds == {"mode", "clear", "arm", "idle", "input"}
CommandKinds == Kinds \ {"input"}

\* A frame for axis a of one of some kinds.
Is(f, a, K) == f.axis = a /\ f.kind \in K

\* Of the frames for a of some kinds among the first n of q, there is none, or
\* the last one is good.
NoneOf(q, n, a, K) == \A i \in 1..n : ~Is(q[i], a, K)
LastIn(q, n, a, K, Good) ==
  \A i \in 1..n :
    Is(q[i], a, K) /\ (\A j \in (i + 1)..n : ~Is(q[j], a, K)) => q[i] \in Good

OfMode(m) == {f \in Frames : f.mode = m}
OfKind(k) == {f \in Frames : f.kind = k}

(***************************************************************************)
(* The inductive invariant looks at one axis: at what its drive will have  *)
(* done when it has worked through the queue.                              *)
(***************************************************************************)
Arming(a) == active /\ enabled[a] # {}
Goal(a) == Primary(enabled[a])

\* What is left to send is the rest of a mode command or a set point.
Rest(a) ==
  \/ todo[a] = <<>>
  \/ enabled[a] # {} /\ todo[a] = <<Frame(a, "input", Goal(a))>>
  \/ ~Arming(a) /\ todo[a] = <<Frame(a, "idle", "any")>>
  \/ /\ Arming(a)
     /\ \/ todo[a] = <<Frame(a, "mode", Goal(a)), Frame(a, "clear", "any"),
                       Frame(a, "arm", Goal(a))>>
        \/ todo[a] = <<Frame(a, "clear", "any"), Frame(a, "arm", Goal(a))>>
        \/ todo[a] = <<Frame(a, "arm", Goal(a))>>

\* The mode command has been handed over.
Handed(a) == \A k \in DOMAIN todo[a] : todo[a][k].kind = "input"

\* Its first frame has.
ModeHanded(a) == \A k \in DOMAIN todo[a] : todo[a][k].kind # "mode"

\* When n frames have been worked through, the drive is in mode m.
ModeAfter(n, a, m) ==
  /\ LastIn(tx, n, a, {"mode"}, OfMode(m))
  /\ NoneOf(tx, n, a, {"mode"}) => drive[a].mode = m

ModeFollows(a) ==
  complete[a] /\ ModeHanded(a) /\ Arming(a) => ModeAfter(Len(tx), a, Goal(a))

\* It will be armed, and nothing clears the error of a fault after that.
ArmFollows(a) ==
  complete[a] /\ Handed(a) /\ Arming(a) =>
    /\ LastIn(tx, Len(tx), a, {"arm", "idle", "clear"}, OfKind("arm"))
    /\ NoneOf(tx, Len(tx), a, {"arm", "idle", "clear"})
         => (drive[a].state = "idle" => drive[a].error)

IdleFollows(a) ==
  complete[a] /\ Handed(a) /\ ~Arming(a) =>
    /\ LastIn(tx, Len(tx), a, {"arm", "idle"}, OfKind("idle"))
    /\ NoneOf(tx, Len(tx), a, {"arm", "idle"}) => drive[a].state = "idle"

\* An arm frame meant for a mode finds it.
ArmFindsMode(a) ==
  \A k \in 1..Len(tx) :
    Is(tx[k], a, {"arm"}) /\ tx[k].mode # "any" => ModeAfter(k - 1, a, tx[k].mode)

\* Set points after the mode command are of its kind.
InputsFollow(a) ==
  complete[a] /\ Handed(a) =>
    \A k \in 1..Len(tx) :
      Is(tx[k], a, {"input"}) /\ (\A j \in (k + 1)..Len(tx) : ~Is(tx[j], a, CommandKinds))
        => tx[k].mode = Goal(a)

AxisInv(a) ==
  /\ Rest(a) /\ ModeFollows(a) /\ ArmFollows(a) /\ IdleFollows(a)
  /\ ArmFindsMode(a) /\ InputsFollow(a)

Inv == TypeOK /\ \A a \in Axes : AxisInv(a)

-------------------------------------------------------------------------------
\* What the queue does with a frame, at either end.
LEMMA AppendedFrame ==
  ASSUME NEW q \in Seq(Frames), NEW f \in Frames
  PROVE  /\ Append(q, f) \in Seq(Frames) /\ Len(Append(q, f)) = Len(q) + 1
         /\ \A i \in 1..Len(q) : Append(q, f)[i] = q[i]
         /\ Append(q, f)[Len(q) + 1] = f
OBVIOUS

\* What is left of the queue when the link has taken its first frame.
LEMMA TailOfQueue ==
  ASSUME NEW q \in Seq(Frames), q # <<>>
  PROVE  /\ Tail(q) \in Seq(Frames) /\ Len(Tail(q)) = Len(q) - 1 /\ Len(q) >= 1
         /\ \A i \in 1..(Len(q) - 1) : Tail(q)[i] = q[i + 1]
         /\ Head(q) = q[1] /\ Head(q) \in Frames
OBVIOUS

\* Every element of the queue is a frame.
LEMMA ElementsAreFrames ==
  ASSUME NEW q \in Seq(Frames), NEW i \in 1..Len(q)
  PROVE  q[i] \in Frames
BY ElementOfSeq

\* Frames before the appended one are judged as before.
LEMMA AppendKeepsBefore ==
  ASSUME NEW q \in Seq(Frames), NEW f \in Frames, NEW n \in 0..Len(q), NEW a, NEW K, NEW Good
  PROVE  /\ NoneOf(Append(q, f), n, a, K) <=> NoneOf(q, n, a, K)
         /\ LastIn(Append(q, f), n, a, K, Good) <=> LastIn(q, n, a, K, Good)
BY AppendedFrame DEF NoneOf, LastIn

\* An appended frame of the kinds in question is the last one.
LEMMA AppendDecides ==
  ASSUME NEW q \in Seq(Frames), NEW f \in Frames, NEW a, NEW K, NEW Good, Is(f, a, K)
  PROVE  /\ ~NoneOf(Append(q, f), Len(q) + 1, a, K)
         /\ f \in Good => LastIn(Append(q, f), Len(q) + 1, a, K, Good)
<1>1. ~NoneOf(Append(q, f), Len(q) + 1, a, K)
  BY AppendedFrame DEF NoneOf
<1>2. ASSUME f \in Good, NEW i \in 1..(Len(q) + 1),
             \A j \in (i + 1)..(Len(q) + 1) : ~Is(Append(q, f)[j], a, K)
      PROVE  Append(q, f)[i] \in Good
  <2>1. i = Len(q) + 1
    BY <1>2, AppendedFrame
  <2> QED
    BY <1>2, <2>1, AppendedFrame
<1> QED
  BY <1>1, <1>2 DEF LastIn

\* An appended frame of another kind changes nothing.
LEMMA AppendPasses ==
  ASSUME NEW q \in Seq(Frames), NEW f \in Frames, NEW a, NEW K, NEW Good, ~Is(f, a, K)
  PROVE  /\ NoneOf(Append(q, f), Len(q) + 1, a, K) <=> NoneOf(q, Len(q), a, K)
         /\ LastIn(q, Len(q), a, K, Good) => LastIn(Append(q, f), Len(q) + 1, a, K, Good)
<1>1. NoneOf(Append(q, f), Len(q) + 1, a, K) <=> NoneOf(q, Len(q), a, K)
  BY AppendedFrame DEF NoneOf
<1>2. ASSUME LastIn(q, Len(q), a, K, Good), NEW i \in 1..(Len(q) + 1),
             Is(Append(q, f)[i], a, K),
             \A j \in (i + 1)..(Len(q) + 1) : ~Is(Append(q, f)[j], a, K)
      PROVE  Append(q, f)[i] \in Good
  <2>1. i \in 1..Len(q) /\ Append(q, f)[i] = q[i]
    BY <1>2, AppendedFrame
  <2>2. \A j \in (i + 1)..Len(q) : ~Is(q[j], a, K)
    BY <1>2, <2>1, AppendedFrame
  <2> QED
    BY <1>2, <2>1, <2>2 DEF LastIn
<1> QED
  BY <1>1, <1>2 DEF LastIn

\* When the first frame has gone, the last one is what it was.
LEMMA TailKeepsLast ==
  ASSUME NEW q \in Seq(Frames), q # <<>>, NEW n \in 1..Len(q), NEW a, NEW K, NEW Good,
         LastIn(q, n, a, K, Good)
  PROVE  LastIn(Tail(q), n - 1, a, K, Good)
<1>1. ASSUME NEW i \in 1..(n - 1), Is(Tail(q)[i], a, K),
             \A j \in (i + 1)..(n - 1) : ~Is(Tail(q)[j], a, K)
      PROVE  Tail(q)[i] \in Good
  <2>1. i + 1 \in 1..n /\ Tail(q)[i] = q[i + 1]
    BY TailOfQueue
  <2>2. ASSUME NEW j \in (i + 1 + 1)..n PROVE ~Is(q[j], a, K)
    <3>1. j - 1 \in (i + 1)..(n - 1) /\ Tail(q)[j - 1] = q[j - 1 + 1] /\ j - 1 + 1 = j
      BY TailOfQueue
    <3> QED
      BY <1>1, <3>1
  <2> QED
    BY <1>1, <2>1, <2>2 DEF LastIn
<1> QED
  BY <1>1 DEF LastIn

\* When there is none left, the first frame was the last one or there was none.
LEMMA TailLeavesNone ==
  ASSUME NEW q \in Seq(Frames), q # <<>>, NEW n \in 1..Len(q), NEW a, NEW K, NEW Good,
         LastIn(q, n, a, K, Good), NoneOf(Tail(q), n - 1, a, K)
  PROVE  IF Is(Head(q), a, K) THEN Head(q) \in Good ELSE NoneOf(q, n, a, K)
<1>1. ASSUME NEW j \in 2..n PROVE ~Is(q[j], a, K)
  <2>1. j - 1 \in 1..(n - 1) /\ Tail(q)[j - 1] = q[j - 1 + 1] /\ j - 1 + 1 = j
    BY TailOfQueue
  <2> QED
    BY <2>1 DEF NoneOf
<1>2. CASE Is(Head(q), a, K)
  <2>1. 1 \in 1..n /\ Is(q[1], a, K) /\ \A j \in (1 + 1)..n : ~Is(q[j], a, K)
    BY <1>1, <1>2, TailOfQueue
  <2> QED
    BY <1>2, <2>1, TailOfQueue DEF LastIn
<1>3. CASE ~Is(Head(q), a, K)
  <2>1. \A j \in 1..n : j = 1 \/ j \in 2..n
    OBVIOUS
  <2> QED
    BY <1>1, <1>3, <2>1, TailOfQueue DEF NoneOf
<1> QED
  BY <1>2, <1>3

-------------------------------------------------------------------------------
(***************************************************************************)
(* Types.                                                                  *)
(***************************************************************************)
LEMMA ShortQueues ==
  ASSUME NEW x, NEW y, NEW z
  PROVE  /\ Len(<<>>) = 0
         /\ Head(<<x>>) = x /\ Tail(<<x>>) = <<>> /\ Len(<<x>>) = 1 /\ <<x>>[1] = x
         /\ Head(<<x, y>>) = x /\ Tail(<<x, y>>) = <<y>> /\ Len(<<x, y>>) = 2
         /\ Head(<<x, y, z>>) = x /\ Tail(<<x, y, z>>) = <<y, z>> /\ Len(<<x, y, z>>) = 3
         /\ <<x, y>>[1] = x /\ <<x, y>>[2] = y /\ <<x, y, z>>[1] = x
         /\ 1 \in DOMAIN <<x>>
OBVIOUS

\* The first of two frames.
LEMMA FirstOfTwo ==
  ASSUME NEW q, NEW x, NEW y, q = <<x, y>>
  PROVE  1 \in DOMAIN q /\ q[1] = x
OBVIOUS

\* The mode the plugin chooses for a set of claimed interfaces is one of them.
LEMMA GoalIsInterface ==
  ASSUME NEW inputs \in SUBSET Interfaces
  PROVE  Primary(inputs) \in Interfaces
BY DEF Primary, Interfaces

\* Frame builds frames.
LEMMA FrameIsFrame ==
  ASSUME NEW a \in Axes, NEW kind \in Kinds, NEW mode \in Interfaces \cup {"any"},
         kind = "mode" => mode # "any"
  PROVE  Frame(a, kind, mode) \in Frames
BY DEF Frame, Frames, Kinds

\* A mode command is a sequence of frames.
LEMMA CommandsAreFrames ==
  ASSUME NEW a \in Axes, NEW act \in BOOLEAN, NEW inputs \in SUBSET Interfaces
  PROVE  ModeFrames(a, act, inputs) \in Seq(Frames)
<1>1. Primary(inputs) \in Interfaces /\ Primary(inputs) # "any"
  BY GoalIsInterface DEF Interfaces
<1>2. /\ Frame(a, "idle", "any") \in Frames /\ Frame(a, "clear", "any") \in Frames
      /\ Frame(a, "mode", Primary(inputs)) \in Frames
      /\ Frame(a, "arm", Primary(inputs)) \in Frames
  BY <1>1, FrameIsFrame DEF Kinds
<1> QED
  BY <1>2 DEF ModeFrames

\* What write() sends for an axis is a sequence of frames.
LEMMA SetPointsAreFrames ==
  ASSUME TypeOK, NEW a \in Axes
  PROVE  InputFrames(a) \in Seq(Frames)
<1>1. Primary(enabled[a]) \in Interfaces
  BY GoalIsInterface DEF TypeOK
<1>2. Frame(a, "input", Primary(enabled[a])) \in Frames
  BY <1>1, FrameIsFrame DEF Kinds
<1> QED
  BY <1>2, EmptySeq DEF InputFrames

\* Marking an arming frame changes neither its axis nor its kind.
LEMMA MarkedIsFrame ==
  ASSUME NEW f \in Frames
  PROVE  /\ Marked(f) \in Frames /\ Marked(f).axis = f.axis /\ Marked(f).kind = f.kind
         /\ (f.kind # "arm" \/ complete[f.axis]) => Marked(f) = f
         /\ (f.kind = "arm" /\ ~complete[f.axis]) => Marked(f).mode = "any"
BY DEF Marked, Frames

\* Nothing is claimed or sent at the start.
LEMMA TypeInit == Init => TypeOK
<1> SUFFICES ASSUME Init PROVE TypeOK
  OBVIOUS
<1>1. <<>> \in Seq(Frames) /\ Len(<<>>) = 0
  BY EmptySeq
<1>2. drive \in [Axes -> [state : {"idle", "closed_loop"}, mode : Interfaces, error : BOOLEAN]]
  <2>1. /\ [state |-> "idle", mode |-> "velocity", error |-> FALSE]
             \in [state : {"idle", "closed_loop"}, mode : Interfaces, error : BOOLEAN]
        /\ [state |-> "closed_loop", mode |-> "effort", error |-> FALSE]
             \in [state : {"idle", "closed_loop"}, mode : Interfaces, error : BOOLEAN]
    BY DEF Interfaces
  <2> QED
    BY <2>1 DEF Init
<1> QED
  BY <1>1, <1>2, DriveAssumption DEF Init, TypeOK

\* Whatever a callback sets and commands has its type.
LEMMA CommandTypes ==
  ASSUME TypeOK, NEW axes, NEW act \in BOOLEAN, NEW inputs \in [Axes -> SUBSET Interfaces],
         Command(axes, act, inputs), lifecycle' \in {"unconfigured", "inactive", "active"}
  PROVE  TypeOK'
<1>1. \A a \in Axes : ModeFrames(a, act, inputs[a]) \in Seq(Frames)
  BY CommandsAreFrames
<1>2. todo' = [a \in Axes |-> IF a \in axes THEN ModeFrames(a, act, inputs[a]) ELSE <<>>]
  BY DEF Command
<1>3. todo' \in [Axes -> Seq(Frames)]
  BY <1>1, <1>2, EmptySeq
<1>4. complete' \in [Axes -> BOOLEAN]
  BY Zenon DEF Command, TypeOK
<1> QED
  BY <1>3, <1>4 DEF Command, TypeOK

\* Handing a frame to the socket keeps the types.
LEMMA HandOverTypes ==
  ASSUME TypeOK, NEW a \in Axes, HandOver(a)
  PROVE  TypeOK'
<1>1. /\ todo[a] \in Seq(Frames) /\ todo[a] # <<>> /\ todo \in [Axes -> Seq(Frames)]
      /\ complete \in [Axes -> BOOLEAN] /\ tx \in Seq(Frames) /\ Len(tx) <= Depth
  BY DEF HandOver, TypeOK
<1>2. Head(todo[a]) \in Frames /\ Tail(todo[a]) \in Seq(Frames)
  BY <1>1, TailOfQueue
<1>3. todo' \in [Axes -> Seq(Frames)]
  BY <1>1, <1>2 DEF HandOver
<1>4. /\ tx' \in Seq(Frames) /\ Len(tx') <= Depth
  <2>1. Marked(Head(todo[a])) \in Frames
    BY <1>2, MarkedIsFrame
  <2>2. CASE Fits /\ tx' = Append(tx, Marked(Head(todo[a])))
    BY <1>1, <2>1, <2>2, DriveAssumption, AppendedFrame DEF Fits
  <2>3. CASE tx' = tx
    BY <1>1, <2>3
  <2> QED
    BY <2>2, <2>3 DEF HandOver
<1>5. complete' \in [Axes -> BOOLEAN]
  <2>1. CASE complete' = complete
    BY <1>1, <2>1
  <2>2. CASE complete' = [complete EXCEPT ![a] = @ /\ Head(todo[a]).kind = "input"]
    BY <1>1, <2>2, Zenon
  <2> QED
    BY <2>1, <2>2 DEF HandOver
<1> QED
  BY <1>3, <1>4, <1>5 DEF HandOver, TypeOK

\* A drive that has obeyed a frame is a drive.
LEMMA ObeyedIsDrive ==
  ASSUME NEW d \in [state : {"idle", "closed_loop"}, mode : Interfaces, error : BOOLEAN],
         NEW f \in Frames
  PROVE  Obeyed(d, f) \in [state : {"idle", "closed_loop"}, mode : Interfaces, error : BOOLEAN]
<1>1. /\ f.kind \in {"mode", "clear", "arm", "idle", "input"}
      /\ f.mode \in Interfaces \cup {"any"} /\ (f.kind = "mode" => f.mode \in Interfaces)
  BY DEF Frames
<1> QED
  BY <1>1 DEF Obeyed

\* Types survive every step.
LEMMA TypeStep == TypeOK /\ [Next]_vars => TypeOK'
<1> SUFFICES ASSUME TypeOK, [Next]_vars PROVE TypeOK'
  OBVIOUS
<1>0. active \in BOOLEAN /\ enabled \in [Axes -> SUBSET Interfaces]
  BY DEF TypeOK
<1>1. CASE OnConfigure \/ OnCleanup
  BY <1>1 DEF OnConfigure, OnCleanup, TypeOK
<1>2. CASE OnActivate \/ OnDeactivate
  BY <1>0, <1>2, CommandTypes DEF OnActivate, OnDeactivate
<1>3. CASE CommandModeSwitch
  <2>1. PICK start \in Claims, stop \in Claims :
          Command({a \in Axes : \E c \in start \cup stop : c[1] = a}, active,
                  [a \in Axes |-> {i \in Interfaces :
                     <<a, i>> \in start \/ (i \in enabled[a] /\ <<a, i>> \notin stop)}])
    BY <1>3 DEF CommandModeSwitch
  <2>2. [a \in Axes |-> {i \in Interfaces :
           <<a, i>> \in start \/ (i \in enabled[a] /\ <<a, i>> \notin stop)}]
          \in [Axes -> SUBSET Interfaces]
    OBVIOUS
  <2>3. lifecycle' \in {"unconfigured", "inactive", "active"}
    BY <1>3 DEF CommandModeSwitch, TypeOK
  <2> QED
    BY <1>0, <2>1, <2>2, <2>3, CommandTypes
<1>4. CASE Write
  <2>1. todo' \in [Axes -> Seq(Frames)]
    BY <1>4, SetPointsAreFrames DEF Write
  <2> QED
    BY <1>4, <2>1 DEF Write, TypeOK
<1>5. CASE \E a \in Axes : HandOver(a)
  BY <1>5, HandOverTypes
<1>6. CASE Restart
  <2>1. todo' \in [Axes -> Seq(Frames)]
    BY <1>6, EmptySeq DEF Restart
  <2> QED
    BY <1>6, <2>1 DEF Restart, TypeOK
<1>7. CASE Transmit
  <2>1. tx \in Seq(Frames) /\ tx # <<>> /\ tx' = Tail(tx) /\ Len(tx) <= Depth
    BY <1>7 DEF Transmit, TypeOK
  <2>2. tx' \in Seq(Frames) /\ Len(tx') <= Depth /\ Head(tx) \in Frames
    BY <2>1, TailOfQueue, DriveAssumption
  <2>3. drive' \in [Axes -> [state : {"idle", "closed_loop"}, mode : Interfaces, error : BOOLEAN]]
    BY <1>7, <2>2, ObeyedIsDrive DEF Transmit, TypeOK, Frames
  <2> QED
    BY <1>7, <2>2, <2>3 DEF Transmit, TypeOK
<1>8. CASE Fault
  <2>1. PICK a \in Axes : drive' = [drive EXCEPT ![a].state = "idle", ![a].error = TRUE]
    BY <1>8 DEF Fault
  <2>2. drive' \in [Axes -> [state : {"idle", "closed_loop"}, mode : Interfaces, error : BOOLEAN]]
    BY <2>1 DEF TypeOK
  <2> QED
    BY <1>8, <2>2 DEF Fault, TypeOK
<1>9. CASE UNCHANGED vars
  BY <1>9 DEF vars, TypeOK
<1> QED
  BY <1>1, <1>2, <1>3, <1>4, <1>5, <1>6, <1>7, <1>8, <1>9 DEF Next

\* The queue never holds more than it can, and every variable keeps its type.
THEOREM TypeCorrect == Spec => []TypeOK
<1> QED
  BY TypeInit, TypeStep, PTL DEF Spec

-------------------------------------------------------------------------------
(***************************************************************************)
(* The invariant, one axis at a time.                                      *)
(***************************************************************************)

\* What is still judged by the frames that were there before.
LEMMA SameQueueSameOrders ==
  ASSUME NEW a \in Axes, ArmFindsMode(a), tx' = tx, drive'[a].mode = drive[a].mode
  PROVE  ArmFindsMode(a)'
BY DEF ArmFindsMode, ModeAfter

\* A step that leaves the queue and the axis alone.
LEMMA AxisUntouched ==
  ASSUME NEW a \in Axes, AxisInv(a), tx' = tx, drive'[a] = drive[a], todo'[a] = todo[a],
         active' = active, enabled'[a] = enabled[a], complete'[a] => complete[a]
  PROVE  AxisInv(a)'
<1>1. Rest(a)'
  BY DEF AxisInv, Rest, Arming, Goal
<1>2. ModeFollows(a)'
  BY DEF AxisInv, ModeFollows, ModeHanded, ModeAfter, Arming, Goal
<1>3. ArmFollows(a)'
  BY DEF AxisInv, ArmFollows, Handed, Arming
<1>4. IdleFollows(a)'
  BY DEF AxisInv, IdleFollows, Handed, Arming
<1>5. ArmFindsMode(a)'
  BY SameQueueSameOrders DEF AxisInv
<1>6. InputsFollow(a)'
  BY DEF AxisInv, InputsFollow, Handed, Goal
<1> QED
  BY <1>1, <1>2, <1>3, <1>4, <1>5, <1>6 DEF AxisInv

\* With a frame of the last command lost nothing is claimed of the axis but
\* that arm frames of earlier commands find their mode.
LEMMA IncompleteAxis ==
  ASSUME NEW a \in Axes, AxisInv(a), tx' = tx, drive'[a] = drive[a], Rest(a)', ~complete'[a]
  PROVE  AxisInv(a)'
BY SameQueueSameOrders DEF AxisInv, ModeFollows, ArmFollows, IdleFollows, InputsFollow

\* A mode command starts: its frames are still to be sent.
LEMMA CommandedAxis ==
  ASSUME NEW a \in Axes, AxisInv(a), tx' = tx, drive'[a] = drive[a],
         todo'[a] = ModeFrames(a, active', enabled'[a])
  PROVE  AxisInv(a)'
<1>1. ArmFindsMode(a)'
  BY SameQueueSameOrders DEF AxisInv
<1>2. CASE Arming(a)'
  <2>1. todo'[a] = <<Frame(a, "mode", Goal(a)'), Frame(a, "clear", "any"),
                     Frame(a, "arm", Goal(a)')>>
    BY <1>2 DEF ModeFrames, Arming, Goal
  <2>2. 1 \in DOMAIN todo'[a] /\ todo'[a][1].kind = "mode"
    BY <2>1 DEF Frame
  <2>3. Rest(a)'
    BY <1>2, <2>1 DEF Rest
  <2>4. ~Handed(a)' /\ ~ModeHanded(a)'
    BY <2>2 DEF Handed, ModeHanded
  <2> QED
    BY <1>1, <2>3, <2>4 DEF AxisInv, ModeFollows, ArmFollows, IdleFollows, InputsFollow
<1>3. CASE ~Arming(a)'
  <2>1. todo'[a] = <<Frame(a, "idle", "any")>>
    BY <1>3 DEF ModeFrames, Arming
  <2>2. 1 \in DOMAIN todo'[a] /\ todo'[a][1].kind = "idle"
    BY <2>1 DEF Frame
  <2>3. Rest(a)'
    BY <1>3, <2>1 DEF Rest
  <2>4. ~Handed(a)'
    BY <2>2 DEF Handed
  <2> QED
    BY <1>1, <1>3, <2>3, <2>4 DEF AxisInv, ModeFollows, ArmFollows, IdleFollows, InputsFollow
<1> QED
  BY <1>2, <1>3

\* A new command puts its axes at the start of their frames and touches no other.
LEMMA CommandStep ==
  ASSUME NEW axes, NEW act, NEW inputs, Command(axes, act, inputs),
         NEW a \in Axes, AxisInv(a), a \notin axes => act = active /\ inputs[a] = enabled[a]
  PROVE  AxisInv(a)'
<1>1. /\ todo'[a] = (IF a \in axes THEN ModeFrames(a, act, inputs[a]) ELSE <<>>)
      /\ active' = act /\ enabled'[a] = inputs[a] /\ todo[a] = <<>>
      /\ tx' = tx /\ drive'[a] = drive[a]
      /\ a \notin axes => (complete'[a] => complete[a])
  BY DEF Command, Idle
<1>2. CASE a \in axes
  BY <1>1, <1>2, CommandedAxis
<1>3. CASE a \notin axes
  BY <1>1, <1>3, AxisUntouched
<1> QED
  BY <1>2, <1>3

\* A drive that disarms itself has an error.
LEMMA FaultedAxis ==
  ASSUME NEW a \in Axes, AxisInv(a), tx' = tx, todo'[a] = todo[a], active' = active,
         enabled'[a] = enabled[a], complete'[a] = complete[a],
         drive'[a].mode = drive[a].mode, drive'[a].state = "idle", drive'[a].error
  PROVE  AxisInv(a)'
<1>1. Rest(a)'
  BY DEF AxisInv, Rest, Arming, Goal
<1>2. ModeFollows(a)'
  BY DEF AxisInv, ModeFollows, ModeHanded, ModeAfter, Arming, Goal
<1>3. ArmFollows(a)'
  BY DEF AxisInv, ArmFollows, Handed, Arming
<1>4. IdleFollows(a)'
  BY DEF AxisInv, IdleFollows, Handed, Arming
<1>5. ArmFindsMode(a)'
  BY SameQueueSameOrders DEF AxisInv
<1>6. InputsFollow(a)'
  BY DEF AxisInv, InputsFollow, Handed, Goal
<1> QED
  BY <1>1, <1>2, <1>3, <1>4, <1>5, <1>6 DEF AxisInv

\* write() has a set point to send, or nothing.
LEMMA WriteStep ==
  ASSUME Write, NEW a \in Axes, AxisInv(a)
  PROVE  AxisInv(a)'
<1>0. /\ todo[a] = <<>> /\ todo'[a] = InputFrames(a) /\ tx' = tx /\ drive' = drive
      /\ active' = active /\ enabled' = enabled /\ complete' = complete
  BY DEF Write, Idle
<1>1. /\ \A k \in DOMAIN todo[a] : FALSE
      /\ \A k \in DOMAIN todo'[a] : todo'[a][k].kind = "input"
  BY <1>0 DEF InputFrames, Frame
<1>2. Handed(a) /\ ModeHanded(a) /\ Handed(a)' /\ ModeHanded(a)'
  BY <1>1 DEF Handed, ModeHanded
<1>3. Rest(a)'
  BY <1>0 DEF Rest, InputFrames, Goal
<1>4. ModeFollows(a)'
  BY <1>0, <1>2 DEF AxisInv, ModeFollows, ModeAfter, Arming, Goal
<1>5. ArmFollows(a)'
  BY <1>0, <1>2 DEF AxisInv, ArmFollows, Arming
<1>6. IdleFollows(a)'
  BY <1>0, <1>2 DEF AxisInv, IdleFollows, Arming
<1>7. ArmFindsMode(a)'
  BY <1>0, SameQueueSameOrders DEF AxisInv
<1>8. InputsFollow(a)'
  BY <1>0, <1>2 DEF AxisInv, InputsFollow, Goal
<1> QED
  BY <1>3, <1>4, <1>5, <1>6, <1>7, <1>8 DEF AxisInv

-------------------------------------------------------------------------------
(***************************************************************************)
(* A frame joins the queue.                                                *)
(***************************************************************************)
LEMMA AppendKeepsMode ==
  ASSUME tx \in Seq(Frames), NEW f \in Frames, tx' = Append(tx, f), drive' = drive,
         NEW a, NEW m, NEW n \in 0..Len(tx), ModeAfter(n, a, m)
  PROVE  ModeAfter(n, a, m)'
<1>1. NoneOf(tx', n, a, {"mode"}) <=> NoneOf(tx, n, a, {"mode"})
  BY AppendKeepsBefore
<1>2. LastIn(tx', n, a, {"mode"}, OfMode(m)) <=> LastIn(tx, n, a, {"mode"}, OfMode(m))
  BY AppendKeepsBefore
<1> QED
  BY <1>1, <1>2 DEF ModeAfter

\* Frames behind a mode frame, other than mode frames, leave its effect alone.
LEMMA AppendPassesMode ==
  ASSUME tx \in Seq(Frames), NEW f \in Frames, tx' = Append(tx, f), drive' = drive,
         NEW a, NEW m, ModeAfter(Len(tx), a, m), ~Is(f, a, {"mode"})
  PROVE  ModeAfter(Len(tx), a, m)' /\ Len(tx') = Len(tx) + 1
<1>0. Len(tx') = Len(tx) + 1
  BY AppendedFrame
<1>1. NoneOf(tx', Len(tx) + 1, a, {"mode"}) <=> NoneOf(tx, Len(tx), a, {"mode"})
  BY AppendPasses
<1>2. LastIn(tx', Len(tx) + 1, a, {"mode"}, OfMode(m))
  BY AppendPasses DEF ModeAfter
<1> QED
  BY <1>0, <1>1, <1>2 DEF ModeAfter

\* Arm frames keep finding their mode when an arm frame that is appended does.
LEMMA AppendKeepsOrders ==
  ASSUME tx \in Seq(Frames), NEW f \in Frames, tx' = Append(tx, f), drive' = drive,
         NEW a, ArmFindsMode(a),
         Is(f, a, {"arm"}) /\ f.mode # "any" => ModeAfter(Len(tx), a, f.mode)
  PROVE  ArmFindsMode(a)'
<1>0. Len(tx) \in Nat
  OBVIOUS
<1>1. SUFFICES ASSUME NEW k \in 1..Len(tx'), Is(tx'[k], a, {"arm"}), tx'[k].mode # "any"
               PROVE  /\ LastIn(tx', k - 1, a, {"mode"}, OfMode(tx'[k].mode))
                      /\ NoneOf(tx', k - 1, a, {"mode"}) => drive'[a].mode = tx'[k].mode
  BY DEF ArmFindsMode, ModeAfter
<1>2. CASE k \in 1..Len(tx)
  <2>1. tx'[k] = tx[k] /\ k - 1 \in 0..Len(tx)
    BY <1>2, AppendedFrame
  <2>2. ModeAfter(k - 1, a, tx[k].mode)
    BY <1>1, <1>2, <2>1 DEF ArmFindsMode
  <2>3. ASSUME NEW m, m = tx[k].mode PROVE ModeAfter(k - 1, a, m)'
    BY <2>1, <2>2, <2>3, AppendKeepsMode
  <2> QED
    BY <2>1, <2>3 DEF ModeAfter
<1>3. CASE k = Len(tx) + 1
  <2>1. tx'[k] = f /\ k - 1 = Len(tx) /\ Len(tx) \in 0..Len(tx)
    BY <1>0, <1>3, AppendedFrame
  <2>2. ModeAfter(Len(tx), a, f.mode)
    BY <1>1, <2>1
  <2>3. ASSUME NEW m, m = f.mode, NEW n, n = Len(tx) PROVE ModeAfter(n, a, m)'
    BY <2>1, <2>2, <2>3, AppendKeepsMode
  <2> QED
    BY <2>1, <2>3 DEF ModeAfter
<1>4. k \in 1..(Len(tx) + 1)
  BY AppendedFrame
<1> QED
  BY <1>0, <1>2, <1>3, <1>4

\* A frame of another axis joins.
LEMMA OthersFrame ==
  ASSUME tx \in Seq(Frames), NEW f \in Frames, tx' = Append(tx, f), drive' = drive,
         NEW a \in Axes, f.axis # a, AxisInv(a), todo'[a] = todo[a], active' = active,
         enabled' = enabled, complete'[a] = complete[a]
  PROVE  AxisInv(a)'
<1>0. Len(tx') = Len(tx) + 1 /\ Len(tx) \in Nat
  BY AppendedFrame
<1>1. \A K : ~Is(f, a, K)
  BY DEF Is
<1>2. ASSUME NEW K, NEW Good, LastIn(tx, Len(tx), a, K, Good)
      PROVE  LastIn(tx', Len(tx'), a, K, Good)
  BY <1>0, <1>1, <1>2, AppendPasses
<1>3. ASSUME NEW K PROVE NoneOf(tx', Len(tx'), a, K) <=> NoneOf(tx, Len(tx), a, K)
  BY <1>0, <1>1, AppendPasses
<1>4. Rest(a)'
  BY DEF AxisInv, Rest, Arming, Goal
<1>5. ModeFollows(a)'
  <2>1. Goal(a)' = Goal(a)
    BY DEF Goal
  <2>2. ModeAfter(Len(tx), a, Goal(a)) => ModeAfter(Len(tx), a, Goal(a))'
    BY <1>2, <1>3, <2>1 DEF ModeAfter
  <2> QED
    BY <2>1, <2>2 DEF AxisInv, ModeFollows, ModeHanded, Arming
<1>6. ArmFollows(a)'
  BY <1>2, <1>3 DEF AxisInv, ArmFollows, Handed, Arming
<1>7. IdleFollows(a)'
  BY <1>2, <1>3 DEF AxisInv, IdleFollows, Handed, Arming
<1>8. ArmFindsMode(a)'
  BY <1>1, AppendKeepsOrders DEF AxisInv
<1>9. InputsFollow(a)'
  <2>1. SUFFICES ASSUME complete[a], Handed(a), NEW k \in 1..Len(tx'),
                        Is(tx'[k], a, {"input"}),
                        \A j \in (k + 1)..Len(tx') : ~Is(tx'[j], a, CommandKinds)
                 PROVE  tx'[k].mode = Goal(a)
    BY DEF InputsFollow, Handed, Goal
  <2>2. k \in 1..Len(tx) /\ tx'[k] = tx[k]
    BY <1>0, <1>1, <2>1, AppendedFrame
  <2>3. \A j \in (k + 1)..Len(tx) : ~Is(tx[j], a, CommandKinds)
    BY <1>0, <2>1, <2>2, AppendedFrame
  <2> QED
    BY <2>1, <2>2, <2>3 DEF AxisInv, InputsFollow
<1> QED
  BY <1>4, <1>5, <1>6, <1>7, <1>8, <1>9 DEF AxisInv

\* No set point is judged by the command before when a command frame joins.
LEMMA CommandSettlesInputs ==
  ASSUME tx \in Seq(Frames), NEW f \in Frames, tx' = Append(tx, f),
         NEW a, Is(f, a, CommandKinds)
  PROVE  InputsFollow(a)'
<1>0. Len(tx') = Len(tx) + 1 /\ Len(tx) \in Nat
  BY AppendedFrame
<1>1. SUFFICES ASSUME NEW k \in 1..Len(tx'), Is(tx'[k], a, {"input"}),
                      \A j \in (k + 1)..Len(tx') : ~Is(tx'[j], a, CommandKinds)
               PROVE  FALSE
  BY DEF InputsFollow
<1>2. CASE k = Len(tx) + 1
  BY <1>1, <1>2, AppendedFrame DEF Is, CommandKinds
<1>3. CASE k \in 1..Len(tx)
  <2>1. Len(tx) + 1 \in (k + 1)..Len(tx')
    BY <1>0, <1>3
  <2> QED
    BY <1>1, <2>1, AppendedFrame
<1> QED
  BY <1>0, <1>1, <1>2, <1>3

\* The frame that is next to be sent is for its axis.
LEMMA NextFrame ==
  ASSUME TypeOK, NEW a \in Axes, Rest(a), todo[a] # <<>>
  PROVE  Head(todo[a]) \in Frames /\ Head(todo[a]).axis = a
<1>1. Head(todo[a]).axis = a
  BY ShortQueues DEF Rest, Frame
<1>2. todo[a] \in Seq(Frames)
  BY DEF TypeOK
<1> QED
  BY <1>1, <1>2, TailOfQueue

\* The axis' own frame joins: a set point behind the command it is for, or the
\* next frame of the command.
LEMMA OwnFrame ==
  ASSUME TypeOK, NEW a \in Axes, AxisInv(a), todo[a] # <<>>, todo'[a] = Tail(todo[a]),
         tx' = Append(tx, Marked(Head(todo[a]))), complete' = complete, drive' = drive,
         active' = active, enabled' = enabled
  PROVE  AxisInv(a)'
<1> DEFINE f == Marked(Head(todo[a]))
<1>0. /\ tx \in Seq(Frames) /\ f \in Frames /\ f.axis = a
      /\ f.kind = Head(todo[a]).kind /\ tx' = Append(tx, f)
      /\ f.kind # "arm" \/ complete[a] => f = Head(todo[a])
      /\ f.kind = "arm" /\ ~complete[a] => f.mode = "any"
  <2>1. Head(todo[a]) \in Frames /\ Head(todo[a]).axis = a
    BY NextFrame DEF AxisInv
  <2> QED
    BY <2>1, MarkedIsFrame DEF TypeOK
<1>1. /\ Len(tx') = Len(tx) + 1 /\ Len(tx) \in Nat
      /\ Goal(a)' = Goal(a) /\ (Arming(a)' <=> Arming(a))
  BY <1>0, AppendedFrame DEF Goal, Arming
<1> HIDE DEF f
<1>2. CASE enabled[a] # {} /\ todo[a] = <<Frame(a, "input", Goal(a))>>
  <2>1. /\ todo'[a] = <<>> /\ f = Frame(a, "input", Goal(a)) /\ f.kind = "input"
        /\ f.mode = Goal(a)
    BY <1>0, <1>2, ShortQueues DEF Frame
  <2>2. Handed(a) /\ ModeHanded(a)
    BY <1>2, ShortQueues DEF Handed, ModeHanded, Frame
  <2>3. ~Is(f, a, {"mode"}) /\ ~Is(f, a, {"arm", "idle", "clear"}) /\ ~Is(f, a, {"arm", "idle"})
        /\ ~Is(f, a, {"arm"})
    BY <2>1 DEF Is
  <2>4. Rest(a)'
    BY <2>1 DEF Rest
  <2>5. ModeFollows(a)'
    <3>1. complete[a] /\ Arming(a) => ModeAfter(Len(tx), a, Goal(a))
      BY <2>2 DEF AxisInv, ModeFollows
    <3>2. ASSUME NEW m, m = Goal(a), complete[a], Arming(a)
          PROVE  ModeAfter(Len(tx), a, m)'
      BY <1>0, <2>3, <3>1, <3>2, AppendPassesMode
    <3> QED
      BY <1>1, <3>2 DEF ModeFollows, ModeAfter
  <2>6. ArmFollows(a)'
    <3>1. LastIn(tx, Len(tx), a, {"arm", "idle", "clear"}, OfKind("arm"))
            => LastIn(tx', Len(tx'), a, {"arm", "idle", "clear"}, OfKind("arm"))
      BY <1>0, <1>1, <2>3, AppendPasses
    <3>2. NoneOf(tx', Len(tx'), a, {"arm", "idle", "clear"})
            <=> NoneOf(tx, Len(tx), a, {"arm", "idle", "clear"})
      BY <1>0, <1>1, <2>3, AppendPasses
    <3> QED
      BY <1>1, <2>2, <3>1, <3>2 DEF AxisInv, ArmFollows
  <2>7. IdleFollows(a)'
    <3>1. LastIn(tx, Len(tx), a, {"arm", "idle"}, OfKind("idle"))
            => LastIn(tx', Len(tx'), a, {"arm", "idle"}, OfKind("idle"))
      BY <1>0, <1>1, <2>3, AppendPasses
    <3>2. NoneOf(tx', Len(tx'), a, {"arm", "idle"}) <=> NoneOf(tx, Len(tx), a, {"arm", "idle"})
      BY <1>0, <1>1, <2>3, AppendPasses
    <3> QED
      BY <1>1, <2>2, <3>1, <3>2 DEF AxisInv, IdleFollows
  <2>8. ArmFindsMode(a)'
    BY <1>0, <2>3, AppendKeepsOrders DEF AxisInv
  <2>9. InputsFollow(a)'
    <3>1. SUFFICES ASSUME complete[a], NEW k \in 1..Len(tx'), Is(tx'[k], a, {"input"}),
                          \A j \in (k + 1)..Len(tx') : ~Is(tx'[j], a, CommandKinds)
                   PROVE  tx'[k].mode = Goal(a)
      BY <1>1 DEF InputsFollow
    <3>2. CASE k \in 1..Len(tx)
      <4>1. tx'[k] = tx[k] /\ \A j \in (k + 1)..Len(tx) : tx'[j] = tx[j] /\ j \in (k + 1)..Len(tx')
        BY <1>0, <1>1, <3>2, AppendedFrame
      <4> QED
        BY <2>2, <3>1, <3>2, <4>1 DEF AxisInv, InputsFollow
    <3>3. CASE k = Len(tx) + 1
      BY <1>0, <2>1, <3>3, AppendedFrame
    <3> QED
      BY <1>1, <3>2, <3>3
  <2> QED
    BY <2>4, <2>5, <2>6, <2>7, <2>8, <2>9 DEF AxisInv
<1>3. CASE ~Arming(a) /\ todo[a] = <<Frame(a, "idle", "any")>>
  <2>1. todo'[a] = <<>> /\ f.kind = "idle" /\ f \in OfKind("idle")
    BY <1>0, <1>3, ShortQueues DEF Frame, OfKind
  <2>2. Is(f, a, {"arm", "idle"}) /\ Is(f, a, CommandKinds) /\ ~Is(f, a, {"arm"})
    BY <1>0, <2>1 DEF Is, CommandKinds, Kinds
  <2>3. IdleFollows(a)'
    BY <1>0, <1>1, <2>1, <2>2, AppendDecides DEF IdleFollows
  <2>4. ArmFindsMode(a)'
    BY <1>0, <2>2, AppendKeepsOrders DEF AxisInv
  <2>5. InputsFollow(a)'
    BY <1>0, <2>2, CommandSettlesInputs
  <2>6. Rest(a)'
    BY <2>1 DEF Rest
  <2> QED
    BY <1>1, <1>3, <2>3, <2>4, <2>5, <2>6 DEF AxisInv, ModeFollows, ArmFollows
<1>4. CASE /\ Arming(a)
           /\ todo[a] = <<Frame(a, "mode", Goal(a)), Frame(a, "clear", "any"),
                          Frame(a, "arm", Goal(a))>>
  <2>1. /\ todo'[a] = <<Frame(a, "clear", "any"), Frame(a, "arm", Goal(a))>>
        /\ f = Frame(a, "mode", Goal(a))
    BY <1>0, <1>4, ShortQueues DEF Frame
  <2>2. Is(f, a, {"mode"}) /\ Is(f, a, CommandKinds) /\ ~Is(f, a, {"arm"})
        /\ f \in OfMode(Goal(a))
    BY <1>0, <2>1 DEF Is, CommandKinds, Kinds, Frame, OfMode
  <2>3. 1 \in DOMAIN todo'[a] /\ todo'[a][1].kind = "clear"
    <3>1. 1 \in DOMAIN todo'[a] /\ todo'[a][1] = Frame(a, "clear", "any")
      BY <2>1, FirstOfTwo, Zenon
    <3> QED
      BY <3>1 DEF Frame
  <2>4. ModeFollows(a)'
    <3>1. LastIn(tx', Len(tx'), a, {"mode"}, OfMode(Goal(a)))
          /\ ~NoneOf(tx', Len(tx'), a, {"mode"})
      BY <1>0, <1>1, <2>2, AppendDecides
    <3> QED
      BY <1>1, <3>1 DEF ModeFollows, ModeAfter
  <2>5. ~Handed(a)'
    BY <2>3 DEF Handed
  <2>6. ArmFindsMode(a)'
    BY <1>0, <2>2, AppendKeepsOrders DEF AxisInv
  <2>7. Rest(a)'
    BY <1>1, <1>4, <2>1 DEF Rest
  <2> QED
    BY <2>4, <2>5, <2>6, <2>7 DEF AxisInv, ArmFollows, IdleFollows, InputsFollow
<1>5. CASE Arming(a) /\ todo[a] = <<Frame(a, "clear", "any"), Frame(a, "arm", Goal(a))>>
  <2>1. todo'[a] = <<Frame(a, "arm", Goal(a))>> /\ f = Frame(a, "clear", "any")
    BY <1>0, <1>5, ShortQueues DEF Frame
  <2>2. ~Is(f, a, {"mode"}) /\ ~Is(f, a, {"arm"})
    BY <2>1 DEF Is, Frame
  <2>3. 1 \in DOMAIN todo'[a] /\ todo'[a][1].kind = "arm"
    <3>1. 1 \in DOMAIN todo'[a] /\ todo'[a][1] = Frame(a, "arm", Goal(a))
      BY <2>1, ShortQueues, Zenon
    <3> QED
      BY <3>1 DEF Frame
  <2>4. ModeFollows(a)'
    <3>1. ModeHanded(a)
      BY <1>5, ShortQueues DEF ModeHanded, Frame
    <3>2. ASSUME NEW m, m = Goal(a), complete[a]
          PROVE  ModeAfter(Len(tx), a, m)'
      BY <1>0, <1>5, <2>2, <3>1, <3>2, AppendPassesMode DEF AxisInv, ModeFollows
    <3> QED
      BY <1>1, <3>2 DEF ModeFollows, ModeAfter
  <2>5. ~Handed(a)'
    BY <2>3 DEF Handed
  <2>6. ArmFindsMode(a)'
    BY <1>0, <2>2, AppendKeepsOrders DEF AxisInv
  <2>7. Rest(a)'
    BY <1>1, <1>5, <2>1 DEF Rest
  <2> QED
    BY <2>4, <2>5, <2>6, <2>7 DEF AxisInv, ArmFollows, IdleFollows, InputsFollow
<1>6. CASE Arming(a) /\ todo[a] = <<Frame(a, "arm", Goal(a))>>
  <2>1. /\ todo'[a] = <<>> /\ f.kind = "arm" /\ f \in OfKind("arm")
        /\ complete[a] => f.mode = Goal(a)
    BY <1>0, <1>6, ShortQueues DEF Frame, OfKind
  <2>2. /\ Is(f, a, {"arm", "idle", "clear"}) /\ Is(f, a, CommandKinds) /\ ~Is(f, a, {"mode"})
    BY <1>0, <2>1 DEF Is, CommandKinds, Kinds
  <2>3. complete[a] => ModeAfter(Len(tx), a, Goal(a))
    <3>1. ModeHanded(a)
      BY <1>6, ShortQueues DEF ModeHanded, Frame
    <3> QED
      BY <1>6, <3>1 DEF AxisInv, ModeFollows
  <2>4. ModeFollows(a)'
    <3>1. ASSUME NEW m, m = Goal(a), complete[a]
          PROVE  ModeAfter(Len(tx), a, m)'
      BY <1>0, <2>2, <2>3, <3>1, AppendPassesMode
    <3> QED
      BY <1>1, <3>1 DEF ModeFollows, ModeAfter
  <2>5. ArmFollows(a)'
    BY <1>0, <1>1, <2>1, <2>2, AppendDecides DEF ArmFollows
  <2>6. ArmFindsMode(a)'
    BY <1>0, <2>1, <2>3, AppendKeepsOrders DEF AxisInv
  <2>7. InputsFollow(a)'
    BY <1>0, <2>2, CommandSettlesInputs
  <2>8. Rest(a)'
    BY <2>1 DEF Rest
  <2> QED
    BY <1>1, <1>6, <2>4, <2>5, <2>6, <2>7, <2>8 DEF AxisInv, IdleFollows
<1> QED
  BY <1>2, <1>3, <1>4, <1>5, <1>6 DEF AxisInv, Rest

\* What is left after a frame has been handed over is still the rest of it.
LEMMA RestGoesOn ==
  ASSUME NEW a \in Axes, Rest(a), todo[a] # <<>>, todo'[a] = Tail(todo[a]),
         active' = active, enabled' = enabled
  PROVE  Rest(a)'
<1>1. Goal(a)' = Goal(a) /\ (Arming(a)' <=> Arming(a))
  BY DEF Goal, Arming
<1>2. CASE Tail(todo[a]) = <<>>
  BY <1>2 DEF Rest
<1>3. CASE /\ Arming(a)
           /\ todo[a] = <<Frame(a, "mode", Goal(a)), Frame(a, "clear", "any"),
                          Frame(a, "arm", Goal(a))>>
  <2>1. todo'[a] = <<Frame(a, "clear", "any"), Frame(a, "arm", Goal(a))>>
    BY <1>3, ShortQueues
  <2> QED
    BY <1>1, <1>3, <2>1 DEF Rest
<1>4. CASE Arming(a) /\ todo[a] = <<Frame(a, "clear", "any"), Frame(a, "arm", Goal(a))>>
  <2>1. todo'[a] = <<Frame(a, "arm", Goal(a))>>
    BY <1>4, ShortQueues
  <2> QED
    BY <1>1, <1>4, <2>1 DEF Rest
<1>5. ASSUME NEW f, todo[a] = <<f>> PROVE Tail(todo[a]) = <<>>
  BY <1>5
<1> QED
  BY <1>2, <1>3, <1>4, <1>5 DEF Rest

\* A frame sent, or dropped by a full queue, keeps every axis's account.
LEMMA HandOverStep ==
  ASSUME TypeOK, \A c \in Axes : AxisInv(c), NEW b \in Axes, HandOver(b), NEW a \in Axes
  PROVE  AxisInv(a)'
<1>0. /\ tx \in Seq(Frames) /\ todo[b] # <<>> /\ todo'[b] = Tail(todo[b]) /\ drive' = drive
      /\ active' = active /\ enabled' = enabled /\ (a # b => todo'[a] = todo[a])
      /\ Rest(b) /\ complete \in [Axes -> BOOLEAN]
  BY DEF HandOver, TypeOK, AxisInv
<1>1. Head(todo[b]) \in Frames /\ Head(todo[b]).axis = b
  BY <1>0, NextFrame
<1>2. CASE tx' = Append(tx, Marked(Head(todo[b]))) /\ complete' = complete
  <2>1. CASE a = b
    BY <1>0, <1>2, <2>1, OwnFrame
  <2>2. CASE a # b
    <3>1. Marked(Head(todo[b])) \in Frames /\ Marked(Head(todo[b])).axis # a
      BY <1>1, <2>2, MarkedIsFrame
    <3> QED
      BY <1>0, <1>2, <2>2, <3>1, OthersFrame
  <2> QED
    BY <2>1, <2>2
<1>3. CASE tx' = tx /\ complete' = [complete EXCEPT ![b] = @ /\ Head(todo[b]).kind = "input"]
  <2>1. CASE a # b
    <3>1. complete'[a] = complete[a]
      BY <1>0, <1>3, <2>1
    <3> QED
      BY <1>0, <1>3, <2>1, <3>1, AxisUntouched
  <2>2. CASE a = b /\ Head(todo[a]).kind # "input"
    <3>1. ~complete'[a]
      BY <1>0, <1>3, <2>2, Zenon
    <3>2. Rest(a)'
      BY <1>0, <2>2, RestGoesOn
    <3> QED
      BY <1>0, <1>3, <3>1, <3>2, IncompleteAxis
  <2>3. CASE a = b /\ Head(todo[a]).kind = "input"
    <3>1. todo[a] = <<Frame(a, "input", Goal(a))>>
      BY <1>0, <2>3, ShortQueues DEF Rest, Frame
    <3>2. todo'[a] = <<>> /\ Handed(a) /\ ModeHanded(a) /\ Handed(a)' /\ ModeHanded(a)'
      BY <1>0, <2>3, <3>1, ShortQueues DEF Handed, ModeHanded, Frame
    <3>3. complete'[a] => complete[a]
      BY <1>0, <1>3, <2>3, Zenon
    <3>4. Rest(a)'
      BY <3>2 DEF Rest
    <3>5. ModeFollows(a)'
      BY <1>0, <1>3, <3>2, <3>3 DEF AxisInv, ModeFollows, ModeAfter, Arming, Goal
    <3>6. ArmFollows(a)'
      BY <1>0, <1>3, <3>2, <3>3 DEF AxisInv, ArmFollows, Arming
    <3>7. IdleFollows(a)'
      BY <1>0, <1>3, <3>2, <3>3 DEF AxisInv, IdleFollows, Arming
    <3>8. ArmFindsMode(a)'
      BY <1>0, <1>3, SameQueueSameOrders DEF AxisInv
    <3>9. InputsFollow(a)'
      BY <1>0, <1>3, <3>2, <3>3 DEF AxisInv, InputsFollow, Goal
    <3> QED
      BY <3>4, <3>5, <3>6, <3>7, <3>8, <3>9 DEF AxisInv
  <2> QED
    BY <2>1, <2>2, <2>3
<1> QED
  BY <1>2, <1>3 DEF HandOver

-------------------------------------------------------------------------------
(***************************************************************************)
(* A frame reaches its drive.                                              *)
(***************************************************************************)
LEMMA DriveObeys ==
  ASSUME TypeOK, Transmit, NEW a \in Axes
  PROVE  /\ tx \in Seq(Frames) /\ tx # <<>> /\ tx' = Tail(tx) /\ Head(tx) \in Frames
         /\ drive'[a].mode = (IF Is(Head(tx), a, {"mode"}) THEN Head(tx).mode ELSE drive[a].mode)
         /\ Is(Head(tx), a, {"arm"}) => (drive'[a].state = "idle" => drive'[a].error)
         /\ Is(Head(tx), a, {"idle"}) => drive'[a].state = "idle"
         /\ ~Is(Head(tx), a, {"arm", "idle"}) => drive'[a].state = drive[a].state
         /\ ~Is(Head(tx), a, {"arm", "idle", "clear"}) => drive'[a].error = drive[a].error
         /\ drive[a].state = "idle" /\ drive'[a].state # "idle" => Is(Head(tx), a, {"arm"})
<1>1. /\ tx \in Seq(Frames) /\ tx # <<>> /\ tx' = Tail(tx) /\ Head(tx) \in Frames
  BY TailOfQueue DEF Transmit, TypeOK
<1>2. drive'[a] = IF Head(tx).axis = a THEN Obeyed(drive[a], Head(tx)) ELSE drive[a]
  BY DEF Transmit, TypeOK
<1>3. drive[a] \in [state : {"idle", "closed_loop"}, mode : Interfaces, error : BOOLEAN]
  BY DEF TypeOK
<1>4. Head(tx).kind \in {"mode", "clear", "arm", "idle", "input"}
  BY <1>1 DEF Frames
<1>5. CASE Head(tx).axis # a
  BY <1>1, <1>2, <1>5 DEF Is
<1>6. CASE Head(tx).axis = a
  <2>1. drive'[a] = Obeyed(drive[a], Head(tx))
    BY <1>2, <1>6
  <2>2. CASE Head(tx).kind = "mode"
    BY <1>1, <1>3, <1>6, <2>1, <2>2 DEF Obeyed, Is
  <2>3. CASE Head(tx).kind = "clear"
    BY <1>1, <1>3, <1>6, <2>1, <2>3 DEF Obeyed, Is
  <2>4. CASE Head(tx).kind = "arm"
    BY <1>1, <1>3, <1>6, <2>1, <2>4 DEF Obeyed, Is
  <2>5. CASE Head(tx).kind = "idle"
    BY <1>1, <1>3, <1>6, <2>1, <2>5 DEF Obeyed, Is
  <2>6. CASE Head(tx).kind = "input"
    BY <1>1, <1>3, <1>6, <2>1, <2>6 DEF Obeyed, Is
  <2> QED
    BY <1>4, <2>2, <2>3, <2>4, <2>5, <2>6
<1> QED
  BY <1>5, <1>6

\* The drive is one frame closer to the mode it will be in.
LEMMA TransmitKeepsMode ==
  ASSUME TypeOK, Transmit, NEW a \in Axes, NEW m, NEW n \in 1..Len(tx), ModeAfter(n, a, m)
  PROVE  ModeAfter(n - 1, a, m)'
<1>0. /\ tx \in Seq(Frames) /\ tx # <<>> /\ tx' = Tail(tx)
      /\ drive'[a].mode = (IF Is(Head(tx), a, {"mode"}) THEN Head(tx).mode ELSE drive[a].mode)
  BY DriveObeys
<1>1. LastIn(tx, n, a, {"mode"}, OfMode(m))
  BY DEF ModeAfter
<1>2. LastIn(tx', n - 1, a, {"mode"}, OfMode(m))
  BY <1>0, <1>1, TailKeepsLast
<1>3. ASSUME NoneOf(tx', n - 1, a, {"mode"}) PROVE drive'[a].mode = m
  <2>1. IF Is(Head(tx), a, {"mode"}) THEN Head(tx) \in OfMode(m)
        ELSE NoneOf(tx, n, a, {"mode"})
    BY <1>0, <1>1, <1>3, TailLeavesNone
  <2> QED
    BY <1>0, <2>1 DEF ModeAfter, OfMode
<1> QED
  BY <1>2, <1>3 DEF ModeAfter

\* A frame delivered, or lost on the bus, keeps every axis's account.
LEMMA TransmitStep ==
  ASSUME TypeOK, Transmit, NEW a \in Axes, AxisInv(a)
  PROVE  AxisInv(a)'
<1>0. /\ tx \in Seq(Frames) /\ tx # <<>> /\ tx' = Tail(tx)
      /\ todo' = todo /\ active' = active /\ enabled' = enabled /\ complete' = complete
  BY DriveObeys DEF Transmit
<1>1. /\ Len(tx') = Len(tx) - 1 /\ Len(tx) \in Nat /\ Len(tx) \in 1..Len(tx)
      /\ \A i \in 1..Len(tx') : tx'[i] = tx[i + 1]
  BY <1>0, TailOfQueue
<1>2. Goal(a)' = Goal(a) /\ (Arming(a)' <=> Arming(a)) /\ (Handed(a)' <=> Handed(a))
      /\ (ModeHanded(a)' <=> ModeHanded(a))
  BY <1>0 DEF Goal, Arming, Handed, ModeHanded
<1>3. Rest(a)'
  BY <1>0, <1>2 DEF AxisInv, Rest
<1>4. ModeFollows(a)'
  <2>1. ASSUME NEW m, m = Goal(a), NEW n, n = Len(tx),
               complete[a], ModeHanded(a), Arming(a)
        PROVE  ModeAfter(n - 1, a, m)'
    BY <1>1, <2>1, TransmitKeepsMode DEF AxisInv, ModeFollows
  <2>2. ASSUME complete[a], ModeHanded(a), Arming(a)
        PROVE  /\ LastIn(tx', Len(tx'), a, {"mode"}, OfMode(Goal(a)))
               /\ NoneOf(tx', Len(tx'), a, {"mode"}) => drive'[a].mode = Goal(a)
    BY <1>1, <2>1, <2>2 DEF ModeAfter
  <2> QED
    BY <1>0, <1>2, <2>2 DEF ModeFollows, ModeAfter
<1>5. ArmFollows(a)'
  <2>1. SUFFICES ASSUME complete[a], Handed(a), Arming(a)
                 PROVE  /\ LastIn(tx', Len(tx'), a, {"arm", "idle", "clear"}, OfKind("arm"))
                        /\ NoneOf(tx', Len(tx'), a, {"arm", "idle", "clear"})
                             => (drive'[a].state = "idle" => drive'[a].error)
    BY <1>0, <1>2 DEF ArmFollows
  <2>2. LastIn(tx, Len(tx), a, {"arm", "idle", "clear"}, OfKind("arm"))
    BY <2>1 DEF AxisInv, ArmFollows
  <2>3. LastIn(tx', Len(tx'), a, {"arm", "idle", "clear"}, OfKind("arm"))
    BY <1>0, <1>1, <2>2, TailKeepsLast
  <2>4. ASSUME NoneOf(tx', Len(tx'), a, {"arm", "idle", "clear"}), drive'[a].state = "idle"
        PROVE  drive'[a].error
    <3>1. IF Is(Head(tx), a, {"arm", "idle", "clear"}) THEN Head(tx) \in OfKind("arm")
          ELSE NoneOf(tx, Len(tx), a, {"arm", "idle", "clear"})
      BY <1>0, <1>1, <2>2, <2>4, TailLeavesNone
    <3>2. CASE Is(Head(tx), a, {"arm", "idle", "clear"})
      <4>1. Is(Head(tx), a, {"arm"})
        BY <3>1, <3>2 DEF Is, OfKind
      <4> QED
        BY <2>4, <4>1, DriveObeys
    <3>3. CASE ~Is(Head(tx), a, {"arm", "idle", "clear"})
      <4>1. ~Is(Head(tx), a, {"arm", "idle"})
        BY <3>3 DEF Is
      <4>2. drive'[a].state = drive[a].state /\ drive'[a].error = drive[a].error
        BY <3>3, <4>1, DriveObeys
      <4> QED
        BY <2>1, <2>4, <3>1, <3>3, <4>2 DEF AxisInv, ArmFollows
    <3> QED
      BY <3>2, <3>3
  <2> QED
    BY <2>3, <2>4
<1>6. IdleFollows(a)'
  <2>1. SUFFICES ASSUME complete[a], Handed(a), ~Arming(a)
                 PROVE  /\ LastIn(tx', Len(tx'), a, {"arm", "idle"}, OfKind("idle"))
                        /\ NoneOf(tx', Len(tx'), a, {"arm", "idle"}) => drive'[a].state = "idle"
    BY <1>0, <1>2 DEF IdleFollows
  <2>2. LastIn(tx, Len(tx), a, {"arm", "idle"}, OfKind("idle"))
    BY <2>1 DEF AxisInv, IdleFollows
  <2>3. LastIn(tx', Len(tx'), a, {"arm", "idle"}, OfKind("idle"))
    BY <1>0, <1>1, <2>2, TailKeepsLast
  <2>4. ASSUME NoneOf(tx', Len(tx'), a, {"arm", "idle"}) PROVE drive'[a].state = "idle"
    <3>1. IF Is(Head(tx), a, {"arm", "idle"}) THEN Head(tx) \in OfKind("idle")
          ELSE NoneOf(tx, Len(tx), a, {"arm", "idle"})
      BY <1>0, <1>1, <2>2, <2>4, TailLeavesNone
    <3>2. CASE Is(Head(tx), a, {"arm", "idle"})
      <4>1. Is(Head(tx), a, {"idle"})
        BY <3>1, <3>2 DEF Is, OfKind
      <4> QED
        BY <4>1, DriveObeys
    <3>3. CASE ~Is(Head(tx), a, {"arm", "idle"})
      BY <2>1, <3>1, <3>3, DriveObeys DEF AxisInv, IdleFollows
    <3> QED
      BY <3>2, <3>3
  <2> QED
    BY <2>3, <2>4
<1>7. ArmFindsMode(a)'
  <2>1. SUFFICES ASSUME NEW k \in 1..Len(tx'), Is(tx'[k], a, {"arm"}), tx'[k].mode # "any"
                 PROVE  /\ LastIn(tx', k - 1, a, {"mode"}, OfMode(tx'[k].mode))
                        /\ NoneOf(tx', k - 1, a, {"mode"}) => drive'[a].mode = tx'[k].mode
    BY DEF ArmFindsMode, ModeAfter
  <2>2. k + 1 \in 1..Len(tx) /\ k \in 1..Len(tx) /\ k + 1 - 1 = k /\ tx'[k] = tx[k + 1]
    BY <1>1
  <2>3. ModeAfter(k, a, tx[k + 1].mode)
    BY <2>1, <2>2 DEF AxisInv, ArmFindsMode
  <2>4. ASSUME NEW m, m = tx[k + 1].mode PROVE ModeAfter(k - 1, a, m)'
    BY <2>2, <2>3, <2>4, TransmitKeepsMode
  <2> QED
    BY <2>2, <2>4 DEF ModeAfter
<1>8. InputsFollow(a)'
  <2>1. SUFFICES ASSUME complete[a], Handed(a), NEW k \in 1..Len(tx'), Is(tx'[k], a, {"input"}),
                        \A j \in (k + 1)..Len(tx') : ~Is(tx'[j], a, CommandKinds)
                 PROVE  tx'[k].mode = Goal(a)
    BY <1>0, <1>2 DEF InputsFollow
  <2>2. k + 1 \in 1..Len(tx) /\ tx'[k] = tx[k + 1]
    BY <1>1
  <2>3. ASSUME NEW j \in (k + 1 + 1)..Len(tx) PROVE ~Is(tx[j], a, CommandKinds)
    <3>1. j - 1 \in (k + 1)..Len(tx') /\ j - 1 \in 1..Len(tx') /\ j - 1 + 1 = j
      BY <1>1
    <3>2. tx'[j - 1] = tx[j]
      BY <1>1, <3>1
    <3> QED
      BY <2>1, <3>1, <3>2
  <2> QED
    BY <2>1, <2>2, <2>3 DEF AxisInv, InputsFollow
<1> QED
  BY <1>3, <1>4, <1>5, <1>6, <1>7, <1>8 DEF AxisInv

-------------------------------------------------------------------------------
\* No axis has a command under way at the start.
LEMMA InvInit == Init => Inv
<1> SUFFICES ASSUME Init PROVE Inv
  OBVIOUS
<1>1. ASSUME NEW a \in Axes PROVE AxisInv(a)
  <2>1. todo[a] = <<>> /\ tx = <<>> /\ ~complete[a] /\ Len(tx) = 0
    BY DEF Init
  <2>2. Rest(a)
    BY <2>1 DEF Rest
  <2>3. ArmFindsMode(a)
    BY <2>1 DEF ArmFindsMode
  <2> QED
    BY <2>1, <2>2, <2>3 DEF AxisInv, ModeFollows, ArmFollows, IdleFollows, InputsFollow
<1> QED
  BY <1>1, TypeInit DEF Inv

\* The invariant survives every step.
LEMMA InvStep == Inv /\ [Next]_vars => Inv'
<1> SUFFICES ASSUME Inv, [Next]_vars PROVE Inv'
  OBVIOUS
<1>0. TypeOK /\ TypeOK' /\ \A a \in Axes : AxisInv(a)
  BY TypeStep DEF Inv
<1> SUFFICES ASSUME NEW a \in Axes PROVE AxisInv(a)'
  BY <1>0 DEF Inv
<1>a. AxisInv(a)
  BY <1>0
<1>1. CASE OnConfigure \/ OnCleanup
  BY <1>1, <1>a, AxisUntouched DEF OnConfigure, OnCleanup
<1>2. CASE OnActivate
  <2>1. Command(Axes, TRUE, enabled)
    BY <1>2 DEF OnActivate
  <2> QED
    BY <1>a, <2>1, CommandStep
<1>3. CASE OnDeactivate
  <2>1. Command(Axes, FALSE, enabled)
    BY <1>3 DEF OnDeactivate
  <2> QED
    BY <1>a, <2>1, CommandStep
<1>4. CASE CommandModeSwitch
  <2>1. PICK start \in Claims, stop \in Claims :
          Command({b \in Axes : \E c \in start \cup stop : c[1] = b}, active,
                  [b \in Axes |-> {i \in Interfaces :
                     <<b, i>> \in start \/ (i \in enabled[b] /\ <<b, i>> \notin stop)}])
    BY <1>4 DEF CommandModeSwitch
  <2> DEFINE axes == {b \in Axes : \E c \in start \cup stop : c[1] = b}
             inputs == [b \in Axes |-> {i \in Interfaces :
                          <<b, i>> \in start \/ (i \in enabled[b] /\ <<b, i>> \notin stop)}]
  <2>2. ASSUME a \notin axes PROVE inputs[a] = enabled[a]
    <3>1. \A i : <<a, i>> \notin start /\ <<a, i>> \notin stop
      BY <2>2
    <3>2. enabled[a] \subseteq Interfaces
      BY <1>0 DEF TypeOK
    <3> QED
      BY <3>1, <3>2
  <2>3. Command(axes, active, inputs)
    BY <2>1
  <2> HIDE DEF axes, inputs
  <2> QED
    BY <1>a, <2>2, <2>3, CommandStep
<1>5. CASE Write
  BY <1>5, <1>a, WriteStep
<1>6. CASE \E b \in Axes : HandOver(b)
  BY <1>0, <1>6, HandOverStep
<1>7. CASE Restart
  <2>1. tx' = tx /\ drive' = drive /\ todo'[a] = <<>> /\ ~complete'[a]
    BY <1>7 DEF Restart
  <2>2. Rest(a)'
    BY <2>1 DEF Rest
  <2> QED
    BY <1>a, <2>1, <2>2, IncompleteAxis
<1>8. CASE Transmit
  BY <1>0, <1>8, TransmitStep
<1>9. CASE Fault
  <2>1. PICK b \in Axes : drive' = [drive EXCEPT ![b].state = "idle", ![b].error = TRUE]
    BY <1>9 DEF Fault
  <2>2. tx' = tx /\ todo' = todo /\ active' = active /\ enabled' = enabled /\ complete' = complete
    BY <1>9 DEF Fault
  <2>3. CASE b = a
    <3>1. drive'[a].mode = drive[a].mode /\ drive'[a].state = "idle" /\ drive'[a].error
      BY <1>0, <2>1, <2>3 DEF TypeOK
    <3> QED
      BY <1>a, <2>2, <3>1, FaultedAxis
  <2>4. CASE b # a
    <3>1. drive'[a] = drive[a]
      BY <1>0, <2>1, <2>4 DEF TypeOK
    <3> QED
      BY <1>a, <2>2, <3>1, AxisUntouched
  <2> QED
    BY <2>3, <2>4
<1>10. CASE UNCHANGED vars
  BY <1>10, <1>a, AxisUntouched DEF vars
<1> QED
  BY <1>1, <1>2, <1>3, <1>4, <1>5, <1>6, <1>7, <1>8, <1>9, <1>10 DEF Next

\* What an axis will do when it has worked through the queue, in every state.
THEOREM InvInvariant == Spec => []Inv
<1> QED
  BY InvInit, InvStep, PTL DEF Spec

\* A settled axis has handed everything over and nothing is under way.
LEMMA SettledQueue ==
  ASSUME NEW a \in Axes, Settled(a)
  PROVE  /\ Handed(a) /\ ModeHanded(a)
         /\ \A K : K \subseteq CommandKinds => NoneOf(tx, Len(tx), a, K)
BY DEF Settled, Handed, ModeHanded, NoneOf, Is, CommandKinds

\* Then the drive is where the plugin believes it is.
LEMMA InvSettles ==
  ASSUME Inv, NEW a \in Axes, Settled(a)
  PROVE  IF Arming(a) THEN /\ drive[a].mode = Goal(a)
                           /\ drive[a].state = "idle" => drive[a].error
         ELSE drive[a].state = "idle"
<1>1. /\ Handed(a) /\ ModeHanded(a) /\ complete[a]
      /\ NoneOf(tx, Len(tx), a, {"mode"}) /\ NoneOf(tx, Len(tx), a, {"arm", "idle", "clear"})
      /\ NoneOf(tx, Len(tx), a, {"arm", "idle"})
  BY SettledQueue DEF Settled, CommandKinds, Kinds
<1> QED
  BY <1>1 DEF Inv, AxisInv, ModeFollows, ModeAfter, ArmFollows, IdleFollows

\* An arming frame of a whole command finds the drive in the command's mode.
LEMMA InvOrders ==
  ASSUME Inv, tx # <<>>, NEW a \in Axes, Is(Head(tx), a, {"arm"}), Head(tx).mode # "any"
  PROVE  drive[a].mode = Head(tx).mode
<1>1. Len(tx) >= 1 /\ Len(tx) \in Nat /\ Head(tx) = tx[1]
  BY TailOfQueue DEF Inv, TypeOK
<1>2. ModeAfter(0, a, tx[1].mode)
  BY <1>1 DEF Inv, AxisInv, ArmFindsMode
<1> QED
  BY <1>1, <1>2 DEF ModeAfter, NoneOf

\* A drive whose axis is settled is where the plugin believes it is.
THEOREM DrivesFollowThePlugin == Spec => []DrivesFollow
<1>1. Inv => DrivesFollow
  BY InvSettles DEF DrivesFollow, Arming, Goal
<1> QED
  BY <1>1, InvInvariant, PTL

\* A set point that reaches an armed drive of a settled axis fits its mode.
THEOREM SetPointsFit == Spec => []InputsMeetTheirMode
<1>1. ASSUME Inv, NEW a \in Axes, Settled(a), tx # <<>>, Head(tx).axis = a,
             drive[a].state = "closed_loop"
      PROVE  Head(tx).mode = drive[a].mode
  <2>1. drive[a].mode = Goal(a)
    BY <1>1, InvSettles
  <2>2. Len(tx) >= 1 /\ Len(tx) \in Nat /\ Head(tx) = tx[1] /\ 1 \in DOMAIN tx
    BY <1>1, TailOfQueue DEF Inv, TypeOK
  <2>3. Is(tx[1], a, {"input"})
    BY <1>1, <2>2 DEF Settled, Is
  <2>4. NoneOf(tx, Len(tx), a, CommandKinds) /\ complete[a] /\ Handed(a)
    BY <1>1, SettledQueue DEF Settled
  <2>5. tx[1].mode = Goal(a)
    BY <1>1, <2>2, <2>3, <2>4 DEF Inv, AxisInv, InputsFollow, NoneOf
  <2> QED
    BY <2>1, <2>2, <2>5
<1>2. Inv => InputsMeetTheirMode
  BY <1>1 DEF InputsMeetTheirMode
<1> QED
  BY <1>2, InvInvariant, PTL

\* A mode command sent whole never arms a drive in another mode than its own.
THEOREM ArmedAsOrdered == Spec => ArmsAsOrdered
<1>1. ASSUME Inv, [Next]_vars, NEW a \in Axes,
             drive[a].state = "idle", drive'[a].state = "closed_loop"
      PROVE  Head(tx).mode \in {"any", drive'[a].mode}
  <2>1. CASE Transmit
    <3>1. TypeOK
      BY <1>1 DEF Inv
    <3>2. Is(Head(tx), a, {"arm"}) /\ drive'[a].mode = drive[a].mode /\ tx # <<>>
      BY <1>1, <2>1, <3>1, DriveObeys DEF Is
    <3> QED
      BY <1>1, <3>2, InvOrders
  <2>2. CASE Fault
    <3>1. PICK b \in Axes : drive' = [drive EXCEPT ![b].state = "idle", ![b].error = TRUE]
      BY <2>2 DEF Fault
    <3> QED
      BY <1>1, <3>1 DEF Inv, TypeOK
  <2>3. ~Transmit /\ ~Fault => drive' = drive
    BY <1>1 DEF Next, vars, OnConfigure, OnCleanup, OnActivate, OnDeactivate, CommandModeSwitch,
       Command, Write, HandOver, Restart
  <2> QED
    BY <1>1, <2>1, <2>2, <2>3
<1>2. Inv /\ [Next]_vars =>
        [\A a \in Axes :
           drive[a].state = "idle" /\ drive'[a].state = "closed_loop"
             => Head(tx).mode \in {"any", drive'[a].mode}]_vars
  BY <1>1
<1> QED
  BY <1>2, InvInvariant, PTL DEF Spec, ArmsAsOrdered

===============================================================================
