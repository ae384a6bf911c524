----------------------------- MODULE DriveFeedback ----------------------------
(***************************************************************************)
(* The way back: what the drives broadcast on the CAN link, the receive    *)
(* queue of the socket, and ODriveHardwareInterface::read(), which drains  *)
(* it once per cycle of the controller manager into the estimates that     *)
(* become /joint_states.                                                   *)
(*                                                                         *)
(* Frames are numbered by the drive that sends them; an estimate is the    *)
(* number of the frame it was taken from, so that values can be told apart.*)
(* Frames of other nodes have number 0.                                    *)
(***************************************************************************)
EXTENDS CanCodec

CONSTANTS
  NodeIds,    \* node_id_ of the plugin's axes
  Strangers,  \* nodes on the link that are no axis of the plugin
  Broadcasts, \* messages the drives of the axes broadcast
  Depth,      \* frames the receive queue holds
  MaxFrames   \* bound on the frames a drive sends

\* What Axis::on_can_msg has a case for.
Handled == {Get_Encoder_Estimates, Get_Torques, Get_Powers}

ASSUME FeedbackAssumption ==
  /\ NodeIds \cup Strangers \subseteq 0..63 /\ NodeIds \cap Strangers = {}
  /\ Broadcasts \subseteq Messages
  /\ Depth \in Nat \ {0} /\ MaxFrames \in Nat

VARIABLES
  open,      \* the socket is open: between on_configure and on_cleanup
  reading,   \* read() is in its loop
  rx,        \* frames in the receive queue of the socket
  est,       \* by axis and handled message: the estimates, 0 is NaN
  sent,      \* frames the drive of each axis has sent
  newest     \* history: newest whole frame that was queued, by axis and message

vars == <<open, reading, rx, est, sent, newest>>

Commands == {m.cmd_id : m \in Handled}
\* pos_estimate_ and vel_estimate_, and so on: NaN until the first frame.
NoEstimate == [cmd \in Commands |-> <<0, 0>>]

Init ==
  /\ open = FALSE /\ reading = FALSE /\ rx = <<>>
  /\ est = [a \in NodeIds |-> NoEstimate]
  /\ sent = [a \in NodeIds |-> 0]
  /\ newest = [a \in NodeIds |-> [cmd \in Commands |-> 0]]

\* on_configure opens the socket, or fails and leaves things as they are.
OnConfigure ==
  /\ ~open
  /\ open' = TRUE
  /\ UNCHANGED <<reading, rx, est, sent, newest>>

\* on_cleanup closes it; frames still queued are gone, the estimates stay.
OnCleanup ==
  /\ open /\ ~reading
  /\ open' = FALSE /\ rx' = <<>>
  /\ newest' = [a \in NodeIds |-> [cmd \in Commands |-> est[a][cmd][1]]]
  /\ UNCHANGED <<reading, est, sent>>

\* A frame arrives; a closed socket and a full queue lose it.
Queued == open /\ Len(rx) < Depth
Arrives(d, m, dlc, n) ==
  rx' = IF Queued THEN Append(rx, [id |-> CanId(d, m), dlc |-> dlc, n |-> n]) ELSE rx

\* The drive of an axis broadcasts; the link may cut the frame short.
Broadcast ==
  \E a \in NodeIds, m \in Broadcasts, dlc \in {4, 8} :
    /\ sent[a] < MaxFrames
    /\ sent' = [sent EXCEPT ![a] = @ + 1]
    /\ Arrives(a, m, dlc, sent'[a])
    /\ newest' = IF Queued /\ m \in Handled /\ dlc >= m.msg_length
                 THEN [newest EXCEPT ![a][m.cmd_id] = sent'[a]] ELSE newest
    /\ UNCHANGED <<open, reading, est>>

\* Any other traffic, commands of other masters included.
Overhear ==
  \E d \in Strangers, m \in Messages :
    /\ Arrives(d, m, m.msg_length, 0) /\ Queued
    /\ UNCHANGED <<open, reading, est, sent, newest>>

\* read(), called by the manager in every cycle once the component is configured.
Read ==
  /\ open /\ ~reading
  /\ reading' = TRUE
  /\ UNCHANGED <<open, rx, est, sent, newest>>

\* Mutant of ForAxis: the command alone routes a frame.
ToEveryAxis(f, a) == TRUE

ForAxis(f, a) == f.id \div 32 = a

\* A float of the frame: of one cut short the second is whatever was there.
Value(f, k) == IF 4 * k <= f.dlc THEN f.n ELSE -1

\* on_can_msg of the plugin and of the axes it is for.
Dispatched(f) ==
  [a \in NodeIds |-> [cmd \in Commands |->
     IF /\ ForAxis(f, a) /\ f.id % 32 = cmd
        /\ \E m \in Handled : m.cmd_id = cmd /\ LongEnough(f.dlc, m)
     THEN <<Value(f, 1), Value(f, 2)>> ELSE est[a][cmd]]]

\* Mutant of GoesOn: read() takes one frame per cycle.
OncePerCycle == FALSE

\* read_nonblocking() returned true: the loop asks for another frame.
GoesOn == TRUE

ReadFrame ==
  /\ reading /\ rx # <<>>
  /\ est' = Dispatched(Head(rx)) /\ rx' = Tail(rx)
  /\ reading' = GoesOn
  /\ UNCHANGED <<open, sent, newest>>

\* EAGAIN: the queue is empty, read() returns.
ReadEmpty ==
  /\ reading /\ rx = <<>>
  /\ reading' = FALSE
  /\ UNCHANGED <<open, rx, est, sent, newest>>

\* Any other errno also ends the loop, and read() returns OK all the same.
ReadFails ==
  /\ reading
  /\ reading' = FALSE
  /\ UNCHANGED <<open, rx, est, sent, newest>>

\* The driver process dies and is started again.
Restart ==
  /\ open' = FALSE /\ reading' = FALSE /\ rx' = <<>>
  /\ est' = [a \in NodeIds |-> NoEstimate]
  /\ newest' = [a \in NodeIds |-> [cmd \in Commands |-> 0]]
  /\ UNCHANGED sent

Next ==
  \/ OnConfigure \/ OnCleanup \/ Broadcast \/ Overhear
  \/ Read \/ ReadFrame \/ ReadEmpty \/ ReadFails \/ Restart

Spec == Init /\ [][Next]_vars

\* The manager keeps cycling, and a socket that has frames does not always fail.
FairSpec == Spec /\ WF_vars(Read) /\ SF_vars(ReadFrame)

-------------------------------------------------------------------------------
\* Every variable has its type; an estimate is NaN or of a frame the drive of
\* its axis has sent, never of another node's or of a piece of one.
TypeOK ==
  /\ {open, reading} \subseteq BOOLEAN
  /\ Len(rx) <= Depth /\ sent \in [NodeIds -> 0..MaxFrames]
  /\ \A a \in NodeIds : \A cmd \in Commands :
       \A k \in 1..2 : est[a][cmd][k] \in 0..sent[a]

\* Position and velocity of an axis, as its two torques and its two powers, are
\* always of one frame, whatever is cut short, lost or left behind by an error.
EstimatesBelongTogether ==
  \A a \in NodeIds : \A cmd \in Commands : est[a][cmd][1] = est[a][cmd][2]

\* What a receiver makes of a frame that waits, a drive of its command or the
\* plugin of a drive's, is what the sender set, signal by signal, in the same
\* structure: whatever the frame's memory, the bits of the unions beyond a value
\* and an overflowing feedforward hold, and however short the frame was cut.
FramesDecode ==
  \A i \in DOMAIN rx : \A m \in {m \in Messages : m.cmd_id = rx[i].id % 32} :
    LongEnough(rx[i].dlc, m) =>
      \A wild \in SUBSET ScaledSignals(m) :
        DecodedAsEncoded(m, wild, rx[i].dlc)

\* However many frames came in since the last cycle, a read() that ends other
\* than by an error leaves the newest of every axis: the queue adds no delay.
ReadLeavesTheNewest ==
  [][reading /\ ~reading' /\ open' /\ (rx = <<>> \/ rx' # rx)
       => \A a \in NodeIds : \A cmd \in Commands : est'[a][cmd][1] = newest[a][cmd]]_vars

\* A frame that was queued reaches its axis, or a newer one does.
QueuedFramesArrive ==
  \A a \in NodeIds : \A cmd \in Commands : \A n \in 1..MaxFrames :
    newest[a][cmd] = n ~> (est[a][cmd][1] >= n \/ newest[a][cmd] < n)

===============================================================================
