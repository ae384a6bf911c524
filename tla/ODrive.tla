-------------------------------- MODULE ODrive --------------------------------
(***************************************************************************)
(* ODriveHardwareInterface, the ros2_control plugin that arms, switches    *)
(* and disarms the drives over CAN, with the parts it stands between: the  *)
(* controller manager above (lifecycle, command mode switches) and the     *)
(* transmit queue of the CAN socket and the drives below.                  *)
(*                                                                         *)
(* The manager calls the plugin from one thread.  A callback decides what  *)
(* to send and then hands the frames to the socket one at a time, axis by  *)
(* axis, while the link transmits; the process may die between any two.    *)
(* send() ignores the result, so a frame that finds the queue full, or the *)
(* link down, is gone.                                                     *)
(***************************************************************************)
EXTENDS Integers, Sequences

CONSTANTS N,        \* number of joints: axes_ is a vector
          Claims,   \* sets of <<axis, interface>> that controllers claim
          Depth     \* frames the transmit queue holds

Axes == 1..N
Interfaces == {"position", "velocity", "effort"}

ASSUME DriveAssumption ==
  /\ N \in Nat \ {0} /\ Depth \in Nat \ {0}
  /\ Claims \subseteq SUBSET (Axes \X Interfaces)

VARIABLES
  lifecycle,   \* state of the hardware component, kept by the manager
  active,      \* active_
  enabled,     \* pos_, vel_ and torque_input_enabled_, as a set by axis
  todo,        \* by axis: frames the callback under way has not sent yet
  tx,          \* frames in the transmit queue
  drive,       \* by axis: axis state, control mode and error of the drive
  complete     \* history: no frame of the axis' last mode command was lost

vars == <<lifecycle, active, enabled, todo, tx, drive, complete>>

\* The control mode a set of enabled inputs stands for; the others feed forward.
Primary(inputs) ==
  IF "position" \in inputs THEN "position"
  ELSE IF "velocity" \in inputs THEN "velocity" ELSE "effort"

Frame(a, kind, mode) == [axis |-> a, kind |-> kind, mode |-> mode]
Frames == {f \in [axis : Axes, kind : {"mode", "clear", "arm", "idle", "input"},
                  mode : Interfaces \cup {"any"}] :
             f.kind = "mode" => f.mode # "any"}

-------------------------------------------------------------------------------
\* active_ has no initializer, and the drives are in whatever state they were.
Init ==
  /\ lifecycle = "unconfigured"
  /\ active \in BOOLEAN
  /\ enabled = [a \in Axes |-> {}]
  /\ todo = [a \in Axes |-> <<>>]
  /\ tx = <<>>
  /\ drive \in [Axes -> {[state |-> "idle", mode |-> "velocity", error |-> FALSE],
                         [state |-> "closed_loop", mode |-> "effort", error |-> FALSE]}]
  /\ complete = [a \in Axes |-> FALSE]

-------------------------------------------------------------------------------
\* Mutants of ModeFrames: the drive is armed first; active_ is not consulted.
ArmFirst(a, act, inputs) ==
  IF ~act \/ inputs = {} THEN <<Frame(a, "idle", "any")>>
  ELSE <<Frame(a, "arm", Primary(inputs)), Frame(a, "mode", Primary(inputs)),
         Frame(a, "clear", "any")>>
ArmInactive(a, act, inputs) ==
  IF inputs = {} THEN <<Frame(a, "idle", "any")>>
  ELSE <<Frame(a, "mode", Primary(inputs)), Frame(a, "clear", "any"),
         Frame(a, "arm", Primary(inputs))>>

\* set_axis_command_mode: Set_Controller_Mode, Clear_Errors, Set_Axis_State.
\* The mode of an arm frame is history: the one the command is meant for.
ModeFrames(a, act, inputs) ==
  IF ~act \/ inputs = {} THEN <<Frame(a, "idle", "any")>>
  ELSE <<Frame(a, "mode", Primary(inputs)), Frame(a, "clear", "any"),
         Frame(a, "arm", Primary(inputs))>>

\* No callback is under way.
Idle == \A a \in Axes : todo[a] = <<>>

\* Mutant of Fits: the queue takes any number of frames.
FitsAlways == TRUE

Fits == Len(tx) < Depth

\* An arm frame whose companions are lost is meant for no mode in particular.
Marked(f) == IF f.kind = "arm" /\ ~complete[f.axis] THEN [f EXCEPT !.mode = "any"] ELSE f

\* send(): write(2) takes the frame, or fails and nobody is told.
HandOver(a) ==
  /\ todo[a] # <<>> /\ \A b \in Axes : b < a => todo[b] = <<>>
  /\ todo' = [todo EXCEPT ![a] = Tail(@)]
  /\ \/ Fits /\ tx' = Append(tx, Marked(Head(todo[a]))) /\ UNCHANGED complete
     \/ UNCHANGED tx
        /\ complete' = [complete EXCEPT ![a] = @ /\ Head(todo[a]).kind = "input"]
  /\ UNCHANGED <<lifecycle, active, enabled, drive>>

\* on_configure opens the socket, or fails and changes nothing.
OnConfigure ==
  /\ Idle /\ lifecycle = "unconfigured"
  /\ lifecycle' = "inactive"
  /\ UNCHANGED <<active, enabled, todo, tx, drive, complete>>

\* on_cleanup closes the socket and resets nothing else.
OnCleanup ==
  /\ Idle /\ lifecycle = "inactive"
  /\ lifecycle' = "unconfigured"
  /\ UNCHANGED <<active, enabled, todo, tx, drive, complete>>

\* A callback sets active_ or the enabled inputs, and commands some axes anew.
Command(axes, act, inputs) ==
  /\ Idle
  /\ active' = act /\ enabled' = inputs
  /\ todo' = [a \in Axes |-> IF a \in axes THEN ModeFrames(a, act, inputs[a]) ELSE <<>>]
  /\ complete' = [a \in Axes |-> a \in axes \/ complete[a]]
  /\ UNCHANGED <<tx, drive>>

OnActivate ==
  /\ lifecycle = "inactive" /\ lifecycle' = "active"
  /\ Command(Axes, TRUE, enabled)

OnDeactivate ==
  /\ lifecycle = "active" /\ lifecycle' = "inactive"
  /\ Command(Axes, FALSE, enabled)

\* The manager starts an interface only when nobody else has it claimed.
Claimed == {c \in Axes \X Interfaces : c[2] \in enabled[c[1]]}

\* perform_command_mode_switch: stops before starts, axes that neither names
\* are left alone, and it is called in the inactive state too.
CommandModeSwitch ==
  /\ lifecycle \in {"inactive", "active"}
  /\ \E start \in Claims, stop \in Claims :
       /\ stop \subseteq Claimed /\ start \cap (Claimed \ stop) = {}
       /\ Command({a \in Axes : \E c \in start \cup stop : c[1] = a}, active,
                  [a \in Axes |-> {i \in Interfaces :
                     <<a, i>> \in start \/ (i \in enabled[a] /\ <<a, i>> \notin stop)}])
  /\ UNCHANGED lifecycle

\* Mutant of InputFrames: the torque set point goes out first.
TorqueFirst(a) ==
  IF enabled[a] = {} THEN <<>>
  ELSE <<Frame(a, "input", IF "effort" \in enabled[a] THEN "effort" ELSE Primary(enabled[a]))>>

\* The set point frame that fits the enabled inputs, if there are any.
InputFrames(a) ==
  IF enabled[a] = {} THEN <<>> ELSE <<Frame(a, "input", Primary(enabled[a]))>>

\* write() asks neither active_ nor the drive: it sends in the inactive state too.
Write ==
  /\ Idle /\ lifecycle \in {"inactive", "active"}
  /\ todo' = [a \in Axes |-> InputFrames(a)]
  /\ UNCHANGED <<lifecycle, active, enabled, tx, drive, complete>>

\* The driver process dies and is started again: the queue of the link and the
\* drives survive it.
Restart ==
  /\ lifecycle' = "unconfigured"
  /\ active' \in BOOLEAN
  /\ enabled' = [a \in Axes |-> {}]
  /\ todo' = [a \in Axes |-> <<>>]
  /\ complete' = [a \in Axes |-> FALSE]
  /\ UNCHANGED <<tx, drive>>

\* What a drive does with a frame: with an error it does not arm.
Obeyed(d, f) ==
  CASE f.kind = "mode" -> [d EXCEPT !.mode = f.mode]
    [] f.kind = "clear" -> [d EXCEPT !.error = FALSE]
    [] f.kind = "arm" -> IF d.error THEN d ELSE [d EXCEPT !.state = "closed_loop"]
    [] f.kind = "idle" -> [d EXCEPT !.state = "idle"]
    [] f.kind = "input" -> d

\* The link carries the oldest frame to its drive.
Transmit ==
  /\ tx # <<>>
  /\ tx' = Tail(tx)
  /\ drive' = [drive EXCEPT ![Head(tx).axis] = Obeyed(@, Head(tx))]
  /\ UNCHANGED <<lifecycle, active, enabled, todo, complete>>

\* A drive disarms itself on an error.
Fault ==
  /\ \E a \in Axes :
       /\ drive[a].state = "closed_loop"
       /\ drive' = [drive EXCEPT ![a].state = "idle", ![a].error = TRUE]
  /\ UNCHANGED <<lifecycle, active, enabled, todo, tx, complete>>

Next ==
  \/ OnConfigure \/ OnCleanup \/ OnActivate \/ OnDeactivate
  \/ CommandModeSwitch \/ Write \/ (\E a \in Axes : HandOver(a))
  \/ Restart \/ Transmit \/ Fault

Spec == Init /\ [][Next]_vars

\* A callback that has begun goes on, and the link keeps transmitting.
FairSpec == Spec /\ WF_vars(\E a \in Axes : HandOver(a)) /\ WF_vars(Transmit)

-------------------------------------------------------------------------------
\* Every variable has its type, and the queue holds what it can hold.
TypeOK ==
  /\ lifecycle \in {"unconfigured", "inactive", "active"}
  /\ active \in BOOLEAN
  /\ enabled \in [Axes -> SUBSET Interfaces]
  /\ todo \in [Axes -> Seq(Frames)]
  /\ tx \in Seq(Frames) /\ Len(tx) <= Depth
  /\ drive \in [Axes -> [state : {"idle", "closed_loop"}, mode : Interfaces, error : BOOLEAN]]
  /\ complete \in [Axes -> BOOLEAN]

\* The last mode command of the axis was sent whole and has been obeyed.
Settled(a) ==
  /\ complete[a]
  /\ \A k \in DOMAIN tx : tx[k].axis = a => tx[k].kind = "input"
  /\ \A k \in DOMAIN todo[a] : todo[a][k].kind = "input"

\* A drive whose axis is settled is where the plugin believes it is: idle when the
\* plugin is inactive or no input is enabled, else in the mode of the first enabled
\* input, and armed unless it has faulted since; whatever was lost, restarted or in
\* error before.
DrivesFollow ==
  \A a \in Axes :
    Settled(a) =>
      IF active /\ enabled[a] # {}
      THEN /\ drive[a].mode = Primary(enabled[a])
           /\ drive[a].state = "idle" => drive[a].error
      ELSE drive[a].state = "idle"

\* A mode command sent whole never arms a drive in another mode than its own,
\* not even for the moment before its next frame.
ArmsAsOrdered ==
  [][\A a \in Axes :
       drive[a].state = "idle" /\ drive'[a].state = "closed_loop"
         => Head(tx).mode \in {"any", drive'[a].mode}]_vars

\* A set point that reaches an armed drive is of the kind its mode is for, in
\* every order of switches, lifecycle changes and cycles, once its axis is settled.
InputsMeetTheirMode ==
  \A a \in Axes :
    Settled(a) /\ tx # <<>> /\ Head(tx).axis = a /\ drive[a].state = "closed_loop"
      => Head(tx).mode = drive[a].mode

\* Deactivation disarms: an axis whose mode command was sent whole while the
\* plugin is inactive is idle before long.
DeactivatedDrivesIdle ==
  \A a \in Axes :
    (~active /\ complete[a]) ~> (drive[a].state = "idle" \/ active \/ ~complete[a])

===============================================================================
