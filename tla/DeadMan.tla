-------------------------------- MODULE DeadMan -------------------------------
(***************************************************************************)
(* What every watchdog of the torque path promises: a dead man's switch.   *)
(* A command may stand only while there is life left in the input that     *)
(* justifies it; fresh input restores life, time uses it up, and when it   *)
(* has run out the command is 0 and can only be 0.                         *)
(***************************************************************************)
EXTENDS Integers

CONSTANTS Commands,   \* the values the command takes
          Life        \* how long a command may outlive its input, a number

VARIABLES command, life

Init == command = 0 /\ life = 0

\* Input arrives.  It may already be old when it does, but is never older
\* than what was there.
Refresh ==
  /\ life' \in life..Life
  /\ UNCHANGED command

\* The component decides its command anew.
Decide ==
  /\ command' \in Commands
  /\ life = 0 => command' = 0
  /\ UNCHANGED life

\* A unit of time passes; the command must be gone by the time life is.
Elapse ==
  /\ life' = IF life = 0 THEN 0 ELSE life - 1
  /\ life' = 0 => command = 0
  /\ UNCHANGED command

Next == Refresh \/ Decide \/ Elapse

Spec == Init /\ [][Next]_<<command, life>>

\* The promise in one line.
Released == life = 0 => command = 0

===============================================================================
