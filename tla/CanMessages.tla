----------------------------- MODULE CanMessages ------------------------------
(***************************************************************************)
(* can_simple_messages.hpp and can_helpers.hpp: the layouts of the CAN     *)
(* Simple messages and the two functions that put a signal into an eight   *)
(* byte payload and take it out again.                                     *)
(*                                                                         *)
(* A payload is a function from its 64 bits to sets of marks.  The mark    *)
(* <<s, k>> is bit k of the value of the s-th signal, {} a zero, a set of  *)
(* several marks their bitwise or.  Junk stands for every value at once: a *)
(* bit that the C++ code leaves indeterminate.  All signals are Intel      *)
(* (little endian), so the byte-swapped branches are never taken.          *)
(***************************************************************************)
EXTENDS Integers, Sequences

Bits == 0..63
\* Width of the C++ type a signal is passed as.
Width == [u8 |-> 8, i16 |-> 16, u32 |-> 32, float |-> 32, u64 |-> 64]

\* A signal: its type, first bit and length; scaled ones are sent as integers.
S(type, start, length) == [type |-> type, start |-> start, length |-> length, scaled |-> FALSE]
Scaled(type, start, length) == [S(type, start, length) EXCEPT !.scaled = TRUE]

Message(cmd, length, signals) == [cmd_id |-> cmd, msg_length |-> length, signals |-> signals]

\* What recurs: two floats, and one.
TwoFloats(cmd) == Message(cmd, 8, <<S("float", 0, 32), S("float", 32, 32)>>)
OneFloat(cmd) == Message(cmd, 8, <<S("float", 0, 32)>>)

-------------------------------------------------------------------------------
Get_Version == Message(0, 8, [k \in 1..8 |-> S("u8", 8 * (k - 1), 8)])
Heartbeat == Message(1, 8, <<S("u32", 0, 32), S("u8", 32, 8), S("u8", 40, 8), S("u8", 48, 1)>>)
Estop == Message(2, 0, <<>>)
Get_Error == Message(3, 8, <<S("u32", 0, 32), S("u32", 32, 32)>>)
Address == Message(6, 8, <<S("u8", 0, 8), S("u64", 8, 48)>>)
Set_Axis_State == Message(7, 8, <<S("u32", 0, 32)>>)
Get_Encoder_Estimates == TwoFloats(9)
Set_Controller_Mode == Message(11, 8, <<S("u32", 0, 32), S("u32", 32, 32)>>)

\* Mutant of Set_Input_Pos: the feedforwards are encoded in the other order.
Set_Input_Pos_Descending ==
  Message(12, 8, <<S("float", 0, 32), Scaled("i16", 48, 16), Scaled("i16", 32, 16)>>)

Set_Input_Pos ==
  Message(12, 8, <<S("float", 0, 32), Scaled("i16", 32, 16), Scaled("i16", 48, 16)>>)
Set_Input_Vel == TwoFloats(13)
Set_Input_Torque == OneFloat(14)
Set_Limits == TwoFloats(15)
Set_Traj_Vel_Limit == OneFloat(17)
Set_Traj_Accel_Limits == TwoFloats(18)
Set_Traj_Inertia == OneFloat(19)
Get_Iq == TwoFloats(20)
Get_Temperature == TwoFloats(21)
Reboot == Message(22, 1, <<S("u8", 0, 8)>>)
Get_Bus_Voltage_Current == TwoFloats(23)
Clear_Errors == Message(24, 1, <<S("u8", 0, 8)>>)
Set_Absolute_Position == OneFloat(25)
Set_Pos_Gain == OneFloat(26)
Set_Vel_Gains == TwoFloats(27)
Get_Torques == TwoFloats(28)
Get_Powers == TwoFloats(29)
Enter_DFU_Mode == Message(31, 0, <<>>)

Messages ==
  { Get_Version, Heartbeat, Estop, Get_Error, Address, Set_Axis_State,
    Get_Encoder_Estimates, Set_Controller_Mode, Set_Input_Pos, Set_Input_Vel,
    Set_Input_Torque, Set_Limits, Set_Traj_Vel_Limit, Set_Traj_Accel_Limits,
    Set_Traj_Inertia, Get_Iq, Get_Temperature, Reboot, Get_Bus_Voltage_Current,
    Clear_Errors, Set_Absolute_Position, Set_Pos_Gain, Set_Vel_Gains,
    Get_Torques, Get_Powers, Enter_DFU_Mode }

-------------------------------------------------------------------------------
Junk == <<0, -1>>
JunkPayload == [b \in Bits |-> {Junk}]

\* The marks a value has in bit k of the 64 it is written as: the union's bits
\* beyond its type are never assigned, those beyond its length are zero, and
\* static_cast of a scaled value that its type cannot hold may yield anything.
ValueBit(s, sig, k, wild) ==
  IF k >= Width[sig.type] \/ wild THEN {Junk}
  ELSE IF k < sig.length THEN {<<s, k>>} ELSE {}

Field(sig) == sig.start..(sig.start + sig.length - 1)

Masked(payload, sig) == [b \in Bits |-> IF b \in Field(sig) THEN {} ELSE payload[b]]

\* can_set_signal_raw: clears the field, then ors the whole shifted value in,
\* which is not cut to the field's length.
SetSignal(payload, s, sig, wild) ==
  [b \in Bits |-> Masked(payload, sig)[b] \cup
     (IF b >= sig.start THEN ValueBit(s, sig, b - sig.start, wild) ELSE {})]

\* can_get_signal_raw: the field's bits, zero beyond its length.  It copies 64 bytes
\* where the payload has 8; what it copies beyond them is never looked at.
GetSignal(payload, sig) == [k \in 0..(sig.length - 1) |-> payload[sig.start + k]]

\* What GetSignal returns when the s-th signal is there as it was set.
AsSet(s, sig) == [k \in 0..(sig.length - 1) |-> {<<s, k>>}]

\* Mutants of LongEnough: the length is not compared, or compared strictly.
AnyLength(dlc, m) == TRUE
LongerThan(dlc, m) == dlc > m.msg_length

\* try_decode: frame.can_dlc < msg_length is rejected.
LongEnough(dlc, m) == dlc >= m.msg_length

===============================================================================
