-------------------------------- MODULE Torque --------------------------------
(***************************************************************************)
(* The arithmetic every node of the torque path shares: IEEE doubles that  *)
(* carry a torque, reduced to integers in a unit of the model's choosing   *)
(* plus the one value that changes control flow, NaN, and the ages the     *)
(* watchdogs compare with their timeouts.                                  *)
(***************************************************************************)
EXTENDS Integers

CONSTANT NaN   \* the double that compares false with everything

ASSUME NaNIsNoNumber == NaN \notin Int

Torques == Int \cup {NaN}

\* C++ a < b and a <= b on doubles: false as soon as one side is NaN.
Less(a, b) == a # NaN /\ b # NaN /\ a < b
LessEq(a, b) == a # NaN /\ b # NaN /\ a <= b

\* C++ a + b, a - b, a * b and a * (num/den) with a finite factor: NaN is
\* absorbing, also of a factor 0.
Plus(a, b) == IF a = NaN \/ b = NaN THEN NaN ELSE a + b
Minus(a, b) == IF a = NaN \/ b = NaN THEN NaN ELSE a - b
Times(a, b) == IF a = NaN \/ b = NaN THEN NaN ELSE a * b
Scale(a, num, den) == IF a = NaN THEN NaN ELSE (a * num) \div den

\* Mutant of Clamp: the lower bound is forgotten.
ClampAbove(v, lo, hi) == IF Less(hi, v) THEN hi ELSE v

\* std::clamp of libstdc++: v < lo ? lo : hi < v ? hi : v, so a NaN comes back.
Clamp(v, lo, hi) == IF Less(v, lo) THEN lo ELSE IF Less(hi, v) THEN hi ELSE v

Negate(a) == IF a = NaN THEN NaN ELSE -a

Least(a, b) == IF a <= b THEN a ELSE b

(***************************************************************************)
(* now() - stamp, one time unit later.  The code compares ages with        *)
(* timeouts and clamps them, so an age at or beyond a cap above every      *)
(* timeout can stop growing: no behaviour is cut off, and the state space  *)
(* stays finite.                                                           *)
(***************************************************************************)
Older(age, cap) == IF age < cap THEN age + 1 ELSE cap

===============================================================================
