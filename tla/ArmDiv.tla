------------------------------- MODULE ArmDiv -------------------------------
(***************************************************************************)
(* The division routines of the ARM kernel (kernel/arch/arm/div.c): ARMv6  *)
(* has no divide instruction and the compiler calls these functions.  The  *)
(* registers have W bits (32 in the code); one step is one pass of the     *)
(* shift-and-subtract loop.                                                *)
(***************************************************************************)
EXTENDS Integers

CONSTANT W

ASSUME WidthAssumption == W \in Nat \ {0, 1}

VARIABLES
  op,     \* the routine that was called
  a, b,   \* its arguments
  n, d,   \* the arguments of __udivsi3
  q, r, sr, carry,  \* its locals
  pc,     \* "call", "loop" or "done"
  result

vars == <<op, a, b, n, d, q, r, sr, carry, pc, result>>

\* Powers of two.
Pow2[k \in 0..W] == IF k = 0 THEN 1 ELSE 2 * Pow2[k - 1]

Word == 0..(Pow2[W] - 1)
Int_W == -Pow2[W - 1]..(Pow2[W - 1] - 1)

\* Conversions between int and unsigned, and shifts, drop what does not fit.
ToWord(x) == x % Pow2[W]
ToInt(x) == IF ToWord(x) >= Pow2[W - 1] THEN ToWord(x) - Pow2[W] ELSE ToWord(x)
Shl(x, k) == ToWord(x * Pow2[k])
Shr(x, k) == x \div Pow2[k]

\* __builtin_clz, defined for x # 0.
Clz(x) == W - CHOOSE k \in 1..W : Pow2[k - 1] <= x /\ x < Pow2[k]

Signed == {"__divsi3", "__modsi3"}
Unsigned == {"__udivsi3", "__umodsi3"}

\* The absolute value that (x ^ (x >> 31)) - (x >> 31) yields, as unsigned.
Magnitude(x) == ToWord(IF x < 0 THEN -x ELSE x)

TypeOK ==
  /\ op \in Signed \cup Unsigned
  /\ n \in Word /\ d \in Word /\ q \in Word /\ r \in Word
  /\ sr \in Word /\ carry \in {0, 1}
  /\ pc \in {"call", "loop", "done"}
  /\ result \in Int_W \cup Word

\* Division by zero and the quotient that no int holds are left out for signed
\* arguments: C does not define them.
Init ==
  /\ \/ op \in Unsigned /\ a \in Word /\ b \in Word
     \/ op \in Signed /\ a \in Int_W /\ b \in Int_W \ {0} /\ ~(a = -Pow2[W - 1] /\ b = -1)
  /\ n = IF op \in Signed THEN Magnitude(a) ELSE a
  /\ d = IF op \in Signed THEN Magnitude(b) ELSE b
  /\ q = 0 /\ r = 0 /\ sr = 0 /\ carry = 0
  /\ pc = "call"
  /\ result = 0

\* What the called routine makes of the quotient of the magnitudes.
Return(quot) ==
  LET div == ToInt(IF (a < 0) # (b < 0) THEN -quot ELSE quot) IN
  /\ result' = CASE op = "__udivsi3" -> quot
                 [] op = "__umodsi3" -> ToWord(a - quot * b)
                 [] op = "__divsi3" -> div
                 [] op = "__modsi3" -> ToInt(a - div * b)
  /\ pc' = "done"

\* The tests before the loop, and its first values.  The difference of the
\* leading zeros is an unsigned number.
Start ==
  LET shift == ToWord(Clz(d) - Clz(n)) IN
  /\ pc = "call"
  /\ \/ /\ d = 0 \/ n = 0
        /\ Return(0)
        /\ UNCHANGED <<q, r, sr>>
     \/ /\ d # 0 /\ n # 0
        /\ shift > W - 1
        /\ Return(0)
        /\ UNCHANGED <<q, r, sr>>
     \/ /\ d # 0 /\ n # 0
        /\ shift = W - 1
        /\ Return(n)
        /\ UNCHANGED <<q, r, sr>>
     \/ /\ d # 0 /\ n # 0
        /\ shift < W - 1
        /\ sr' = shift + 1
        /\ q' = Shl(n, W - sr')
        /\ r' = Shr(n, sr')
        /\ pc' = "loop"
        /\ UNCHANGED result
  /\ UNCHANGED <<op, a, b, n, d, carry>>

\* Faulty variant: the loop ends one bit early.
finish_without_shift ==
  /\ pc = "loop"
  /\ sr = 0
  /\ Return(q)
  /\ UNCHANGED <<op, a, b, n, d, q, r, sr, carry>>

\* One pass: shift a bit of q into r and the last quotient bit into q, subtract
\* d if it fits; s is all ones if it does.
Pass ==
  LET r1 == Shl(r, 1) + Shr(q, W - 1)
      fits == ToInt(d - r1 - 1) < 0
  IN
  /\ pc = "loop"
  /\ sr > 0
  /\ q' = Shl(q, 1) + carry
  /\ carry' = IF fits THEN 1 ELSE 0
  /\ r' = ToWord(IF fits THEN r1 - d ELSE r1)
  /\ sr' = sr - 1
  /\ UNCHANGED <<op, a, b, n, d, pc, result>>

Finish ==
  /\ pc = "loop"
  /\ sr = 0
  /\ Return(Shl(q, 1) + carry)
  /\ UNCHANGED <<op, a, b, n, d, q, r, sr, carry>>

Next == Start \/ Pass \/ Finish

Spec == Init /\ [][Next]_vars

-----------------------------------------------------------------------------

\* The loop never loses track of the dividend: the quotient bits found so far
\* (the low bits of q and the carry), the remainder r and the bits still in the
\* top of q make up n, and r is smaller than d.
LoopInvariant ==
  /\ TypeOK
  /\ pc = "loop" =>
       LET todo == Shr(q, W - sr)
           bits == (q - todo * Pow2[W - sr]) * 2 + carry
       IN  /\ n = (d * bits + r) * Pow2[sr] + todo
           /\ r < d

Quotient(x, y) == IF y = 0 THEN 0 ELSE x \div y

\* All four routines agree with integer division for every argument: unsigned
\* quotient and remainder, and the signed ones that truncate toward zero and
\* give the remainder the sign of the dividend.
ResultCorrect ==
  /\ LoopInvariant
  /\ pc = "done" =>
       LET mag == Quotient(n, d)
           div == IF (a < 0) # (b < 0) THEN -mag ELSE mag
       IN  CASE op \in {"__udivsi3", "__divsi3"} -> result = div
             [] op \in {"__umodsi3", "__modsi3"} -> result = a - div * b

=============================================================================
