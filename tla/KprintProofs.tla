---------------------------- MODULE KprintProofs ----------------------------
(***************************************************************************)
(* Proofs that the division routines of the ARM kernel divide, for any     *)
(* width of the registers and all arguments, and that kputn, which runs on *)
(* them, stays within its buffer.                                          *)
(***************************************************************************)
EXTENDS Kprint, WellFoundedInduction, TLAPS

-----------------------------------------------------------------------------
(* Integers *)

LEMMA Least ==
  ASSUME NEW S \in SUBSET Nat, S # {}
  PROVE  \E x \in S : \A y \in S : x <= y
<1> DEFINE R == OpToRel(<, Nat)
<1>1. IsWellFoundedOn(R, Nat)
  BY NatLessThanWellFounded
<1>2. \A x, y \in Nat : <<x, y>> \in R <=> x < y
  BY DEF OpToRel
<1> HIDE DEF R
<1>3. PICK x \in S : \A y \in S : ~(<<y, x>> \in R)
  BY <1>1, WFMin
<1>4. ASSUME NEW y \in S PROVE x <= y
  <2>1. x \in Nat /\ y \in Nat /\ ~(y < x)
    BY <1>2, <1>3
  <2> QED
    BY <2>1
<1> QED
  BY <1>4

\* Quotient and remainder, and that nothing else is.
LEMMA Division ==
  ASSUME NEW x \in Int, NEW y \in Nat \ {0}
  PROVE  /\ x \div y \in Int /\ x % y \in 0..(y - 1)
         /\ x = y * (x \div y) + (x % y)
<1>1. x \div y \in Int
  OBVIOUS
<1>2. x % y \in 0..(y - 1)
  OBVIOUS
<1>3. x = y * (x \div y) + (x % y)
  OBVIOUS
<1> QED
  BY <1>1, <1>2, <1>3

LEMMA DivisionUnique ==
  ASSUME NEW y \in Nat \ {0}, NEW h \in Int, NEW t \in 0..(y - 1), NEW x, x = y * h + t
  PROVE  x \div y = h /\ x % y = t
<1> DEFINE k == x \div y
           u == x % y
<1>1. y * h \in Int /\ x \in Int
  OBVIOUS
<1>2. k \in Int /\ u \in 0..(y - 1) /\ x = y * k + u
  BY <1>1, Division
<1> HIDE DEF k, u
<1>3. CASE k > h
  <2>1. y * k >= y * (h + 1) /\ y * (h + 1) = y * h + y
    BY <1>2, <1>3
  <2> QED
    BY <1>1, <1>2, <2>1
<1>4. CASE k < h
  <2>1. y * h >= y * (k + 1) /\ y * (k + 1) = y * k + y
    BY <1>2, <1>4
  <2> QED
    BY <1>1, <1>2, <2>1
<1>5. CASE k = h
  BY <1>1, <1>2, <1>5 DEF k, u
<1> QED
  BY <1>2, <1>3, <1>4, <1>5

-----------------------------------------------------------------------------
(* Powers of two *)

\* There is a function that satisfies the recursive definition.
LEMMA PowExists ==
  \E f : f = [k \in 0..W |-> IF k = 0 THEN 1 ELSE 2 * f[k - 1]]
<1> DEFINE Is(f, u) == f \in [0..u -> Nat] /\ f[0] = 1 /\ \A k \in 1..u : f[k] = 2 * f[k - 1]
           Bad == {u \in Nat : ~ \E f : Is(f, u)}
<1>1. ASSUME Bad # {} PROVE FALSE
  <2>1. PICK u \in Bad : \A v \in Bad : u <= v
    BY <1>1, Least
  <2>2. CASE u = 0
    <3> DEFINE f == [k \in 0..0 |-> 1]
    <3>1. Is(f, 0)
      OBVIOUS
    <3> QED
      BY <2>1, <2>2, <3>1
  <2>3. CASE u # 0
    <3>1. u - 1 \in Nat /\ ~(u <= u - 1)
      BY <2>3
    <3>2. PICK f : Is(f, u - 1)
      BY <2>1, <3>1
    <3> DEFINE e == [k \in 0..u |-> IF k = u THEN 2 * f[u - 1] ELSE f[k]]
    <3>3. f[u - 1] \in Nat /\ \A k \in 0..(u - 1) : f[k] \in Nat
      BY <3>1, <3>2
    <3>4. e \in [0..u -> Nat] /\ e[0] = 1
      BY <2>3, <3>2, <3>3
    <3>5. ASSUME NEW k \in 1..u PROVE e[k] = 2 * e[k - 1]
      <4>1. CASE k = u
        BY <3>1, <4>1
      <4>2. CASE k # u
        <5>1. k \in 1..(u - 1) /\ k - 1 \in 0..(u - 1) /\ k - 1 # u
          BY <3>1, <4>2
        <5> QED
          BY <3>2, <4>2, <5>1
      <4> QED
        BY <4>1, <4>2
    <3>6. Is(e, u)
      BY <3>4, <3>5
    <3> QED
      BY <2>1, <3>6
  <2> QED
    BY <2>2, <2>3
<1>2. W \in Nat
  BY WidthAssumption
<1>3. PICK f : Is(f, W)
  BY <1>1, <1>2
<1>4. f = [k \in 0..W |-> f[k]]
  BY <1>3
<1>5. \A k \in 0..W : f[k] = IF k = 0 THEN 1 ELSE 2 * f[k - 1]
  BY <1>2, <1>3
<1>6. f = [k \in 0..W |-> IF k = 0 THEN 1 ELSE 2 * f[k - 1]]
  BY <1>4, <1>5
<1> QED
  BY <1>6

LEMMA PowStep ==
  /\ Pow2[0] = 1
  /\ \A k \in 1..W : k - 1 \in 0..W /\ Pow2[k] = 2 * Pow2[k - 1]
  /\ \A k \in 0..W : Pow2[k] \in Nat /\ Pow2[k] >= k + 1
<1>1. W \in Nat
  BY WidthAssumption
<1>2. Pow2 = [k \in 0..W |-> IF k = 0 THEN 1 ELSE 2 * Pow2[k - 1]]
  <2> DEFINE Step(f) == [k \in 0..W |-> IF k = 0 THEN 1 ELSE 2 * f[k - 1]]
  <2>1. Pow2 = CHOOSE f : f = Step(f)
    BY DEF Pow2
  <2>2. \E f : f = Step(f)
    BY PowExists
  <2> HIDE DEF Step
  <2>3. Pow2 = Step(Pow2)
    BY <2>1, <2>2
  <2> QED
    BY <2>3 DEF Step
<1>3. Pow2[0] = 1 /\ \A k \in 1..W : k - 1 \in 0..W /\ Pow2[k] = 2 * Pow2[k - 1]
  <2>1. 0 \in 0..W /\ \A k \in 1..W : k \in 0..W /\ k # 0 /\ k - 1 \in 0..W
    BY <1>1
  <2> QED
    BY <1>2, <2>1
<1> DEFINE Bad == {k \in 0..W : ~(Pow2[k] \in Nat /\ Pow2[k] >= k + 1)}
<1>4. ASSUME Bad # {} PROVE FALSE
  <2>1. Bad \in SUBSET Nat
    BY <1>1
  <2>2. PICK u \in Bad : \A v \in Bad : u <= v
    BY <1>4, <2>1, Least
  <2>3. u # 0
    BY <1>3, <2>2
  <2>4. u \in 1..W /\ u - 1 \in 0..W /\ ~(u <= u - 1)
    BY <1>1, <2>2, <2>3
  <2>5. Pow2[u - 1] \in Nat /\ Pow2[u - 1] >= u
    BY <2>2, <2>4
  <2>6. Pow2[u] = 2 * Pow2[u - 1]
    BY <1>3, <2>4
  <2> QED
    BY <2>2, <2>4, <2>5, <2>6
<1> QED
  BY <1>3, <1>4

LEMMA PowAdd ==
  ASSUME NEW i \in 0..W, NEW j \in 0..W, i + j \in 0..W
  PROVE  Pow2[i + j] = Pow2[i] * Pow2[j]
<1> DEFINE Bad == {k \in 0..j : Pow2[i + k] # Pow2[i] * Pow2[k]}
<1>1. W \in Nat /\ i \in Nat /\ j \in Nat
  BY WidthAssumption
<1>2. ASSUME Bad # {} PROVE FALSE
  <2>1. Bad \in SUBSET Nat
    BY <1>1
  <2>2. PICK k \in Bad : \A v \in Bad : k <= v
    BY <1>2, <2>1, Least
  <2>3. k # 0
    <3>1. Pow2[i] \in Nat /\ i + 0 = i
      BY <1>1, PowStep
    <3> QED
      BY <2>2, <3>1, PowStep
  <2>4. /\ k \in 1..W /\ i + k \in 1..W /\ k - 1 \in 0..j /\ ~(k <= k - 1)
        /\ (i + k) - 1 = i + (k - 1) /\ k - 1 \in 0..W
    BY <1>1, <2>2, <2>3
  <2>5. Pow2[i + (k - 1)] = Pow2[i] * Pow2[k - 1]
    BY <2>2, <2>4
  <2>6. Pow2[i + k] = 2 * Pow2[i + (k - 1)] /\ Pow2[k] = 2 * Pow2[k - 1]
    BY <2>4, PowStep
  <2>7. Pow2[i] \in Nat /\ Pow2[k - 1] \in Nat
    BY <2>4, PowStep
  <2>8. \A x, y \in Nat : 2 * (x * y) = x * (2 * y)
    OBVIOUS
  <2>9. Pow2[i + k] = Pow2[i] * Pow2[k]
    BY <2>5, <2>6, <2>7, <2>8
  <2> QED
    BY <2>2, <2>9
<1>3. j \in 0..j
  BY <1>1
<1> QED
  BY <1>2, <1>3

LEMMA PowMono ==
  ASSUME NEW i \in 0..W, NEW j \in 0..W, i <= j
  PROVE  Pow2[i] <= Pow2[j]
<1>1. j - i \in 0..W /\ i + (j - i) = j
  BY WidthAssumption
<1>2. Pow2[j] = Pow2[i] * Pow2[j - i]
  BY <1>1, PowAdd
<1>3. Pow2[i] \in Nat /\ Pow2[j - i] \in Nat /\ Pow2[j - i] >= 1
  BY <1>1, PowStep
<1>4. \A x, y \in Nat : y >= 1 => x <= x * y
  OBVIOUS
<1> QED
  BY <1>2, <1>3, <1>4

\* The range of the registers, in halves.
LEMMA Halves ==
  /\ Pow2[W] = 2 * Pow2[W - 1] /\ Pow2[W - 1] \in Nat /\ Pow2[W - 1] >= W /\ W >= 2 /\ W \in Nat
  /\ Word = 0..(2 * Pow2[W - 1] - 1) /\ Int_W = -Pow2[W - 1]..(Pow2[W - 1] - 1)
<1>1. W \in 1..W /\ W - 1 \in 0..W /\ (W - 1) + 1 = W /\ W \in Nat /\ W >= 2
  BY WidthAssumption
<1>2. Pow2[W] = 2 * Pow2[W - 1] /\ Pow2[W - 1] \in Nat /\ Pow2[W - 1] >= (W - 1) + 1
  BY <1>1, PowStep
<1> QED
  BY <1>1, <1>2 DEF Word, Int_W

LEMMA WordRange ==
  /\ Pow2[W] \in Nat \ {0}
  /\ \A x : x \in Word <=> x \in Nat /\ x < Pow2[W]
<1>1. Pow2[W] \in Nat \ {0}
  BY Halves
<1> QED
  BY <1>1 DEF Word

\* A number that fits is its own conversion.
LEMMA WordFits ==
  ASSUME NEW x \in Word
  PROVE  ToWord(x) = x
<1>1. Pow2[W] \in Nat \ {0} /\ x \in 0..(Pow2[W] - 1) /\ x = Pow2[W] * 0 + x
  BY Halves
<1> QED
  BY <1>1, DivisionUnique DEF ToWord

LEMMA IntFits ==
  ASSUME NEW x \in Int_W
  PROVE  ToInt(x) = x
<1> DEFINE M == Pow2[W]
           H == Pow2[W - 1]
<1>1. M \in Nat \ {0} /\ H \in Nat /\ M = 2 * H /\ x \in Int /\ -H <= x /\ x < H
  BY Halves
<1>4. ToInt(x) = IF x % M >= H THEN (x % M) - M ELSE x % M
  BY DEF ToInt, ToWord
<1> HIDE DEF M, H
<1>2. CASE x >= 0
  <2>1. x \in 0..(M - 1) /\ x = M * 0 + x
    BY <1>1, <1>2
  <2>2. x % M = x
    BY <1>1, <2>1, DivisionUnique
  <2> QED
    BY <1>1, <1>4, <2>2
<1>3. CASE x < 0
  <2>1. PICK h \in Int, t \in 0..(M - 1) : h = -1 /\ t = x + M
    BY <1>1, <1>3
  <2>4. M \in Nat \ {0} /\ x = M * h + t
    BY <1>1, <2>1
  <2>5. x % M = t
    BY <2>4, DivisionUnique
  <2>2. x % M = x + M
    BY <2>1, <2>5
  <2>3. x + M >= H /\ (x + M) - M = x
    BY <1>1
  <2> QED
    BY <1>4, <2>2, <2>3
<1> QED
  BY <1>1, <1>2, <1>3

\* Leading zeros say between which powers of two a number lies.
LEMMA ClzLemma ==
  ASSUME NEW x \in Word, x # 0
  PROVE  \E k \in 1..W : Clz(x) = W - k /\ Pow2[k - 1] <= x /\ x < Pow2[k]
<1> DEFINE Above == {k \in 0..W : x < Pow2[k]}
<1>1. x \in Nat /\ x >= 1 /\ W \in Above /\ Above \in SUBSET Nat
  BY Halves DEF Word
<1>2. PICK k \in Above : \A j \in Above : k <= j
  BY <1>1, Least
<1>3. k # 0
  BY <1>1, <1>2, PowStep
<1>4. k \in 1..W /\ k - 1 \in 0..W /\ ~(k <= k - 1)
  BY <1>2, <1>3, Halves
<1>5. Pow2[k - 1] \in Nat /\ ~(x < Pow2[k - 1])
  BY <1>2, <1>4, PowStep
<1>6. \E j \in 1..W : Pow2[j - 1] <= x /\ x < Pow2[j]
  BY <1>1, <1>2, <1>4, <1>5
<1> DEFINE c == CHOOSE j \in 1..W : Pow2[j - 1] <= x /\ x < Pow2[j]
<1>7. c \in 1..W /\ Pow2[c - 1] <= x /\ x < Pow2[c]
  BY <1>6
<1>8. Clz(x) = W - c
  BY DEF Clz
<1> QED
  BY <1>7, <1>8

-----------------------------------------------------------------------------
(* What the routine makes of the quotient *)

\* The arguments of __udivsi3 are the magnitudes of those of the routine.
Arguments ==
  \/ op \in Unsigned /\ a \in Word /\ b \in Word /\ n = a /\ d = b
  \/ /\ op \in Signed /\ a \in Int_W /\ b \in Int_W \ {0} /\ ~(a = -Pow2[W - 1] /\ b = -1)
     /\ n = Magnitude(a) /\ d = Magnitude(b)

LEMMA MagnitudeLemma ==
  ASSUME NEW x \in Int_W
  PROVE  /\ Magnitude(x) = IF x < 0 THEN -x ELSE x
         /\ Magnitude(x) \in Word /\ Magnitude(x) <= Pow2[W - 1]
         /\ x \in Int /\ (x # 0 => Magnitude(x) # 0)
         /\ (Magnitude(x) = Pow2[W - 1] => x = -Pow2[W - 1])
<1> DEFINE m == IF x < 0 THEN -x ELSE x
<1>1. x \in Int /\ m \in Word /\ m <= Pow2[W - 1] /\ (m = Pow2[W - 1] => x = -Pow2[W - 1])
      /\ (x # 0 => m # 0)
  BY Halves
<1>2. Magnitude(x) = m
  BY <1>1, WordFits DEF Magnitude
<1> QED
  BY <1>1, <1>2

\* The quotient of the arguments of __udivsi3, and what is left.
LEMMA QuotientLemma ==
  ASSUME NEW x \in Word, NEW y \in Word
  PROVE  \E s \in Word : /\ s \in Nat /\ x - s * y \in Word /\ Quotient(x, y) = s /\ s <= x
                         /\ x - s * y <= x /\ s * y \in Nat
                         /\ (y >= 2 => 2 * s <= x)
<1>1. x \in Nat /\ y \in Nat
  BY Halves
<1>2. CASE y = 0
  <2>1. PICK s \in Word : s = 0
    BY Halves
  <2>2. /\ s \in Nat /\ x - s * y = x /\ x - s * y <= x /\ Quotient(x, y) = s /\ s <= x /\ s * y \in Nat
        /\ (y >= 2 => 2 * s <= x)
    BY <1>1, <1>2, <2>1 DEF Quotient
  <2> QED
    BY <2>1, <2>2
<1>3. CASE y # 0
  <2> DEFINE s == x \div y
             t == x % y
  <2>1. y \in Nat \ {0} /\ x \in Int
    BY <1>1, <1>3
  <2>2. s \in Int /\ t \in 0..(y - 1) /\ x = y * s + t
    BY <2>1, Division
  <2>3. Quotient(x, y) = s
    BY <1>3 DEF Quotient
  <2> HIDE DEF s, t
  <2>4. s >= 0
    <3>1. CASE s < 0
      <4>1. y * s <= y * (-1)
        BY <1>1, <2>2, <3>1
      <4> QED
        BY <1>1, <2>2, <4>1
    <3> QED
      BY <2>2, <3>1
  <2>5. s \in Nat /\ y * s \in Nat /\ y * s = s * y
    BY <1>1, <2>2, <2>4
  <2>6. s <= y * s
    <3>1. y >= 1
      BY <1>1, <1>3
    <3>2. y * s >= 1 * s
      BY <1>1, <2>5, <3>1
    <3> QED
      BY <2>5, <3>2
  <2>7. y >= 2 => 2 * s <= y * s
    BY <1>1, <2>5
  <2>8. x - s * y = t /\ s <= x /\ t <= x /\ (y >= 2 => 2 * s <= x)
    BY <1>1, <2>2, <2>5, <2>6, <2>7
  <2>9. s \in Word /\ t \in Word
    BY <1>1, <2>2, <2>5, <2>8, Halves
  <2> QED
    BY <2>3, <2>5, <2>8, <2>9
<1> QED
  BY <1>2, <1>3

\* What a routine returns when it is given the quotient of the magnitudes.
Answer(res) ==
  LET mag == Quotient(n, d)
      div == IF (a < 0) # (b < 0) THEN -mag ELSE mag
  IN  CASE op \in {"__udivsi3", "__divsi3"} -> res = div
        [] op \in {"__umodsi3", "__modsi3"} -> res = a - div * b

LEMMA UnsignedReturn ==
  ASSUME op \in Unsigned, a \in Word, b \in Word, n = a, d = b,
         NEW s, s = Quotient(n, d), Return(s)
  PROVE  result' \in Word /\ Answer(result') /\ pc' = "done"
<1>1. a \in Nat /\ b \in Nat
  BY Halves
<1>2. s \in Nat /\ s \in Word /\ a - s * b \in Word
  BY QuotientLemma
<1>3. (a < 0) = FALSE /\ (b < 0) = FALSE
  BY <1>1
<1>4. Answer(result') <=> CASE op \in {"__udivsi3", "__divsi3"} -> result' = s
                            [] op \in {"__umodsi3", "__modsi3"} -> result' = a - s * b
  BY <1>3 DEF Answer
<1>5. pc' = "done"
  BY DEF Return
<1>6. CASE op = "__udivsi3"
  <2>1. result' = s
    BY <1>6 DEF Return
  <2> QED
    BY <1>2, <1>4, <1>5, <1>6, <2>1
<1>7. CASE op = "__umodsi3"
  <2>1. result' = ToWord(a - s * b)
    BY <1>7 DEF Return
  <2>2. result' = a - s * b
    BY <1>2, <2>1, WordFits
  <2> QED
    BY <1>2, <1>4, <1>5, <1>7, <2>2
<1> QED
  BY <1>6, <1>7 DEF Unsigned

LEMMA SignedReturn ==
  ASSUME op \in Signed, a \in Int_W, b \in Int_W \ {0}, ~(a = -Pow2[W - 1] /\ b = -1),
         n = Magnitude(a), d = Magnitude(b),
         NEW s, s = Quotient(n, d), Return(s)
  PROVE  result' \in Int_W /\ Answer(result') /\ pc' = "done"
<1> DEFINE H == Pow2[W - 1]
           z == IF (a < 0) # (b < 0) THEN -s ELSE s
<1>1. /\ a \in Int /\ b \in Int /\ n \in Word /\ d \in Word /\ n \in Nat /\ d \in Nat /\ H \in Nat /\ H >= 1
      /\ n = (IF a < 0 THEN -a ELSE a) /\ d = (IF b < 0 THEN -b ELSE b) /\ d # 0
      /\ n <= H /\ (n = H => a = -H)
  BY MagnitudeLemma, Halves
<1>2. /\ s \in Nat /\ s <= n /\ n - s * d \in Word /\ n - s * d <= n /\ s * d \in Nat
      /\ (d >= 2 => 2 * s <= n)
  BY <1>1, QuotientLemma
<1>3. -H <= a /\ a < H /\ \A x \in Int : -H <= x /\ x < H => x \in Int_W
  BY <1>1, Halves
<1>4. a = -H => b # -1
  OBVIOUS
<1> DEFINE t == n - s * d
<1>5. t \in Nat
  BY <1>1, <1>2, Halves
<1>6. Answer(result') <=> CASE op \in {"__udivsi3", "__divsi3"} -> result' = z
                            [] op \in {"__umodsi3", "__modsi3"} -> result' = a - z * b
  BY DEF Answer
<1>7. pc' = "done"
  BY DEF Return
<1> HIDE DEF H
<1>8. z \in Int_W
  <2>1. z \in Int /\ -H <= z
    BY <1>1, <1>2
  <2>2. s = H => n = H /\ a = -H /\ d < 2
    BY <1>1, <1>2
  <2>3. z < H
    <3>1. CASE (a < 0) # (b < 0)
      BY <1>1, <1>2, <3>1
    <3>2. CASE ~((a < 0) # (b < 0)) /\ a < 0
      <4>1. b < 0 /\ d = -b /\ z = s
        BY <1>1, <3>2
      <4>2. s # H
        BY <1>1, <1>4, <2>2, <4>1
      <4> QED
        BY <1>1, <1>2, <4>1, <4>2
    <3>3. CASE ~((a < 0) # (b < 0)) /\ ~(a < 0)
      BY <1>1, <1>2, <1>3, <3>3
    <3> QED
      BY <3>1, <3>2, <3>3
  <2> QED
    BY <1>3, <2>1, <2>3
<1>9. a - z * b \in Int_W
  <2>1. a - z * b = IF a < 0 THEN -t ELSE t
    <3>1. CASE a < 0 /\ b < 0
      <4>1. z = s /\ d = -b /\ n = -a /\ a < 0
        BY <1>1, <3>1
      <4>2. s * b = -(s * d)
        BY <1>1, <1>2, <4>1
      <4> QED
        BY <1>1, <1>2, <4>1, <4>2
    <3>2. CASE a < 0 /\ ~(b < 0)
      <4>1. z = -s /\ d = b /\ n = -a /\ a < 0
        BY <1>1, <3>2
      <4>2. (-s) * b = -(s * d)
        BY <1>1, <1>2, <4>1
      <4> QED
        BY <1>1, <1>2, <4>1, <4>2
    <3>3. CASE ~(a < 0) /\ b < 0
      <4>1. z = -s /\ d = -b /\ n = a /\ ~(a < 0)
        BY <1>1, <3>3
      <4>2. (-s) * b = s * d
        BY <1>1, <1>2, <4>1
      <4> QED
        BY <1>1, <1>2, <4>1, <4>2
    <3>4. CASE ~(a < 0) /\ ~(b < 0)
      <4>1. z = s /\ d = b /\ n = a /\ ~(a < 0)
        BY <1>1, <3>4
      <4>2. s * b = s * d
        BY <4>1
      <4> QED
        BY <1>1, <1>2, <4>1, <4>2
    <3> QED
      BY <3>1, <3>2, <3>3, <3>4
  <2>2. t <= n
    BY <1>2
  <2> HIDE DEF t
  <2>3. CASE a < 0
    <3>1. n = -a /\ -t \in Int /\ -H <= -t /\ -t < H
      BY <1>1, <1>3, <1>5, <2>2, <2>3
    <3> QED
      BY <1>3, <2>1, <2>3, <3>1
  <2>4. CASE ~(a < 0)
    <3>1. n = a /\ t \in Int /\ -H <= t /\ t < H
      BY <1>1, <1>3, <1>5, <2>2, <2>4
    <3> QED
      BY <1>3, <2>1, <2>4, <3>1
  <2> QED
    BY <2>3, <2>4
<1>10. ToInt(z) = z /\ ToInt(a - z * b) = a - z * b
  BY <1>8, <1>9, IntFits
<1>11. (op = "__divsi3" => result' = ToInt(z)) /\ (op = "__modsi3" => result' = ToInt(a - ToInt(z) * b))
  BY DEF Return
<1> HIDE DEF z
<1>12. CASE op = "__divsi3"
  BY <1>6, <1>7, <1>8, <1>10, <1>11, <1>12
<1>13. CASE op = "__modsi3"
  <2>1. result' = a - z * b
    BY <1>10, <1>11, <1>13
  <2> QED
    BY <1>6, <1>7, <1>9, <1>13, <2>1
<1> QED
  BY <1>12, <1>13 DEF Signed

\* A call that is done has answered, if it divided the magnitudes.
LEMMA ReturnLemma ==
  ASSUME Arguments, NEW s, s = Quotient(n, d), Return(s)
  PROVE  result' \in Int_W \cup Word /\ Answer(result') /\ pc' = "done"
<1>1. CASE op \in Unsigned /\ a \in Word /\ b \in Word /\ n = a /\ d = b
  BY <1>1, UnsignedReturn
<1>2. CASE /\ op \in Signed /\ a \in Int_W /\ b \in Int_W \ {0} /\ ~(a = -Pow2[W - 1] /\ b = -1)
           /\ n = Magnitude(a) /\ d = Magnitude(b)
  BY <1>2, SignedReturn
<1> QED
  BY <1>1, <1>2 DEF Arguments

-----------------------------------------------------------------------------
(* The loop *)

\* What the loop knows: the quotient bits found, the remainder and the bits of
\* the dividend N that are still to come, and that a divisor D with its highest
\* bit set leaves one pass.
Running(N, D, Q, R, z, c) ==
  LET todo == Shr(Q, W - z)
      bits == (Q - todo * Pow2[W - z]) * 2 + c
  IN  /\ N = (D * bits + R) * Pow2[z] + todo
      /\ R < D
      /\ (z >= 1 /\ D >= Pow2[W - 1] => z = 1 /\ N >= Pow2[W - 1])

\* Shifts multiply and divide by a power of two.
LEMMA Powers ==
  ASSUME NEW z \in 0..W
  PROVE  Pow2[z] \in Nat \ {0} /\ Pow2[W - z] \in Nat \ {0} /\ Pow2[z] * Pow2[W - z] = Pow2[W]
<1>1. W - z \in 0..W /\ z + (W - z) = W /\ W \in 0..W
  BY Halves
<1> QED
  BY <1>1, PowStep, PowAdd

LEMMA NoBitsLeft ==
  ASSUME NEW N \in Word, NEW D \in Word, D # 0, N # 0
  PROVE  LET shift == ToWord(Clz(D) - Clz(N)) IN
         /\ shift \in Int
         /\ shift > W - 1 => N < D
         /\ shift = W - 1 => D = 1
         /\ shift < W - 1 =>
              \E i \in 1..W, j \in 1..W : /\ shift + 1 = j - (i - 1) /\ shift + 1 \in 1..(W - 1)
                                          /\ Pow2[i - 1] <= D /\ D < Pow2[i]
                                          /\ Pow2[j - 1] <= N /\ N < Pow2[j]
<1> DEFINE shift == ToWord(Clz(D) - Clz(N))
<1>1. PICK i \in 1..W : Clz(D) = W - i /\ Pow2[i - 1] <= D /\ D < Pow2[i]
  BY ClzLemma
<1>2. PICK j \in 1..W : Clz(N) = W - j /\ Pow2[j - 1] <= N /\ N < Pow2[j]
  BY ClzLemma
<1>3. Clz(D) - Clz(N) = j - i /\ W \in Nat /\ D \in Nat /\ N \in Nat
  BY <1>1, <1>2, Halves
<1>4. CASE j >= i
  <2>1. j - i \in Word /\ j - i \in 0..(W - 1)
    BY <1>1, <1>2, <1>4, Halves
  <2>2. shift = j - i
    BY <1>3, <2>1, WordFits
  <2> HIDE DEF shift
  <2>3. shift = W - 1 => D = 1
    <3>1. CASE shift = W - 1
      <4>1. i = 1
        BY <1>1, <1>2, <2>2, <3>1, Halves
      <4>2. Pow2[i] = 2 * Pow2[i - 1] /\ Pow2[i - 1] = 1
        BY <1>1, <4>1, PowStep
      <4> QED
        BY <1>1, <1>3, <4>2
    <3> QED
      BY <3>1
  <2>4. shift + 1 = j - (i - 1) /\ (shift < W - 1 => shift + 1 \in 1..(W - 1)) /\ shift \in Int /\ ~(shift > W - 1)
    BY <1>1, <1>2, <2>1, <2>2, <1>3
  <2>5. shift < W - 1 =>
          /\ shift + 1 = j - (i - 1) /\ shift + 1 \in 1..(W - 1)
          /\ Pow2[i - 1] <= D /\ D < Pow2[i]
          /\ Pow2[j - 1] <= N /\ N < Pow2[j]
    BY <1>1, <1>2, <2>4
  <2> QED
    BY <2>3, <2>4, <2>5 DEF shift
<1>5. CASE j < i
  <2>1. PICK t \in 0..(Pow2[W] - 1), h \in Int : t = (j - i) + Pow2[W] /\ h = -1
    <3>1. Pow2[W] \in Nat /\ Pow2[W] >= W /\ W \in Nat
      BY Halves
    <3>2. (j - i) + Pow2[W] \in 0..(Pow2[W] - 1)
      BY <1>1, <1>2, <1>5, <3>1
    <3>3. -1 \in Int
      OBVIOUS
    <3> QED
      BY <3>2, <3>3
  <2>2. Pow2[W] \in Nat \ {0} /\ j - i = Pow2[W] * h + t
    <3>1. PICK M \in Nat \ {0} : M = Pow2[W]
      BY WordRange
    <3>2. M * h = -M
      BY <2>1
    <3> QED
      BY <1>1, <1>2, <2>1, <3>1, <3>2
  <2>3. (j - i) % Pow2[W] = t
    BY <2>2, DivisionUnique
  <2>4. shift = t
    BY <1>3, <2>3 DEF ToWord
  <2>5. t > W - 1
    BY <1>1, <1>2, <2>1, Halves
  <2>6. N < D
    <3>1. j \in 0..W /\ i - 1 \in 0..W /\ j <= i - 1
      BY <1>1, <1>2, <1>3, <1>5
    <3>2. Pow2[j] <= Pow2[i - 1] /\ Pow2[j] \in Nat /\ Pow2[i - 1] \in Nat
      BY <3>1, PowMono, PowStep
    <3> QED
      BY <1>1, <1>2, <1>3, <3>2
  <2> HIDE DEF shift
  <2>7. shift \in Int /\ shift > W - 1 /\ shift # W - 1 /\ ~(shift < W - 1)
    BY <1>3, <2>1, <2>4, <2>5
  <2> QED
    BY <2>6, <2>7 DEF shift
<1> QED
  BY <1>1, <1>2, <1>4, <1>5

\* The first values: the low bits of the dividend go to the top of q, the others
\* to r.
LEMMA StartLoop ==
  ASSUME NEW N \in Word, NEW D \in Word, N # 0, NEW i \in 1..W, NEW j \in 1..W,
         NEW z \in 1..(W - 1), z = j - (i - 1),
         Pow2[i - 1] <= D, D < Pow2[i], Pow2[j - 1] <= N, N < Pow2[j]
  PROVE  /\ Shl(N, W - z) \in Word /\ Shr(N, z) \in Word
         /\ Running(N, D, Shl(N, W - z), Shr(N, z), z, 0)
<1> DEFINE C == Pow2[z]
           B == Pow2[W - z]
           M == Pow2[W]
<1>1. z \in 0..W /\ i - 1 \in 0..W /\ (i - 1) + z = j /\ j \in 0..W
  BY WidthAssumption
<1>2. C \in Nat \ {0} /\ B \in Nat \ {0} /\ C * B = M /\ M \in Nat \ {0}
  <2>1. Pow2[z] \in Nat \ {0} /\ Pow2[W - z] \in Nat \ {0} /\ Pow2[z] * Pow2[W - z] = Pow2[W]
    BY <1>1, Powers
  <2>2. Pow2[W] \in Nat \ {0}
    BY WordRange
  <2> QED
    BY <2>1, <2>2
<1>3. N \in Nat /\ N < M /\ D \in Nat /\ \A x \in Nat : x < M => x \in Word
  BY WordRange
<1>5. Pow2[j] = Pow2[i - 1] * C /\ Pow2[i - 1] \in Nat
  BY <1>1, PowAdd, PowStep
<1>6. /\ (z >= 1 /\ D >= Pow2[W - 1]) => (z = 1 /\ N >= Pow2[W - 1])
  <2>1. CASE D >= Pow2[W - 1]
    <3>1. i = W
      <4>1. CASE i <= W - 1
        <5>1. i \in 0..W /\ W - 1 \in 0..W
          BY <4>1, Halves
        <5>2. Pow2[i] <= Pow2[W - 1] /\ Pow2[i] \in Nat
          BY <5>1, <4>1, PowMono, PowStep
        <5> QED
          BY <1>3, <2>1, <5>2, Halves
      <4> QED
        BY <4>1, Halves
    <3>2. j = W /\ z = 1
      BY <3>1, Halves
    <3> QED
      BY <3>2
  <2> QED
    BY <2>1
<1> HIDE DEF C, B, M
<1> DEFINE h == N \div C
           u == N % C
<1>4. h \in Int /\ u \in 0..(C - 1) /\ N = C * h + u
  <2>1. N \in Int
    BY <1>3
  <2> QED
    BY <1>2, <2>1, Division
<1> HIDE DEF h, u
<1>7. h \in Nat /\ h <= N /\ h < Pow2[i - 1]
  <2>1. h >= 0
    <3>1. CASE h < 0
      <4>1. C * h <= C * (-1)
        BY <1>2, <1>4, <3>1
      <4> QED
        BY <1>2, <1>3, <1>4, <4>1
    <3> QED
      BY <1>4, <3>1
  <2>2. h <= C * h
    <3>1. C >= 1
      BY <1>2
    <3>2. C * h >= 1 * h
      BY <1>2, <1>4, <2>1, <3>1
    <3> QED
      BY <1>2, <1>4, <3>2
  <2>3. h < Pow2[i - 1]
    <3>1. CASE h >= Pow2[i - 1]
      <4>1. C * h >= C * Pow2[i - 1] /\ C * Pow2[i - 1] = Pow2[i - 1] * C
        BY <1>2, <1>4, <1>5, <3>1
      <4> QED
        BY <1>2, <1>3, <1>4, <1>5, <4>1
    <3> QED
      BY <1>4, <1>5, <3>1
  <2> QED
    BY <1>2, <1>3, <1>4, <2>1, <2>2, <2>3
<1> DEFINE Q == u * B
<1>8. Q \in 0..(M - 1) /\ N * B = M * h + Q
  <2>1. u <= C - 1 /\ u \in Nat
    BY <1>2, <1>4
  <2>2. u * B <= (C - 1) * B /\ (C - 1) * B = C * B - B
    BY <1>2, <2>1
  <2>3. (C * h + u) * B = (C * B) * h + u * B
    BY <1>2, <1>4
  <2>4. Q \in Nat
    BY <1>2, <2>1
  <2>5. N * B = (C * B) * h + Q
    BY <1>4, <2>3
  <2> HIDE DEF Q
  <2>6. Q \in 0..(M - 1)
    BY <1>2, <2>2, <2>4 DEF Q
  <2> QED
    BY <1>2, <2>5, <2>6
<1> HIDE DEF Q
<1>9. Shl(N, W - z) = Q
  <2>1. PICK x \in Int : x = N * B
    BY <1>2, <1>3
  <2>2. x = M * h + Q
    BY <1>8, <2>1
  <2>4. M \in Nat \ {0} /\ h \in Int /\ Q \in 0..(M - 1)
    BY <1>2, <1>4, <1>8
  <2>3. x % M = Q
    BY <2>2, <2>4, DivisionUnique
  <2> QED
    BY <2>1, <2>3 DEF Shl, ToWord, B, M
<1>10. Shr(N, z) = h
  BY DEF Shr, h, C
<1>11. Shr(Q, W - z) = u
  <2>1. PICK t \in 0..(B - 1) : t = 0
    BY <1>2
  <2>2. Q = B * u + t /\ u \in Int
    BY <1>2, <1>4, <2>1 DEF Q
  <2>3. Q \div B = u
    BY <1>2, <2>2, DivisionUnique
  <2> QED
    BY <2>3 DEF Shr, B
<1>12. (Q - u * B) * 2 + 0 = 0
  BY <1>8 DEF Q
<1>13. N = (D * 0 + h) * C + u
  BY <1>2, <1>3, <1>4
<1>14. h < D
  BY <1>3, <1>5, <1>7
<1>15. Running(N, D, Q, h, z, 0)
  <2>1. N = (D * ((Q - u * B) * 2 + 0) + h) * C + u
    BY <1>12, <1>13
  <2> QED
    BY <1>6, <1>11, <1>14, <2>1 DEF Running, C, B
<1>16. Q \in Word /\ h \in Word
  BY <1>2, <1>3, <1>7, <1>8
<1> QED
  BY <1>9, <1>10, <1>15, <1>16

\* A number cut at two places: at C * B and at B.
LEMMA Cut ==
  ASSUME NEW B \in Nat \ {0}, NEW C \in Nat \ {0}, NEW Q \in Nat, Q < 2 * (C * B)
  PROVE  \E h \in {0, 1}, t \in 0..(C - 1), low \in 0..(B - 1) :
           /\ Q \div (C * B) = h
           /\ Q \div B = h * C + t
           /\ Q = (h * C + t) * B + low
           /\ Q = h * (C * B) + (t * B + low)
           /\ t * B + low \in 0..(C * B - 1)
<1>1. PICK H \in Nat \ {0} : H = C * B
  <2>1. C * B \in Nat /\ C * B # 0
    OBVIOUS
  <2> QED
    BY <2>1
<1>2. \E h \in {0, 1}, rest \in 0..(H - 1) : Q = H * h + rest
  <2>1. CASE Q < H
    <3>1. PICK h \in {0, 1} : h = 0
      OBVIOUS
    <3>2. Q \in 0..(H - 1) /\ Q = H * h + Q
      BY <2>1, <3>1
    <3> QED
      BY <3>2
  <2>2. CASE ~(Q < H)
    <3>1. PICK h \in {0, 1} : h = 1
      OBVIOUS
    <3>2. PICK rest \in 0..(H - 1) : rest = Q - H
      BY <1>1, <2>2
    <3>3. Q = H * h + rest
      BY <3>1, <3>2
    <3> QED
      BY <3>3
  <2> QED
    BY <2>1, <2>2
<1>3. PICK h \in {0, 1}, rest \in 0..(H - 1) : Q = H * h + rest
  BY <1>2
<1> DEFINE t == rest \div B
           low == rest % B
<1>4. rest \in Nat /\ rest < H /\ h \in Int
  OBVIOUS
<1>5. t \in Int /\ low \in 0..(B - 1) /\ rest = B * t + low
  BY <1>4, Division
<1> HIDE DEF t, low
<1>6. t \in 0..(C - 1)
  <2>1. CASE t < 0
    <3>1. B * t <= B * (-1)
      BY <1>5, <2>1
    <3> QED
      BY <1>4, <1>5, <3>1
  <2>2. CASE t >= C
    <3>1. B * t >= B * C /\ B * C = C * B
      BY <1>5, <2>2
    <3>2. B * t >= H /\ B * t \in Int
      BY <1>1, <1>5, <3>1
    <3> QED
      BY <1>4, <1>5, <3>2
  <2> QED
    BY <1>5, <2>1, <2>2
<1>7. rest = t * B + low /\ t \in Nat
  BY <1>5, <1>6
<1>8. Q \div H = h
  BY <1>3, <1>4, DivisionUnique
<1>9. h * (C * B) = (h * C) * B /\ (h * C + t) * B = (h * C) * B + t * B
  BY <1>4, <1>7
<1>10. Q = h * (C * B) + rest
  BY <1>1, <1>3, <1>4
<1>11. PICK e \in Int : e = h * C + t
  BY <1>4, <1>7
<1>12. Q = e * B + low /\ B * e = e * B
  BY <1>4, <1>5, <1>7, <1>9, <1>10, <1>11
<1>13. Q = B * e + low
  BY <1>12
<1>14. Q \div B = e
  BY <1>5, <1>11, <1>13, DivisionUnique
<1>15. Q \div (C * B) = h
  BY <1>1, <1>8
<1>16. Q = (h * C + t) * B + low
  BY <1>11, <1>12
<1>17. Q = h * (C * B) + (t * B + low)
  BY <1>7, <1>10
<1>18. t * B + low \in 0..(C * B - 1)
  BY <1>1, <1>7
<1>19. Q \div B = h * C + t
  BY <1>11, <1>14
<1> QED
  BY <1>5, <1>6, <1>15, <1>16, <1>17, <1>18, <1>19

\* One pass finds one bit of the quotient and takes one from the dividend.
LEMMA PassLoop ==
  ASSUME NEW N \in Word, NEW D \in Word, NEW Q \in Word, NEW R \in Word, NEW c \in {0, 1},
         NEW z \in 1..(W - 1), D # 0, Running(N, D, Q, R, z, c),
         NEW r1, r1 = Shl(R, 1) + Shr(Q, W - 1),
         NEW fits, fits = (ToInt(D - r1 - 1) < 0)
  PROVE  LET Q1 == Shl(Q, 1) + c
             R1 == ToWord(IF fits THEN r1 - D ELSE r1)
             c1 == IF fits THEN 1 ELSE 0
         IN  /\ Q1 \in Word /\ R1 \in Word /\ c1 \in {0, 1}
             /\ Running(N, D, Q1, R1, z - 1, c1)
<1> DEFINE B == Pow2[W - z]
           C == Pow2[z - 1]
           H == Pow2[W - 1]
           M == Pow2[W]
<1>1. /\ B \in Nat \ {0} /\ C \in Nat \ {0} /\ H = C * B /\ M = 2 * H /\ Pow2[z] = 2 * C
      /\ Pow2[W - (z - 1)] = 2 * B /\ Pow2[1] = 2 /\ H \in Nat \ {0}
  <2>1. /\ z \in 1..W /\ z - 1 \in 0..W /\ W - z \in 0..W /\ (z - 1) + (W - z) = W - 1 /\ W - 1 \in 0..W
        /\ W - (z - 1) \in 1..W /\ (W - (z - 1)) - 1 = W - z /\ 1 \in 1..W /\ 1 - 1 = 0 /\ 0 \in 0..W /\ z \in 0..W
    BY WidthAssumption
  <2>2. B \in Nat \ {0} /\ C \in Nat \ {0} /\ H \in Nat \ {0}
    BY <2>1, Powers
  <2>3. Pow2[(z - 1) + (W - z)] = C * B
    BY <2>1, PowAdd
  <2>4. Pow2[z] = 2 * C /\ Pow2[W - (z - 1)] = 2 * Pow2[(W - (z - 1)) - 1] /\ Pow2[1] = 2 * Pow2[1 - 1] /\ Pow2[0] = 1
    BY <2>1, PowStep
  <2>5. M = 2 * H
    BY Halves
  <2>6. Pow2[1] = 2
    BY <2>1, <2>4
  <2> QED
    BY <2>1, <2>2, <2>3, <2>4, <2>5, <2>6
<1>2. /\ N \in Nat /\ D \in Nat /\ Q \in Nat /\ R \in Nat /\ N < M /\ D < M /\ Q < M
      /\ \A x \in Nat : x < M => x \in Word
  BY WordRange
<1>3. /\ N = (D * ((Q - Shr(Q, W - z) * B) * 2 + c) + R) * Pow2[z] + Shr(Q, W - z)
      /\ R < D /\ (D >= H => z = 1 /\ N >= H)
  BY DEF Running
<1>4. /\ Shr(Q, W - 1) = Q \div H /\ Shr(Q, W - z) = Q \div B
      /\ \A x : Shl(x, 1) = (x * Pow2[1]) % M /\ Shr(x, W - (z - 1)) = x \div Pow2[W - (z - 1)]
  BY DEF Shr, Shl, ToWord
<1>5. \A x \in Int : Running(N, D, x, R, z - 1, c) = Running(N, D, x, R, z - 1, c)
  OBVIOUS
<1> DEFINE P1 == Pow2[z]
           B1 == Pow2[W - (z - 1)]
<1> HIDE DEF B, C, H, M
<1>6. Q < 2 * (C * B)
  BY <1>1, <1>2
<1>7. PICK h \in {0, 1}, t \in 0..(C - 1), low \in 0..(B - 1) :
           /\ Q \div (C * B) = h
           /\ Q \div B = h * C + t
           /\ Q = (h * C + t) * B + low
           /\ Q = h * (C * B) + (t * B + low)
           /\ t * B + low \in 0..(C * B - 1)
  BY <1>1, <1>2, <1>6, Cut
<1>8. Shr(Q, W - 1) = h /\ Shr(Q, W - z) = h * C + t
  BY <1>1, <1>4, <1>7
<1>9. PICK bits \in Nat : bits = low * 2 + c
  OBVIOUS
<1>10. N = (D * bits + R) * (2 * C) + (h * C + t)
  <2>1. Q - (h * C + t) * B = low
    BY <1>1, <1>7
  <2> QED
    BY <1>1, <1>3, <1>8, <1>9, <2>1
<1>11. N = (2 * (D * bits) + (2 * R + h)) * C + t
  <2>1. D * bits \in Nat
    BY <1>2
  <2>2. PICK e \in Nat : e = D * bits
    BY <2>1
  <2>3. (e + R) * (2 * C) + (h * C + t) = (2 * e + (2 * R + h)) * C + t
    BY <1>1, <1>2
  <2> QED
    BY <1>10, <2>2, <2>3
<1>12. 2 * (D * bits) + (2 * R + h) <= N /\ D * bits \in Nat
  <2>1. PICK e \in Nat : e = 2 * (D * bits) + (2 * R + h)
    BY <1>2
  <2>2. N = e * C + t /\ C >= 1 /\ t >= 0
    BY <1>1, <1>11, <2>1
  <2>3. e * C >= e * 1 /\ e * C \in Nat
    BY <1>1, <2>2
  <2> QED
    BY <1>2, <2>1, <2>2, <2>3
<1>13. r1 = 2 * R + h /\ r1 \in Word /\ r1 \in Nat /\ r1 <= N /\ R < H
  <2>1. 2 * R + h <= N /\ 2 * R < M /\ R < H
    BY <1>1, <1>2, <1>12
  <2>2. 2 * R \in Word /\ R * 2 = 2 * R
    BY <1>2, <2>1
  <2>3. Shl(R, 1) = 2 * R
    <3>1. Shl(R, 1) = ToWord(R * Pow2[1])
      BY DEF Shl
    <3> QED
      BY <1>1, <2>2, <3>1, WordFits
  <2>4. r1 = 2 * R + h
    BY <1>8, <2>3
  <2>5. r1 \in Nat /\ r1 <= N /\ r1 < M
    <3>1. R \in Nat /\ h \in Nat /\ N \in Nat /\ M \in Nat /\ N < M
      BY <1>1, <1>2
    <3> QED
      BY <2>1, <2>4, <3>1
  <2>6. r1 \in Word
    BY <1>2, <2>5
  <2> QED
    BY <2>1, <2>4, <2>5, <2>6
<1>14. D - r1 - 1 \in Int_W
  <2>1. D - r1 - 1 >= -H
    BY <1>1, <1>2, <1>3, <1>13
  <2>2. D - r1 - 1 < H
    <3>1. CASE D < H
      BY <1>1, <1>2, <1>13, <3>1
    <3>2. CASE ~(D < H)
      <4>1. z = 1 /\ N >= H
        BY <1>1, <1>2, <1>3, <3>2
      <4>2. C = 1 /\ t = 0
        <5>1. C = Pow2[0]
          BY <4>1 DEF C
        <5> QED
          BY <1>1, <5>1, PowStep
      <4>3. N = 2 * (D * bits) + r1
        <5>1. PICK e \in Nat : e = 2 * (D * bits) + (2 * R + h)
          BY <1>2
        <5>2. N = e * C + t
          BY <1>11, <5>1
        <5>3. N = e
          BY <4>2, <5>2
        <5> QED
          BY <1>13, <5>1, <5>3
      <4>4. bits = 0
        <5>1. CASE bits >= 1
          <6>1. D * bits >= D * 1
            BY <1>2, <5>1
          <6> QED
            BY <1>1, <1>2, <1>12, <1>13, <3>2, <4>3, <6>1
        <5> QED
          BY <5>1
      <4>5. r1 = N
        BY <1>2, <1>13, <4>3, <4>4
      <4> QED
        BY <1>1, <1>2, <4>1, <4>5
    <3> QED
      BY <3>1, <3>2
  <2>3. D - r1 - 1 \in Int
    BY <1>2, <1>13
  <2> QED
    BY <1>1, <2>1, <2>2, <2>3 DEF Int_W, H
<1>15. fits = (D <= r1)
  <2>1. ToInt(D - r1 - 1) = D - r1 - 1
    BY <1>14, IntFits
  <2>2. (D - r1 - 1 < 0) <=> D <= r1
    BY <1>2, <1>13
  <2>3. fits = (D - r1 - 1 < 0)
    BY <2>1
  <2> QED
    BY <2>2, <2>3
<1> DEFINE R1 == IF fits THEN r1 - D ELSE r1
           c1 == IF fits THEN 1 ELSE 0
<1>16. R1 \in Nat /\ R1 \in Word /\ R1 < D /\ c1 \in {0, 1} /\ r1 = R1 + D * c1
  <2>1. r1 \in Nat /\ r1 <= N /\ r1 = 2 * R + h /\ R < D /\ D \in Nat /\ N < M /\ M \in Nat /\ R \in Nat
    BY <1>1, <1>2, <1>3, <1>13
  <2>2. CASE D <= r1
    <3>1. R1 = r1 - D /\ c1 = 1
      BY <1>15, <2>2
    <3> HIDE DEF R1, c1
    <3>2. D * c1 = D
      BY <2>1, <3>1
    <3>3. R1 \in Nat /\ R1 < M /\ R1 < D /\ r1 = R1 + D
      BY <2>1, <2>2, <3>1
    <3> QED
      BY <1>2, <3>1, <3>2, <3>3
  <2>3. CASE ~(D <= r1)
    <3>1. R1 = r1 /\ c1 = 0
      BY <1>15, <2>3
    <3> HIDE DEF R1, c1
    <3>2. D * c1 = 0
      BY <2>1, <3>1
    <3>3. R1 \in Nat /\ R1 < M /\ R1 < D /\ r1 = R1 + 0
      BY <2>1, <2>3, <3>1
    <3> QED
      BY <1>2, <3>1, <3>2, <3>3
  <2> QED
    BY <2>2, <2>3
<1>17. ToWord(R1) = R1
  BY <1>16, WordFits
<1> HIDE DEF R1, c1
<1>18. PICK Q1 \in Nat : Q1 = 2 * (t * B + low) + c
  BY <1>7
<1>19. Shl(Q, 1) + c = Q1 /\ Q1 \in Word
  <2>1. PICK rest \in 0..(H - 1) : rest = t * B + low
    BY <1>1, <1>7
  <2>2. Q = h * H + rest
    BY <1>1, <1>7, <2>1
  <2>3. PICK x \in Nat : x = Q * 2
    BY <1>2
  <2>8. PICK y \in 0..(M - 1) : y = 2 * rest
    BY <1>1, <2>1
  <2>4. h \in Int /\ M \in Nat \ {0} /\ x = M * h + y
    <3>1. CASE h = 0
      BY <1>1, <2>1, <2>2, <2>3, <2>8, <3>1
    <3>2. CASE h = 1
      BY <1>1, <2>1, <2>2, <2>3, <2>8, <3>2
    <3> QED
      BY <3>1, <3>2
  <2>9. x % M = y
    BY <2>4, DivisionUnique
  <2>5. x % M = 2 * rest
    BY <2>8, <2>9
  <2>6. Shl(Q, 1) = 2 * rest
    BY <1>1, <1>4, <2>3, <2>5
  <2>7. Q1 < M
    BY <1>1, <1>18, <2>1
  <2> QED
    BY <1>2, <1>18, <2>1, <2>6, <2>7
<1>20. Q1 \div (2 * B) = t /\ Q1 - t * (2 * B) = bits
  <2>1. PICK B2 \in Nat \ {0} : B2 = 2 * B
    BY <1>1
  <2>2. t \in Nat /\ bits \in 0..(B2 - 1)
    BY <1>1, <1>9, <2>1
  <2>3. 2 * (t * B + low) + c = t * (2 * B) + bits /\ t * (2 * B) = (2 * B) * t
    BY <1>1, <1>9, <2>2
  <2>4. Q1 = B2 * t + bits /\ t * (2 * B) = B2 * t /\ B2 * t \in Nat
    BY <1>18, <2>1, <2>2, <2>3
  <2>6. Q1 = B2 * t + bits /\ t \in Int
    BY <2>2, <2>4
  <2>5. Q1 \div B2 = t
    BY <2>2, <2>6, DivisionUnique
  <2> QED
    BY <2>1, <2>2, <2>4, <2>5
<1>21. Shr(Q1, W - (z - 1)) = t
  BY <1>1, <1>4, <1>20
<1>22. N = (D * (bits * 2 + c1) + R1) * C + t
  <2>1. PICK e \in Nat, f \in Nat : e = D * bits /\ f = D * c1
    BY <1>2, <1>16
  <2>2. D * (bits * 2 + c1) = 2 * e + f
    BY <1>2, <1>16, <2>1
  <2>3. 2 * e + (2 * R + h) = (2 * e + f) + R1
    BY <1>13, <1>16, <2>1
  <2> QED
    BY <1>11, <2>1, <2>2, <2>3
<1>23. (z - 1 >= 1 /\ D >= H) => (z - 1 = 1 /\ N >= H)
  BY <1>3
<1>24. Running(N, D, Q1, R1, z - 1, c1)
  <2>1. N = (D * ((Q1 - t * (2 * B)) * 2 + c1) + R1) * C + t
    BY <1>20, <1>22
  <2>2. Pow2[W - (z - 1)] = 2 * B
    BY <1>1
  <2>3. /\ N = (D * ((Q1 - Shr(Q1, W - (z - 1)) * Pow2[W - (z - 1)]) * 2 + c1) + R1) * Pow2[z - 1] + Shr(Q1, W - (z - 1))
        /\ R1 < D /\ (z - 1 >= 1 /\ D >= Pow2[W - 1] => z - 1 = 1 /\ N >= Pow2[W - 1])
    BY <1>16, <1>21, <1>23, <2>1, <2>2 DEF C, H
  <2> QED
    BY <2>3 DEF Running
<1> QED
  BY <1>16, <1>17, <1>19, <1>24 DEF R1, c1

\* After the last pass q and the carry are the quotient.
LEMMA FinishLoop ==
  ASSUME NEW N \in Word, NEW D \in Word, NEW Q \in Word, NEW R \in Word, NEW c \in {0, 1},
         D # 0, Running(N, D, Q, R, 0, c)
  PROVE  Shl(Q, 1) + c = Quotient(N, D)
<1> DEFINE M == Pow2[W]
<1>1. /\ N \in Nat /\ D \in Nat \ {0} /\ Q \in Nat /\ R \in Nat /\ N < M /\ Q < M /\ M \in Nat \ {0}
      /\ \A x \in Nat : x < M => x \in Word
  BY WordRange
<1>2. W - 0 = W /\ 1 \in 1..W /\ 1 - 1 = 0
  BY WidthAssumption
<1>3. Pow2[0] = 1 /\ Pow2[1] = 2
  BY <1>2, PowStep
<1> HIDE DEF M
<1>4. Q \div M = 0
  <2>1. PICK z \in Int : z = 0
    OBVIOUS
  <2>2. Q \in 0..(M - 1) /\ Q = M * z + Q
    BY <1>1, <2>1
  <2>3. Q \div M = z
    BY <1>1, <2>2, DivisionUnique
  <2> QED
    BY <2>1, <2>3
<1>5. Shr(Q, W - 0) = 0
  BY <1>2, <1>4 DEF Shr, M
<1>6. PICK bits \in Nat : bits = Q * 2 + c
  BY <1>1
<1>7. N = D * bits + R /\ R < D
  <2>1. N = (D * ((Q - Shr(Q, W - 0) * Pow2[W - 0]) * 2 + c) + R) * Pow2[0] + Shr(Q, W - 0) /\ R < D
    BY DEF Running
  <2>2. Q - 0 * Pow2[W - 0] = Q
    <3>1. Pow2[W - 0] \in Nat
      BY <1>1, <1>2 DEF M
    <3> QED
      BY <1>1, <3>1
  <2>3. N = (D * bits + R) * 1 + 0
    BY <1>3, <1>5, <1>6, <2>1, <2>2
  <2> QED
    BY <1>1, <2>1, <2>3
<1>8. N \div D = bits
  <2>1. bits \in Int /\ R \in 0..(D - 1)
    BY <1>1, <1>7
  <2> QED
    BY <1>1, <1>7, <2>1, DivisionUnique
<1>9. bits <= N
  <2>1. D * bits >= 1 * bits
    BY <1>1
  <2>2. D * bits \in Nat
    BY <1>1
  <2> QED
    BY <1>1, <1>7, <2>1, <2>2
<1>10. Q * 2 \in Word
  BY <1>1, <1>6, <1>9
<1>11. Shl(Q, 1) = Q * 2
  <2>1. ToWord(Q * 2) = Q * 2
    BY <1>10, WordFits
  <2> QED
    BY <1>3, <2>1 DEF Shl
<1> QED
  BY <1>1, <1>6, <1>8, <1>11 DEF Quotient

-----------------------------------------------------------------------------
(* The invariant *)

DivInv ==
  /\ TypeOK
  /\ Arguments
  /\ pc = "call" => carry = 0
  /\ pc = "loop" => n # 0 /\ d # 0 /\ sr \in 0..(W - 1) /\ Running(n, d, q, r, sr, carry)
  /\ pc = "done" => Answer(result)

LEMMA DivInit ==
  ASSUME Init
  PROVE  DivInv
<1>1. op \in Signed \cup Unsigned /\ q = 0 /\ r = 0 /\ sr = 0 /\ carry = 0 /\ pc = "call" /\ result = 0
  BY DEF Init
<1>2. 0 \in Word
  BY WordRange
<1>3. Arguments
  <2>1. CASE op \in Unsigned /\ a \in Word /\ b \in Word
    <3>1. op \notin Signed
      BY <2>1 DEF Signed, Unsigned
    <3> QED
      BY <2>1, <3>1 DEF Init, Arguments
  <2>2. CASE op \in Signed /\ a \in Int_W /\ b \in Int_W \ {0} /\ ~(a = -Pow2[W - 1] /\ b = -1)
    BY <2>2 DEF Init, Arguments
  <2> QED
    BY <2>1, <2>2 DEF Init
<1>4. n \in Word /\ d \in Word
  <2>1. CASE op \in Unsigned /\ a \in Word /\ b \in Word /\ n = a /\ d = b
    BY <2>1
  <2>2. CASE op \in Signed /\ a \in Int_W /\ b \in Int_W \ {0} /\ n = Magnitude(a) /\ d = Magnitude(b)
    BY <2>2, MagnitudeLemma
  <2> QED
    BY <1>3, <2>1, <2>2 DEF Arguments
<1>5. TypeOK
  BY <1>1, <1>2, <1>4 DEF TypeOK
<1> QED
  BY <1>1, <1>3, <1>5 DEF DivInv

LEMMA ArgumentsStay ==
  ASSUME Arguments, UNCHANGED <<op, a, b, n, d>>
  PROVE  Arguments'
BY DEF Arguments

\* A step that returns, given that it found the quotient.
LEMMA DivReturn ==
  ASSUME DivInv, NEW s, s = Quotient(n, d), Return(s), UNCHANGED <<op, a, b, n, d, carry>>,
         q' \in Word, r' \in Word, sr' \in Word
  PROVE  DivInv'
<1>1. result' \in Int_W \cup Word /\ Answer(result') /\ pc' = "done"
  BY ReturnLemma DEF DivInv
<1>2. Arguments'
  BY ArgumentsStay DEF DivInv
<1>3. Answer(result)'
  BY <1>1 DEF Answer
<1>4. TypeOK'
  BY <1>1 DEF DivInv, TypeOK
<1> QED
  BY <1>1, <1>2, <1>3, <1>4 DEF DivInv

LEMMA DivStart ==
  ASSUME DivInv, Start
  PROVE  DivInv'
<1> DEFINE shift == ToWord(Clz(d) - Clz(n))
<1>1. /\ n \in Word /\ d \in Word /\ q \in Word /\ r \in Word /\ sr \in Word /\ carry = 0
      /\ op \in Signed \cup Unsigned /\ result \in Int_W \cup Word /\ Arguments
  BY DEF DivInv, TypeOK, Start
<1>2. UNCHANGED <<op, a, b, n, d, carry>>
  BY DEF Start
<1>3. n \in Nat /\ d \in Nat
  BY <1>1, WordRange
<1>4. CASE (d = 0 \/ n = 0) /\ Return(0) /\ UNCHANGED <<q, r, sr>>
  <2>1. Quotient(n, d) = 0
    <3>1. CASE d = 0
      BY <3>1 DEF Quotient
    <3>2. CASE n = 0 /\ d # 0
      <4>1. PICK z \in Int : z = 0
        OBVIOUS
      <4>2. d \in Nat \ {0} /\ 0 \in 0..(d - 1) /\ n = d * z + 0
        BY <1>3, <3>2, <4>1
      <4>3. n \div d = z
        BY <4>2, DivisionUnique
      <4> QED
        BY <3>2, <4>1, <4>3 DEF Quotient
    <3> QED
      BY <1>4, <3>1, <3>2
  <2> QED
    BY <1>1, <1>2, <1>4, <2>1, DivReturn
<1>5. CASE d # 0 /\ n # 0 /\ shift > W - 1 /\ Return(0) /\ UNCHANGED <<q, r, sr>>
  <2>1. n < d
    BY <1>1, <1>5, NoBitsLeft
  <2>2. PICK z \in Int : z = 0
    OBVIOUS
  <2>3. d \in Nat \ {0} /\ n \in 0..(d - 1) /\ n = d * z + n
    BY <1>3, <1>5, <2>1, <2>2
  <2>4. n \div d = z
    BY <2>3, DivisionUnique
  <2>5. Quotient(n, d) = 0
    BY <1>5, <2>2, <2>4 DEF Quotient
  <2> QED
    BY <1>1, <1>2, <1>5, <2>5, DivReturn
<1>6. CASE d # 0 /\ n # 0 /\ shift = W - 1 /\ Return(n) /\ UNCHANGED <<q, r, sr>>
  <2>1. d = 1
    BY <1>1, <1>6, NoBitsLeft
  <2>2. PICK z \in 0..(d - 1) : z = 0
    BY <2>1
  <2>3. d \in Nat \ {0} /\ n \in Int /\ n = d * n + z
    BY <1>3, <2>1, <2>2
  <2>4. n \div d = n
    BY <2>3, DivisionUnique
  <2>5. Quotient(n, d) = n
    BY <1>6, <2>4 DEF Quotient
  <2> QED
    BY <1>1, <1>2, <1>6, <2>5, DivReturn
<1>7. CASE /\ d # 0 /\ n # 0 /\ shift < W - 1 /\ sr' = shift + 1 /\ q' = Shl(n, W - sr')
           /\ r' = Shr(n, sr') /\ pc' = "loop" /\ UNCHANGED result
  <2>1. PICK i \in 1..W, j \in 1..W : /\ shift + 1 = j - (i - 1) /\ shift + 1 \in 1..(W - 1)
                                      /\ Pow2[i - 1] <= d /\ d < Pow2[i]
                                      /\ Pow2[j - 1] <= n /\ n < Pow2[j]
    BY <1>1, <1>7, NoBitsLeft
  <2>2. PICK z \in 1..(W - 1) : z = shift + 1
    BY <2>1
  <2>3. sr' = z /\ z = j - (i - 1)
    BY <1>7, <2>1, <2>2
  <2> HIDE DEF shift
  <2>4. /\ Shl(n, W - z) \in Word /\ Shr(n, z) \in Word
        /\ Running(n, d, Shl(n, W - z), Shr(n, z), z, 0)
    BY <1>1, <1>7, <2>1, <2>3, StartLoop
  <2>5. q' = Shl(n, W - z) /\ r' = Shr(n, z) /\ n' = n /\ d' = d /\ carry' = 0
    BY <1>1, <1>2, <1>7, <2>3
  <2>6. Running(n, d, q, r, sr, carry)'
    BY <2>3, <2>4, <2>5 DEF Running
  <2>7. z \in Word /\ z \in 0..(W - 1)
    BY Halves
  <2>8. TypeOK'
    BY <1>1, <1>2, <1>7, <2>3, <2>4, <2>5, <2>7 DEF TypeOK
  <2>9. Arguments'
    BY <1>1, <1>2, ArgumentsStay
  <2>10. pc' = "loop" /\ n' # 0 /\ d' # 0 /\ sr' \in 0..(W - 1)
    BY <1>7, <2>3, <2>5, <2>7
  <2> QED
    BY <2>6, <2>8, <2>9, <2>10 DEF DivInv
<1> QED
  BY <1>4, <1>5, <1>6, <1>7 DEF Start

LEMMA DivPass ==
  ASSUME DivInv, Pass
  PROVE  DivInv'
<1> DEFINE r1 == Shl(r, 1) + Shr(q, W - 1)
           fits == ToInt(d - r1 - 1) < 0
<1>1. /\ n \in Word /\ d \in Word /\ q \in Word /\ r \in Word /\ sr \in 0..(W - 1) /\ carry \in {0, 1}
      /\ op \in Signed \cup Unsigned /\ result \in Int_W \cup Word /\ Arguments
      /\ n # 0 /\ d # 0 /\ Running(n, d, q, r, sr, carry)
  BY DEF DivInv, TypeOK, Pass
<1>2. /\ sr > 0 /\ pc = "loop" /\ sr' = sr - 1 /\ UNCHANGED <<op, a, b, n, d, pc, result>>
      /\ q' = Shl(q, 1) + carry
      /\ carry' = (IF fits THEN 1 ELSE 0)
      /\ r' = ToWord(IF fits THEN r1 - d ELSE r1)
  BY Zenon DEF Pass
<1>3. PICK z \in 1..(W - 1) : z = sr
  BY <1>1, <1>2, WidthAssumption
<1>4. PICK x : x = r1
  OBVIOUS
<1>5. PICK f : f = (ToInt(d - x - 1) < 0)
  OBVIOUS
<1>6. x = Shl(r, 1) + Shr(q, W - 1) /\ Running(n, d, q, r, z, carry) /\ f = fits
  BY <1>1, <1>3, <1>4, <1>5
<1>7. carry' = (IF f THEN 1 ELSE 0) /\ r' = ToWord(IF f THEN x - d ELSE x)
  BY <1>2, <1>4, <1>6
<1> HIDE DEF r1, fits
<1>8. /\ q' \in Word /\ r' \in Word /\ carry' \in {0, 1}
      /\ Running(n, d, q', r', z - 1, carry')
  BY <1>1, <1>2, <1>5, <1>6, <1>7, PassLoop
<1>9. sr' = z - 1 /\ sr' \in 0..(W - 1) /\ sr' \in Word
  BY <1>2, <1>3, Halves
<1>10. Running(n, d, q, r, sr, carry)'
  BY <1>2, <1>8, <1>9 DEF Running
<1>11. TypeOK'
  BY <1>1, <1>2, <1>8, <1>9 DEF TypeOK
<1>12. Arguments'
  BY <1>1, <1>2, ArgumentsStay
<1> QED
  BY <1>1, <1>2, <1>9, <1>10, <1>11, <1>12 DEF DivInv

LEMMA DivFinish ==
  ASSUME DivInv, Finish
  PROVE  DivInv'
<1>1. /\ n \in Word /\ d \in Word /\ q \in Word /\ r \in Word /\ carry \in {0, 1} /\ d # 0
      /\ Running(n, d, q, r, 0, carry) /\ sr \in Word
  BY DEF DivInv, TypeOK, Finish
<1>2. Shl(q, 1) + carry = Quotient(n, d)
  BY <1>1, FinishLoop
<1>3. Return(Shl(q, 1) + carry) /\ UNCHANGED <<op, a, b, n, d, q, r, sr, carry>>
  BY DEF Finish
<1> QED
  BY <1>1, <1>2, <1>3, DivReturn

LEMMA DivNext ==
  ASSUME DivInv, [Next]_vars
  PROVE  DivInv'
<1>1. CASE Start
  BY <1>1, DivStart
<1>2. CASE Pass
  BY <1>2, DivPass
<1>3. CASE Finish
  BY <1>3, DivFinish
<1>4. CASE UNCHANGED vars
  BY <1>4 DEF vars, DivInv, TypeOK, Arguments, Running, Answer
<1> QED
  BY <1>1, <1>2, <1>3, <1>4 DEF Next

LEMMA DivCorrect ==
  ASSUME DivInv
  PROVE  ResultCorrect
<1>1. LoopInvariant
  BY DEF DivInv, Running, LoopInvariant
<1>2. pc = "done" => Answer(result)
  BY DEF DivInv
<1> QED
  BY <1>1, <1>2 DEF ResultCorrect, Answer

\* The four division routines of the ARM kernel give the quotient and the
\* remainder of every pair of arguments for which C defines them, for registers
\* of any width.
THEOREM ArmDivides == Spec => []ResultCorrect
<1>1. Init => DivInv
  BY DivInit
<1>2. DivInv /\ [Next]_vars => DivInv'
  BY DivNext
<1>3. DivInv => ResultCorrect
  BY DivCorrect
<1> QED
  BY <1>1, <1>2, <1>3, PTL DEF Spec

-----------------------------------------------------------------------------
(* kputn *)

\* What is known between the steps of kprintf and kputn.  The digits counted so
\* far and what is left of the number stay below the number.
NumberInv ==
  /\ DivInv
  /\ ap \in Nat
  /\ at \in {"format", "count", "put", "done", "beyond", "none"}
  /\ at # "none" => args \in [1..2 -> [number : Word, text : Texts]]
  /\ DOMAIN buffer = 0..(BufferBytes - 1)
  /\ at \in {"count", "put"} =>
       /\ value \in Word /\ temp \in Word /\ radix \in {2, 10, 16} /\ digits \in 1..W
       /\ op \in Unsigned /\ a = temp /\ b = radix
  /\ at = "count" => op = "__udivsi3" /\ temp * Pow2[digits - 1] <= value
  /\ at = "put" =>
       /\ ptr = IF op = "__umodsi3" THEN digits ELSE digits - 1
       /\ \E e \in ptr..W : buffer[e] = ""

\* A routine is called with two words.
LEMMA CallLemma ==
  ASSUME NEW f \in Unsigned, NEW x \in Word, NEW y \in Word, Divide(f, x, y)
  PROVE  DivInv' /\ op' = f /\ a' = x /\ b' = y
<1>1. /\ op' = f /\ a' = x /\ b' = y /\ n' = x /\ d' = y
      /\ q' = 0 /\ r' = 0 /\ sr' = 0 /\ carry' = 0 /\ result' = 0 /\ pc' = "call"
  BY DEF Divide
<1>2. 0 \in Word
  BY WordRange
<1>3. TypeOK'
  BY <1>1, <1>2 DEF TypeOK
<1>4. Arguments'
  BY <1>1 DEF Arguments
<1> QED
  BY <1>1, <1>3, <1>4 DEF DivInv

\* A quotient is a word, at most half of the dividend.
LEMMA DoneLemma ==
  ASSUME DivInv, pc = "done", op = "__udivsi3", b \in Nat, b >= 2
  PROVE  result \in Word /\ 2 * result <= a /\ a \in Word
<1>1. a \in Word /\ b \in Word /\ n = a /\ d = b
  <2>1. op \notin Signed
    BY DEF Signed
  <2> QED
    BY <2>1 DEF DivInv, Arguments
<1>2. PICK s \in Word : s \in Nat /\ Quotient(a, b) = s /\ (b >= 2 => 2 * s <= a)
  BY <1>1, QuotientLemma
<1>3. ~(a < 0) /\ ~(b < 0)
  BY <1>1, WordRange
<1>4. Answer(result)
  BY DEF DivInv
<1>5. result = s
  <2>1. Quotient(n, d) = s
    BY <1>1, <1>2
  <2>2. result = IF (a < 0) # (b < 0) THEN -Quotient(n, d) ELSE Quotient(n, d)
    BY <1>4 DEF Answer
  <2> QED
    BY <1>3, <2>1, <2>2
<1> QED
  BY <1>1, <1>2, <1>5

LEMMA RadixIsWord ==
  \A x \in {2, 10, 16} : x \in Word /\ x \in Nat /\ x >= 2
<1>1. W \in Nat /\ W >= 5
  BY KprintAssumption, WidthAssumption
<1>2. 0 \in 0..W /\ 1 \in 1..W /\ 2 \in 1..W /\ 3 \in 1..W /\ 4 \in 1..W /\ 5 \in 1..W
  BY <1>1
<1>3. /\ 1 - 1 = 0 /\ 2 - 1 = 1 /\ 3 - 1 = 2 /\ 4 - 1 = 3 /\ 5 - 1 = 4
  OBVIOUS
<1>4. Pow2[0] = 1 /\ Pow2[1] = 2 /\ Pow2[2] = 4 /\ Pow2[3] = 8 /\ Pow2[4] = 16 /\ Pow2[5] = 32
  BY <1>2, <1>3, PowStep
<1>5. 5 \in 0..W /\ W \in 0..W /\ 5 <= W
  BY <1>1
<1>6. Pow2[5] <= Pow2[W]
  BY <1>5, PowMono
<1>7. 32 <= Pow2[W] /\ Pow2[W] \in Nat
  BY <1>4, <1>6, WordRange
<1> QED
  BY <1>7, WordRange

LEMMA NumberInit ==
  ASSUME KInit
  PROVE  NumberInv
<1>1. ap = 0 /\ at \in {"format", "none"} /\ DOMAIN buffer = 0..(BufferBytes - 1)
  BY DEF KInit
<1>2. at # "none" => args \in [1..2 -> [number : Word, text : Texts]]
  BY DEF KInit
<1>3. DivInv
  <2>1. CASE Init
    BY <2>1, DivInit
  <2>2. CASE Quiet
    <3>1. /\ op = "__udivsi3" /\ a = 0 /\ b = 0 /\ n = 0 /\ d = 0
          /\ q = 0 /\ r = 0 /\ sr = 0 /\ carry = 0 /\ result = 0 /\ pc = "done"
      BY <2>2 DEF Quiet
    <3>2. 0 \in Word
      BY WordRange
    <3>3. TypeOK
      BY <3>1, <3>2 DEF TypeOK, Unsigned
    <3>4. Arguments
      BY <3>1, <3>2 DEF Arguments, Unsigned
    <3>5. Answer(result)
      BY <3>1 DEF Answer, Quotient
    <3> QED
      BY <3>1, <3>3, <3>4, <3>5 DEF DivInv
  <2> QED
    BY <2>1, <2>2 DEF KInit
<1> QED
  BY <1>1, <1>2, <1>3 DEF NumberInv

\* Steps of kprintf itself.
LEMMA FormatStep ==
  ASSUME NumberInv, Literal \/ String \/ Unknown \/ EndOfFormat
  PROVE  NumberInv'
<1>1. /\ at = "format" /\ at' \in {"format", "beyond", "done"}
      /\ ap' \in {ap, ap + 1} /\ args' = args /\ buffer' = buffer /\ UNCHANGED vars
  BY DEF Literal, String, Unknown, EndOfFormat, AtFormat
<1>2. DivInv'
  BY <1>1, DivNext DEF NumberInv
<1>3. ap' \in Nat
  BY <1>1 DEF NumberInv
<1> QED
  BY <1>1, <1>2, <1>3 DEF NumberInv

\* kputn is entered.
LEMMA NumberStep ==
  ASSUME NumberInv, NEW c, NEW prefix, NEW base \in {2, 10, 16}, Number(c, prefix, base)
  PROVE  NumberInv'
<1>1. /\ at = "format" /\ ap < Len(args) /\ ap' = ap + 1 /\ args' = args /\ buffer' = buffer
      /\ kputn(args[ap + 1].number, base)
  BY DEF Number, AtFormat
<1>2. PICK x : x = args[ap + 1].number
  OBVIOUS
<1>3. /\ value' = x /\ radix' = base /\ temp' = x /\ digits' = 1 /\ at' = "count"
      /\ Divide("__udivsi3", x, base)
  BY <1>1, <1>2 DEF kputn
<1>4. ap \in Nat /\ args \in [1..2 -> [number : Word, text : Texts]]
  BY <1>1 DEF NumberInv
<1>5. x \in Word /\ ap' \in Nat
  <2>1. Len(args) = 2
    BY <1>4
  <2>2. ap + 1 \in 1..2
    BY <1>1, <1>4, <2>1
  <2> QED
    BY <1>1, <1>2, <1>4, <2>2
<1>6. base \in Word /\ "__udivsi3" \in Unsigned
  BY RadixIsWord DEF Unsigned
<1>7. DivInv' /\ op' = "__udivsi3" /\ a' = x /\ b' = base
  BY <1>3, <1>5, <1>6, CallLemma
<1>8. x * Pow2[1 - 1] <= x
  <2>1. 1 - 1 = 0 /\ Pow2[0] = 1 /\ x \in Nat
    BY <1>5, PowStep, WordRange
  <2> QED
    BY <2>1
<1>9. 1 \in 1..W
  BY WidthAssumption
<1>10. temp' * Pow2[digits' - 1] <= value'
  BY <1>3, <1>8
<1> QED
  BY <1>1, <1>3, <1>4, <1>5, <1>6, <1>7, <1>9, <1>10 DEF NumberInv

\* A pass of the loop that counts the digits.
LEMMA CountStep ==
  ASSUME NumberInv, Count
  PROVE  NumberInv'
<1>1. /\ at = "count" /\ pc = "done" /\ DivInv /\ op = "__udivsi3" /\ a = temp /\ b = radix
      /\ value \in Word /\ temp \in Word /\ radix \in {2, 10, 16} /\ digits \in 1..W
      /\ temp * Pow2[digits - 1] <= value
      /\ ap \in Nat /\ args \in [1..2 -> [number : Word, text : Texts]]
      /\ DOMAIN buffer = 0..(BufferBytes - 1)
  BY DEF NumberInv, Count
<1>2. UNCHANGED <<args, ap, value, radix>>
  BY DEF Count
<1>3. radix \in Word /\ radix \in Nat /\ radix >= 2 /\ "__udivsi3" \in Unsigned /\ "__umodsi3" \in Unsigned
  BY <1>1, RadixIsWord DEF Unsigned
<1>4. result \in Word /\ 2 * result <= temp
  BY <1>1, <1>3, DoneLemma
<1>5. CASE CountMore(result)
  <2>1. temp' = result /\ digits' = digits + 1 /\ Divide("__udivsi3", result, radix) /\ UNCHANGED <<at, ptr, buffer>>
    BY <1>5 DEF Count
  <2>2. DivInv' /\ op' = "__udivsi3" /\ a' = result /\ b' = radix
    BY <1>3, <1>4, <2>1, CallLemma
  <2>3. result > 0 /\ result \in Nat /\ temp \in Nat /\ value \in Nat /\ value < Pow2[W] /\ Pow2[W] \in Nat
    BY <1>1, <1>4, <1>5, WordRange DEF CountMore
  <2>4. /\ digits \in 1..W /\ digits \in 0..W /\ digits - 1 \in 0..W /\ W \in Nat /\ W \in 0..W
        /\ (digits + 1) - 1 = digits
    BY <1>1, WidthAssumption
  <2>5. Pow2[digits] = 2 * Pow2[digits - 1] /\ Pow2[digits] \in Nat /\ Pow2[digits - 1] \in Nat
    BY <2>4, PowStep
  <2>6. result * Pow2[digits] <= value
    <3>1. \A k, x, y \in Nat : 2 * x <= y => x * (2 * k) <= y * k
      <4> SUFFICES ASSUME NEW k \in Nat, NEW x \in Nat, NEW y \in Nat, 2 * x <= y
                   PROVE  x * (2 * k) <= y * k
        OBVIOUS
      <4>1. (2 * x) * k <= y * k /\ x * (2 * k) = (2 * x) * k
        OBVIOUS
      <4> QED
        BY <4>1
    <3>2. result * (2 * Pow2[digits - 1]) <= temp * Pow2[digits - 1]
      BY <1>4, <2>3, <2>5, <3>1
    <3>3. result * Pow2[digits] \in Nat /\ temp * Pow2[digits - 1] \in Nat
      BY <2>3, <2>5
    <3>4. result * Pow2[digits] <= temp * Pow2[digits - 1]
      BY <2>5, <3>2
    <3> QED
      BY <1>1, <2>3, <3>3, <3>4
  <2>7. digits # W
    <3>1. CASE digits = W
      <4>1. result * Pow2[W] >= 1 * Pow2[W]
        BY <2>3
      <4>2. result * Pow2[W] <= value /\ result * Pow2[W] \in Nat
        BY <2>3, <2>6, <3>1
      <4> QED
        BY <2>3, <4>1, <4>2
    <3> QED
      BY <3>1
  <2>8. digits' \in 1..W /\ temp' * Pow2[digits' - 1] <= value'
    BY <1>2, <2>1, <2>4, <2>6, <2>7
  <2> QED
    BY <1>1, <1>2, <1>3, <1>4, <2>1, <2>2, <2>8 DEF NumberInv
<1>6. CASE ~CountMore(result)
  <2>1. /\ temp' = value /\ ptr' = digits /\ buffer' = [buffer EXCEPT ![digits] = ""]
        /\ at' = "put" /\ Divide("__umodsi3", value, radix) /\ UNCHANGED digits
    BY <1>6 DEF Count
  <2>2. DivInv' /\ op' = "__umodsi3" /\ a' = value /\ b' = radix
    BY <1>1, <1>3, <2>1, CallLemma
  <2>3. digits \in 0..(BufferBytes - 1) /\ digits \in digits..W
    BY <1>1, KprintAssumption, WidthAssumption
  <2>4. DOMAIN buffer' = 0..(BufferBytes - 1) /\ buffer'[digits] = ""
    BY <1>1, <2>1, <2>3
  <2>5. \E e \in ptr'..W : buffer'[e] = ""
    BY <2>1, <2>3, <2>4
  <2> QED
    BY <1>1, <1>2, <1>3, <2>1, <2>2, <2>4, <2>5 DEF NumberInv
<1> QED
  BY <1>5, <1>6

LEMMA PutDigitStep ==
  ASSUME NumberInv, PutDigit
  PROVE  NumberInv'
<1>1. /\ at = "put" /\ op = "__umodsi3" /\ ptr = digits
      /\ value \in Word /\ temp \in Word /\ radix \in {2, 10, 16} /\ digits \in 1..W
      /\ ap \in Nat /\ args \in [1..2 -> [number : Word, text : Texts]]
      /\ DOMAIN buffer = 0..(BufferBytes - 1)
      /\ \E e \in ptr..W : buffer[e] = ""
  BY DEF NumberInv, PutDigit
<1>2. /\ UNCHANGED <<args, ap, at, value, radix, temp, digits>>
      /\ ptr' = ptr - 1 /\ Divide("__udivsi3", temp, radix)
      /\ buffer' = [buffer EXCEPT ![ptr - 1] = chars[result + 1]]
  BY DEF PutDigit
<1>3. radix \in Word /\ "__udivsi3" \in Unsigned
  BY <1>1, RadixIsWord DEF Unsigned
<1>4. DivInv' /\ op' = "__udivsi3" /\ a' = temp /\ b' = radix
  BY <1>1, <1>2, <1>3, CallLemma
<1>5. PICK e \in ptr..W : buffer[e] = ""
  BY <1>1
<1>6. e \in (ptr - 1)..W /\ e # ptr - 1 /\ e \in 0..(BufferBytes - 1)
  <2>1. ptr \in 1..W /\ W \in Nat /\ BufferBytes \in Nat /\ BufferBytes > W
    BY <1>1, KprintAssumption, WidthAssumption
  <2> QED
    BY <2>1
<1>7. DOMAIN buffer' = 0..(BufferBytes - 1) /\ buffer'[e] = ""
  BY <1>1, <1>2, <1>5, <1>6
<1>8. \E i \in ptr'..W : buffer'[i] = ""
  BY <1>2, <1>6, <1>7
<1> QED
  BY <1>1, <1>2, <1>3, <1>4, <1>7, <1>8 DEF NumberInv

LEMMA PutNextStep ==
  ASSUME NumberInv, PutNext
  PROVE  NumberInv'
<1>1. /\ at = "put" /\ op = "__udivsi3" /\ pc = "done" /\ DivInv /\ ptr = digits - 1 /\ b = radix
      /\ value \in Word /\ temp \in Word /\ radix \in {2, 10, 16} /\ digits \in 1..W
      /\ ap \in Nat /\ args \in [1..2 -> [number : Word, text : Texts]]
      /\ DOMAIN buffer = 0..(BufferBytes - 1)
      /\ \E e \in ptr..W : buffer[e] = ""
  BY DEF NumberInv, PutNext
<1>2. /\ UNCHANGED <<args, value, radix, ptr, buffer>>
      /\ temp' = result /\ digits' = digits - 1
  BY DEF PutNext
<1>3. radix \in Word /\ radix \in Nat /\ radix >= 2 /\ "__umodsi3" \in Unsigned
  BY <1>1, RadixIsWord DEF Unsigned
<1>4. result \in Word
  BY <1>1, <1>3, DoneLemma
<1>5. CASE digits > 1
  <2>1. Divide("__umodsi3", result, radix) /\ UNCHANGED <<at, ap>>
    BY <1>5 DEF PutNext
  <2>2. DivInv' /\ op' = "__umodsi3" /\ a' = result /\ b' = radix
    BY <1>3, <1>4, <2>1, CallLemma
  <2>3. digits - 1 \in 1..W
    <3>1. digits \in 1..W /\ W \in Nat
      BY <1>1, WidthAssumption
    <3> QED
      BY <1>5, <3>1
  <2> QED
    BY <1>1, <1>2, <1>3, <1>4, <2>1, <2>2, <2>3 DEF NumberInv
<1>6. CASE ~(digits > 1)
  <2>1. ap' \in {ap, ap + 1} /\ at' \in {"beyond", "format"} /\ UNCHANGED vars
    BY <1>6 DEF PutNext
  <2>2. ap' \in Nat
    <3>1. ap \in Nat /\ (ap' = ap \/ ap' = ap + 1)
      BY <1>1, <2>1
    <3> QED
      BY <3>1
  <2>3. DivInv'
    BY <1>1, <2>1, DivNext
  <2> QED
    BY <1>1, <1>2, <2>1, <2>2, <2>3 DEF NumberInv
<1> QED
  BY <1>5, <1>6

\* A routine runs.
LEMMA RoutineStep ==
  ASSUME NumberInv, Next \/ UNCHANGED vars, UNCHANGED kvars
  PROVE  NumberInv'
<1>1. DivInv'
  BY DivNext DEF NumberInv
<1>2. UNCHANGED <<op, a, b>>
  BY DEF Next, Start, Pass, Finish, vars
<1>3. UNCHANGED <<args, ap, at, value, radix, temp, digits, ptr, buffer>>
  BY DEF kvars
<1> QED
  BY <1>1, <1>2, <1>3 DEF NumberInv

LEMMA NumberNext ==
  ASSUME NumberInv, [KNext]_<<vars, kvars>>
  PROVE  NumberInv'
<1>1. CASE Next /\ UNCHANGED kvars
  BY <1>1, RoutineStep
<1>2. CASE Literal \/ String \/ Unknown \/ EndOfFormat
  BY <1>2, FormatStep
<1>3. CASE Number("i", <<>>, 10)
  BY <1>3, NumberStep
<1>4. CASE Number("x", <<"0", "x">>, 16)
  BY <1>4, NumberStep
<1>5. CASE Number("b", <<"0", "b">>, 2)
  BY <1>5, NumberStep
<1>6. CASE Count
  BY <1>6, CountStep
<1>7. CASE PutDigit
  BY <1>7, PutDigitStep
<1>8. CASE PutNext
  BY <1>8, PutNextStep
<1>9. CASE UNCHANGED <<vars, kvars>>
  BY <1>9, RoutineStep
<1> QED
  BY <1>1, <1>2, <1>3, <1>4, <1>5, <1>6, <1>7, <1>8, <1>9 DEF KNext

LEMMA NumberHolds == KSpec => []NumberInv
<1>1. KInit => NumberInv
  BY NumberInit
<1>2. NumberInv /\ [KNext]_<<vars, kvars>> => NumberInv'
  BY NumberNext
<1> QED
  BY <1>1, <1>2, PTL DEF KSpec

\* The routines also divide whatever kputn asks of them, for any formats and
\* arguments.
THEOREM KputnDivides == KSpec => []ResultCorrect
<1>1. NumberInv => ResultCorrect
  BY DivCorrect DEF NumberInv
<1> QED
  BY <1>1, NumberHolds, PTL

\* kputn counts no more digits than a word has bits and stays within its buffer,
\* whatever it is given to print, if the buffer is longer than a word.
THEOREM KputnStaysInBuffer == KSpec => []WithinBuffer
<1>1. NumberInv => WithinBuffer
  BY DEF NumberInv, WithinBuffer
<1> QED
  BY <1>1, NumberHolds, PTL
=============================================================================
