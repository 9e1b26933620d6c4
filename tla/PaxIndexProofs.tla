--------------------------- MODULE PaxIndexProofs ---------------------------
(* What a scan lists of an archive is what was packed into it, proved for  *)
(* any files, configurations and sizes that the assumptions allow.         *)
EXTENDS PaxIndex, ItemStoreProofs, WellFoundedInduction

-----------------------------------------------------------------------------
(* Numbers: the least of a set, induction with a set for the property, and *)
(* functions that are defined from one number to the next.                 *)
LEMMA Least == ASSUME NEW S \in SUBSET Nat, S # {} PROVE \E x \in S : \A y \in S : x <= y
<1>1. PICK R : R = OpToRel(<, Nat)
  OBVIOUS
<1>2. IsWellFoundedOn(R, Nat)
  BY <1>1, NatLessThanWellFounded
<1>3. \A x, y \in Nat : x < y => <<x, y>> \in R
  BY <1>1 DEF OpToRel
<1>4. PICK x \in S : \A y \in S : ~(<<y, x>> \in R)
  BY <1>2, WFMin
<1>5. ASSUME NEW y \in S PROVE x <= y
  <2>1. x \in Nat /\ y \in Nat
    OBVIOUS
  <2>2. ~(y < x)
    BY <1>3, <1>4, <2>1
  <2> QED
    BY <2>1, <2>2
<1> QED
  BY <1>4, <1>5

LEMMA SetInduction ==
  ASSUME NEW S, 0 \in S, \A n \in Nat : n \in S => n + 1 \in S
  PROVE  \A n \in Nat : n \in S
<1> SUFFICES ASSUME NEW m \in Nat, m \notin S PROVE FALSE
  OBVIOUS
<1>1. PICK T : T = {n \in Nat : n \notin S}
  OBVIOUS
<1>2. PICK x \in T : \A y \in T : x <= y
  BY <1>1, Least
<1>3. x \in Nat /\ x \notin S /\ x # 0
  BY <1>1
<1>4. x - 1 \in Nat /\ x - 1 < x /\ (x - 1) + 1 = x
  BY <1>3
<1>5. x - 1 \notin T
  BY <1>2, <1>4
<1> QED
  BY <1>1, <1>3, <1>4, <1>5

LEMMA MinFact ==
  ASSUME NEW S \in SUBSET Nat, S # {}
  PROVE  Min(S) \in S /\ \A y \in S : Min(S) <= y
<1>1. \E x \in S : \A y \in S : x <= y
  BY Least
<1> QED
  BY <1>1, Zenon DEF Min

LEMMA MaxFact ==
  ASSUME NEW b \in Nat, NEW S \in SUBSET (0 .. b), S # {}
  PROVE  Max(S) \in S /\ \A y \in S : Max(S) >= y
<1>1. PICK T : T = {x \in 0 .. b : b - x \in S}
  OBVIOUS
<1>2. T \in SUBSET Nat /\ T # {}
  <2>1. PICK s : s \in S
    OBVIOUS
  <2>2. s \in 0 .. b /\ b - s \in 0 .. b /\ b - (b - s) = s
    BY <2>1
  <2> QED
    BY <1>1, <2>1, <2>2
<1>3. PICK x \in T : \A y \in T : x <= y
  BY <1>2, Least
<1>4. b - x \in S /\ x \in 0 .. b
  BY <1>1
<1>5. ASSUME NEW y \in S PROVE b - x >= y
  <2>1. y \in 0 .. b /\ b - y \in 0 .. b /\ b - (b - y) = y
    OBVIOUS
  <2>2. b - y \in T
    BY <1>1, <2>1
  <2>3. x <= b - y
    BY <1>3, <2>2
  <2> QED
    BY <1>4, <2>1, <2>3
<1>6. \E z \in S : \A y \in S : z >= y
  BY <1>4, <1>5
<1> QED
  BY <1>6, Zenon DEF Max

(* f is what g makes of b, step by step.                                   *)
From(f, S, b, g, n) ==
  f \in [0 .. n -> S] /\ f[0] = b /\ \A k \in 1 .. n : f[k] = g[k][f[k - 1]]

LEMMA Iterates ==
  ASSUME NEW S, NEW b \in S, NEW g \in [Nat -> [S -> S]]
  PROVE  \A n \in Nat : \E f : From(f, S, b, g, n)
<1>1. PICK N : N = {n \in Nat : \E f : From(f, S, b, g, n)}
  OBVIOUS
<1>2. 0 \in N
  <2>1. PICK f : f = [k \in 0 .. 0 |-> b]
    OBVIOUS
  <2>2. f \in [0 .. 0 -> S] /\ f[0] = b /\ \A k \in 1 .. 0 : f[k] = g[k][f[k - 1]]
    BY <2>1
  <2> QED
    BY <1>1, <2>2 DEF From
<1>3. ASSUME NEW n \in Nat, n \in N PROVE n + 1 \in N
  <2>1. PICK f : From(f, S, b, g, n)
    BY <1>1, <1>3
  <2>2. f \in [0 .. n -> S] /\ f[0] = b /\ \A k \in 1 .. n : f[k] = g[k][f[k - 1]]
    BY <2>1 DEF From
  <2>3. PICK e : e = g[n + 1][f[n]]
    OBVIOUS
  <2>4. e \in S
    BY <2>2, <2>3
  <2>5. PICK h : h = [k \in 0 .. n + 1 |-> IF k = n + 1 THEN e ELSE f[k]]
    OBVIOUS
  <2>6. h \in [0 .. n + 1 -> S] /\ h[0] = b
    BY <2>2, <2>4, <2>5
  <2>7. ASSUME NEW k \in 1 .. n + 1 PROVE h[k] = g[k][h[k - 1]]
    <3>1. k - 1 \in 0 .. n /\ k - 1 \in 0 .. n + 1 /\ k - 1 # n + 1 /\ k \in 0 .. n + 1
      OBVIOUS
    <3>2. h[k - 1] = f[k - 1]
      BY <2>5, <3>1
    <3>3. CASE k = n + 1
      <4>1. k - 1 = n
        BY <3>3
      <4> QED
        BY <2>3, <2>5, <3>1, <3>2, <3>3, <4>1
    <3>4. CASE k # n + 1
      <4>1. k \in 1 .. n
        BY <3>4
      <4> QED
        BY <2>2, <2>5, <3>1, <3>2, <3>4, <4>1
    <3> QED
      BY <3>3, <3>4
  <2>8. From(h, S, b, g, n + 1)
    BY <2>6, <2>7 DEF From
  <2> QED
    BY <1>1, <2>8
<1>4. \A n \in Nat : n \in N
  BY <1>2, <1>3, SetInduction
<1> QED
  BY <1>1, <1>4

-----------------------------------------------------------------------------
(* Division.                                                               *)
LEMMA DivFact ==
  ASSUME NEW a \in Nat, NEW b \in Nat \ {0}
  PROVE  /\ a \div b \in Nat /\ a % b \in 0 .. b - 1
         /\ a = (a \div b) * b + (a % b)
  OBVIOUS

LEMMA TenFact ==
  ASSUME NEW a \in Nat
  PROVE  /\ a \div 10 \in Nat /\ a % 10 \in 0 .. 9 /\ a = 10 * (a \div 10) + (a % 10)
         /\ (10 * a) \div 10 = a
  OBVIOUS

LEMMA TenMonotone == ASSUME NEW a \in Nat, NEW b \in Nat, a <= b PROVE a \div 10 <= b \div 10
  OBVIOUS

LEMMA RoundFact ==
  ASSUME NEW a \in Nat
  PROVE  Round(a) \in Nat /\ (a > 0 => Round(a) >= BlockSize) /\ Round(0) = 0
<1>1. BlockSize \in Nat \ {0}
  BY HeaderAssumption
<1>2. PICK q : q = (a + BlockSize - 1) \div BlockSize
  OBVIOUS
<1>3. a + BlockSize - 1 \in Nat
  BY <1>1
<1>4. q \in Nat /\ Round(a) = q * BlockSize
  BY <1>1, <1>2, <1>3, DivFact DEF Round
<1>5. a > 0 => q >= 1
  BY <1>1, <1>2
<1>6. q >= 1 => q * BlockSize >= BlockSize
  BY <1>1, <1>4
<1>7. q * BlockSize \in Nat
  BY <1>1, <1>4
<1>8. Round(0) = 0
  <2>1. (0 + BlockSize - 1) \div BlockSize = 0
    BY <1>1
  <2> QED
    BY <1>1, <2>1 DEF Round
<1> QED
  BY <1>4, <1>5, <1>6, <1>7, <1>8

-----------------------------------------------------------------------------
(* Shift takes one digit off after the other.                              *)
Rests(f, n) == f = [i \in 0 .. MaxDigits |-> IF i = 0 THEN n ELSE f[i - 1] \div 10]

LEMMA DigitsFact == MaxDigits \in Nat /\ MaxDigits = 20
  BY DEF MaxDigits

LEMMA RestsExist == ASSUME NEW n \in Nat PROVE \E f : Rests(f, n)
<1>1. PICK g : g = [k \in Nat |-> [x \in Nat |-> x \div 10]]
  OBVIOUS
<1>2. g \in [Nat -> [Nat -> Nat]]
  BY <1>1
<1>3. PICK f : From(f, Nat, n, g, MaxDigits)
  BY <1>2, DigitsFact, Iterates
<1>4. f \in [0 .. MaxDigits -> Nat] /\ f[0] = n /\ \A k \in 1 .. MaxDigits : f[k] = g[k][f[k - 1]]
  BY <1>3 DEF From
<1>5. ASSUME NEW k \in 0 .. MaxDigits PROVE f[k] = IF k = 0 THEN n ELSE f[k - 1] \div 10
  <2>1. CASE k # 0
    <3>1. k \in Nat /\ k \in 1 .. MaxDigits /\ k - 1 \in 0 .. MaxDigits
      BY <2>1, DigitsFact
    <3>2. f[k - 1] \in Nat
      BY <1>4, <3>1
    <3> QED
      BY <1>1, <1>4, <2>1, <3>1, <3>2
  <2> QED
    BY <1>4, <2>1
<1>6. f = [k \in 0 .. MaxDigits |-> f[k]]
  BY <1>4
<1>7. f = [k \in 0 .. MaxDigits |-> IF k = 0 THEN n ELSE f[k - 1] \div 10]
  BY <1>5, <1>6
<1> QED
  BY <1>7 DEF Rests

LEMMA RestsChosen == ASSUME NEW n, \E f : Rests(f, n) PROVE Rests(CHOOSE f : Rests(f, n), n)
  BY Zenon

LEMMA ShiftRests == ASSUME NEW n, NEW k PROVE Shift(n, k) = (CHOOSE f : Rests(f, n))[k]
  BY Zenon DEF Shift, Rests

LEMMA ShiftFact ==
  ASSUME NEW n \in Nat
  PROVE  /\ Shift(n, 0) = n
         /\ \A k \in 0 .. MaxDigits : Shift(n, k) \in Nat
         /\ \A k \in 1 .. MaxDigits : Shift(n, k) = Shift(n, k - 1) \div 10
<1>1. PICK f : f = CHOOSE r : Rests(r, n)
  OBVIOUS
<1>2. Rests(f, n)
  BY <1>1, RestsExist, RestsChosen, Zenon
<1>3. \A k : Shift(n, k) = f[k]
  BY <1>1, ShiftRests, Zenon
<1>4. \A k \in 0 .. MaxDigits : f[k] = IF k = 0 THEN n ELSE f[k - 1] \div 10
  BY <1>2 DEF Rests
<1>5. f[0] = n
  BY <1>4, DigitsFact
<1>6. \A k \in 1 .. MaxDigits : f[k] = f[k - 1] \div 10
  BY <1>4, DigitsFact
<1>7. PICK S : S = {k \in Nat : k <= MaxDigits => f[k] \in Nat}
  OBVIOUS
<1>8. 0 \in S
  BY <1>5, <1>7
<1>9. ASSUME NEW k \in Nat, k \in S PROVE k + 1 \in S
  <2>1. k + 1 \in Nat /\ (k + 1) - 1 = k
    OBVIOUS
  <2>2. ASSUME k + 1 <= MaxDigits PROVE f[k + 1] \in Nat
    <3>1. k + 1 \in 1 .. MaxDigits /\ k <= MaxDigits
      BY <2>2, DigitsFact
    <3>2. f[k + 1] = f[k] \div 10 /\ f[k] \in Nat
      BY <1>6, <1>7, <1>9, <2>1, <3>1
    <3> QED
      BY <3>2
  <2> QED
    BY <1>7, <2>1, <2>2
<1>10. \A k \in Nat : k \in S
  BY <1>8, <1>9, SetInduction
<1>11. \A k \in 0 .. MaxDigits : f[k] \in Nat
  BY <1>7, <1>10, DigitsFact
<1> QED
  BY <1>3, <1>5, <1>6, <1>11

LEMMA ShiftMonotone ==
  ASSUME NEW a \in Nat, NEW b \in Nat, a <= b
  PROVE  \A k \in 0 .. MaxDigits : Shift(a, k) <= Shift(b, k)
<1>1. PICK S : S = {k \in Nat : k <= MaxDigits => Shift(a, k) <= Shift(b, k)}
  OBVIOUS
<1>2. 0 \in S
  BY <1>1, ShiftFact
<1>3. ASSUME NEW k \in Nat, k \in S, k + 1 <= MaxDigits PROVE Shift(a, k + 1) <= Shift(b, k + 1)
  <2>1. k \in 0 .. MaxDigits /\ k + 1 \in 1 .. MaxDigits /\ (k + 1) - 1 = k
    BY <1>3, DigitsFact
  <2>2. Shift(a, k) \in Nat /\ Shift(b, k) \in Nat /\ Shift(a, k) <= Shift(b, k)
    BY <1>1, <1>3, <2>1, ShiftFact
  <2>3. Shift(a, k + 1) = Shift(a, k) \div 10 /\ Shift(b, k + 1) = Shift(b, k) \div 10
    BY <2>1, ShiftFact
  <2> QED
    BY <2>2, <2>3, TenMonotone
<1>4. \A k \in Nat : k \in S => k + 1 \in S
  BY <1>1, <1>3
<1>5. \A k \in Nat : k \in S
  BY <1>2, <1>4, SetInduction
<1> QED
  BY <1>1, <1>5, DigitsFact

LEMMA ShiftTen ==
  ASSUME NEW n \in Nat
  PROVE  \A k \in 1 .. MaxDigits : Shift(10 * n, k) = Shift(n, k - 1)
<1>1. PICK S : S = {k \in Nat : k + 1 <= MaxDigits => Shift(10 * n, k + 1) = Shift(n, k)}
  OBVIOUS
<1>2. 10 * n \in Nat
  OBVIOUS
<1>3. 0 \in S
  <2>1. Shift(10 * n, 1) = Shift(10 * n, 0) \div 10
    BY <1>2, ShiftFact, DigitsFact
  <2>2. Shift(10 * n, 0) = 10 * n /\ Shift(n, 0) = n
    BY <1>2, ShiftFact
  <2> QED
    BY <1>1, <2>1, <2>2, TenFact
<1>4. ASSUME NEW k \in Nat, k \in S, (k + 1) + 1 <= MaxDigits
      PROVE  Shift(10 * n, (k + 1) + 1) = Shift(n, k + 1)
  <2>1. (k + 1) + 1 \in 1 .. MaxDigits /\ k + 1 \in 1 .. MaxDigits
        /\ ((k + 1) + 1) - 1 = k + 1 /\ (k + 1) - 1 = k
    BY <1>4, DigitsFact
  <2>2. Shift(10 * n, (k + 1) + 1) = Shift(10 * n, k + 1) \div 10
    BY <1>2, <2>1, ShiftFact
  <2>3. Shift(n, k + 1) = Shift(n, k) \div 10
    BY <2>1, ShiftFact
  <2> QED
    BY <1>1, <1>4, <2>1, <2>2, <2>3
<1>5. ASSUME NEW k \in Nat, k \in S PROVE k + 1 \in S
  <2>1. k + 1 \in Nat
    OBVIOUS
  <2>2. (k + 1) + 1 <= MaxDigits => Shift(10 * n, (k + 1) + 1) = Shift(n, k + 1)
    BY <1>4, <1>5
  <2> QED
    BY <1>1, <2>1, <2>2
<1>6. \A k \in Nat : k \in S
  BY <1>3, <1>5, SetInduction
<1>7. ASSUME NEW k \in 1 .. MaxDigits PROVE Shift(10 * n, k) = Shift(n, k - 1)
  <2>1. k - 1 \in Nat /\ (k - 1) + 1 = k /\ k <= MaxDigits
    BY DigitsFact
  <2>2. k - 1 \in S
    BY <1>6, <2>1
  <2> QED
    BY <1>1, <2>1, <2>2
<1> QED
  BY <1>7

LEMMA ShiftMore ==
  ASSUME NEW n \in Nat, NEW d \in 0 .. MaxDigits, Shift(n, d) = 0
  PROVE  \A k \in d .. MaxDigits : Shift(n, k) = 0
<1>1. PICK S : S = {k \in Nat : d <= k /\ k <= MaxDigits => Shift(n, k) = 0}
  OBVIOUS
<1>2. 0 \in S
  <2>1. d <= 0 => d = 0
    BY DigitsFact
  <2> QED
    BY <1>1, <2>1
<1>3. ASSUME NEW k \in Nat, k \in S, d <= k + 1, k + 1 <= MaxDigits PROVE Shift(n, k + 1) = 0
  <2>1. k + 1 \in 1 .. MaxDigits /\ (k + 1) - 1 = k /\ (d = k + 1 \/ d <= k)
    BY <1>3, DigitsFact
  <2>2. CASE d <= k
    <3>1. Shift(n, k) = 0
      BY <1>1, <1>3, <2>1, <2>2, DigitsFact
    <3>2. Shift(n, k + 1) = Shift(n, k) \div 10
      BY <2>1, ShiftFact
    <3> QED
      BY <3>1, <3>2
  <2> QED
    BY <2>1, <2>2
<1>4. \A k \in Nat : k \in S => k + 1 \in S
  BY <1>1, <1>3
<1>5. \A k \in Nat : k \in S
  BY <1>2, <1>4, SetInduction
<1> QED
  BY <1>1, <1>5, DigitsFact

(* Digits is the least number of digits that leaves nothing.               *)
LEMMA DigitsLeast ==
  ASSUME NEW n, Writable(n)
  PROVE  /\ Digits(n) \in 1 .. MaxDigits /\ Shift(n, Digits(n)) = 0
         /\ \A d \in 1 .. MaxDigits : Shift(n, d) = 0 => Digits(n) <= d
<1>1. PICK S : S = {d \in 1 .. MaxDigits : Shift(n, d) = 0}
  OBVIOUS
<1>2. S \in SUBSET Nat /\ S # {}
  BY <1>1, DigitsFact DEF Writable
<1>3. Digits(n) = Min(S)
  BY <1>1 DEF Digits
<1>4. Min(S) \in S /\ \A y \in S : Min(S) <= y
  BY <1>2, MinFact
<1> QED
  BY <1>1, <1>3, <1>4

LEMMA DigitsMonotone ==
  ASSUME NEW b, Writable(b), NEW a \in Nat, a <= b
  PROVE  Writable(a) /\ Digits(a) <= Digits(b)
<1>1. b \in Nat /\ Shift(b, MaxDigits) = 0
  BY DEF Writable
<1>2. \A k \in 0 .. MaxDigits : Shift(a, k) \in Nat /\ Shift(a, k) <= Shift(b, k)
  BY <1>1, ShiftFact, ShiftMonotone
<1>3. Writable(a)
  <2>1. MaxDigits \in 0 .. MaxDigits
    BY DigitsFact
  <2>2. Shift(a, MaxDigits) \in Nat /\ Shift(a, MaxDigits) <= 0
    BY <1>1, <1>2, <2>1
  <2> QED
    BY <2>2 DEF Writable
<1>4. Digits(b) \in 1 .. MaxDigits /\ Shift(b, Digits(b)) = 0
  BY DigitsLeast
<1>5. Digits(b) \in 0 .. MaxDigits
  BY <1>4
<1>6. Shift(a, Digits(b)) = 0
  <2>1. Shift(a, Digits(b)) \in Nat /\ Shift(a, Digits(b)) <= 0
    BY <1>2, <1>4, <1>5
  <2> QED
    BY <2>1
<1> QED
  BY <1>3, <1>4, <1>6, DigitsLeast

LEMMA DigitsTen ==
  ASSUME NEW a, Writable(a), NEW b \in Nat, b <= 10 * a, Digits(a) < MaxDigits
  PROVE  Writable(b) /\ Digits(b) <= Digits(a) + 1
<1>1. a \in Nat /\ Digits(a) \in 1 .. MaxDigits /\ Shift(a, Digits(a)) = 0
  BY DigitsLeast DEF Writable
<1>2. PICK d : d = Digits(a) + 1
  OBVIOUS
<1>3. d \in 1 .. MaxDigits /\ d - 1 = Digits(a) /\ d \in 0 .. MaxDigits
  BY <1>1, <1>2, DigitsFact
<1>4. 10 * a \in Nat /\ Shift(10 * a, d) = 0
  BY <1>1, <1>3, ShiftTen
<1>5. \A k \in d .. MaxDigits : Shift(10 * a, k) = 0
  BY <1>3, <1>4, ShiftMore
<1>6. Writable(10 * a)
  <2>1. MaxDigits \in d .. MaxDigits
    BY <1>3, DigitsFact
  <2> QED
    BY <1>4, <1>5, <2>1 DEF Writable
<1>7. Digits(10 * a) <= d
  BY <1>3, <1>4, <1>6, DigitsLeast
<1>8. Writable(b) /\ Digits(b) <= Digits(10 * a)
  BY <1>6, DigitsMonotone
<1>9. Digits(b) \in Nat /\ Digits(10 * a) \in Nat
  BY <1>6, <1>8, DigitsLeast
<1> QED
  BY <1>2, <1>3, <1>7, <1>8, <1>9

LEMMA ShiftNext ==
  ASSUME NEW n \in Nat, NEW k \in 1 .. MaxDigits, NEW l, l = k - 1
  PROVE  Shift(n, k) = Shift(n, l) \div 10
  BY ShiftFact

LEMMA FiveDigits ==
  ASSUME NEW n \in Nat, n < 100000
  PROVE  Writable(n) /\ Digits(n) \in 1 .. 5
<1>0. \A k \in {1, 2, 3, 4, 5} : k \in 1 .. MaxDigits
  BY DigitsFact
<1>1. Shift(n, 0) = n /\ Shift(n, 1) = n \div 10 /\ Shift(n, 2) = Shift(n, 1) \div 10
  BY <1>0, ShiftFact, ShiftNext
<1>2. /\ Shift(n, 3) = Shift(n, 2) \div 10 /\ Shift(n, 4) = Shift(n, 3) \div 10
      /\ Shift(n, 5) = Shift(n, 4) \div 10
  BY <1>0, ShiftNext
<1>3. PICK m \in Nat : m = n \div 10
  OBVIOUS
<1>4. m <= 9999
  BY <1>3
<1>5. PICK k \in Nat : k = m \div 10
  OBVIOUS
<1>6. k <= 999 /\ Shift(n, 3) = k \div 10
  BY <1>1, <1>2, <1>3, <1>4, <1>5
<1>7. Shift(n, 5) = 0
  <2>1. k \div 10 \in 0 .. 99
    BY <1>6
  <2>2. (k \div 10) \div 10 \in 0 .. 9
    BY <2>1
  <2> QED
    BY <1>2, <1>6, <2>2
<1>8. 5 \in 0 .. MaxDigits /\ 5 \in 1 .. MaxDigits /\ MaxDigits \in 5 .. MaxDigits
  BY DigitsFact
<1>9. Writable(n)
  BY <1>0, <1>7, <1>8, ShiftMore DEF Writable
<1> QED
  BY <1>7, <1>8, <1>9, DigitsLeast

-----------------------------------------------------------------------------
(* Records.  The loop of add_param_str ends, and the length it finds       *)
(* counts itself: one digit more than the length with the first guess is   *)
(* always enough.                                                          *)
LongestRecord == 99000

LEMMA RecordFact ==
  ASSUME NEW len \in Nat \ {0}, len <= LongestRecord
  PROVE  /\ RecordSize(len) \in len .. len + 5
         /\ RecordSize(len) = len + Digits(RecordSize(len))
         /\ Digits(RecordSize(len)) < 6
<1>1. PICK s : s = Digits(len + 1)
  OBVIOUS
<1>2. len \in Nat /\ len <= 99000 /\ len >= 1
  BY DEF LongestRecord
<1>3. \A n \in 0 .. 20 : Writable(len + n) /\ Digits(len + n) \in 1 .. 5
  <2>1. ASSUME NEW n \in 0 .. 20 PROVE Writable(len + n) /\ Digits(len + n) \in 1 .. 5
    <3>1. PICK x : x = len + n
      OBVIOUS
    <3>2. x \in Nat /\ x < 100000
      BY <1>2, <3>1
    <3>3. Writable(x) /\ Digits(x) \in 1 .. 5
      BY <3>2, FiveDigits
    <3> QED
      BY <3>1, <3>3
  <2> QED
    BY <2>1
<1>4. s \in 1 .. 5
  BY <1>1, <1>3
<1>5. ASSUME NEW n \in 1 .. 6, n >= 1 PROVE s <= Digits(len + n) /\ Digits(len + n) <= s + 1
  <2>1. Writable(len + n) /\ Writable(len + 1) /\ len + 1 \in Nat /\ len + n \in Nat
    BY <1>2, <1>3
  <2>2. len + 1 <= len + n /\ len + n <= 10 * (len + 1)
    BY <1>2
  <2>3. Digits(len + 1) < MaxDigits
    BY <1>1, <1>4, DigitsFact
  <2>4. Digits(len + 1) <= Digits(len + n)
    BY <2>1, <2>2, DigitsMonotone
  <2>5. Digits(len + n) <= Digits(len + 1) + 1
    BY <2>1, <2>2, <2>3, DigitsTen
  <2> QED
    BY <1>1, <2>4, <2>5
<1>6. PICK S : S = {n \in Digits(len + 1) .. MaxDigits : Digits(len + n) = n}
  OBVIOUS
<1>7. S \in SUBSET Nat
  BY <1>1, <1>4, <1>6, DigitsFact
<1>8. \E m \in S : m <= 6
  <2>1. s \in s .. MaxDigits /\ s + 1 \in s .. MaxDigits
    BY <1>4, DigitsFact
  <2>2. CASE Digits(len + s) = s
    BY <1>1, <1>4, <1>6, <2>1, <2>2
  <2>3. CASE Digits(len + s) # s
    <3>1. Digits(len + s) = s + 1
      <4>1. s <= Digits(len + s) /\ Digits(len + s) <= s + 1
        BY <1>4, <1>5
      <4>2. Digits(len + s) \in Nat
        BY <1>3, <1>4
      <4> QED
        BY <1>4, <2>3, <4>1, <4>2
    <3>2. Digits(len + (s + 1)) <= s + 1 /\ Digits(len + (s + 1)) \in Nat
      <4>1. s + 1 \in 1 .. 6 /\ s + 1 \in 0 .. 20
        BY <1>4
      <4> QED
        BY <1>3, <1>5, <4>1
    <3>3. Digits(len + s) <= Digits(len + (s + 1))
      <4>1. len + s \in Nat /\ len + s <= len + (s + 1) /\ s + 1 \in 0 .. 20
        BY <1>2, <1>4
      <4>2. Writable(len + (s + 1))
        BY <1>3, <4>1
      <4> QED
        BY <4>1, <4>2, DigitsMonotone
    <3>4. Digits(len + (s + 1)) = s + 1
      BY <1>4, <3>1, <3>2, <3>3
    <3> QED
      BY <1>1, <1>4, <1>6, <2>1, <3>4
  <2> QED
    BY <2>2, <2>3
<1>9. PICK m : m = Min(S)
  OBVIOUS
<1>10. m \in S /\ m <= 6
  <2>1. Min(S) \in S /\ \A y \in S : Min(S) <= y
    BY <1>7, <1>8, MinFact
  <2>2. PICK y \in S : y <= 6
    BY <1>8
  <2>3. m \in S /\ m <= y
    BY <1>9, <2>1, <2>2
  <2>4. m \in Nat /\ y \in Nat
    BY <1>7, <2>3
  <2> QED
    BY <2>2, <2>3, <2>4
<1>11. m \in 1 .. 5 /\ Digits(len + m) = m
  <2>1. m \in Nat /\ Digits(len + m) = m
    BY <1>6, <1>7, <1>10
  <2>2. m \in 0 .. 20
    BY <1>10, <2>1
  <2> QED
    BY <1>3, <2>1, <2>2
<1>12. RecordSize(len) = len + m
  BY <1>6, <1>9 DEF RecordSize
<1> QED
  BY <1>2, <1>11, <1>12

-----------------------------------------------------------------------------
(* Times.  What decode_time makes of the digits of a fraction, and what is *)
(* made of the digits code_ns_fraction has written.                        *)
Worth(frac, i) == IF i <= Len(frac) THEN frac[i] ELSE 0
Values(v, frac) ==
  v = [i \in 0 .. FracDigits |->
         IF i = 0 THEN 0 ELSE 10 * v[i - 1] + (IF i <= Len(frac) THEN frac[i] ELSE 0)]

LEMMA FracFact ==
  FracDigits \in Nat /\ FracDigits \in 1 .. MaxDigits /\ Tick \in Nat \ {0} /\ Shift(Tick - 1, FracDigits) = 0
  BY HeaderAssumption, DigitsFact

LEMMA ValuesExist ==
  ASSUME NEW frac, \A i \in 1 .. FracDigits : Worth(frac, i) \in Nat
  PROVE  \E v : Values(v, frac)
<1>1. PICK w : w = [i \in Nat |-> IF i \in 1 .. FracDigits THEN Worth(frac, i) ELSE 0]
  OBVIOUS
<1>2. w \in [Nat -> Nat] /\ \A i \in 1 .. FracDigits : w[i] = Worth(frac, i)
  BY <1>1, FracFact
<1>3. PICK g : g = [i \in Nat |-> [x \in Nat |-> 10 * x + w[i]]]
  OBVIOUS
<1>4. g \in [Nat -> [Nat -> Nat]]
  BY <1>2, <1>3
<1>5. PICK v : From(v, Nat, 0, g, FracDigits)
  BY <1>4, FracFact, Iterates
<1>6. v \in [0 .. FracDigits -> Nat] /\ v[0] = 0 /\ \A i \in 1 .. FracDigits : v[i] = g[i][v[i - 1]]
  BY <1>5 DEF From
<1>7. ASSUME NEW i \in 0 .. FracDigits
      PROVE  v[i] = IF i = 0 THEN 0 ELSE 10 * v[i - 1] + (IF i <= Len(frac) THEN frac[i] ELSE 0)
  <2>1. CASE i # 0
    <3>1. i \in Nat /\ i \in 1 .. FracDigits /\ i - 1 \in 0 .. FracDigits
      BY <2>1, FracFact
    <3>2. v[i - 1] \in Nat
      BY <1>6, <3>1
    <3>3. v[i] = 10 * v[i - 1] + w[i]
      BY <1>3, <1>6, <3>1, <3>2
    <3>4. w[i] = IF i <= Len(frac) THEN frac[i] ELSE 0
      BY <1>2, <3>1 DEF Worth
    <3> QED
      BY <2>1, <3>3, <3>4
  <2> QED
    BY <1>6, <2>1
<1>8. v = [i \in 0 .. FracDigits |-> v[i]]
  BY <1>6
<1>9. v = [i \in 0 .. FracDigits |->
            IF i = 0 THEN 0 ELSE 10 * v[i - 1] + (IF i <= Len(frac) THEN frac[i] ELSE 0)]
  BY <1>7, <1>8
<1> QED
  BY <1>9 DEF Values

LEMMA ValuesChosen ==
  ASSUME NEW frac, \E v : Values(v, frac) PROVE Values(CHOOSE v : Values(v, frac), frac)
  BY Zenon

LEMMA TicksValues ==
  ASSUME NEW frac PROVE Ticks(frac) = (CHOOSE v : Values(v, frac))[FracDigits]
  BY Zenon DEF Ticks, Values

(* Digit i of a fraction.                                                  *)
DigitOf(ns, i) == Shift(ns, FracDigits - i) % 10

LEMMA DigitFact ==
  ASSUME NEW ns \in Nat, NEW i \in 1 .. FracDigits, NEW k, k = FracDigits - i
  PROVE  /\ k \in 0 .. FracDigits - 1 /\ DigitOf(ns, i) \in 0 .. 9
         /\ Shift(ns, k) = 10 * Shift(ns, k + 1) + DigitOf(ns, i)
<1>1. k \in 0 .. FracDigits - 1 /\ k \in 0 .. MaxDigits /\ k + 1 \in 1 .. MaxDigits /\ k = (k + 1) - 1
  BY FracFact, DigitsFact
<1>2. Shift(ns, k) \in Nat /\ Shift(ns, k + 1) = Shift(ns, k) \div 10
  BY <1>1, ShiftFact, ShiftNext
<1>3. DigitOf(ns, i) = Shift(ns, k) % 10
  BY DEF DigitOf
<1> QED
  BY <1>1, <1>2, <1>3, TenFact

LEMMA FractionFact ==
  ASSUME NEW ns \in Nat, ns > 0, ns < Tick
  PROVE  /\ Shift(ns, FracDigits) = 0
         /\ Len(Fraction(ns)) \in 1 .. FracDigits
         /\ \A i \in 1 .. FracDigits : Worth(Fraction(ns), i) = DigitOf(ns, i)
<1>1. Shift(ns, FracDigits) = 0
  <2>1. FracDigits \in 0 .. MaxDigits /\ Tick - 1 \in Nat /\ ns <= Tick - 1
    BY FracFact, DigitsFact
  <2>2. Shift(ns, FracDigits) \in Nat /\ Shift(ns, FracDigits) <= Shift(Tick - 1, FracDigits)
    BY <2>1, ShiftFact, ShiftMonotone
  <2> QED
    BY <2>2, FracFact
<1>2. PICK T : T = {k \in 0 .. FracDigits : Shift(ns, k) = 0}
  OBVIOUS
<1>3. T \in SUBSET Nat /\ FracDigits \in T
  BY <1>1, <1>2, FracFact
<1>4. PICK k \in T : \A l \in T : k <= l
  BY <1>3, Least
<1>5. k \in 1 .. FracDigits /\ Shift(ns, k) = 0
  <2>1. Shift(ns, 0) # 0
    BY ShiftFact
  <2> QED
    BY <1>2, <2>1, FracFact
<1>6. k - 1 \notin T /\ k - 1 \in 0 .. FracDigits
  <2>1. ~(k <= k - 1) /\ k - 1 \in 0 .. FracDigits
    BY <1>5, FracFact
  <2>2. PICK l : l = k - 1
    OBVIOUS
  <2>3. l \notin T
    BY <1>4, <2>1, <2>2
  <2> QED
    BY <2>1, <2>2, <2>3
<1>7. PICK j : j = FracDigits - (k - 1)
  OBVIOUS
<1>8. j \in 1 .. FracDigits /\ k - 1 = FracDigits - j /\ (k - 1) + 1 = k
  BY <1>5, <1>7, FracFact
<1>9. DigitOf(ns, j) # 0
  <2>1. Shift(ns, k - 1) = 10 * Shift(ns, (k - 1) + 1) + DigitOf(ns, j)
    BY <1>8, DigitFact
  <2>2. Shift(ns, k - 1) # 0
    BY <1>2, <1>6
  <2> QED
    BY <1>5, <1>8, <2>1, <2>2
<1>10. PICK M : M = {i \in 1 .. FracDigits : DigitOf(ns, i) # 0}
  OBVIOUS
<1>11. M \in SUBSET (0 .. FracDigits) /\ M # {}
  BY <1>8, <1>9, <1>10, FracFact
<1>12. PICK m : m = Max(M)
  OBVIOUS
<1>13. m \in M /\ \A i \in M : m >= i
  BY <1>11, <1>12, FracFact, MaxFact
<1>14. Fraction(ns) = [i \in 1 .. m |-> DigitOf(ns, i)]
  <2>1. M = {i \in 1 .. FracDigits : Shift(ns, FracDigits - i) % 10 # 0}
    BY <1>10 DEF DigitOf
  <2> QED
    BY <1>12, <2>1 DEF Fraction, DigitOf
<1>15. m \in Nat /\ m \in 1 .. FracDigits
  BY <1>10, <1>13, FracFact
<1>16. Len(Fraction(ns)) = m /\ \A i \in 1 .. m : Fraction(ns)[i] = DigitOf(ns, i)
  BY <1>14, <1>15
<1>17. ASSUME NEW i \in 1 .. FracDigits PROVE Worth(Fraction(ns), i) = DigitOf(ns, i)
  <2>1. CASE i <= m
    BY <1>15, <1>16, <2>1, FracFact DEF Worth
  <2>2. CASE ~(i <= m)
    <3>1. i \notin M
      BY <1>13, <1>15, <2>2
    <3> QED
      BY <1>10, <1>16, <2>2, <3>1 DEF Worth
  <2> QED
    BY <2>1, <2>2
<1> QED
  BY <1>1, <1>15, <1>16, <1>17

(* A fraction is read as it was written.                                   *)
LEMMA FractionKeeps ==
  ASSUME NEW ns \in Nat, ns > 0, ns < Tick
  PROVE  Fraction(ns) # <<>> /\ Ticks(Fraction(ns)) = ns
<1>1. PICK frac : frac = Fraction(ns)
  OBVIOUS
<1>2. Len(frac) \in 1 .. FracDigits /\ \A i \in 1 .. FracDigits : Worth(frac, i) = DigitOf(ns, i)
  BY <1>1, FractionFact
<1>3. \A i \in 1 .. FracDigits : Worth(frac, i) \in Nat
  <2>1. ASSUME NEW i \in 1 .. FracDigits PROVE DigitOf(ns, i) \in 0 .. 9
    BY DigitFact
  <2> QED
    BY <1>2, <2>1
<1>4. PICK v : v = CHOOSE u : Values(u, frac)
  OBVIOUS
<1>5. Values(v, frac)
  BY <1>3, <1>4, ValuesExist, ValuesChosen, Zenon
<1>6. v[0] = 0
  BY <1>5, FracFact DEF Values
<1>7. ASSUME NEW i \in 1 .. FracDigits PROVE v[i] = 10 * v[i - 1] + DigitOf(ns, i)
  <2>1. i \in 0 .. FracDigits /\ i # 0
    BY FracFact
  <2>2. v[i] = 10 * v[i - 1] + Worth(frac, i)
    BY <1>5, <2>1 DEF Values, Worth
  <2> QED
    BY <1>2, <2>2
<1>8. PICK S : S = {i \in Nat : i <= FracDigits => v[i] = Shift(ns, FracDigits - i)}
  OBVIOUS
<1>9. 0 \in S
  <2>1. FracDigits - 0 = FracDigits
    BY FracFact
  <2>2. Shift(ns, FracDigits) = 0
    BY FractionFact
  <2> QED
    BY <1>6, <1>8, <2>1, <2>2
<1>10. ASSUME NEW i \in Nat, i \in S, i + 1 <= FracDigits PROVE v[i + 1] = Shift(ns, FracDigits - (i + 1))
  <2>1. i + 1 \in 1 .. FracDigits /\ (i + 1) - 1 = i /\ i <= FracDigits
    BY <1>10, FracFact
  <2>2. v[i + 1] = 10 * v[i] + DigitOf(ns, i + 1)
    BY <1>7, <2>1
  <2>3. v[i] = Shift(ns, FracDigits - i)
    BY <1>8, <1>10, <2>1
  <2>4. PICK k : k = FracDigits - (i + 1)
    OBVIOUS
  <2>5. Shift(ns, k) = 10 * Shift(ns, k + 1) + DigitOf(ns, i + 1)
    BY <2>1, <2>4, DigitFact
  <2>6. k + 1 = FracDigits - i
    BY <2>1, <2>4, FracFact
  <2> QED
    BY <2>2, <2>3, <2>4, <2>5, <2>6
<1>11. \A i \in Nat : i \in S => i + 1 \in S
  BY <1>8, <1>10
<1>12. \A i \in Nat : i \in S
  BY <1>9, <1>11, SetInduction
<1>13. v[FracDigits] = ns
  <2>1. FracDigits - FracDigits = 0 /\ FracDigits \in Nat
    BY FracFact
  <2>2. v[FracDigits] = Shift(ns, FracDigits - FracDigits)
    BY <1>8, <1>12, FracFact
  <2>3. Shift(ns, 0) = ns
    BY ShiftFact
  <2> QED
    BY <2>1, <2>2, <2>3
<1>14. Ticks(frac) = ns
  BY <1>4, <1>13, TicksValues, Zenon
<1>15. frac # <<>>
  BY <1>2
<1> QED
  BY <1>1, <1>14, <1>15

LEMMA TimesFact == Epoch \in Nat /\ NoTime \in Nat /\ Writable(NoTime) /\ Epoch <= NoTime
  BY HeaderAssumption DEF Writable

(* A time of this epoch that is not a whole second is read as written.     *)
LEMMA TimeKeeps ==
  ASSUME NEW t \in Nat, Fractional(t), NEW junk
  PROVE  DecodeTime(CodeTime(t), junk) = t
<1>1. PICK past : past = t - Epoch
  OBVIOUS
<1>2. past \in Nat /\ ~(past < 0) /\ Tick \in Nat \ {0} /\ past % Tick # 0 /\ Epoch \in Nat
  BY <1>1, TimesFact, FracFact DEF Fractional
<1>3. PICK ns : ns = past % Tick
  OBVIOUS
<1>4. PICK sec : sec = past \div Tick
  OBVIOUS
<1>5. ns \in Nat /\ ns > 0 /\ ns < Tick /\ sec \in Nat /\ past = sec * Tick + ns
  <2>1. /\ past \div Tick \in Nat /\ past % Tick \in 0 .. Tick - 1
        /\ past = (past \div Tick) * Tick + (past % Tick)
    BY <1>2, DivFact
  <2>2. ns \in 0 .. Tick - 1 /\ ns # 0 /\ sec \in Nat /\ past = sec * Tick + ns
    BY <1>2, <1>3, <1>4, <2>1
  <2> QED
    BY <1>2, <2>2
<1>6. Fraction(ns) # <<>> /\ Ticks(Fraction(ns)) = ns
  BY <1>5, FractionKeeps
<1>7. CodeTime(t) = [minus |-> FALSE, sec |-> sec, frac |-> Fraction(ns)]
  BY <1>1, <1>2, <1>3, <1>4 DEF CodeTime
<1>8. DecodeTime(CodeTime(t), junk) = Epoch + sec * Tick + ns
  BY <1>6, <1>7 DEF DecodeTime
<1>9. sec * Tick \in Nat
  BY <1>2, <1>5
<1> QED
  BY <1>1, <1>2, <1>5, <1>8, <1>9

LEMMA QuotientFact ==
  ASSUME NEW a \in Nat, NEW b \in Nat \ {0}, a <= NoTime
  PROVE  a \div b \in Nat /\ Writable(a \div b) /\ Digits(a \div b) \in 1 .. MaxDigits
<1>1. PICK q : q = a \div b
  OBVIOUS
<1>2. q \in Nat /\ q <= a
  <2>1. q \in Nat /\ a % b \in Nat /\ a = q * b + (a % b)
    <3>1. a \div b \in Nat /\ a % b \in 0 .. b - 1 /\ a = (a \div b) * b + (a % b)
      BY DivFact
    <3>2. a % b \in Nat
      BY <3>1
    <3> QED
      BY <1>1, <3>1, <3>2
  <2>2. q <= q * b /\ q * b \in Nat
    BY <2>1
  <2> QED
    BY <2>1, <2>2
<1>3. Writable(q)
  <2>1. q <= NoTime
    BY <1>2, TimesFact
  <2> QED
    BY <1>2, <2>1, TimesFact, DigitsMonotone
<1> QED
  BY <1>1, <1>2, <1>3, DigitsLeast

(* No time takes more than 42 characters.                                  *)
LEMMA TimeIsShort == ASSUME NEW t \in 0 .. NoTime PROVE TimeLen(CodeTime(t)) \in 1 .. 42
<1>1. PICK past : past = t - Epoch
  OBVIOUS
<1>2. t \in Nat /\ past \in Int /\ Tick \in Nat \ {0} /\ past <= NoTime /\ -past <= NoTime
  BY <1>1, TimesFact, FracFact
<1>3. PICK text : text = CodeTime(t)
  OBVIOUS
<1>4. ASSUME NEW sec, Digits(sec) \in 1 .. MaxDigits, text.sec = sec,
             text.frac = <<>> \/ Len(text.frac) \in 1 .. FracDigits
      PROVE  TimeLen(text) \in 1 .. 42
  <2>1. Digits(sec) \in 1 .. 20 /\ FracDigits \in 1 .. 20
    BY <1>4, DigitsFact, FracFact
  <2>4. PICK m : m = IF text.minus THEN 1 ELSE 0
    OBVIOUS
  <2>5. PICK l : l = IF text.frac = <<>> THEN 0 ELSE 1 + Len(text.frac)
    OBVIOUS
  <2>6. TimeLen(text) = m + Digits(sec) + l
    BY <1>4, <2>4, <2>5 DEF TimeLen
  <2>2. l \in 0 .. 21
    <3>1. CASE text.frac = <<>>
      BY <2>5, <3>1
    <3>2. CASE text.frac # <<>>
      <4>1. PICK n : n = Len(text.frac)
        OBVIOUS
      <4>2. n \in 1 .. FracDigits
        BY <1>4, <3>2, <4>1
      <4>3. n \in 1 .. 20
        BY <2>1, <4>2
      <4>4. l = 1 + n
        BY <2>5, <3>2, <4>1
      <4> QED
        BY <4>3, <4>4
    <3> QED
      BY <3>1, <3>2
  <2>3. m \in 0 .. 1
    BY <2>4
  <2> QED
    BY <2>1, <2>2, <2>3, <2>6
<1>5. CASE past < 0
  <2>1. text.sec = (-past) \div Tick /\ text.frac = <<>>
    BY <1>1, <1>3, <1>5 DEF CodeTime
  <2>2. -past \in Nat
    BY <1>2, <1>5
  <2>3. Digits((-past) \div Tick) \in 1 .. MaxDigits
    BY <1>2, <2>2, QuotientFact
  <2> QED
    BY <1>3, <1>4, <2>1, <2>3
<1>6. CASE ~(past < 0)
  <2>1. text.sec = past \div Tick /\ text.frac = Fraction(past % Tick)
    BY <1>1, <1>3, <1>6 DEF CodeTime
  <2>2. past \in Nat
    BY <1>2, <1>6
  <2>3. Digits(past \div Tick) \in 1 .. MaxDigits
    BY <1>2, <2>2, QuotientFact
  <2>4. PICK ns : ns = past % Tick
    OBVIOUS
  <2>5. ns \in Nat /\ ns < Tick
    BY <1>2, <2>2, <2>4, DivFact
  <2>6. Fraction(ns) = <<>> \/ Len(Fraction(ns)) \in 1 .. FracDigits
    <3>1. CASE ns = 0
      BY <3>1 DEF Fraction
    <3>2. CASE ns # 0
      BY <2>5, <3>2, FractionFact
    <3> QED
      BY <3>1, <3>2
  <2> QED
    BY <1>3, <1>4, <2>1, <2>3, <2>4, <2>6
<1> QED
  BY <1>3, <1>5, <1>6

-----------------------------------------------------------------------------
(* The records of a file.  There is at most one of a key, and what it says *)
(* depends on nothing but the file and the configuration.                  *)
AllKeys == {"size", "flags", "mtime", "atime", "ctime", "path"}
SavedAttr(f, s) == (f.attr \ Saveable) \cup (f.attr \cap s.attr)

TimeOf(k, t) == Record(k, TimeLen(CodeTime(t)), CodeTime(t))
RecOf(f, s, k) ==
  CASE k = "size" -> Record("size", Digits(f.size), f.size)
    [] k = "flags" -> Record("flags", FlagsLen(SavedAttr(f, s)) - 1, SavedAttr(f, s))
    [] k = "mtime" -> TimeOf("mtime", f.mtime)
    [] k = "atime" -> TimeOf("atime", f.atime)
    [] k = "ctime" -> TimeOf("ctime", f.ctime)
    [] k = "path" -> Record("path", f.name.len, f.name)
RecsOf(f, s) == {RecOf(f, s, k) : k \in AllKeys}

There(f, s, k) ==
  CASE k = "size" -> f.size >= OldSizeLimit
    [] k = "flags" -> SavedAttr(f, s) # {}
    [] k = "mtime" -> f.mtime # NoTime
    [] k = "atime" -> "atime" \in s.time /\ f.atime # NoTime
    [] k = "ctime" -> "ctime" \in s.time /\ f.ctime # NoTime

(* The name field holds the name.                                          *)
NameFits(name) == name.len = name.wide /\ name.len < NameField

HasKey(recs, k) == \E i \in 1 .. Len(recs) : recs[i].key = k
Opt(c, rec) == IF c THEN <<rec>> ELSE <<>>

LEMMA FileFact ==
  ASSUME NEW f \in Files
  PROVE  /\ f.name \in [id : STRING, len : 1 .. LongestName, wide : 3 .. MaxChars + 2]
         /\ f.dir \in BOOLEAN /\ f.size \in Nat /\ Writable(f.size) /\ f.size < NoTime /\ f.attr \subseteq DOMAIN FlagLen
         /\ f.mtime \in 0 .. NoTime /\ f.atime \in 0 .. NoTime /\ f.ctime \in 0 .. NoTime
  BY FilesAssumption DEF Writable

(* A sequence of at most m members of S, with the keys K.                  *)
Built(o, S, m, K) ==
  /\ o \in Seq(S) /\ Len(o) \in 0 .. m
  /\ \A k : HasKey(o, k) <=> k \in K

KeyIf(c, k) == IF c THEN {k} ELSE {}

LEMMA OptFact ==
  ASSUME NEW S, NEW c \in BOOLEAN, NEW e \in S, NEW k, e.key = k
  PROVE  Built(Opt(c, e), S, 1, KeyIf(c, k))
<1>1. CASE c
  <2>1. PICK o : o = <<e>>
    OBVIOUS
  <2>2. o \in Seq(S) /\ Len(o) = 1 /\ o[1] = e
    BY <2>1
  <2>3. \A l : HasKey(o, l) <=> l \in {k}
    BY <2>2 DEF HasKey
  <2>4. Built(o, S, 1, {k})
    BY <2>2, <2>3 DEF Built
  <2> QED
    BY <1>1, <2>1, <2>4 DEF Opt, KeyIf
<1>2. CASE ~c
  <2>1. PICK o \in Seq(S) : o = <<>>
    BY EmptySeq
  <2>2. Len(o) = 0
    BY <2>1
  <2>3. \A l : HasKey(o, l) <=> l \in {}
    BY <2>2 DEF HasKey
  <2>4. Built(o, S, 1, {})
    BY <2>2, <2>3 DEF Built
  <2> QED
    BY <1>2, <2>1, <2>4 DEF Opt, KeyIf
<1> QED
  BY <1>1, <1>2

LEMMA JoinFact ==
  ASSUME NEW S, NEW a \in Seq(S), NEW b \in Seq(S), NEW t, t = a \o b
  PROVE  /\ t \in Seq(S) /\ Len(t) = Len(a) + Len(b)
         /\ \A k : HasKey(t, k) <=> HasKey(a, k) \/ HasKey(b, k)
<1>1. Len(a) \in Nat /\ Len(b) \in Nat
  BY LenProperties
<1>2. /\ t \in Seq(S) /\ Len(t) = Len(a) + Len(b)
      /\ \A i \in 1 .. Len(a) + Len(b) : t[i] = IF i <= Len(a) THEN a[i] ELSE b[i - Len(a)]
  BY ConcatProperties
<1>3. ASSUME NEW k, HasKey(t, k) PROVE HasKey(a, k) \/ HasKey(b, k)
  <2>1. PICK i \in 1 .. Len(a) + Len(b) : t[i].key = k
    BY <1>2, <1>3 DEF HasKey
  <2>2. CASE i <= Len(a)
    <3>1. i \in 1 .. Len(a) /\ a[i].key = k
      BY <1>1, <1>2, <2>1, <2>2
    <3> QED
      BY <3>1 DEF HasKey
  <2>3. CASE ~(i <= Len(a))
    <3>1. i - Len(a) \in 1 .. Len(b)
      BY <1>1, <2>3
    <3>2. b[i - Len(a)].key = k
      BY <1>2, <2>1, <2>3
    <3> QED
      BY <3>1, <3>2 DEF HasKey
  <2> QED
    BY <2>2, <2>3
<1>4. ASSUME NEW k, HasKey(a, k) PROVE HasKey(t, k)
  <2>1. PICK i \in 1 .. Len(a) : a[i].key = k
    BY <1>4 DEF HasKey
  <2>2. i \in 1 .. Len(t) /\ t[i] = a[i]
    BY <1>1, <1>2
  <2> QED
    BY <2>1, <2>2 DEF HasKey
<1>5. ASSUME NEW k, HasKey(b, k) PROVE HasKey(t, k)
  <2>1. PICK i \in 1 .. Len(b) : b[i].key = k
    BY <1>5 DEF HasKey
  <2>2. PICK j : j = i + Len(a)
    OBVIOUS
  <2>3. j \in 1 .. Len(a) + Len(b) /\ ~(j <= Len(a)) /\ j - Len(a) = i
    BY <1>1, <2>2
  <2>4. j \in 1 .. Len(t) /\ t[j] = b[i]
    BY <1>2, <2>3
  <2> QED
    BY <2>1, <2>4 DEF HasKey
<1> QED
  BY <1>2, <1>3, <1>4, <1>5

LEMMA JoinBuilt ==
  ASSUME NEW S, NEW a, NEW m \in Nat, NEW K, Built(a, S, m, K),
         NEW b, NEW L, Built(b, S, 1, L), NEW l, l = m + 1, NEW t, t = a \o b
  PROVE  Built(t, S, l, K \cup L)
<1>1. a \in Seq(S) /\ Len(a) \in 0 .. m /\ \A k : HasKey(a, k) <=> k \in K
  BY DEF Built
<1>2. b \in Seq(S) /\ Len(b) \in 0 .. 1 /\ \A k : HasKey(b, k) <=> k \in L
  BY DEF Built
<1>3. /\ t \in Seq(S) /\ Len(t) = Len(a) + Len(b)
      /\ \A k : HasKey(t, k) <=> HasKey(a, k) \/ HasKey(b, k)
  BY <1>1, <1>2, JoinFact
<1>4. PICK x : x = Len(a)
  OBVIOUS
<1>5. PICK y : y = Len(b)
  OBVIOUS
<1>6. x \in 0 .. m /\ y \in 0 .. 1 /\ Len(t) = x + y
  BY <1>1, <1>2, <1>3, <1>4, <1>5
<1>7. Len(t) \in 0 .. l
  BY <1>6
<1>8. \A k : HasKey(t, k) <=> k \in K \cup L
  BY <1>1, <1>2, <1>3
<1> QED
  BY <1>3, <1>7, <1>8 DEF Built

LEMMA RecordsAre ==
  ASSUME NEW f \in Files, NEW s
  PROVE  \E data :
           /\ data = Opt(There(f, s, "size"), RecOf(f, s, "size"))
                     \o Opt(There(f, s, "flags"), RecOf(f, s, "flags"))
                     \o Opt(There(f, s, "mtime"), RecOf(f, s, "mtime"))
                     \o Opt(There(f, s, "atime"), RecOf(f, s, "atime"))
                     \o Opt(There(f, s, "ctime"), RecOf(f, s, "ctime"))
           /\ Records(f, s) =
                data \o Opt(~NameFits(f.name) \/ data = <<>>, RecOf(f, s, "path"))
<1>1. SizeRecord(f.size) = Opt(There(f, s, "size"), RecOf(f, s, "size"))
  BY DEF SizeRecord, Opt, There, RecOf
<1>2. Flags(SavedAttr(f, s)) = Opt(There(f, s, "flags"), RecOf(f, s, "flags"))
  BY DEF Flags, Opt, There, RecOf
<1>3. TimeRecord("mtime", f.mtime) = Opt(There(f, s, "mtime"), RecOf(f, s, "mtime"))
  BY DEF TimeRecord, TimeOf, Opt, There, RecOf
<1>4. (IF "atime" \in s.time THEN TimeRecord("atime", f.atime) ELSE <<>>)
      = Opt(There(f, s, "atime"), RecOf(f, s, "atime"))
  BY DEF TimeRecord, TimeOf, Opt, There, RecOf
<1>5. (IF "ctime" \in s.time THEN TimeRecord("ctime", f.ctime) ELSE <<>>)
      = Opt(There(f, s, "ctime"), RecOf(f, s, "ctime"))
  BY DEF TimeRecord, TimeOf, Opt, There, RecOf
<1>6. PICK data : data = SizeRecord(f.size) \o Flags(SavedAttr(f, s))
                         \o TimeRecord("mtime", f.mtime)
                         \o (IF "atime" \in s.time THEN TimeRecord("atime", f.atime) ELSE <<>>)
                         \o (IF "ctime" \in s.time THEN TimeRecord("ctime", f.ctime) ELSE <<>>)
  OBVIOUS
<1>7. Records(f, s) = data \o PathRecord(f.name, data)
  BY <1>6, Zenon DEF Records, SavedAttr
<1>8. PathRecord(f.name, data) = Opt(~NameFits(f.name) \/ data = <<>>, RecOf(f, s, "path"))
  <2>1. f.name.len \in Nat /\ NameField \in Nat
    <3>1. f.name.len \in 1 .. LongestName
      BY FileFact
    <3> QED
      BY <3>1, HeaderAssumption
  <2>2. ~NameFits(f.name) <=> f.name.len # f.name.wide \/ f.name.len >= NameField
    BY <2>1 DEF NameFits
  <2> QED
    BY <2>2 DEF PathRecord, Opt, RecOf
<1> QED
  BY <1>1, <1>2, <1>3, <1>4, <1>5, <1>6, <1>7, <1>8, Zenon

(* The sequence with the record of a key, if it is there.                  *)
Part(f, s, k) == Opt(There(f, s, k), RecOf(f, s, k))
Has(f, s, k) == KeyIf(There(f, s, k), k)

LEMMA PartFact ==
  ASSUME NEW f, NEW s, NEW k \in AllKeys \ {"path"}
  PROVE  Built(Part(f, s, k), RecsOf(f, s), 1, Has(f, s, k))
<1>1. RecOf(f, s, k) \in RecsOf(f, s)
  BY DEF RecsOf
<1>2. RecOf(f, s, k).key = k
  BY DEF AllKeys, RecOf, Record, TimeOf
<1>3. There(f, s, k) \in BOOLEAN
  <2>1. There(f, s, "size") \in BOOLEAN /\ There(f, s, "flags") \in BOOLEAN
        /\ There(f, s, "mtime") \in BOOLEAN
    BY DEF There
  <2>2. There(f, s, "atime") \in BOOLEAN /\ There(f, s, "ctime") \in BOOLEAN
    BY DEF There
  <2> QED
    BY <2>1, <2>2 DEF AllKeys
<1> QED
  BY <1>1, <1>2, <1>3, OptFact DEF Part, Has

LEMMA RecordsFact ==
  ASSUME NEW f \in Files, NEW s, NEW recs, recs = Records(f, s)
  PROVE  /\ recs \in Seq(RecsOf(f, s)) /\ Len(recs) \in 1 .. 6
         /\ \A k \in AllKeys \ {"path"} : HasKey(recs, k) <=> There(f, s, k)
         /\ ~HasKey(recs, "path") => NameFits(f.name)
<1>1. PICK S : S = RecsOf(f, s)
  OBVIOUS
<1>2. PICK data :
        /\ data = Part(f, s, "size") \o Part(f, s, "flags") \o Part(f, s, "mtime")
                  \o Part(f, s, "atime") \o Part(f, s, "ctime")
        /\ Records(f, s) = data \o Opt(~NameFits(f.name) \/ data = <<>>, RecOf(f, s, "path"))
  BY RecordsAre, Zenon DEF Part
<1>3. \A k \in AllKeys \ {"path"} : Built(Part(f, s, k), S, 1, Has(f, s, k))
  BY <1>1, PartFact
<1>4. /\ Built(Part(f, s, "size"), S, 1, Has(f, s, "size"))
      /\ Built(Part(f, s, "flags"), S, 1, Has(f, s, "flags"))
      /\ Built(Part(f, s, "mtime"), S, 1, Has(f, s, "mtime"))
      /\ Built(Part(f, s, "atime"), S, 1, Has(f, s, "atime"))
      /\ Built(Part(f, s, "ctime"), S, 1, Has(f, s, "ctime"))
  BY <1>3 DEF AllKeys
<1>5. PICK d2 : d2 = Part(f, s, "size") \o Part(f, s, "flags")
  OBVIOUS
<1>6. PICK d3 : d3 = d2 \o Part(f, s, "mtime")
  OBVIOUS
<1>7. PICK d4 : d4 = d3 \o Part(f, s, "atime")
  OBVIOUS
<1>8. data = d4 \o Part(f, s, "ctime")
  BY <1>2, <1>5, <1>6, <1>7
<1>9. 1 \in Nat /\ 2 \in Nat /\ 3 \in Nat /\ 4 \in Nat /\ 5 \in Nat
      /\ 2 = 1 + 1 /\ 3 = 2 + 1 /\ 4 = 3 + 1 /\ 5 = 4 + 1 /\ 6 = 5 + 1
  OBVIOUS
<1>10. Built(d2, S, 2, Has(f, s, "size") \cup Has(f, s, "flags"))
  BY <1>4, <1>5, <1>9, JoinBuilt
<1>11. PICK K3 : K3 = Has(f, s, "size") \cup Has(f, s, "flags") \cup Has(f, s, "mtime")
  OBVIOUS
<1>12. Built(d3, S, 3, K3)
  BY <1>4, <1>6, <1>9, <1>10, <1>11, JoinBuilt
<1>13. PICK K4 : K4 = K3 \cup Has(f, s, "atime")
  OBVIOUS
<1>14. Built(d4, S, 4, K4)
  BY <1>4, <1>7, <1>9, <1>12, <1>13, JoinBuilt
<1>15. PICK K5 : K5 = K4 \cup Has(f, s, "ctime")
  OBVIOUS
<1>16. Built(data, S, 5, K5)
  BY <1>4, <1>8, <1>9, <1>14, <1>15, JoinBuilt
<1>17. PICK p : p = (~NameFits(f.name) \/ data = <<>>)
  OBVIOUS
<1>18. Built(Opt(p, RecOf(f, s, "path")), S, 1, KeyIf(p, "path")) /\ p \in BOOLEAN
  <2>1. RecOf(f, s, "path") \in S /\ RecOf(f, s, "path").key = "path" /\ p \in BOOLEAN
    BY <1>1, <1>17 DEF RecsOf, AllKeys, RecOf, Record
  <2> QED
    BY <2>1, OptFact
<1>19. recs = data \o Opt(p, RecOf(f, s, "path"))
  BY <1>2, <1>17
<1>20. PICK K : K = K5 \cup KeyIf(p, "path")
  OBVIOUS
<1>21. Built(recs, S, 6, K)
  BY <1>9, <1>16, <1>18, <1>19, <1>20, JoinBuilt
<1>22. recs \in Seq(S) /\ Len(recs) \in 0 .. 6 /\ \A k : HasKey(recs, k) <=> k \in K
  BY <1>21 DEF Built
<1>23. Len(recs) \in 1 .. 6
  <2>1. CASE p
    <3>1. HasKey(recs, "path")
      BY <1>20, <1>22, <2>1 DEF KeyIf
    <3>2. PICK i \in 1 .. Len(recs) : TRUE
      BY <3>1 DEF HasKey
    <3> QED
      BY <1>22, <3>2
  <2>2. CASE ~p
    <3>1. data # <<>>
      BY <1>17, <2>2
    <3>2. data \in Seq(S)
      BY <1>16 DEF Built
    <3>3. recs = data
      BY <1>19, <2>2, <3>2, ConcatEmptySeq DEF Opt
    <3>4. Len(recs) # 0
      BY <3>1, <3>2, <3>3, EmptySeq
    <3> QED
      BY <1>22, <3>4
  <2> QED
    BY <2>1, <2>2
<1>24. \A k \in AllKeys \ {"path"} : HasKey(recs, k) <=> There(f, s, k)
  <2>1. \A k : k \in K <=> \/ k \in Has(f, s, "size") \/ k \in Has(f, s, "flags")
                           \/ k \in Has(f, s, "mtime") \/ k \in Has(f, s, "atime")
                           \/ k \in Has(f, s, "ctime") \/ k \in KeyIf(p, "path")
    BY <1>11, <1>13, <1>15, <1>20
  <2>2. \A k \in AllKeys \ {"path"} : k \in K <=> There(f, s, k)
    BY <2>1 DEF AllKeys, Has, KeyIf
  <2> QED
    BY <1>22, <2>2
<1>25. ~HasKey(recs, "path") => NameFits(f.name)
  BY <1>17, <1>20, <1>22 DEF KeyIf
<1> QED
  BY <1>1, <1>22, <1>23, <1>24, <1>25

(* What add_attr writes takes at most 43 characters.                       *)
LEMMA FlagsAreShort == ASSUME NEW attr PROVE FlagsLen(attr) \in 0 .. 43
<1>1. PICK a \in 0 .. 9 : a = IF "readonly" \in attr THEN 9 ELSE 0
  OBVIOUS
<1>2. PICK b \in 0 .. 7 : b = IF "hidden" \in attr THEN 7 ELSE 0
  OBVIOUS
<1>3. PICK c \in 0 .. 7 : c = IF "system" \in attr THEN 7 ELSE 0
  OBVIOUS
<1>4. PICK d \in 0 .. 9 : d = IF "archived" \in attr THEN 9 ELSE 0
  OBVIOUS
<1>5. PICK e \in 0 .. 11 : e = IF "compressed" \in attr THEN 11 ELSE 0
  OBVIOUS
<1>6. FlagsLen(attr) = a + b + c + d + e
  BY <1>1, <1>2, <1>3, <1>4, <1>5 DEF FlagsLen, FlagLen
<1>7. a + b + c + d + e \in 0 .. 43
  OBVIOUS
<1> QED
  BY <1>6, <1>7

LEMMA LongestIs == LongestName \in Nat
  BY DEF LongestName

LEMMA MadeRecord ==
  ASSUME NEW k \in AllKeys, NEW n \in Int, -1 <= n, n <= LongestName, NEW v, NEW r, r = Record(k, n, v)
  PROVE  /\ r.key = k /\ r.value = v
         /\ r.size = TextLen(r) /\ r.size \in Nat \ {0} /\ r.size < 100000 /\ Digits(r.size) < 6
<1>1. PICK kl : kl = KeyLen[k]
  OBVIOUS
<1>2. kl \in 4 .. 13
  BY <1>1 DEF KeyLen, AllKeys
<1>3. PICK len : len = kl + n + 3
  OBVIOUS
<1>a. len \in Nat /\ len >= 1
  BY <1>2, <1>3
<1>c. len <= 99000
  BY <1>2, <1>3 DEF LongestName
<1>4. len \in Nat \ {0} /\ len <= LongestRecord
  BY <1>a, <1>c DEF LongestRecord
<1>5. r.key = k /\ r.len = len /\ r.size = RecordSize(len) /\ r.value = v
  BY <1>1, <1>3 DEF Record
<1>6. PICK x : x = RecordSize(len)
  OBVIOUS
<1>7. x \in len .. len + 5 /\ x = len + Digits(x) /\ Digits(x) < 6
  BY <1>4, <1>6, RecordFact
<1>b. x \in Nat /\ x >= len /\ x <= len + 5
  BY <1>7, <1>a
<1>8. x \in Nat \ {0} /\ x < 100000
  BY <1>a, <1>b, <1>c
<1>9. Digits(x) = x - len
  <2>1. Digits(x) \in 1 .. 5
    BY <1>8, FiveDigits
  <2>2. x = len + Digits(x)
    BY <1>7
  <2> QED
    BY <1>a, <1>b, <2>1, <2>2
<1>10. TextLen(r) = x
  <2>1. TextLen(r) = Digits(x) + len
    BY <1>5, <1>6 DEF TextLen
  <2>2. x \in Int /\ len \in Int
    BY <1>a, <1>b
  <2> QED
    BY <1>9, <2>1, <2>2
<1> QED
  BY <1>5, <1>6, <1>7, <1>8, <1>10

LEMMA RecOfIs ==
  ASSUME NEW f, NEW s
  PROVE  /\ RecOf(f, s, "size") = Record("size", Digits(f.size), f.size)
         /\ RecOf(f, s, "flags") = Record("flags", FlagsLen(SavedAttr(f, s)) - 1, SavedAttr(f, s))
         /\ RecOf(f, s, "mtime") = TimeOf("mtime", f.mtime)
         /\ RecOf(f, s, "atime") = TimeOf("atime", f.atime)
         /\ RecOf(f, s, "ctime") = TimeOf("ctime", f.ctime)
         /\ RecOf(f, s, "path") = Record("path", f.name.len, f.name)
  BY Zenon DEF RecOf

(* A record says what it is long, in less than six digits.                 *)
Wellformed(r, k) ==
  /\ r.key = k /\ r.size = TextLen(r)
  /\ r.size \in Nat \ {0} /\ r.size < 100000 /\ Digits(r.size) < 6

LEMMA TimeRecFact ==
  ASSUME NEW k \in AllKeys, NEW t \in 0 .. NoTime
  PROVE  Wellformed(TimeOf(k, t), k)
<1>1. PICK n : n = TimeLen(CodeTime(t))
  OBVIOUS
<1>2. n \in 1 .. 42
  BY <1>1, TimeIsShort
<1>3. n \in Int /\ -1 <= n /\ n <= LongestName
  BY <1>2 DEF LongestName
<1>4. PICK r : r = Record(k, n, CodeTime(t))
  OBVIOUS
<1>5. Wellformed(r, k)
  BY <1>3, <1>4, MadeRecord DEF Wellformed
<1> QED
  BY <1>1, <1>4, <1>5 DEF TimeOf

LEMMA RecFact ==
  ASSUME NEW f \in Files, NEW s, NEW k \in AllKeys
  PROVE  Wellformed(RecOf(f, s, k), k)
<1>1. \A n \in -1 .. 43 : n \in Int /\ -1 <= n /\ n <= LongestName
  BY DEF LongestName
<1>k. /\ "size" \in AllKeys /\ "flags" \in AllKeys /\ "mtime" \in AllKeys
      /\ "atime" \in AllKeys /\ "ctime" \in AllKeys /\ "path" \in AllKeys
  BY DEF AllKeys
<1>0. \A v : \A l \in AllKeys, n \in Int : -1 <= n /\ n <= LongestName => Wellformed(Record(l, n, v), l)
  BY MadeRecord DEF Wellformed
<1>2. Wellformed(RecOf(f, s, "size"), "size")
  <2>1. f.size \in Nat /\ Writable(f.size)
    BY FileFact
  <2>2. Digits(f.size) \in 1 .. MaxDigits
    BY <2>1, DigitsLeast
  <2>3. Digits(f.size) \in 0 .. 43
    BY <2>2, DigitsFact
  <2>4. Digits(f.size) \in Int /\ -1 <= Digits(f.size) /\ Digits(f.size) <= LongestName
    BY <1>1, <2>3
  <2> QED
    BY <1>0, <1>k, <2>4, RecOfIs
<1>3. Wellformed(RecOf(f, s, "flags"), "flags")
  <2>1. PICK n : n = FlagsLen(SavedAttr(f, s))
    OBVIOUS
  <2>2. n \in 0 .. 43
    BY <2>1, FlagsAreShort
  <2>3. RecOf(f, s, "flags") = Record("flags", n - 1, SavedAttr(f, s))
    BY <2>1, RecOfIs
  <2>4. n - 1 \in -1 .. 43
    BY <2>2
  <2> QED
    BY <1>0, <1>1, <1>k, <2>3, <2>4
<1>4. Wellformed(RecOf(f, s, "mtime"), "mtime")
  BY <1>k, TimeRecFact, FileFact, RecOfIs
<1>5. Wellformed(RecOf(f, s, "atime"), "atime")
  BY <1>k, TimeRecFact, FileFact, RecOfIs
<1>6. Wellformed(RecOf(f, s, "ctime"), "ctime")
  BY <1>k, TimeRecFact, FileFact, RecOfIs
<1>7. Wellformed(RecOf(f, s, "path"), "path")
  <2>1. f.name.len \in 1 .. LongestName
    BY FileFact
  <2>2. f.name.len \in Int /\ -1 <= f.name.len /\ f.name.len <= LongestName
    BY <2>1, LongestIs
  <2> QED
    BY <1>0, <1>k, <2>2, RecOfIs
<1>8. k \in {"size", "flags", "mtime", "atime", "ctime", "path"}
  BY DEF AllKeys
<1> QED
  BY <1>2, <1>3, <1>4, <1>5, <1>6, <1>7, <1>8

-----------------------------------------------------------------------------
(* The header of a file.  The records are at most six, so that what they   *)
(* take is far below the limit of add_header.                              *)
Sums(v, recs) ==
  v = [n \in 0 .. Len(recs) |-> IF n = 0 THEN 0 ELSE v[n - 1] + TextLen(recs[n])]

LEMMA SumsExist ==
  ASSUME NEW recs, Len(recs) \in Nat, \A i \in 1 .. Len(recs) : TextLen(recs[i]) \in Nat
  PROVE  \E v : Sums(v, recs)
<1>0. PICK m : m = Len(recs)
  OBVIOUS
<1>m. m \in Nat
  BY <1>0
<1>1. PICK w : w = [i \in Nat |-> IF i \in 1 .. m THEN TextLen(recs[i]) ELSE 0]
  OBVIOUS
<1>2. w \in [Nat -> Nat] /\ \A i \in 1 .. m : w[i] = TextLen(recs[i])
  BY <1>0, <1>m, <1>1
<1>3. PICK g : g = [i \in Nat |-> [x \in Nat |-> x + w[i]]]
  OBVIOUS
<1>4. g \in [Nat -> [Nat -> Nat]]
  <2>1. \A i \in Nat : w[i] \in Nat
    BY <1>2
  <2>2. \A i \in Nat, x \in Nat : x + w[i] \in Nat
    BY <2>1
  <2> QED
    BY <1>3, <2>2
<1>5. PICK v : From(v, Nat, 0, g, m)
  BY <1>4, <1>m, Iterates
<1>6. v \in [0 .. m -> Nat] /\ v[0] = 0 /\ \A i \in 1 .. m : v[i] = g[i][v[i - 1]]
  BY <1>5 DEF From
<1>7. ASSUME NEW i \in 0 .. m
      PROVE  v[i] = IF i = 0 THEN 0 ELSE v[i - 1] + TextLen(recs[i])
  <2>1. CASE i # 0
    <3>1. i \in Nat /\ i \in 1 .. m /\ i - 1 \in 0 .. m
      BY <2>1, <1>m
    <3>2. v[i - 1] \in Nat
      BY <1>6, <3>1
    <3>3. v[i] = v[i - 1] + w[i]
      BY <1>3, <1>6, <3>1, <3>2
    <3>4. w[i] = TextLen(recs[i])
      BY <1>2, <3>1
    <3> QED
      BY <2>1, <3>3, <3>4
  <2> QED
    BY <1>6, <2>1
<1>8. v = [i \in 0 .. m |-> v[i]]
  BY <1>6
<1>9. v = [i \in 0 .. m |-> IF i = 0 THEN 0 ELSE v[i - 1] + TextLen(recs[i])]
  BY <1>7, <1>8
<1> QED
  BY <1>0, <1>9 DEF Sums

LEMMA SumsChosen ==
  ASSUME NEW recs, \E v : Sums(v, recs) PROVE Sums(CHOOSE v : Sums(v, recs), recs)
  BY Zenon

LEMMA DataSizeSums ==
  ASSUME NEW recs PROVE DataSize(recs) = (CHOOSE v : Sums(v, recs))[Len(recs)]
  BY Zenon DEF DataSize, Sums

LEMMA SumsBounded ==
  ASSUME NEW recs, NEW m \in Nat, m = Len(recs), NEW top \in Nat, NEW v, Sums(v, recs),
         \A i \in 1 .. m : TextLen(recs[i]) \in Nat /\ TextLen(recs[i]) >= 1 /\ TextLen(recs[i]) <= top
  PROVE  v[m] \in Nat /\ v[m] >= m /\ v[m] <= m * top
<1>5. v[0] = 0 /\ \A n \in 1 .. m : v[n] = v[n - 1] + TextLen(recs[n])
  BY DEF Sums
<1>8. PICK N : N = {n \in Nat : n <= m => (v[n] \in Nat /\ v[n] >= n /\ v[n] <= n * top)}
  OBVIOUS
<1>9. 0 \in N
  BY <1>5, <1>8
<1>10. ASSUME NEW n \in Nat, n \in N PROVE n + 1 \in N
  <2>1. CASE n + 1 <= m
    <3>1. v[n] \in Nat /\ v[n] >= n /\ v[n] <= n * top
      BY <1>8, <1>10, <2>1
    <3>2. n + 1 \in 1 .. m /\ (n + 1) - 1 = n
      BY <2>1
    <3>3. v[n + 1] = v[n] + TextLen(recs[n + 1])
      BY <1>5, <3>2
    <3>4. PICK x : x = TextLen(recs[n + 1])
      OBVIOUS
    <3>5. x \in Nat /\ x >= 1 /\ x <= top
      BY <3>2, <3>4
    <3>6. (n + 1) * top = n * top + top
      OBVIOUS
    <3>7. v[n + 1] \in Nat /\ v[n + 1] >= n + 1 /\ v[n + 1] <= n * top + top
      <4>1. PICK y : y = v[n]
        OBVIOUS
      <4>2. PICK z : z = n * top
        OBVIOUS
      <4>3. z \in Nat
        BY <4>2
      <4>5. y + x \in Nat /\ y + x >= n + 1 /\ y + x <= z + top
        BY <3>1, <3>5, <4>1, <4>2, <4>3
      <4> QED
        BY <3>3, <3>4, <4>1, <4>2, <4>5
    <3> QED
      BY <1>8, <3>6, <3>7
  <2> QED
    BY <1>8, <2>1
<1>11. m \in N
  BY <1>9, <1>10, SetInduction
<1> QED
  BY <1>8, <1>11

(* The length of a record that five digits can say.                        *)
Short(n) == n \in Nat \ {0} /\ n < 100000

LEMMA DataSizeFact ==
  ASSUME NEW recs, Len(recs) \in 1 .. 6,
         \A i \in 1 .. Len(recs) : Short(TextLen(recs[i]))
  PROVE  DataSize(recs) \in Nat /\ DataSize(recs) > 0 /\ DataSize(recs) < HeaderLimit
<1>1. PICK m : m = Len(recs)
  OBVIOUS
<1>2. m \in Nat /\ m \in 1 .. 6
  BY <1>1
<1>3. PICK v : v = CHOOSE w : Sums(w, recs)
  OBVIOUS
<1>6. PICK top \in Nat : top = 100000
  OBVIOUS
<1>7. \A i \in 1 .. m : TextLen(recs[i]) \in Nat /\ TextLen(recs[i]) >= 1 /\ TextLen(recs[i]) <= top
  BY <1>1, <1>6 DEF Short
<1>2a. m \in Nat
  BY <1>2
<1>4. Sums(v, recs)
  <2>1. \E w : Sums(w, recs)
    BY <1>1, <1>2a, <1>7, SumsExist
  <2> QED
    BY <1>3, <2>1, SumsChosen
<1>12. v[m] \in Nat /\ v[m] >= m /\ v[m] <= m * top
  BY <1>1, <1>2a, <1>4, <1>7, SumsBounded
<1>13. m * top \in Nat /\ m * top <= 600000
  BY <1>2, <1>6
<1>15. v[m] > 0 /\ v[m] <= 600000
  BY <1>2, <1>12, <1>13
<1>16. DataSize(recs) = v[m]
  BY <1>1, <1>3, DataSizeSums
<1>17. HeaderLimit = 1048576
  BY DEF HeaderLimit
<1> QED
  BY <1>12, <1>15, <1>16, <1>17

LEMMA HeaderFact ==
  ASSUME NEW f \in Files, NEW s, NEW h, h = CreateHeader(f, s)
  PROVE  /\ Readable(h) /\ WrittenSize(h) = HeaderSize(h)
         /\ HeaderSize(h) \in Nat /\ HeaderSize(h) >= 2 * BlockSize
<1>1. PICK recs : recs = Records(f, s)
  OBVIOUS
<1>2. recs \in Seq(RecsOf(f, s)) /\ Len(recs) \in 1 .. 6
  BY <1>1, RecordsFact
<1>3. ASSUME NEW i \in 1 .. Len(recs)
      PROVE  /\ Short(TextLen(recs[i]))
             /\ Digits(recs[i].size) < 6 /\ recs[i].size = TextLen(recs[i])
             /\ ~TooLarge(h, recs[i])
  <2>1. recs[i] \in RecsOf(f, s)
    BY <1>2, ElementOfSeq
  <2>2. PICK k \in AllKeys : recs[i] = RecOf(f, s, k)
    BY <2>1 DEF RecsOf
  <2>3. Wellformed(recs[i], k)
    BY <2>2, RecFact
  <2>4. ASSUME recs[i].key = "size" PROVE recs[i].value < NoTime
    <3>1. recs[i] = Record("size", Digits(f.size), f.size)
      BY <2>2, <2>3, <2>4, RecOfIs DEF Wellformed
    <3>2. recs[i].value = f.size
      BY <3>1 DEF Record
    <3> QED
      BY <3>2, FileFact
  <2>5. ~TooLarge(h, recs[i])
    <3>1. ASSUME TooLarge(h, recs[i]) PROVE FALSE
      <4>1. recs[i].key = "size" /\ recs[i].value >= NoTime /\ recs[i].value < NoTime
        BY <2>4, <3>1 DEF TooLarge
      <4>2. recs[i].value = f.size /\ f.size \in Nat /\ NoTime \in Nat
        <5>1. recs[i] = Record("size", Digits(f.size), f.size)
          BY <2>2, <2>3, <4>1, RecOfIs DEF Wellformed
        <5> QED
          BY <5>1, FileFact, HeaderAssumption DEF Record, Writable
      <4> QED
        BY <4>1, <4>2
    <3> QED
      BY <3>1
  <2> QED
    BY <2>3, <2>5 DEF Wellformed, Short
<1>4. PICK pax : pax = DataSize(recs)
  OBVIOUS
<1>5. pax \in Nat /\ pax > 0 /\ pax < HeaderLimit
  BY <1>2, <1>3, <1>4, DataSizeFact
<1>6. h.recs = recs /\ h.pax = pax
  BY <1>1, <1>4 DEF CreateHeader
<1>7. Readable(h)
  BY <1>3, <1>5, <1>6 DEF Readable
<1>8. Round(pax) \in Nat /\ Round(pax) >= BlockSize /\ BlockSize \in Nat
  BY <1>5, RoundFact, HeaderAssumption
<1>9. PICK x : x = Round(pax)
  OBVIOUS
<1>10. HeaderSize(h) = 2 * BlockSize + x /\
      WrittenSize(h) = BlockSize + (IF x < BlockSize THEN BlockSize ELSE x) + BlockSize
  BY <1>6, <1>9 DEF HeaderSize, WrittenSize
<1> QED
  BY <1>7, <1>8, <1>9, <1>10

-----------------------------------------------------------------------------
(* What parse_header makes of a header that create_header has written: of  *)
(* each key what the record of the file says, as soon as one was seen.     *)
Seen(recs, n, k) == \E i \in 1 .. n : recs[i].key = k

Info(name, sz, attr, mtime, ctime) ==
  [name |-> name, size |-> sz, attr |-> attr, mtime |-> mtime, ctime |-> ctime]

KnownName(f, recs, n) == IF Seen(recs, n, "path") THEN f.name ELSE Cut(f.name)
KnownSize(f, recs, n) ==
  IF f.dir THEN 0 ELSE IF Seen(recs, n, "size") THEN f.size ELSE Smaller(f.size, OldSizeLimit)
KnownAttr(f, s, recs, n) ==
  ((IF "readonly" \in f.attr THEN {"readonly"} ELSE {}) \cup {IF f.dir THEN "directory" ELSE "normal"})
  \cup (IF Seen(recs, n, "flags") THEN SavedAttr(f, s) \cap Saveable ELSE {})
KnownTime(f, recs, n, k, t, junk) ==
  IF Seen(recs, n, k) THEN DecodeTime(CodeTime(t), junk) ELSE Epoch + TimeField(f.mtime) * Tick

Known(f, s, recs, n, junk) ==
  Info(KnownName(f, recs, n), KnownSize(f, recs, n), KnownAttr(f, s, recs, n),
       KnownTime(f, recs, n, "mtime", f.mtime, junk.mtime),
       KnownTime(f, recs, n, "ctime", f.ctime, junk.ctime))

LEMMA SeenFact ==
  ASSUME NEW recs, NEW n \in Nat \ {0}, NEW l, l = n - 1, NEW k
  PROVE  Seen(recs, n, k) <=> Seen(recs, l, k) \/ recs[n].key = k
<1>1. l \in Nat /\ n \in 1 .. n /\ \A i : i \in 1 .. n <=> i \in 1 .. l \/ i = n
  OBVIOUS
<1> QED
  BY <1>1 DEF Seen

LEMMA NoneSeen == ASSUME NEW recs, NEW k PROVE ~Seen(recs, 0, k)
  BY DEF Seen

LEMMA ValueFact ==
  ASSUME NEW f, NEW s
  PROVE  /\ RecOf(f, s, "size").value = f.size
         /\ RecOf(f, s, "flags").value = SavedAttr(f, s)
         /\ RecOf(f, s, "mtime").value = CodeTime(f.mtime)
         /\ RecOf(f, s, "ctime").value = CodeTime(f.ctime)
         /\ RecOf(f, s, "path").value = f.name
         /\ \A k \in AllKeys : RecOf(f, s, k).key = k
<1>1. \A k, n, v : Record(k, n, v).value = v /\ Record(k, n, v).key = k
  BY DEF Record
<1>2. \A k, t : TimeOf(k, t).value = CodeTime(t) /\ TimeOf(k, t).key = k
  BY <1>1 DEF TimeOf
<1> QED
  BY <1>1, <1>2, RecOfIs DEF AllKeys

LEMMA DirectoryKnown ==
  ASSUME NEW f, f.dir \in BOOLEAN, NEW s, NEW recs, NEW n
  PROVE  "directory" \in KnownAttr(f, s, recs, n) <=> f.dir
  BY DEF KnownAttr, Saveable

LEMMA KnownNext ==
  ASSUME NEW f, f.dir \in BOOLEAN, NEW s, NEW recs, NEW junk, NEW n \in Nat \ {0}, NEW l, l = n - 1,
         NEW k \in AllKeys, recs[n] = RecOf(f, s, k)
  PROVE  Param(Known(f, s, recs, l, junk), recs[n], junk) = Known(f, s, recs, n, junk)
<1>0. \A j \in AllKeys : RecOf(f, s, j).key = j
  BY ValueFact
<1>00. recs[n] = RecOf(f, s, k)
  OBVIOUS
<1>1. recs[n].key = k
  BY <1>0, <1>00
<1>2. \A j : Seen(recs, n, j) <=> Seen(recs, l, j) \/ k = j
  BY <1>1, SeenFact
<1>3. PICK rec : rec = recs[n]
  OBVIOUS
<1>4. PICK nm : nm = KnownName(f, recs, l)
  OBVIOUS
<1>5. PICK sz : sz = KnownSize(f, recs, l)
  OBVIOUS
<1>6. PICK at : at = KnownAttr(f, s, recs, l)
  OBVIOUS
<1>7. PICK mt : mt = KnownTime(f, recs, l, "mtime", f.mtime, junk.mtime)
  OBVIOUS
<1>8. PICK ct : ct = KnownTime(f, recs, l, "ctime", f.ctime, junk.ctime)
  OBVIOUS
<1>9. PICK info : info = Info(nm, sz, at, mt, ct)
  OBVIOUS
<1>10. info = Known(f, s, recs, l, junk)
  BY <1>4, <1>5, <1>6, <1>7, <1>8, <1>9 DEF Known
<1>11. k # "path" => KnownName(f, recs, n) = nm
  BY <1>2, <1>4 DEF KnownName
<1>12. k # "size" => KnownSize(f, recs, n) = sz
  BY <1>2, <1>5 DEF KnownSize
<1>13. k # "flags" => KnownAttr(f, s, recs, n) = at
  BY <1>2, <1>6 DEF KnownAttr
<1>14. k # "mtime" => KnownTime(f, recs, n, "mtime", f.mtime, junk.mtime) = mt
  BY <1>2, <1>7 DEF KnownTime
<1>15. k # "ctime" => KnownTime(f, recs, n, "ctime", f.ctime, junk.ctime) = ct
  BY <1>2, <1>8 DEF KnownTime
<1>16. Known(f, s, recs, n, junk) =
         Info(KnownName(f, recs, n), KnownSize(f, recs, n), KnownAttr(f, s, recs, n),
              KnownTime(f, recs, n, "mtime", f.mtime, junk.mtime),
              KnownTime(f, recs, n, "ctime", f.ctime, junk.ctime))
  BY DEF Known
<1>p. /\ rec.key = "path" => Param(Info(nm, sz, at, mt, ct), rec, junk) = Info(rec.value, sz, at, mt, ct)
      /\ rec.key = "size" /\ "directory" \in at =>
           Param(Info(nm, sz, at, mt, ct), rec, junk) = Info(nm, sz, at, mt, ct)
      /\ rec.key = "size" /\ "directory" \notin at =>
           Param(Info(nm, sz, at, mt, ct), rec, junk) = Info(nm, rec.value, at, mt, ct)
      /\ rec.key = "flags" =>
           Param(Info(nm, sz, at, mt, ct), rec, junk)
           = Info(nm, sz, at \cup (rec.value \cap Saveable), mt, ct)
      /\ rec.key = "mtime" =>
           Param(Info(nm, sz, at, mt, ct), rec, junk)
           = Info(nm, sz, at, DecodeTime(rec.value, junk.mtime), ct)
      /\ rec.key = "ctime" =>
           Param(Info(nm, sz, at, mt, ct), rec, junk)
           = Info(nm, sz, at, mt, DecodeTime(rec.value, junk.ctime))
      /\ rec.key = "atime" => Param(Info(nm, sz, at, mt, ct), rec, junk) = Info(nm, sz, at, mt, ct)
  <2>1. /\ rec.key = "path" => Param(info, rec, junk) = [info EXCEPT !.name = rec.value]
        /\ rec.key = "size" =>
             Param(info, rec, junk) = IF "directory" \in info.attr THEN info
                                      ELSE [info EXCEPT !.size = rec.value]
        /\ rec.key = "flags" =>
             Param(info, rec, junk) = [info EXCEPT !.attr = @ \cup (rec.value \cap Saveable)]
        /\ rec.key = "mtime" =>
             Param(info, rec, junk) = [info EXCEPT !.mtime = DecodeTime(rec.value, junk.mtime)]
        /\ rec.key = "ctime" =>
             Param(info, rec, junk) = [info EXCEPT !.ctime = DecodeTime(rec.value, junk.ctime)]
        /\ rec.key = "atime" => Param(info, rec, junk) = info
    BY Zenon DEF Param
  <2>2. /\ \A x : [info EXCEPT !.name = x] = Info(x, sz, at, mt, ct)
        /\ \A x : [info EXCEPT !.size = x] = Info(nm, x, at, mt, ct)
        /\ \A x : [info EXCEPT !.attr = x] = Info(nm, sz, x, mt, ct)
        /\ \A x : [info EXCEPT !.mtime = x] = Info(nm, sz, at, x, ct)
        /\ \A x : [info EXCEPT !.ctime = x] = Info(nm, sz, at, mt, x)
        /\ info.attr = at
    BY <1>9 DEF Info
  <2>3. [info EXCEPT !.attr = @ \cup (rec.value \cap Saveable)] =
         Info(nm, sz, at \cup (rec.value \cap Saveable), mt, ct)
    BY <2>2
  <2> QED
    BY <1>9, <2>1, <2>2, <2>3
<1>17. rec.key = k
  BY <1>1, <1>3
<1>18. CASE k = "path"
  <2>1. rec.value = f.name /\ KnownName(f, recs, n) = f.name
    BY <1>2, <1>3, <1>18, ValueFact DEF KnownName
  <2>2. Param(info, rec, junk) = Info(rec.value, sz, at, mt, ct)
    BY <1>p, <1>9, <1>17, <1>18
  <2> QED
    BY <1>3, <1>10, <1>12, <1>13, <1>14, <1>15, <1>16, <1>18, <2>1, <2>2
<1>19. CASE k = "size"
  <2>1. rec.value = f.size /\ Seen(recs, n, "size")
    BY <1>2, <1>3, <1>19, ValueFact
  <2>2. "directory" \in at <=> f.dir
    BY <1>6, DirectoryKnown
  <2>3. CASE f.dir
    <3>1. KnownSize(f, recs, n) = sz
      BY <1>5, <2>3 DEF KnownSize
    <3>2. Param(info, rec, junk) = info
      BY <1>p, <1>9, <1>17, <1>19, <2>2, <2>3
    <3> QED
      BY <1>3, <1>9, <1>10, <1>11, <1>13, <1>14, <1>15, <1>16, <1>19, <3>1, <3>2
  <2>4. CASE ~f.dir
    <3>1. KnownSize(f, recs, n) = f.size
      BY <2>1, <2>4 DEF KnownSize
    <3>2. Param(info, rec, junk) = Info(nm, rec.value, at, mt, ct)
      BY <1>p, <1>9, <1>17, <1>19, <2>2, <2>4
    <3> QED
      BY <1>3, <1>10, <1>11, <1>13, <1>14, <1>15, <1>16, <1>19, <2>1, <3>1, <3>2
  <2> QED
    BY <2>3, <2>4
<1>20. CASE k = "flags"
  <2>1. rec.value = SavedAttr(f, s)
    BY <1>3, <1>20, ValueFact
  <2>2. KnownAttr(f, s, recs, n) = at \cup (rec.value \cap Saveable)
    BY <1>2, <1>6, <1>20, <2>1 DEF KnownAttr
  <2>3. Param(info, rec, junk) = Info(nm, sz, at \cup (rec.value \cap Saveable), mt, ct)
    BY <1>p, <1>9, <1>17, <1>20
  <2> QED
    BY <1>3, <1>10, <1>11, <1>12, <1>14, <1>15, <1>16, <1>20, <2>2, <2>3
<1>21. CASE k = "mtime"
  <2>1. rec.value = CodeTime(f.mtime)
    BY <1>3, <1>21, ValueFact
  <2>2. KnownTime(f, recs, n, "mtime", f.mtime, junk.mtime) = DecodeTime(rec.value, junk.mtime)
    BY <1>2, <1>21, <2>1 DEF KnownTime
  <2>3. Param(info, rec, junk) = Info(nm, sz, at, DecodeTime(rec.value, junk.mtime), ct)
    BY <1>p, <1>9, <1>17, <1>21
  <2> QED
    BY <1>3, <1>10, <1>11, <1>12, <1>13, <1>15, <1>16, <1>21, <2>2, <2>3
<1>22. CASE k = "ctime"
  <2>1. rec.value = CodeTime(f.ctime)
    BY <1>3, <1>22, ValueFact
  <2>2. KnownTime(f, recs, n, "ctime", f.ctime, junk.ctime) = DecodeTime(rec.value, junk.ctime)
    BY <1>2, <1>22, <2>1 DEF KnownTime
  <2>3. Param(info, rec, junk) = Info(nm, sz, at, mt, DecodeTime(rec.value, junk.ctime))
    BY <1>p, <1>9, <1>17, <1>22
  <2> QED
    BY <1>3, <1>10, <1>11, <1>12, <1>13, <1>14, <1>16, <1>22, <2>2, <2>3
<1>23. CASE k = "atime"
  <2>1. Param(info, rec, junk) = info
    BY <1>p, <1>9, <1>17, <1>23
  <2> QED
    BY <1>3, <1>9, <1>10, <1>11, <1>12, <1>13, <1>14, <1>15, <1>16, <1>23, <2>1
<1> QED
  BY <1>18, <1>19, <1>20, <1>21, <1>22, <1>23 DEF AllKeys

Infos(w, h, junk) ==
  w = [n \in 0 .. Len(h.recs) |->
         IF n = 0 THEN Fields(h) ELSE Param(w[n - 1], h.recs[n], junk)]

LEMMA InfosChosen ==
  ASSUME NEW h, NEW junk, \E w : Infos(w, h, junk)
  PROVE  Infos(CHOOSE w : Infos(w, h, junk), h, junk)
  BY Zenon

LEMMA ParseHeaderInfos ==
  ASSUME NEW h, NEW junk
  PROVE  ParseHeader(h, junk) = (CHOOSE w : Infos(w, h, junk))[Len(h.recs)]
  BY Zenon DEF ParseHeader, Infos

LEMMA FieldsKnown ==
  ASSUME NEW f \in Files, NEW s, NEW h, h = CreateHeader(f, s), NEW junk
  PROVE  Fields(h) = Known(f, s, h.recs, 0, junk)
<1>1. /\ h.dir = f.dir /\ h.name = Cut(f.name) /\ h.readonly = ("readonly" \in f.attr)
      /\ h.size = Smaller(f.size, OldSizeLimit) /\ h.mtime = TimeField(f.mtime)
  BY DEF CreateHeader
<1>2. Fields(h) = Info(h.name, IF h.dir THEN 0 ELSE h.size,
                       (IF h.readonly THEN {"readonly"} ELSE {})
                         \cup {IF h.dir THEN "directory" ELSE "normal"},
                       Epoch + h.mtime * Tick, Epoch + h.mtime * Tick)
  BY Zenon DEF Fields, Info
<1>3. \A k : ~Seen(h.recs, 0, k)
  BY NoneSeen
<1>4. KnownName(f, h.recs, 0) = h.name
  BY <1>1, <1>3 DEF KnownName
<1>5. KnownSize(f, h.recs, 0) = IF h.dir THEN 0 ELSE h.size
  BY <1>1, <1>3 DEF KnownSize
<1>6. KnownAttr(f, s, h.recs, 0) = (IF h.readonly THEN {"readonly"} ELSE {})
                                   \cup {IF h.dir THEN "directory" ELSE "normal"}
  <2>1. h.readonly <=> "readonly" \in f.attr
    BY <1>1
  <2> QED
    BY <1>1, <1>3, <2>1 DEF KnownAttr
<1>7. \A k, t, j : KnownTime(f, h.recs, 0, k, t, j) = Epoch + h.mtime * Tick
  BY <1>1, <1>3 DEF KnownTime
<1> QED
  BY <1>2, <1>4, <1>5, <1>6, <1>7, Zenon DEF Known

LEMMA ParseHeaderKnown ==
  ASSUME NEW f \in Files, NEW s, NEW h, h = CreateHeader(f, s), NEW junk
  PROVE  ParseHeader(h, junk) = Known(f, s, h.recs, Len(h.recs), junk)
<1>1. PICK recs : recs = h.recs
  OBVIOUS
<1>2. PICK m : m = Len(recs)
  OBVIOUS
<1>3. recs \in Seq(RecsOf(f, s)) /\ Len(recs) \in 1 .. 6
  <2>1. recs = Records(f, s)
    BY <1>1 DEF CreateHeader
  <2> QED
    BY <2>1, RecordsFact
<1>4. m \in Nat
  BY <1>2, <1>3
<1>5. ASSUME NEW n \in 1 .. m
      PROVE  Param(Known(f, s, recs, n - 1, junk), recs[n], junk) = Known(f, s, recs, n, junk)
  <2>1. recs[n] \in RecsOf(f, s)
    BY <1>2, <1>3, ElementOfSeq
  <2>2. PICK k \in AllKeys : recs[n] = RecOf(f, s, k)
    BY <2>1 DEF RecsOf
  <2>3. n \in Nat \ {0}
    BY <1>4
  <2>4. PICK l : l = n - 1
    OBVIOUS
  <2>5. f.dir \in BOOLEAN
    BY FileFact
  <2>6. Param(Known(f, s, recs, l, junk), recs[n], junk) = Known(f, s, recs, n, junk)
    BY <2>2, <2>3, <2>4, <2>5, KnownNext
  <2> QED
    BY <2>4, <2>6
<1>6. Fields(h) = Known(f, s, recs, 0, junk)
  BY <1>1, FieldsKnown
<1>7. \E w : Infos(w, h, junk)
  <2>1. PICK w : w = [n \in 0 .. m |-> Known(f, s, recs, n, junk)]
    OBVIOUS
  <2>2. ASSUME NEW n \in 0 .. m
        PROVE  w[n] = IF n = 0 THEN Fields(h) ELSE Param(w[n - 1], recs[n], junk)
    <3>1. CASE n = 0
      BY <1>6, <2>1, <3>1
    <3>2. CASE n # 0
      <4>1. n \in 1 .. m /\ n - 1 \in 0 .. m
        BY <1>4, <3>2
      <4>2. w[n - 1] = Known(f, s, recs, n - 1, junk) /\ w[n] = Known(f, s, recs, n, junk)
        BY <2>1, <4>1
      <4> QED
        BY <1>5, <3>2, <4>1, <4>2
    <3> QED
      BY <3>1, <3>2
  <2>3. w = [n \in 0 .. m |-> w[n]]
    BY <2>1
  <2>4. w = [n \in 0 .. m |-> IF n = 0 THEN Fields(h) ELSE Param(w[n - 1], recs[n], junk)]
    BY <2>2, <2>3
  <2>5. Infos(w, h, junk)
    BY <1>1, <1>2, <2>4 DEF Infos
  <2> QED
    BY <2>5
<1>8. PICK w : w = CHOOSE v : Infos(v, h, junk)
  OBVIOUS
<1>9. Infos(w, h, junk)
  BY <1>7, <1>8, InfosChosen
<1>10. w[0] = Fields(h) /\ \A n \in 1 .. m : w[n] = Param(w[n - 1], recs[n], junk)
  BY <1>1, <1>2, <1>4, <1>9 DEF Infos
<1>11. PICK N : N = {n \in Nat : n <= m => w[n] = Known(f, s, recs, n, junk)}
  OBVIOUS
<1>12. 0 \in N
  BY <1>6, <1>10, <1>11
<1>13. ASSUME NEW n \in Nat, n \in N PROVE n + 1 \in N
  <2>1. CASE n + 1 <= m
    <3>1. w[n] = Known(f, s, recs, n, junk)
      BY <1>4, <1>11, <1>13, <2>1
    <3>2. n + 1 \in 1 .. m /\ (n + 1) - 1 = n
      BY <1>4, <2>1
    <3>3. PICK i : i = n + 1
      OBVIOUS
    <3>4. i \in 1 .. m /\ i - 1 = n
      BY <3>2, <3>3
    <3>5. w[i] = Known(f, s, recs, i, junk)
      BY <1>5, <1>10, <3>1, <3>4
    <3> QED
      BY <1>11, <3>3, <3>5
  <2> QED
    BY <1>11, <2>1
<1>14. m \in N
  BY <1>4, <1>12, <1>13, SetInduction
<1> QED
  BY <1>1, <1>2, <1>8, <1>11, <1>14, ParseHeaderInfos

LEMMA CutFits == ASSUME NEW f \in Files, NameFits(f.name) PROVE Cut(f.name) = f.name
<1>1. PICK nm : nm = f.name
  OBVIOUS
<1>2. nm \in [id : STRING, len : 1 .. LongestName, wide : 3 .. MaxChars + 2]
  BY <1>1, FileFact
<1>3. NameField \in Nat \ {0}
  BY HeaderAssumption
<1>4. nm.len \in Nat
  BY <1>2
<1>5. nm.len = nm.wide /\ nm.len < NameField
  BY <1>1 DEF NameFits
<1>6. Smaller(nm.len, NameField - 1) = nm.len /\ Smaller(nm.wide, NameField - 1) = nm.wide
  BY <1>3, <1>4, <1>5 DEF Smaller
<1>7. [nm EXCEPT !.len = nm.len, !.wide = nm.wide] = nm
  BY <1>2
<1> QED
  BY <1>1, <1>6, <1>7 DEF Cut

(* What is read of a header is what it was written for.                    *)
LEMMA ParseFact ==
  ASSUME NEW f \in Files, NEW s \in Saves, NEW h, h = CreateHeader(f, s), NEW junk,
         NEW info, info = ParseHeader(h, junk)
  PROVE  /\ info.name = f.name
         /\ info.size = (IF f.dir THEN 0 ELSE f.size)
         /\ "directory" \in info.attr <=> f.dir
         /\ info.attr \cap Saveable = f.attr \cap (s.attr \cup {"readonly"})
         /\ Fractional(f.mtime) => info.mtime = f.mtime
         /\ Fractional(f.ctime) /\ "ctime" \in s.time => info.ctime = f.ctime
<1>1. PICK recs : recs = h.recs
  OBVIOUS
<1>2. PICK m : m = Len(recs)
  OBVIOUS
<1>3. recs = Records(f, s)
  BY <1>1 DEF CreateHeader
<1>4. /\ \A k \in AllKeys \ {"path"} : HasKey(recs, k) <=> There(f, s, k)
      /\ ~HasKey(recs, "path") => NameFits(f.name)
  BY <1>3, RecordsFact
<1>5. \A k : Seen(recs, m, k) <=> HasKey(recs, k)
  BY <1>2 DEF Seen, HasKey
<1>6. info = Known(f, s, recs, m, junk)
  BY <1>1, <1>2, ParseHeaderKnown
<1>7. /\ info.name = KnownName(f, recs, m) /\ info.size = KnownSize(f, recs, m)
      /\ info.attr = KnownAttr(f, s, recs, m)
      /\ info.mtime = KnownTime(f, recs, m, "mtime", f.mtime, junk.mtime)
      /\ info.ctime = KnownTime(f, recs, m, "ctime", f.ctime, junk.ctime)
  BY <1>6 DEF Known, Info
<1>8. /\ Seen(recs, m, "size") <=> f.size >= OldSizeLimit
      /\ Seen(recs, m, "flags") <=> SavedAttr(f, s) # {}
      /\ Seen(recs, m, "mtime") <=> f.mtime # NoTime
      /\ Seen(recs, m, "ctime") <=> "ctime" \in s.time /\ f.ctime # NoTime
  <2>1. \A k \in AllKeys \ {"path"} : Seen(recs, m, k) <=> There(f, s, k)
    BY <1>4, <1>5
  <2>2. /\ Seen(recs, m, "size") <=> There(f, s, "size")
        /\ Seen(recs, m, "flags") <=> There(f, s, "flags")
        /\ Seen(recs, m, "mtime") <=> There(f, s, "mtime")
        /\ Seen(recs, m, "ctime") <=> There(f, s, "ctime")
    BY <2>1 DEF AllKeys
  <2> QED
    BY <2>2, Zenon DEF There
<1>9. info.name = f.name
  BY <1>4, <1>5, <1>7, CutFits DEF KnownName
<1>10. info.size = (IF f.dir THEN 0 ELSE f.size)
  <2>1. f.size \in Nat /\ OldSizeLimit \in Nat
    BY FileFact, HeaderAssumption
  <2>2. ~(f.size >= OldSizeLimit) => Smaller(f.size, OldSizeLimit) = f.size
    BY <2>1 DEF Smaller
  <2> QED
    BY <1>7, <1>8, <2>2 DEF KnownSize
<1>11. "directory" \in info.attr <=> f.dir
  BY <1>7, FileFact, DirectoryKnown
<1>12. info.attr \cap Saveable = f.attr \cap (s.attr \cup {"readonly"})
  <2>1. s.attr \subseteq Saveable
    BY FilesAssumption
  <2>2. SavedAttr(f, s) \cap Saveable = f.attr \cap s.attr
    BY <2>1 DEF SavedAttr
  <2>3. (IF Seen(recs, m, "flags") THEN SavedAttr(f, s) \cap Saveable ELSE {}) = f.attr \cap s.attr
    BY <1>8, <2>2
  <2>4. info.attr = ((IF "readonly" \in f.attr THEN {"readonly"} ELSE {})
                     \cup {IF f.dir THEN "directory" ELSE "normal"}) \cup (f.attr \cap s.attr)
    BY <1>7, <2>3, Zenon DEF KnownAttr
  <2>5. PICK kind : kind = IF f.dir THEN "directory" ELSE "normal"
    OBVIOUS
  <2>6. kind \notin Saveable /\ "readonly" \in Saveable
    BY <2>5 DEF Saveable
  <2> QED
    BY <2>1, <2>4, <2>5, <2>6
<1>13. \A j : \A t \in Nat : Fractional(t) => DecodeTime(CodeTime(t), j) = t
  BY TimeKeeps
<1>14. f.mtime \in Nat /\ f.ctime \in Nat
  BY FileFact, TimesFact
<1>15. ASSUME Fractional(f.mtime) PROVE info.mtime = f.mtime
  <2>1. Seen(recs, m, "mtime")
    BY <1>8, <1>15 DEF Fractional
  <2> QED
    BY <1>7, <1>13, <1>14, <1>15, <2>1 DEF KnownTime
<1>16. ASSUME Fractional(f.ctime), "ctime" \in s.time PROVE info.ctime = f.ctime
  <2>1. Seen(recs, m, "ctime")
    BY <1>8, <1>16 DEF Fractional
  <2> QED
    BY <1>7, <1>13, <1>14, <1>16, <2>1 DEF KnownTime
<1> QED
  BY <1>9, <1>10, <1>11, <1>12, <1>15, <1>16

-----------------------------------------------------------------------------
(* The inductive invariant.  The store: items lie where the history says,  *)
(* those of the last block before the place of the next.                   *)
IsSeq(s) == Len(s) \in Nat /\ s = [i \in 1 .. Len(s) |-> s[i]]

Stored ==
  /\ IsSeq(blocks) /\ IsSeq(log) /\ pos \in Nat
  /\ \A n \in 1 .. Len(log) :
       /\ log[n].block \in 1 .. Len(blocks) /\ log[n].at \in DOMAIN blocks[log[n].block]
       /\ log[n].at \in Nat
       /\ log[n].block = Len(blocks) => log[n].at < pos

(* The archive: headers and contents lie end to end.                       *)
ContentSize(f) == IF f.dir THEN 0 ELSE Round(f.size)
End(n) == archive[n].at + archive[n].hdr + ContentSize(archive[n].file)
Whole == IF archive = <<>> THEN 0 ELSE End(Len(archive))

Laid ==
  /\ saves \in Saves /\ IsSeq(archive)
  /\ \A n \in 1 .. Len(archive) :
       /\ archive[n].file \in Files /\ archive[n].head = CreateHeader(archive[n].file, saves)
       /\ archive[n].at \in Nat /\ archive[n].hdr = HeaderSize(archive[n].head)
  /\ archive # <<>> => archive[1].at = 0
  /\ \A n \in 1 .. Len(archive) : n + 1 <= Len(archive) => archive[n + 1].at = End(n)
  /\ \A n, m \in 1 .. Len(archive) : n < m => End(n) <= archive[m].at

(* How long the archive is, before and after what may happen to it.        *)
Sized ==
  /\ whole \in BOOLEAN /\ zeros \in BOOLEAN
  /\ phase \in {"pack", "scan", "end", "error"}
  /\ phase = "pack" => size = Whole /\ whole /\ ~zeros /\ log = <<>> /\ readSize = 0 /\ why = "none"
  /\ phase # "pack" => archive # <<>>
  /\ size \in Nat
  /\ whole => size = Whole + (IF zeros THEN 2 * BlockSize ELSE 0)
  /\ ~whole => ~zeros /\ size < Whole

(* The scan is at the header of the next file, or at the end.              *)
Border(n) == IF n <= Len(archive) THEN archive[n].at ELSE Whole

Scanned ==
  /\ Len(log) <= Len(archive)
  /\ phase = "scan" => readSize = Border(Len(log) + 1)
  /\ phase = "end" /\ whole => Len(log) = Len(archive)

(* What is listed of a file.                                               *)
Faithful(item, e) ==
  /\ item.name = e.file.name.id /\ item.chars = e.file.name.wide - 2
  /\ "directory" \in item.attr <=> e.file.dir
  /\ item.data_size = (IF e.file.dir THEN 0 ELSE e.file.size)
  /\ item.pos = e.at /\ item.hdr_size = e.hdr
  /\ e.file.dir \/ e.file.size <= OldSizeLimit => item.pack_size = e.hdr + Round(item.data_size)
  /\ item.attr \cap Saveable = e.file.attr \cap (saves.attr \cup {"readonly"})
  /\ Fractional(e.file.mtime) => item.mtime = e.file.mtime
  /\ Fractional(e.file.ctime) /\ "ctime" \in saves.time => item.ctime = e.file.ctime

Item(n) == ItemAt(log[n])
AllFaithful == \A n \in 1 .. Len(log) : Faithful(Item(n), archive[n])

IInv == Stored /\ Laid /\ Sized /\ Scanned /\ AllFaithful /\ HeadersAccepted

-----------------------------------------------------------------------------
(* Sequences.                                                              *)
LEMMA IsSeqFact ==
  ASSUME NEW s, IsSeq(s)
  PROVE  Len(s) \in Nat /\ s \in Seq({s[i] : i \in 1 .. Len(s)})
<1>1. PICK m \in Nat : m = Len(s)
  BY DEF IsSeq
<1>2. PICK S : S = {s[i] : i \in 1 .. m}
  OBVIOUS
<1>3. s = [i \in 1 .. m |-> s[i]]
  BY <1>1 DEF IsSeq
<1>4. s \in [1 .. m -> S]
  BY <1>2, <1>3
<1>5. s \in Seq(S)
  BY <1>1, <1>4, SeqDef
<1> QED
  BY <1>1, <1>2, <1>5

LEMMA SeqIs == ASSUME NEW S, NEW s \in Seq(S) PROVE IsSeq(s)
  BY LenProperties DEF IsSeq

LEMMA AppendAll ==
  ASSUME NEW s, IsSeq(s), NEW e, NEW t, t = Append(s, e), NEW m, m = Len(s)
  PROVE  /\ IsSeq(t) /\ m \in Nat /\ Len(t) = m + 1 /\ t[m + 1] = e
         /\ \A n \in 1 .. m : t[n] = s[n]
<1>1. PICK S : S = {s[i] : i \in 1 .. Len(s)} \cup {e}
  OBVIOUS
<1>2. s \in Seq({s[i] : i \in 1 .. Len(s)}) /\ m \in Nat
  BY IsSeqFact
<1>3. s \in Seq(S) /\ e \in S
  <2>1. {s[i] : i \in 1 .. Len(s)} \subseteq S
    BY <1>1
  <2> QED
    BY <1>1, <1>2, <2>1
<1>4. t \in Seq(S) /\ Len(t) = m + 1 /\ t[m + 1] = e /\ \A n \in 1 .. m : t[n] = s[n]
  BY <1>2, <1>3, AppendProperties
<1> QED
  BY <1>2, <1>4, SeqIs

LEMMA AppendFact ==
  ASSUME NEW s, IsSeq(s), NEW e, NEW t, t = Append(s, e), NEW m, m = Len(s)
  PROVE  IsSeq(t) /\ m \in Nat /\ Len(t) = m + 1
  BY AppendAll

LEMMA AppendNew ==
  ASSUME NEW s, IsSeq(s), NEW e, NEW t, t = Append(s, e), NEW m, m = Len(s)
  PROVE  t[m + 1] = e
  BY AppendAll

LEMMA AppendOld ==
  ASSUME NEW s, IsSeq(s), NEW e, NEW t, t = Append(s, e), NEW m, m = Len(s)
  PROVE  \A n \in 1 .. m : t[n] = s[n]
  BY AppendAll

LEMMA EmptyIsSeq == IsSeq(<<>>) /\ Len(<<>>) = 0
<1>1. <<>> \in Seq({})
  BY EmptySeq
<1> QED
  BY <1>1, EmptySeq, SeqIs

LEMMA SomeOf == ASSUME NEW s, IsSeq(s), s # <<>> PROVE Len(s) \in Nat \ {0}
<1>1. PICK S : s \in Seq(S)
  BY IsSeqFact
<1> QED
  BY <1>1, EmptySeq

LEMMA FrontFact ==
  ASSUME NEW s, IsSeq(s), s # <<>>, NEW m, m = Len(s), NEW t, t = SubSeq(s, 1, m - 1)
  PROVE  IsSeq(t) /\ Len(t) = m - 1 /\ \A n \in 1 .. m - 1 : t[n] = s[n]
<1>1. PICK S : s \in Seq(S)
  BY IsSeqFact
<1>2. m \in Nat \ {0}
  BY SomeOf
<1>3. t \in Seq(S) /\ Len(t) = m - 1 /\ \A n \in 1 .. m - 1 : t[n] = s[n]
  <2>1. PICK k : k = m - 1
    OBVIOUS
  <2>2. k \in Nat /\ 1 \in 1 .. m + 1 /\ k \in 0 .. m
    BY <1>2, <2>1
  <2>3. \A i \in 1 .. k : i \in 1 .. m
    BY <1>2, <2>1
  <2>4. \A i \in 1 .. k : s[i] \in S
    BY <1>1, <2>3, ElementOfSeq
  <2>5. t = [i \in 1 .. k |-> s[i]]
    BY <2>1, <2>2
  <2>6. t \in [1 .. k -> S]
    BY <2>4, <2>5
  <2>7. t \in Seq(S)
    BY <2>2, <2>6, SeqDef
  <2>8. DOMAIN t = 1 .. k
    BY <2>6
  <2>9. Len(t) \in Nat /\ DOMAIN t = 1 .. Len(t)
    BY <2>7, LenProperties
  <2>10. Len(t) = k
    BY <2>2, <2>8, <2>9
  <2> QED
    BY <2>1, <2>5, <2>7, <2>10
<1> QED
  BY <1>3, SeqIs

-----------------------------------------------------------------------------
(* An item that is added is the last of the list, and the others stay.     *)
Grown(item, m) ==
  Len(log') = m + 1 /\ Item(m + 1)' = item /\ \A n \in 1 .. m : Item(n)' = Item(n)

LEMMA SizeOfItem == ASSUME NEW item, item.chars \in Nat PROVE ItemSize(item) \in Nat \ {0}
<1>1. PICK c \in Nat : c = item.chars
  OBVIOUS
<1>2. ItemHead \in Nat /\ ItemHead > 0
  BY StoreAssumption
<1>3. ItemHead + 2 * c \in Nat \ {0}
  BY <1>2
<1> QED
  BY <1>1, <1>3 DEF ItemSize

LEMMA WithDomain ==
  ASSUME NEW b, NEW p, NEW item, NEW w, w = With(b, p, item) PROVE DOMAIN w = DOMAIN b \cup {p}
  BY DEF With

LEMMA WithNew ==
  ASSUME NEW b, NEW p, NEW item, NEW w, w = With(b, p, item) PROVE w[p] = item
  BY DEF With

LEMMA WithOld ==
  ASSUME NEW b, NEW p, NEW item, NEW w, w = With(b, p, item)
  PROVE  \A x \in DOMAIN b : x # p => w[x] = b[x]
  BY DEF With

(* What was added lies in k blocks, or before p in the one after them.     *)
Behind(m, k, b, p) ==
  \A n \in 1 .. m :
    \/ log[n].block \in 1 .. k
    \/ log[n].block = k + 1 /\ log[n].at < p /\ b = blocks[k + 1]

LEMMA AddIsLast ==
  ASSUME Stored, NEW before, IsSeq(before), NEW b, NEW p \in Nat, NEW item, item.chars \in Nat,
         AddAt(before, b, p, item), NEW k, k = Len(before), NEW m, m = Len(log),
         Behind(m, k, b, p), \A i \in 1 .. k : before[i] = blocks[i]
  PROVE  Stored' /\ Grown(item, m)
<1>1. PICK w : w = With(b, p, item)
  OBVIOUS
<1>2a. DOMAIN w = DOMAIN b \cup {p}
  BY <1>1, WithDomain
<1>2b. w[p] = item
  BY <1>1, WithNew
<1>2c. \A x \in DOMAIN b : x # p => w[x] = b[x]
  BY <1>1, WithOld
<1>3. blocks' = Append(before, w) /\ pos' = p + ItemSize(item) /\
      log' = Append(log, Place(Len(before) + 1, p))
  BY <1>1 DEF AddAt
<1>4a. IsSeq(blocks') /\ k \in Nat /\ Len(blocks') = k + 1
  BY <1>3, AppendFact
<1>4b. blocks'[k + 1] = w
  BY <1>3, AppendNew
<1>4c. \A i \in 1 .. k : blocks'[i] = before[i]
  BY <1>3, AppendOld
<1>5. m \in Nat
  BY IsSeqFact DEF Stored
<1>6. PICK q : q = Place(k + 1, p)
  OBVIOUS
<1>7. q.block = k + 1 /\ q.at = p
  BY <1>6 DEF Place
<1>8. log' = Append(log, q) /\ IsSeq(log)
  BY <1>3, <1>6 DEF Stored
<1>8a. IsSeq(log') /\ Len(log') = m + 1
  BY <1>8, AppendFact
<1>8b. log'[m + 1] = q
  BY <1>8, AppendNew
<1>8c. \A n \in 1 .. m : log'[n] = log[n]
  BY <1>8, AppendOld
<1>9. pos' \in Nat /\ p < pos'
  <2>1. PICK z \in Nat \ {0} : z = ItemSize(item)
    BY SizeOfItem
  <2>2. p + z \in Nat /\ p < p + z
    OBVIOUS
  <2> QED
    BY <1>3, <2>1, <2>2
<1>10. Item(m + 1)' = item
  <2>1. Item(m + 1)' = blocks'[log'[m + 1].block][log'[m + 1].at]
    BY DEF Item, ItemAt
  <2> QED
    BY <1>2b, <1>4b, <1>7, <1>8b, <2>1
<1>11. ASSUME NEW n \in 1 .. m
       PROVE  /\ Item(n)' = Item(n)
              /\ log'[n].block \in 1 .. k + 1
              /\ log'[n].at \in DOMAIN blocks'[log'[n].block] /\ log'[n].at \in Nat
              /\ log'[n].block = k + 1 => log'[n].at < p
  <2>1. log'[n] = log[n]
    BY <1>8c
  <2>2. PICK i : i = log[n].block
    OBVIOUS
  <2>3. PICK x : x = log[n].at
    OBVIOUS
  <2>4. x \in DOMAIN blocks[i] /\ x \in Nat
    BY <2>2, <2>3 DEF Stored
  <2>5. i \in 1 .. k \/ (i = k + 1 /\ x < p /\ b = blocks[k + 1])
    BY <2>2, <2>3 DEF Behind
  <2>6. Item(n)' = blocks'[i][x] /\ Item(n) = blocks[i][x]
    BY <2>1, <2>2, <2>3 DEF Item, ItemAt
  <2>7. CASE i \in 1 .. k
    <3>1. blocks'[i] = blocks[i]
      BY <1>4c, <2>7
    <3>2. i # k + 1 /\ i \in 1 .. k + 1
      BY <1>4a, <2>7
    <3> QED
      BY <2>1, <2>2, <2>3, <2>4, <2>6, <3>1, <3>2
  <2>8. CASE i = k + 1 /\ x < p /\ b = blocks[k + 1]
    <3>1. blocks'[i] = w /\ blocks[i] = b /\ x # p
      BY <1>4b, <2>4, <2>8
    <3>2. x \in DOMAIN b /\ x \in DOMAIN w /\ w[x] = b[x]
      BY <1>2a, <1>2c, <2>4, <3>1
    <3>3. i \in 1 .. k + 1
      BY <1>4a, <2>8
    <3> QED
      BY <2>1, <2>2, <2>3, <2>4, <2>6, <2>8, <3>1, <3>2, <3>3
  <2> QED
    BY <2>5, <2>7, <2>8
<1>12. Grown(item, m)
  BY <1>8a, <1>10, <1>11 DEF Grown
<1>13. Stored'
  <2>1. ASSUME NEW n \in 1 .. m + 1
        PROVE  /\ log'[n].block \in 1 .. Len(blocks') /\ log'[n].at \in DOMAIN blocks'[log'[n].block]
               /\ log'[n].at \in Nat
               /\ log'[n].block = Len(blocks') => log'[n].at < pos'
    <3>1. CASE n \in 1 .. m
      BY <1>4a, <1>9, <1>11, <3>1
    <3>2. CASE n = m + 1
      <4>1. log'[n] = q /\ p \in DOMAIN w
        BY <1>2a, <1>8b, <3>2
      <4>2. k + 1 \in 1 .. k + 1
        BY <1>4a
      <4> QED
        BY <1>4a, <1>4b, <1>7, <1>9, <4>1, <4>2
    <3> QED
      BY <1>5, <3>1, <3>2
  <2> QED
    BY <1>4a, <1>8a, <1>9, <2>1 DEF Stored
<1> QED
  BY <1>12, <1>13

LEMMA AddFileFact ==
  ASSUME Stored, NEW item, item.chars \in Nat, AddFile(item), NEW m, m = Len(log)
  PROVE  Stored' /\ Grown(item, m)
<1>1. IsSeq(blocks) /\ pos \in Nat
  BY DEF Stored
<1>2. \A n \in 1 .. m : log[n].block \in 1 .. Len(blocks) /\ (log[n].block = Len(blocks) => log[n].at < pos)
  BY DEF Stored
<1>3. CASE NeedsBlock(item)
  <2>1. AddAt(blocks, Fresh, BlockHead, item)
    BY <1>3 DEF AddFile
  <2>2. BlockHead \in Nat
    BY StoreAssumption
  <2>3. PICK k : k = Len(blocks)
    OBVIOUS
  <2>4. Behind(m, k, Fresh, BlockHead)
    BY <1>2, <2>3 DEF Behind
  <2>5. \A i \in 1 .. k : blocks[i] = blocks[i]
    OBVIOUS
  <2> QED
    BY <1>1, <2>1, <2>2, <2>3, <2>4, <2>5, AddIsLast
<1>4. CASE ~NeedsBlock(item)
  <2>1. blocks # <<>>
    BY <1>4 DEF NeedsBlock
  <2>2. Len(blocks) \in Nat \ {0}
    BY <1>1, <2>1, SomeOf
  <2>3. PICK k : k = Len(blocks) - 1
    OBVIOUS
  <2>4. PICK before : before = SubSeq(blocks, 1, Len(blocks) - 1)
    OBVIOUS
  <2>5. IsSeq(before) /\ k = Len(before)
    BY <1>1, <2>1, <2>3, <2>4, FrontFact
  <2>6. \A i \in 1 .. k : before[i] = blocks[i]
    BY <1>1, <2>1, <2>3, <2>4, FrontFact
  <2>7. PICK b : b = blocks[Len(blocks)]
    OBVIOUS
  <2>8. k + 1 = Len(blocks) /\ k \in Nat
    BY <2>2, <2>3
  <2>9. AddAt(before, b, pos, item)
    BY <1>4, <2>4, <2>7 DEF AddFile
  <2>10. Behind(m, k, b, pos)
    <3>1. ASSUME NEW n \in 1 .. m
          PROVE  \/ log[n].block \in 1 .. k
                 \/ log[n].block = k + 1 /\ log[n].at < pos /\ b = blocks[k + 1]
      <4>1. log[n].block \in 1 .. k + 1 /\ (log[n].block = k + 1 => log[n].at < pos)
        BY <1>2, <2>8
      <4>2. log[n].block \in 1 .. k \/ log[n].block = k + 1
        BY <2>8, <4>1
      <4> QED
        BY <2>7, <2>8, <4>1, <4>2
    <3> QED
      BY <3>1 DEF Behind
  <2> QED
    BY <1>1, <2>5, <2>6, <2>9, <2>10, AddIsLast
<1> QED
  BY <1>3, <1>4

LEMMA StoreStays ==
  ASSUME Stored, UNCHANGED <<blocks, log, pos>>
  PROVE  Stored' /\ log' = log /\ \A n : Item(n)' = Item(n)
<1>1. Stored'
  BY DEF Stored
<1>2. \A n : Item(n)' = Item(n)
  BY DEF Item, ItemAt
<1> QED
  BY <1>1, <1>2

LEMMA ClearFact == ASSUME Stored, Clear PROVE Stored' /\ log' = <<>> /\ Len(log') = 0
<1>1. blocks' = <<>> /\ log' = <<>> /\ pos' = pos
  BY DEF Clear
<1>2. IsSeq(blocks') /\ IsSeq(log') /\ Len(log') = 0 /\ pos' \in Nat
  BY <1>1, EmptyIsSeq DEF Stored
<1>3. \A n \in 1 .. Len(log') : FALSE
  BY <1>2
<1> QED
  BY <1>1, <1>2, <1>3 DEF Stored

-----------------------------------------------------------------------------
(* Where headers are.                                                      *)
LEMMA BlockIs == BlockSize \in Nat /\ BlockSize > 0
  BY HeaderAssumption

LEMMA ContentFact == ASSUME NEW f \in Files PROVE ContentSize(f) \in Nat
<1>1. f.size \in Nat
  BY FileFact
<1> QED
  BY <1>1, RoundFact DEF ContentSize

LEMMA LaidFact ==
  ASSUME Laid, NEW n \in 1 .. Len(archive)
  PROVE  /\ archive[n].file \in Files /\ archive[n].head = CreateHeader(archive[n].file, saves)
         /\ archive[n].at \in Nat /\ archive[n].hdr = HeaderSize(archive[n].head)
         /\ archive[n].hdr \in Nat /\ archive[n].hdr >= 2 * BlockSize /\ ContentSize(archive[n].file) \in Nat
         /\ Readable(archive[n].head)
<1>1. /\ archive[n].file \in Files /\ archive[n].head = CreateHeader(archive[n].file, saves)
      /\ archive[n].at \in Nat /\ archive[n].hdr = HeaderSize(archive[n].head)
  BY DEF Laid
<1>2. /\ Readable(archive[n].head) /\ HeaderSize(archive[n].head) \in Nat
      /\ HeaderSize(archive[n].head) >= 2 * BlockSize
  BY <1>1, HeaderFact
<1> QED
  BY <1>1, <1>2, ContentFact

LEMMA EndFact ==
  ASSUME Laid, NEW n \in 1 .. Len(archive)
  PROVE  End(n) \in Nat /\ End(n) >= archive[n].at + archive[n].hdr /\ End(n) >= archive[n].at + 2 * BlockSize
<1>1. PICK a \in Nat : a = archive[n].at
  BY LaidFact
<1>2. PICK h \in Nat : h = archive[n].hdr /\ h >= 2 * BlockSize
  BY LaidFact
<1>3. PICK c \in Nat : c = ContentSize(archive[n].file)
  BY LaidFact
<1>4. End(n) = a + h + c
  BY <1>1, <1>2, <1>3 DEF End
<1> QED
  BY <1>1, <1>2, <1>4, BlockIs

LEMMA WholeFact ==
  ASSUME Laid
  PROVE  /\ Len(archive) \in Nat /\ Whole \in Nat
         /\ \A n \in 1 .. Len(archive) : End(n) <= Whole /\ (n < Len(archive) => End(n) < Whole)
<1>1. Len(archive) \in Nat
  BY IsSeqFact DEF Laid
<1>2. CASE archive = <<>>
  <2>1. Len(archive) = 0 /\ Whole = 0
    BY <1>2, EmptyIsSeq DEF Whole
  <2> QED
    BY <2>1
<1>3. CASE archive # <<>>
  <2>1. PICK m \in Nat \ {0} : m = Len(archive)
    BY <1>3, SomeOf DEF Laid
  <2>2. Whole = End(m) /\ m \in 1 .. Len(archive)
    BY <1>3, <2>1 DEF Whole
  <2>3. Whole \in Nat /\ Whole >= archive[m].at + 2 * BlockSize /\ archive[m].at \in Nat
    BY <2>2, EndFact, LaidFact
  <2>4. ASSUME NEW n \in 1 .. m, n < m PROVE End(n) < Whole /\ End(n) <= Whole
    <3>1. End(n) <= archive[m].at
      BY <2>1, <2>2, <2>4 DEF Laid
    <3>2. End(n) \in Nat
      BY <2>1, EndFact
    <3> QED
      BY <2>3, <3>1, <3>2, BlockIs
  <2>5. End(m) <= Whole
    BY <2>2, <2>3
  <2>6. \A n \in 1 .. m : n < m \/ n = m
    OBVIOUS
  <2> QED
    BY <2>1, <2>3, <2>4, <2>5, <2>6
<1> QED
  BY <1>2, <1>3

LEMMA OneHeader ==
  ASSUME Laid, NEW n \in 1 .. Len(archive), NEW m \in 1 .. Len(archive), archive[n].at = archive[m].at
  PROVE  n = m
<1>1. \A i, j \in 1 .. Len(archive) : i < j => archive[i].at < archive[j].at
  <2>1. ASSUME NEW i \in 1 .. Len(archive), NEW j \in 1 .. Len(archive), i < j
        PROVE  archive[i].at < archive[j].at
    <3>1. End(i) <= archive[j].at
      BY <2>1 DEF Laid
    <3>2. End(i) \in Nat /\ End(i) >= archive[i].at + 2 * BlockSize
      BY EndFact
    <3>3. archive[i].at \in Nat /\ archive[j].at \in Nat
      BY LaidFact
    <3> QED
      BY <3>1, <3>2, <3>3, BlockIs
  <2> QED
    BY <2>1
<1>2. archive[n].at \in Nat
  BY LaidFact
<1>3. n < m \/ m < n \/ n = m
  BY WholeFact
<1> QED
  BY <1>1, <1>2, <1>3

(* The header the scan is at is that of the next file.                     *)
LEMMA HereIs ==
  ASSUME Laid, Scanned, phase = "scan", NEW k, k = Len(log), k \in Nat
  PROVE  /\ k < Len(archive) => k + 1 \in 1 .. Len(archive) /\ Here = {k + 1} /\ readSize = archive[k + 1].at
         /\ k = Len(archive) => Here = {} /\ readSize = Whole
<1>1. Len(archive) \in Nat /\ k <= Len(archive) /\ readSize = Border(k + 1)
  BY WholeFact DEF Scanned
<1>2. CASE k < Len(archive)
  <2>1. k + 1 \in 1 .. Len(archive)
    BY <1>1, <1>2
  <2>2. readSize = archive[k + 1].at
    BY <1>1, <2>1 DEF Border
  <2>3. \A n \in 1 .. Len(archive) : archive[n].at = readSize <=> n = k + 1
    BY <2>1, <2>2, OneHeader
  <2>4. Here = {k + 1}
    BY <2>1, <2>3 DEF Here
  <2> QED
    BY <1>1, <1>2, <2>1, <2>2, <2>4
<1>3. CASE k = Len(archive)
  <2>1. readSize = Whole
    BY <1>1, <1>3 DEF Border
  <2>2. ASSUME NEW n \in 1 .. Len(archive) PROVE archive[n].at # readSize
    <3>1. End(n) \in Nat /\ End(n) >= archive[n].at + 2 * BlockSize /\ End(n) <= Whole
      BY EndFact, WholeFact
    <3>2. archive[n].at \in Nat /\ Whole \in Nat
      BY LaidFact, WholeFact
    <3> QED
      BY <2>1, <3>1, <3>2, BlockIs
  <2>3. Here = {}
    BY <2>2 DEF Here
  <2> QED
    BY <1>1, <1>3, <2>1, <2>3
<1> QED
  BY <1>1, <1>2, <1>3

-----------------------------------------------------------------------------
(* The invariant holds at the beginning and after every step.              *)
LEMMA SizedFresh ==
  ASSUME whole \in BOOLEAN, zeros \in BOOLEAN, whole, ~zeros, phase = "pack", size = Whole,
         size \in Nat, log = <<>>, readSize = 0, why = "none"
  PROVE  Sized
<1>1. phase = "pack" => size = Whole /\ whole /\ ~zeros /\ log = <<>> /\ readSize = 0 /\ why = "none"
  OBVIOUS
<1>2. phase \in {"pack", "scan", "end", "error"} /\ (phase # "pack" => archive # <<>>)
  OBVIOUS
<1>3. whole => size = Whole + (IF zeros THEN 2 * BlockSize ELSE 0)
  <2>1. (IF zeros THEN 2 * BlockSize ELSE 0) = 0
    OBVIOUS
  <2>2. size + 0 = size
    OBVIOUS
  <2> QED
    BY <2>1, <2>2
<1>4. ~whole => ~zeros /\ size < Whole
  OBVIOUS
<1> QED
  BY <1>1, <1>2, <1>3, <1>4 DEF Sized

LEMMA InitInv == ASSUME Init PROVE IInv
<1>1. /\ saves \in Saves /\ archive = <<>> /\ size = 0 /\ zeros = FALSE /\ whole = TRUE
      /\ phase = "pack" /\ readSize = 0 /\ why = "none"
      /\ blocks = <<>> /\ pos = 0 /\ log = <<>>
  BY DEF Init, StoreInit
<1>2. /\ IsSeq(archive) /\ IsSeq(blocks) /\ IsSeq(log) /\ Len(log) = 0 /\ Len(archive) = 0
  BY <1>1, EmptyIsSeq
<1>3. Stored
  BY <1>1, <1>2 DEF Stored
<1>4. Laid
  BY <1>1, <1>2 DEF Laid
<1>5. Whole = 0
  BY <1>1 DEF Whole
<1>6. Sized
  <2>1. whole \in BOOLEAN /\ zeros \in BOOLEAN
    BY <1>1
  <2>2. whole /\ ~zeros
    BY <1>1, Zenon
  <2> QED
    BY <1>1, <1>5, <2>1, <2>2, SizedFresh
<1>7. Scanned /\ AllFaithful
  BY <1>1, <1>2 DEF Scanned, AllFaithful
<1>8. HeadersAccepted
  BY <1>1 DEF HeadersAccepted
<1> QED
  BY <1>3, <1>4, <1>6, <1>7, <1>8 DEF IInv

(* The file is behind those packed before it.                              *)
LEMMA PackLaid ==
  ASSUME IInv, NEW f \in Files, PackFile(f)
  PROVE  Laid' /\ size' = Whole' /\ size' \in Nat /\ archive' # <<>>
<1>1. PICK head : head = CreateHeader(f, saves)
  OBVIOUS
<1>2. PICK e : e = [file |-> f, head |-> head, at |-> size, hdr |-> WrittenSize(head)]
  OBVIOUS
<1>3. /\ phase = "pack" /\ archive' = Append(archive, e) /\ saves' = saves
      /\ size' = size + WrittenSize(head) + (IF f.dir THEN 0 ELSE Round(f.size))
  BY <1>1, <1>2 DEF PackFile
<1>4. Laid /\ Sized /\ IsSeq(archive) /\ saves \in Saves
  BY DEF IInv, Laid
<1>5. size = Whole /\ Whole \in Nat
  BY <1>3, <1>4, WholeFact DEF Sized
<1>6. WrittenSize(head) = HeaderSize(head) /\ HeaderSize(head) \in Nat /\ HeaderSize(head) >= 2 * BlockSize
  BY <1>1, HeaderFact
<1>7. PICK m : m = Len(archive)
  OBVIOUS
<1>8. IsSeq(archive') /\ m \in Nat /\ Len(archive') = m + 1
  BY <1>3, <1>4, <1>7, AppendFact
<1>9. archive'[m + 1] = e
  BY <1>3, <1>4, <1>7, AppendNew
<1>10. \A n \in 1 .. m : archive'[n] = archive[n]
  BY <1>3, <1>4, <1>7, AppendOld
<1>11. e.file = f /\ e.head = head /\ e.at = size /\ e.hdr = HeaderSize(head)
  BY <1>2, <1>6
<1>12. ContentSize(f) \in Nat /\ ContentSize(f) = (IF f.dir THEN 0 ELSE Round(f.size))
  BY ContentFact DEF ContentSize
<1>13. PICK hs \in Nat : hs = HeaderSize(head)
  BY <1>6
<1>14. PICK cs \in Nat : cs = ContentSize(f)
  BY <1>12
<1>15. size' = size + hs + cs /\ size' \in Nat
  BY <1>3, <1>5, <1>6, <1>12, <1>13, <1>14
<1>16. \A n : End(n)' = archive'[n].at + archive'[n].hdr + ContentSize(archive'[n].file)
  BY DEF End, ContentSize
<1>17. End(m + 1)' = size'
  BY <1>9, <1>11, <1>13, <1>14, <1>15, <1>16
<1>18. \A n \in 1 .. m : End(n)' = End(n)
  BY <1>10, <1>16 DEF End
<1>19. archive' # <<>>
  BY <1>8, EmptyIsSeq
<1>20. Whole' = size'
  <2>1. Whole' = End(Len(archive))'
    BY <1>19 DEF Whole
  <2>2. End(Len(archive))' = archive'[Len(archive')].at + archive'[Len(archive')].hdr
                             + ContentSize(archive'[Len(archive')].file)
    BY DEF End, ContentSize
  <2> QED
    BY <1>8, <1>16, <1>17, <2>1, <2>2
<1>21. ASSUME NEW n \in 1 .. m + 1
       PROVE  /\ archive'[n].file \in Files /\ archive'[n].head = CreateHeader(archive'[n].file, saves')
              /\ archive'[n].at \in Nat /\ archive'[n].hdr = HeaderSize(archive'[n].head)
  <2>1. CASE n \in 1 .. m
    BY <1>3, <1>4, <1>7, <1>10, <2>1, LaidFact
  <2>2. CASE n = m + 1
    BY <1>1, <1>3, <1>5, <1>9, <1>11, <2>2
  <2> QED
    BY <1>8, <2>1, <2>2
<1>22. archive'[1].at = 0
  <2>1. CASE m = 0
    <3>1. archive = <<>>
      BY <1>4, <1>7, <2>1, SomeOf
    <3> QED
      BY <1>5, <1>9, <1>11, <2>1, <3>1 DEF Whole
  <2>2. CASE m # 0
    <3>1. 1 \in 1 .. m /\ archive # <<>>
      BY <1>7, <1>8, <2>2, EmptyIsSeq
    <3> QED
      BY <1>4, <1>10, <3>1 DEF Laid
  <2> QED
    BY <2>1, <2>2
<1>23. ASSUME NEW n \in 1 .. m + 1, NEW l \in 1 .. m + 1, n < l
       PROVE  End(n)' <= archive'[l].at /\ (l = n + 1 => archive'[l].at = End(n)')
  <2>1. n \in 1 .. m
    BY <1>8, <1>23
  <2>2. CASE l \in 1 .. m
    BY <1>4, <1>7, <1>10, <1>18, <1>23, <2>1, <2>2 DEF Laid
  <2>3. CASE l = m + 1
    <3>1. archive'[l].at = Whole
      BY <1>5, <1>9, <1>11, <2>3
    <3>2. End(n) <= Whole
      BY <1>4, <1>7, <2>1, WholeFact
    <3>3. l = n + 1 => Whole = End(n)
      <4>1. CASE l = n + 1
        <5>1. n = m
          BY <1>8, <2>1, <2>3, <4>1
        <5>2. archive # <<>>
          BY <1>7, <1>8, <2>1, EmptyIsSeq
        <5> QED
          BY <1>7, <5>1, <5>2 DEF Whole
      <4> QED
        BY <4>1
    <3> QED
      BY <1>18, <2>1, <3>1, <3>2, <3>3
  <2> QED
    BY <1>8, <2>2, <2>3
<1>24. \A n \in 1 .. m + 1 : n + 1 <= m + 1 => archive'[n + 1].at = End(n)'
  <2>1. ASSUME NEW n \in 1 .. m + 1, n + 1 <= m + 1 PROVE archive'[n + 1].at = End(n)'
    <3>1. PICK l : l = n + 1
      OBVIOUS
    <3>2. l \in 1 .. m + 1 /\ n < l
      BY <1>8, <2>1, <3>1
    <3> QED
      BY <1>23, <3>1, <3>2
  <2> QED
    BY <2>1
<1>25. Laid'
  <2>1. saves' \in Saves /\ IsSeq(archive)'
    BY <1>3, <1>4, <1>8 DEF IsSeq
  <2>2. Len(archive)' = m + 1
    BY <1>8
  <2> QED
    BY <1>21, <1>22, <1>23, <1>24, <2>1, <2>2 DEF Laid
<1> QED
  BY <1>15, <1>19, <1>20, <1>25

LEMMA PackInv == ASSUME IInv, NEW f \in Files, PackFile(f) PROVE IInv'
<1>1. Laid' /\ size' = Whole' /\ size' \in Nat /\ archive' # <<>>
  BY PackLaid
<1>2. /\ phase = "pack" /\ UNCHANGED <<saves, zeros, damage, whole, phase, readSize, why>>
      /\ UNCHANGED <<blocks, log, pos>>
  BY DEF PackFile, storeVars, readVars
<1>3. log = <<>> /\ whole /\ ~zeros /\ readSize = 0 /\ why = "none" /\ whole \in BOOLEAN /\ zeros \in BOOLEAN
  BY <1>2 DEF IInv, Sized
<1>4. Stored'
  BY <1>2, StoreStays DEF IInv
<1>5. Sized'
  <2>1. whole' = whole /\ zeros' = zeros
    BY <1>2
  <2>2. whole' \in BOOLEAN /\ zeros' \in BOOLEAN
    BY <1>3, <2>1
  <2>3. whole' /\ ~zeros'
    BY <1>3, <2>1, Zenon
  <2>4. phase' = "pack" /\ log' = <<>> /\ readSize' = 0 /\ why' = "none"
    BY <1>2, <1>3
  <2>5. phase' = "pack" => size' = Whole' /\ whole' /\ ~zeros' /\ log' = <<>> /\ readSize' = 0
                           /\ why' = "none"
    BY <1>1, <2>3, <2>4
  <2>6. phase' \in {"pack", "scan", "end", "error"} /\ (phase' # "pack" => archive' # <<>>)
    BY <2>4
  <2>7. whole' => size' = Whole' + (IF zeros' THEN 2 * BlockSize ELSE 0)
    <3>1. (IF zeros' THEN 2 * BlockSize ELSE 0) = 0
      BY <2>3
    <3>2. \A z \in Nat : z + 0 = z
      OBVIOUS
    <3>3. size' \in Nat /\ size' = Whole'
      BY <1>1
    <3>4. Whole' + 0 = size'
      BY <3>2, <3>3
    <3> QED
      BY <3>1, <3>4
  <2>8. ~whole' => ~zeros' /\ size' < Whole'
    BY <2>3
  <2> QED
    BY <1>1, <2>2, <2>5, <2>6, <2>7, <2>8 DEF Sized
<1>6. Len(log') = 0
  BY <1>2, <1>3, EmptyIsSeq
<1>7. Len(archive') \in Nat
  BY <1>1, IsSeqFact DEF Laid
<1>8. Scanned'
  BY <1>2, <1>6, <1>7 DEF Scanned
<1>9. AllFaithful'
  BY <1>6 DEF AllFaithful
<1>10. HeadersAccepted'
  BY <1>2, <1>3 DEF HeadersAccepted
<1> QED
  BY <1>1, <1>4, <1>5, <1>8, <1>9, <1>10 DEF IInv

LEMMA ArchiveStays ==
  ASSUME Laid, archive' = archive, saves' = saves
  PROVE  Laid' /\ Whole' = Whole /\ \A n : Border(n)' = Border(n)
<1>1. \A n : End(n)' = End(n)
  BY DEF End, ContentSize
<1>2. Laid'
  BY <1>1 DEF Laid, IsSeq
<1>3. End(Len(archive))' = End(Len(archive))
  BY DEF End, ContentSize
<1>4. Whole' = Whole
  BY <1>3 DEF Whole
<1>5. \A n : Border(n)' = Border(n)
  BY <1>4 DEF Border
<1> QED
  BY <1>2, <1>4, <1>5

LEMMA FaithfulStays ==
  ASSUME archive' = archive, saves' = saves, NEW n, Item(n)' = Item(n), Faithful(Item(n), archive[n])
  PROVE  Faithful(Item(n), archive[n])'
  BY DEF Faithful

LEMMA ListStays ==
  ASSUME IInv, archive' = archive, saves' = saves, UNCHANGED <<blocks, log, pos>>
  PROVE  Stored' /\ AllFaithful' /\ log' = log
<1>1. Stored' /\ log' = log /\ \A n : Item(n)' = Item(n)
  BY StoreStays DEF IInv
<1>2. ASSUME NEW n \in 1 .. Len(log') PROVE Faithful(Item(n), archive[n])'
  <2>1. Faithful(Item(n), archive[n])
    BY <1>1, <1>2 DEF IInv, AllFaithful
  <2> QED
    BY <1>1, <2>1, FaithfulStays
<1>3. AllFaithful'
  BY <1>2 DEF AllFaithful
<1> QED
  BY <1>1, <1>3

LEMMA SizedAfter ==
  ASSUME whole' \in BOOLEAN, zeros' \in BOOLEAN, phase' \in {"scan", "end", "error"},
         archive' # <<>>, size' \in Nat,
         whole' => size' = Whole' + (IF zeros' THEN 2 * BlockSize ELSE 0),
         ~whole' => ~zeros' /\ size' < Whole'
  PROVE  Sized'
<1>1. phase' # "pack" /\ phase' \in {"pack", "scan", "end", "error"}
  OBVIOUS
<1> QED
  BY <1>1 DEF Sized

LEMMA SizedStays ==
  ASSUME IInv, UNCHANGED archiveVars, phase # "pack", phase' \in {"scan", "end", "error"}
  PROVE  /\ Laid' /\ Sized' /\ Whole' = Whole /\ \A n : Border(n)' = Border(n)
         /\ archive' = archive /\ saves' = saves /\ whole' = whole /\ damage' = damage
<1>1. archive' = archive /\ saves' = saves /\ size' = size /\
      whole' = whole /\ zeros' = zeros /\ damage' = damage
  BY DEF archiveVars
<1>2. Laid' /\ Whole' = Whole /\ \A n : Border(n)' = Border(n)
  BY <1>1, ArchiveStays DEF IInv
<1>3. Sized'
  BY <1>1, <1>2, SizedAfter DEF IInv, Sized
<1> QED
  BY <1>1, <1>2, <1>3

LEMMA StutterInv ==
  ASSUME IInv, UNCHANGED archiveVars, UNCHANGED <<phase, readSize, why>>, UNCHANGED <<blocks, log, pos>>
  PROVE  IInv'
<1>1. archive' = archive /\ saves' = saves /\ size' = size /\
      whole' = whole /\ zeros' = zeros /\ damage' = damage
  BY DEF archiveVars
<1>2. Laid' /\ Whole' = Whole /\ \A n : Border(n)' = Border(n)
  BY <1>1, ArchiveStays DEF IInv
<1>3. Stored' /\ AllFaithful' /\ log' = log
  BY <1>1, ListStays
<1>4. Sized'
  BY <1>1, <1>2, <1>3 DEF IInv, Sized
<1>5. Scanned'
  <2>1. Border(Len(log) + 1)' = Border(Len(log) + 1)
    <3>1. PICK k : k = Len(log) + 1
      OBVIOUS
    <3>2. Border(k)' = Border(k)
      BY <1>2
    <3>3. Border(Len(log) + 1)' =
           IF Len(log') + 1 <= Len(archive') THEN archive'[Len(log') + 1].at ELSE Whole'
      BY DEF Border
    <3> QED
      BY <1>1, <1>2, <1>3, <3>3 DEF Border
  <2> QED
    BY <1>1, <1>3, <2>1 DEF IInv, Scanned
<1>6. HeadersAccepted'
  BY <1>1 DEF IInv, HeadersAccepted
<1> QED
  BY <1>2, <1>3, <1>4, <1>5, <1>6 DEF IInv

(* Where the scan is, after a step, if it has listed k files.              *)
LEMMA ScannedAfter ==
  ASSUME NEW k \in Nat, Len(log') = k, Len(archive') \in Nat, k <= Len(archive'),
         phase' = "scan" => readSize' = Border(k + 1)',
         phase' = "end" /\ whole' => k = Len(archive')
  PROVE  Scanned'
<1>1. Border(Len(log) + 1)' = Border(k + 1)'
  BY DEF Border
<1> QED
  BY <1>1 DEF Scanned

LEMMA FirstHeader == ASSUME Laid, archive # <<>> PROVE Border(1) = 0 /\ Len(archive) \in Nat \ {0}
<1>1. Len(archive) \in Nat \ {0}
  BY SomeOf DEF Laid
<1>2. archive[1].at = 0
  BY DEF Laid
<1>3. 1 <= Len(archive)
  BY <1>1
<1> QED
  BY <1>1, <1>2, <1>3 DEF Border

LEMMA OpenInv == ASSUME IInv, Open PROVE IInv'
<1>1. /\ phase = "pack" /\ archive # <<>> /\ phase' = "scan" /\ archive' = archive /\ saves' = saves
      /\ readSize' = readSize /\ why' = why /\ UNCHANGED <<blocks, log, pos>>
  BY DEF Open, storeVars, readVars
<1>2. Laid /\ Sized /\ Laid' /\ Whole' = Whole /\ \A n : Border(n)' = Border(n)
  BY <1>1, ArchiveStays DEF IInv
<1>3. /\ size = Whole /\ whole /\ ~zeros /\ log = <<>> /\ readSize = 0 /\ why = "none"
      /\ whole \in BOOLEAN /\ zeros \in BOOLEAN /\ size \in Nat
  BY <1>1, <1>2 DEF Sized
<1>4. Stored' /\ AllFaithful' /\ log' = log
  BY <1>1, ListStays
<1>5. Scanned'
  <2>1. Len(log') = 0 /\ 0 \in Nat
    BY <1>3, <1>4, EmptyIsSeq
  <2>2. Len(archive') \in Nat /\ 0 <= Len(archive')
    BY <1>1, <1>2, FirstHeader
  <2>3. readSize' = Border(1)'
    BY <1>1, <1>2, <1>3, FirstHeader
  <2>4. Border(0 + 1)' = Border(1)'
    BY DEF Border
  <2> QED
    BY <1>1, <2>1, <2>2, <2>3, <2>4, ScannedAfter
<1>6. Sized'
  <2>1. phase' \in {"scan", "end", "error"} /\ archive' # <<>>
    BY <1>1
  <2>2. BlockSize \in Nat /\ Whole \in Nat /\ Whole' = Whole
    BY <1>2, <1>3, BlockIs
  <2>3. CASE size' = size /\ zeros' = zeros /\ whole' = whole
    <3>1. whole' => size' = Whole' + (IF zeros' THEN 2 * BlockSize ELSE 0)
      <4>1. zeros' = FALSE
        BY <1>3, <2>3
      <4> QED
        BY <1>3, <2>2, <2>3, <4>1
    <3> QED
      BY <1>3, <2>1, <2>3, <3>1, SizedAfter
  <2>4. CASE zeros' = TRUE /\ size' = size + 2 * BlockSize /\ whole' = whole
    <3>1. size' = Whole' + (IF zeros' THEN 2 * BlockSize ELSE 0) /\ size' \in Nat
      BY <1>3, <2>2, <2>4
    <3> QED
      BY <1>3, <2>1, <2>4, <3>1, SizedAfter
  <2>5. CASE /\ whole' = FALSE /\ zeros' = zeros
             /\ \E n \in 1 .. Len(archive), k \in CutAt :
                   archive[n].at + k < size /\ size' = archive[n].at + k
    <3>1. PICK n \in 1 .. Len(archive), k \in CutAt : archive[n].at + k < size /\ size' = archive[n].at + k
      BY <2>5
    <3>2. archive[n].at \in Nat /\ k \in Nat
      BY <1>2, LaidFact, FilesAssumption
    <3>3. size' \in Nat /\ size' < Whole'
      BY <1>3, <2>2, <3>1, <3>2
    <3> QED
      BY <1>3, <2>1, <2>5, <3>3, SizedAfter
  <2>6. \/ size' = size /\ zeros' = zeros /\ whole' = whole
        \/ zeros' = TRUE /\ size' = size + 2 * BlockSize /\ whole' = whole
        \/ /\ whole' = FALSE /\ zeros' = zeros
           /\ \E n \in 1 .. Len(archive), k \in CutAt : archive[n].at + k < size /\ size' = archive[n].at + k
    BY DEF Open
  <2> QED
    BY <2>3, <2>4, <2>5, <2>6
<1>7. HeadersAccepted'
  BY <1>1, <1>3 DEF HeadersAccepted
<1> QED
  BY <1>2, <1>4, <1>5, <1>6, <1>7 DEF IInv

(* What is added to the index is what was packed.                          *)
LEMMA NewIsFaithful ==
  ASSUME Laid, NEW n \in 1 .. Len(archive), readSize = archive[n].at, NEW junk, NEW h, h = archive[n].head,
         NEW item, item = CacheItem(h, HeaderSize(h) + Round(Fields(h).size), junk)
  PROVE  item.chars \in Nat /\ Faithful(item, archive[n])
<1>1. PICK e : e = archive[n]
  OBVIOUS
<1>2. PICK f \in Files : f = e.file
  BY <1>1, LaidFact
<1>3. h = CreateHeader(f, saves) /\ e.hdr = HeaderSize(h) /\ e.at = readSize
  BY <1>1, <1>2, LaidFact
<1>4. PICK info : info = ParseHeader(h, junk)
  OBVIOUS
<1>s. saves \in Saves
  BY DEF Laid
<1>5. info.name = f.name
  BY <1>3, <1>4, <1>s, ParseFact
<1>6. info.size = (IF f.dir THEN 0 ELSE f.size)
  BY <1>3, <1>4, <1>s, ParseFact
<1>7. "directory" \in info.attr <=> f.dir
  BY <1>3, <1>4, <1>s, ParseFact
<1>8. info.attr \cap Saveable = f.attr \cap (saves.attr \cup {"readonly"})
  BY <1>3, <1>4, <1>s, ParseFact
<1>9. Fractional(f.mtime) => info.mtime = f.mtime
  BY <1>3, <1>4, <1>s, ParseFact
<1>10. Fractional(f.ctime) /\ "ctime" \in saves.time => info.ctime = f.ctime
  BY <1>3, <1>4, <1>s, ParseFact
<1>11. PICK total : total = HeaderSize(h) + Round(Fields(h).size)
  OBVIOUS
<1>12. /\ item.chars = info.name.wide - 2 /\ item.name = info.name.id /\ item.data_size = info.size
       /\ item.pack_size = total /\ item.attr = info.attr /\ item.ctime = info.ctime
       /\ item.mtime = info.mtime /\ item.pos = readSize /\ item.hdr_size = HeaderSize(h)
  BY <1>4, <1>11 DEF CacheItem
<1>13. f.name.wide \in 3 .. MaxChars + 2 /\ MaxChars \in Nat
  <2>1. f.name \in [id : STRING, len : 1 .. LongestName, wide : 3 .. MaxChars + 2]
    BY FileFact
  <2> QED
    BY <2>1, StoreAssumption
<1>14. item.chars \in Nat
  BY <1>5, <1>12, <1>13
<1>15. f.dir \/ f.size <= OldSizeLimit => item.pack_size = e.hdr + Round(item.data_size)
  <2>1. Fields(h).size = IF h.dir THEN 0 ELSE h.size
    BY DEF Fields
  <2>2. h.dir = f.dir /\ h.size = Smaller(f.size, OldSizeLimit)
    BY <1>3 DEF CreateHeader
  <2>3. f.size \in Nat /\ OldSizeLimit \in Nat
    BY FileFact, HeaderAssumption
  <2>4. f.size <= OldSizeLimit => Smaller(f.size, OldSizeLimit) = f.size
    BY <2>3 DEF Smaller
  <2>5. f.dir \/ f.size <= OldSizeLimit => Fields(h).size = info.size
    BY <1>6, <2>1, <2>2, <2>4
  <2> QED
    BY <1>3, <1>11, <1>12, <2>5
<1>16. Faithful(item, e)
  BY <1>2, <1>3, <1>5, <1>6, <1>7, <1>8, <1>9, <1>10, <1>12, <1>15 DEF Faithful
<1> QED
  BY <1>1, <1>14, <1>16

(* Past the content is the next header, and at the end of what was packed  *)
(* the end.                                                                *)
LEMMA SkipFact ==
  ASSUME IInv, phase = "scan", NEW n \in 1 .. Len(archive), readSize = archive[n].at, SkipContent(n)
  PROVE  /\ phase' \in {"scan", "end"}
         /\ phase' = "scan" => readSize' = End(n)
         /\ phase' = "end" /\ whole => n = Len(archive)
<1>1. PICK f \in Files : f = archive[n].file
  BY LaidFact DEF IInv
<1>2. PICK h : h = archive[n].head
  OBVIOUS
<1>3. PICK content : content = ParseHeader(h, [mtime |-> 0, ctime |-> 0]).size
  OBVIOUS
<1>4. PICK after : after = readSize + HeaderSize(h) + Round(content)
  OBVIOUS
<1>5. IF content # 0 /\ after >= size THEN readSize' = size /\ phase' = "end"
      ELSE readSize' = after /\ phase' = phase
  BY <1>2, <1>3, <1>4 DEF SkipContent
<1>6. content = IF f.dir THEN 0 ELSE f.size
  <2>1. h = CreateHeader(f, saves) /\ saves \in Saves
    BY <1>1, <1>2, LaidFact DEF IInv, Laid
  <2>2. PICK junk : junk = [mtime |-> 0, ctime |-> 0]
    OBVIOUS
  <2>3. PICK info : info = ParseHeader(h, junk)
    OBVIOUS
  <2>4. info.size = (IF f.dir THEN 0 ELSE f.size)
    BY <2>1, <2>3, ParseFact
  <2> QED
    BY <1>3, <2>2, <2>3, <2>4
<1>7. Round(content) = ContentSize(f)
  BY <1>6, RoundFact DEF ContentSize
<1>8. after = End(n)
  <2>1. archive[n].hdr = HeaderSize(h)
    BY <1>2, LaidFact DEF IInv
  <2> QED
    BY <1>1, <1>4, <1>7, <2>1 DEF End
<1>9. CASE content # 0 /\ after >= size
  <2>1. phase' = "end"
    BY <1>5, <1>9
  <2>2. ASSUME whole PROVE n = Len(archive)
    <3>1. size = Whole + (IF zeros THEN 2 * BlockSize ELSE 0)
      BY <2>2 DEF IInv, Sized
    <3>2. PICK z \in Nat : z = IF zeros THEN 2 * BlockSize ELSE 0
      BY BlockIs
    <3>3. Whole \in Nat /\ End(n) \in Nat /\ (n < Len(archive) => End(n) < Whole) /\ Len(archive) \in Nat
      BY WholeFact, EndFact DEF IInv
    <3>4. End(n) >= Whole + z
      BY <1>8, <1>9, <3>1, <3>2
    <3> QED
      BY <3>2, <3>3, <3>4
  <2> QED
    BY <2>1, <2>2
<1>10. CASE ~(content # 0 /\ after >= size)
  BY <1>5, <1>8, <1>10
<1> QED
  BY <1>9, <1>10

LEMMA BorderNext ==
  ASSUME Laid, NEW n \in 1 .. Len(archive) PROVE Border(n + 1) = End(n)
<1>1. Len(archive) \in Nat
  BY WholeFact
<1>2. CASE n + 1 <= Len(archive)
  <2>1. archive[n + 1].at = End(n)
    BY <1>2 DEF Laid
  <2> QED
    BY <1>2, <2>1 DEF Border
<1>3. CASE ~(n + 1 <= Len(archive))
  <2>1. n = Len(archive) /\ archive # <<>>
    BY <1>1, <1>3, EmptyIsSeq
  <2> QED
    BY <1>3, <2>1 DEF Border, Whole
<1> QED
  BY <1>2, <1>3

LEMMA LogLen == ASSUME IInv PROVE Len(log) \in Nat /\ Len(log) <= Len(archive) /\ Len(archive) \in Nat
  BY IsSeqFact DEF IInv, Stored, Scanned, Laid

LEMMA ScanHeaderInv == ASSUME IInv, ScanHeader PROVE IInv'
<1>1. PICK n \in Here, junk \in [{"mtime", "ctime"} -> NsecJunk] :
        /\ AddFile(CacheItem(archive[n].head,
                             HeaderSize(archive[n].head) + Round(Fields(archive[n].head).size), junk))
        /\ SkipContent(n)
  BY DEF ScanHeader
<1>2. phase = "scan" /\ UNCHANGED archiveVars /\ why' = why
  BY DEF ScanHeader
<1>3. PICK k : k = Len(log)
  OBVIOUS
<1>4. k \in Nat /\ k <= Len(archive) /\ Len(archive) \in Nat
  BY <1>3, LogLen
<1>5. n = k + 1 /\ k < Len(archive) /\ n \in 1 .. Len(archive) /\ readSize = archive[n].at
  BY <1>2, <1>3, <1>4, HereIs DEF IInv
<1>6. PICK h : h = archive[n].head
  OBVIOUS
<1>7. PICK item : item = CacheItem(h, HeaderSize(h) + Round(Fields(h).size), junk)
  OBVIOUS
<1>8. item.chars \in Nat /\ Faithful(item, archive[n])
  BY <1>5, <1>6, <1>7, NewIsFaithful DEF IInv
<1>9. AddFile(item)
  BY <1>1, <1>6, <1>7
<1>10. Stored' /\ Grown(item, k)
  BY <1>3, <1>8, <1>9, AddFileFact DEF IInv
<1>11. /\ phase' \in {"scan", "end"} /\ (phase' = "scan" => readSize' = End(n))
       /\ (phase' = "end" /\ whole => n = Len(archive))
  BY <1>1, <1>2, <1>5, SkipFact
<1>12. /\ Laid' /\ Sized' /\ Whole' = Whole /\ \A i : Border(i)' = Border(i)
       /\ archive' = archive /\ saves' = saves /\ whole' = whole /\ damage' = damage
  BY <1>2, <1>11, SizedStays
<1>13. Scanned'
  <2>1. Len(log') = n /\ n \in Nat /\ n <= Len(archive')
    BY <1>4, <1>5, <1>10, <1>12 DEF Grown
  <2>2. Border(n + 1)' = End(n)
    <3>1. PICK l : l = n + 1
      OBVIOUS
    <3>2. Border(l)' = Border(l)
      BY <1>12
    <3>3. Border(n + 1) = End(n)
      BY <1>5, BorderNext DEF IInv
    <3>4. Border(n + 1)' = Border(l)'
      BY <3>1 DEF Border
    <3> QED
      BY <3>1, <3>2, <3>3, <3>4
  <2>3. phase' = "scan" => readSize' = Border(n + 1)'
    BY <1>11, <2>2
  <2>4. phase' = "end" /\ whole' => n = Len(archive')
    BY <1>11, <1>12
  <2>5. Len(archive') \in Nat
    BY <1>4, <1>12
  <2> QED
    BY <2>1, <2>3, <2>4, <2>5, ScannedAfter
<1>14. AllFaithful'
  <2>1. ASSUME NEW i \in 1 .. k + 1 PROVE Faithful(Item(i), archive[i])'
    <3>1. CASE i \in 1 .. k
      <4>1. Item(i)' = Item(i)
        BY <1>10, <3>1 DEF Grown
      <4>2. Faithful(Item(i), archive[i])
        BY <1>3, <3>1 DEF IInv, AllFaithful
      <4> QED
        BY <1>12, <4>1, <4>2, FaithfulStays
    <3>2. CASE i = n
      <4>1. Item(i)' = item
        BY <1>5, <1>10, <3>2 DEF Grown
      <4>2. Faithful(item, archive[i])
        BY <1>8, <3>2
      <4> QED
        BY <1>12, <4>1, <4>2 DEF Faithful
    <3> QED
      BY <1>4, <1>5, <3>1, <3>2
  <2>2. Len(log') = k + 1
    BY <1>10 DEF Grown
  <2> QED
    BY <2>1, <2>2 DEF AllFaithful
<1>15. HeadersAccepted'
  BY <1>2, <1>12 DEF IInv, HeadersAccepted
<1> QED
  BY <1>10, <1>12, <1>13, <1>14, <1>15 DEF IInv

(* Where the next header is, all of it is there, if nothing was cut.       *)
LEMMA LeftFact ==
  ASSUME Laid, Sized, whole, NEW n \in 1 .. Len(archive), readSize = archive[n].at
  PROVE  Left >= archive[n].hdr /\ ~AtEnd
<1>1. PICK z \in Nat : z = IF zeros THEN 2 * BlockSize ELSE 0
  BY BlockIs
<1>2. size = Whole + z
  BY <1>1 DEF Sized
<1>3. PICK a \in Nat : a = archive[n].at
  BY LaidFact
<1>4. PICK h \in Nat : h = archive[n].hdr /\ h >= 2 * BlockSize
  BY LaidFact
<1>5. Whole \in Nat /\ Whole >= a + h
  <2>1. End(n) \in Nat /\ End(n) >= a + h /\ End(n) <= Whole /\ Whole \in Nat
    BY <1>3, <1>4, EndFact, WholeFact
  <2> QED
    BY <2>1
<1>6. Left = (Whole + z) - a
  <2>1. size - readSize = (Whole + z) - a
    BY <1>2, <1>3
  <2> QED
    BY <2>1 DEF Left
<1>7. Left >= h + z /\ Left \in Int
  BY <1>3, <1>4, <1>5, <1>6
<1>8. ~(Left < BlockSize)
  BY <1>4, <1>7, BlockIs
<1>9. ~(zeros /\ Left = 2 * BlockSize)
  <2>1. CASE zeros
    <3>1. z = 2 * BlockSize
      BY <1>1, <2>1
    <3> QED
      BY <1>4, <1>7, <3>1, BlockIs
  <2> QED
    BY <2>1
<1> QED
  BY <1>4, <1>7, <1>8, <1>9 DEF AtEnd

(* Behind the last file is the end.                                        *)
LEMMA EndIsEnd == ASSUME Laid, Sized, archive # <<>>, readSize = Whole PROVE AtEnd
<1>1. Whole \in Nat /\ BlockSize \in Nat /\ BlockSize > 0 /\ size \in Nat
  BY WholeFact, BlockIs DEF Sized
<1>0. readSize > 0
  <2>1. Len(archive) \in Nat \ {0}
    BY FirstHeader
  <2>2. 1 \in 1 .. Len(archive)
    BY <2>1
  <2>3. PICK a \in Nat : a = archive[1].at
    BY <2>2, LaidFact
  <2>4. End(1) \in Nat /\ End(1) >= a + 2 * BlockSize /\ End(1) <= Whole
    BY <2>2, <2>3, EndFact, WholeFact
  <2> QED
    BY <1>1, <2>4
<1>2. CASE whole /\ zeros
  <2>1. size = Whole + 2 * BlockSize
    BY <1>2 DEF Sized
  <2>2. size - Whole = 2 * BlockSize
    BY <1>1, <2>1
  <2> QED
    BY <1>0, <1>2, <2>2 DEF AtEnd, Left
<1>3. CASE whole /\ ~zeros
  <2>1. size = Whole + 0
    BY <1>3 DEF Sized
  <2>2. size - Whole < BlockSize
    BY <1>1, <2>1
  <2> QED
    BY <1>0, <2>2 DEF AtEnd, Left
<1>4. CASE ~whole
  <2>1. size < Whole
    BY <1>4 DEF Sized
  <2>2. size - Whole < BlockSize
    BY <1>1, <2>1
  <2> QED
    BY <1>0, <2>2 DEF AtEnd, Left
<1> QED
  BY <1>2, <1>3, <1>4

LEMMA ScanEndInv == ASSUME IInv, ScanEnd PROVE IInv'
<1>1. /\ phase = "scan" /\ AtEnd /\ phase' = "end" /\ UNCHANGED archiveVars /\ why' = why
      /\ UNCHANGED <<blocks, log, pos>>
  BY DEF ScanEnd, storeVars, readVars
<1>2. PICK k : k = Len(log)
  OBVIOUS
<1>3. k \in Nat /\ k <= Len(archive) /\ Len(archive) \in Nat
  BY <1>2, LogLen
<1>4. /\ Laid' /\ Sized' /\ archive' = archive /\ saves' = saves /\ whole' = whole /\ damage' = damage
  BY <1>1, SizedStays
<1>5. Stored' /\ AllFaithful' /\ log' = log
  BY <1>1, <1>4, ListStays
<1>6. ASSUME whole PROVE k = Len(archive)
  <2>1. CASE k < Len(archive)
    <3>1. k + 1 \in 1 .. Len(archive) /\ readSize = archive[k + 1].at
      BY <1>1, <1>2, <1>3, <2>1, HereIs DEF IInv
    <3>2. ~AtEnd
      BY <1>6, <3>1, LeftFact DEF IInv
    <3> QED
      BY <1>1, <3>2
  <2> QED
    BY <1>3, <2>1
<1>7. Scanned'
  BY <1>1, <1>2, <1>3, <1>4, <1>5, <1>6 DEF Scanned
<1>8. HeadersAccepted'
  BY <1>1, <1>4 DEF IInv, HeadersAccepted
<1> QED
  BY <1>4, <1>5, <1>7, <1>8 DEF IInv

(* The end of a scan that failed.                                          *)
LEMMA FailInv ==
  ASSUME IInv, phase = "scan", NEW reason, Fail(reason), reason # "format",
         reason = "broken" => damage # {} \/ ~whole
  PROVE  IInv'
<1>1. phase' = "error" /\ why' = reason /\ UNCHANGED archiveVars /\ UNCHANGED <<blocks, log, pos>>
  BY DEF Fail, storeVars, readVars
<1>2. /\ Laid' /\ Sized' /\ archive' = archive /\ saves' = saves /\ whole' = whole /\ damage' = damage
  BY <1>1, SizedStays
<1>3. Stored' /\ AllFaithful' /\ log' = log
  BY <1>1, <1>2, ListStays
<1>4. Len(log) <= Len(archive)
  BY LogLen
<1>5. Scanned'
  BY <1>1, <1>2, <1>3, <1>4 DEF Scanned
<1>6. HeadersAccepted'
  BY <1>1, <1>2 DEF HeadersAccepted
<1> QED
  BY <1>2, <1>3, <1>5, <1>6 DEF IInv

LEMMA ScanFaultInv == ASSUME IInv, ScanFault PROVE IInv'
<1>1. phase = "scan" /\ (Fail("read") \/ Fail("memory"))
  BY DEF ScanFault
<1>2. "read" # "format" /\ "read" # "broken" /\ "memory" # "format" /\ "memory" # "broken"
  OBVIOUS
<1> QED
  BY <1>1, <1>2, FailInv

LEMMA ScanRefusesInv == ASSUME IInv, ScanRefuses PROVE IInv'
<1>1. PICK bad : bad = \E n \in Here : n \in damage \/ Left < HeaderSize(archive[n].head)
  OBVIOUS
<1>2. /\ phase = "scan" /\ ~AtEnd /\ (\A n \in Here : ~Sound(n))
      /\ Fail(IF bad THEN "broken" ELSE "format")
  BY <1>1, Zenon DEF ScanRefuses
<1>3. PICK k : k = Len(log)
  OBVIOUS
<1>4. k \in Nat /\ k <= Len(archive) /\ Len(archive) \in Nat
  BY <1>3, LogLen
<1>5. k < Len(archive)
  <2>1. CASE k = Len(archive)
    <3>1. readSize = Whole
      BY <1>2, <1>3, <1>4, <2>1, HereIs DEF IInv
    <3>2. archive # <<>>
      BY <1>2 DEF IInv, Sized
    <3> QED
      BY <1>2, <3>1, <3>2, EndIsEnd DEF IInv
  <2> QED
    BY <1>4, <2>1
<1>6. PICK n : n = k + 1
  OBVIOUS
<1>7. n \in 1 .. Len(archive) /\ n \in Here /\ readSize = archive[n].at
  BY <1>2, <1>3, <1>4, <1>5, <1>6, HereIs DEF IInv
<1>8. Readable(archive[n].head) /\ archive[n].hdr = HeaderSize(archive[n].head) /\ archive[n].hdr \in Nat
  BY <1>7, LaidFact DEF IInv
<1>9. n \in damage \/ ~(Left >= HeaderSize(archive[n].head))
  BY <1>2, <1>7, <1>8 DEF Sound
<1>10. n \in damage \/ Left < HeaderSize(archive[n].head)
  <2>1. Left \in Int
    <3>1. archive[n].at \in Nat /\ size \in Nat
      BY <1>7, LaidFact DEF IInv, Sized
    <3> QED
      BY <1>7, <3>1 DEF Left
  <2> QED
    BY <1>8, <1>9, <2>1
<1>11. bad
  BY <1>1, <1>7, <1>10
<1>12. Fail("broken")
  BY <1>2, <1>11
<1>13. damage # {} \/ ~whole
  <2>1. ASSUME whole PROVE n \in damage
    <3>1. Left >= archive[n].hdr
      BY <1>7, <2>1, LeftFact DEF IInv
    <3> QED
      BY <1>8, <1>9, <3>1
  <2> QED
    BY <2>1
<1>14. "broken" # "format"
  OBVIOUS
<1> QED
  BY <1>2, <1>12, <1>13, <1>14, FailInv

LEMMA AgainInv == ASSUME IInv, Again PROVE IInv'
<1>1. /\ phase = "error" /\ phase' = "scan" /\ readSize' = 0 /\ why' = "none" /\ Clear
      /\ UNCHANGED archiveVars
  BY DEF Again
<1>2. /\ Laid' /\ Sized' /\ archive' = archive /\ \A i : Border(i)' = Border(i)
  BY <1>1, SizedStays
<1>3. Stored' /\ Len(log') = 0
  BY <1>1, ClearFact DEF IInv
<1>4. AllFaithful'
  BY <1>3 DEF AllFaithful
<1>5. Scanned'
  <2>1. Border(1) = 0 /\ Len(archive) \in Nat \ {0}
    BY <1>1, FirstHeader DEF IInv, Sized
  <2>2. Border(0 + 1)' = Border(1)'
    BY DEF Border
  <2>3. readSize' = Border(0 + 1)'
    BY <1>1, <1>2, <2>1, <2>2
  <2>4. 0 \in Nat /\ Len(archive') \in Nat /\ 0 <= Len(archive')
    BY <1>2, <2>1
  <2>5. phase' # "end"
    BY <1>1
  <2> QED
    BY <1>3, <2>3, <2>4, <2>5, ScannedAfter
<1>6. HeadersAccepted'
  BY <1>1 DEF HeadersAccepted
<1> QED
  BY <1>2, <1>3, <1>4, <1>5, <1>6 DEF IInv

LEMMA EnumerateInv == ASSUME IInv, NEW r \in Readers, Enumerate(r) PROVE IInv'
<1>1. UNCHANGED archiveVars /\ UNCHANGED <<phase, readSize, why>>
  BY DEF Enumerate
<1>2. UNCHANGED <<blocks, log, pos>>
  BY DEF Enumerate, GetNext, Reset
<1> QED
  BY <1>1, <1>2, StutterInv

(* Every step keeps the invariant.                                         *)
LEMMA NextInv == ASSUME IInv, [Next]_vars PROVE IInv'
<1>1. CASE \E f \in Files : PackFile(f)
  BY <1>1, PackInv
<1>2. CASE Open
  BY <1>2, OpenInv
<1>3. CASE ScanHeader
  BY <1>3, ScanHeaderInv
<1>4. CASE ScanEnd
  BY <1>4, ScanEndInv
<1>5. CASE ScanFault
  BY <1>5, ScanFaultInv
<1>6. CASE ScanRefuses
  BY <1>6, ScanRefusesInv
<1>7. CASE Again
  BY <1>7, AgainInv
<1>8. CASE Ready
  BY <1>8, StutterInv DEF Ready, Publish
<1>9. CASE \E r \in Readers : Enumerate(r)
  BY <1>9, EnumerateInv
<1>10. CASE UNCHANGED vars
  BY <1>10, StutterInv DEF vars, storeVars, archiveVars
<1> QED
  BY <1>1, <1>2, <1>3, <1>4, <1>5, <1>6, <1>7, <1>8, <1>9, <1>10 DEF Next

(* The store, the archive and the scan fit together at every step: see     *)
(* IInv, from which the properties of the index follow.                    *)
THEOREM Invariance == Spec => []IInv
<1>1. Init => IInv
  BY InitInv
<1>2. IInv /\ [Next]_vars => IInv'
  BY NextInv
<1> QED
  BY <1>1, <1>2, PTL DEF Spec

LEMMA ListedIs ==
  ASSUME IInv, NEW n \in 1 .. Len(log)
  PROVE  Listed[n] = ItemAt(log[n]) /\ Faithful(Listed[n], archive[n])
<1>1. Listed[n] = ItemAt(log[n])
  BY DEF Listed
<1>2. Faithful(Item(n), archive[n])
  BY DEF IInv, AllFaithful
<1> QED
  BY <1>1, <1>2 DEF Item

-----------------------------------------------------------------------------
(* Whatever is packed and whatever happens to the archive, the index lists *)
(* files under the names they were packed with, in that order (scan_pax_   *)
(* file, add_pax_info), and a scan that ends lists all of what was not cut.*)
THEOREM IndexIsInOrder == Spec => []ListedInOrder
<1>1. ASSUME IInv PROVE ListedInOrder
  <2>1. Len(log) <= Len(archive) /\ (phase = "end" /\ whole => Len(log) = Len(archive))
    BY <1>1 DEF IInv, Scanned
  <2>2. ASSUME NEW n \in 1 .. Len(log)
        PROVE  /\ Listed[n].name = archive[n].file.name.id
               /\ Listed[n].chars = archive[n].file.name.wide - 2
               /\ "directory" \in Listed[n].attr <=> archive[n].file.dir
    BY <1>1, ListedIs DEF Faithful
  <2> QED
    BY <2>1, <2>2 DEF ListedInOrder
<1> QED
  BY <1>1, Invariance, PTL

(* An item says where the content of its file is and how long it is: the   *)
(* size the records give, the place of the header and all of its length.   *)
THEOREM ItemsSayWhere == Spec => []SizesAndPlaces
<1>1. ASSUME IInv PROVE SizesAndPlaces
  <2>1. ASSUME NEW n \in 1 .. Len(log)
        PROVE  /\ Listed[n].data_size = (IF archive[n].file.dir THEN 0 ELSE archive[n].file.size)
               /\ Listed[n].pos = archive[n].at /\ Listed[n].hdr_size = archive[n].hdr
               /\ archive[n].file.dir \/ archive[n].file.size <= OldSizeLimit =>
                    Listed[n].pack_size = archive[n].hdr + Round(Listed[n].data_size)
    BY <1>1, ListedIs DEF Faithful
  <2> QED
    BY <2>1 DEF SizesAndPlaces
<1> QED
  BY <1>1, Invariance, PTL

(* The attributes add_attr writes and parse_attr reads, with those of the  *)
(* permissions, are the saved ones of the file.                            *)
THEOREM AttributesTravel == Spec => []AttributesKept
<1>1. ASSUME IInv PROVE AttributesKept
  <2>1. ASSUME NEW n \in 1 .. Len(log)
        PROVE  Listed[n].attr \cap Saveable = archive[n].file.attr \cap (saves.attr \cup {"readonly"})
    BY <1>1, ListedIs DEF Faithful
  <2> QED
    BY <2>1 DEF AttributesKept
<1> QED
  BY <1>1, Invariance, PTL

(* A time of this epoch with a fraction is read as it was written, of any  *)
(* number of digits (code_ns_fraction, decode_time).                       *)
THEOREM FractionsTravel == Spec => []FractionKept
<1>1. ASSUME IInv PROVE FractionKept
  <2>1. ASSUME NEW n \in 1 .. Len(log)
        PROVE  /\ Fractional(archive[n].file.mtime) => Listed[n].mtime = archive[n].file.mtime
               /\ Fractional(archive[n].file.ctime) /\ "ctime" \in saves.time =>
                    Listed[n].ctime = archive[n].file.ctime
    BY <1>1, ListedIs DEF Faithful
  <2> QED
    BY <2>1 DEF FractionKept
<1> QED
  BY <1>1, Invariance, PTL

(* add_header and parse_pax_header accept every header create_header can   *)
(* write, and the scan finds each where the one before it says.            *)
THEOREM OwnHeadersAccepted == Spec => []HeadersAccepted
<1>1. IInv => HeadersAccepted
  BY DEF IInv
<1> QED
  BY <1>1, Invariance, PTL

-----------------------------------------------------------------------------
(* The items a scan makes, and that they fit in a block: what it does to   *)
(* the store is what the store may do with these items.                    *)
ItemOf(f, s, junk, p) ==
  LET h == CreateHeader(f, s)  info == ParseHeader(h, junk)
  IN  [chars |-> info.name.wide - 2, name |-> info.name.id, data_size |-> info.size,
       pack_size |-> HeaderSize(h) + Round(Fields(h).size), attr |-> info.attr,
       ctime |-> info.ctime, mtime |-> info.mtime, pos |-> p, hdr_size |-> HeaderSize(h)]

ScanItems ==
  {ItemOf(f, s, junk, p) :
     f \in Files, s \in Saves, junk \in [{"mtime", "ctime"} -> NsecJunk], p \in Nat}

LEMMA ScanItemsFit == Fitting(ScanItems)
<1> SUFFICES ASSUME NEW item \in ScanItems PROVE item.chars \in 1 .. MaxChars
  BY DEF Fitting
<1>1. PICK f \in Files, s \in Saves, junk \in [{"mtime", "ctime"} -> NsecJunk], p \in Nat :
        item = ItemOf(f, s, junk, p)
  BY DEF ScanItems
<1>2. PICK info : info = ParseHeader(CreateHeader(f, s), junk)
  OBVIOUS
<1>3. info.name = f.name
  BY <1>2, ParseFact
<1>4. item.chars = info.name.wide - 2
  BY <1>1, <1>2 DEF ItemOf
<1>5. f.name.wide \in 3 .. MaxChars + 2 /\ MaxChars \in Nat
  BY FilesAssumption, StoreAssumption
<1> QED
  BY <1>3, <1>4, <1>5

LEMMA ItemIsOf ==
  ASSUME NEW f, NEW s, NEW h, h = CreateHeader(f, s), NEW junk
  PROVE  CacheItem(h, HeaderSize(h) + Round(Fields(h).size), junk) = ItemOf(f, s, junk, readSize)
  BY DEF CacheItem, ItemOf

LEMMA ScanAdds == ASSUME IInv, ScanHeader PROVE \E item \in ScanItems : AddFile(item)
<1>1. PICK n \in Here, junk \in [{"mtime", "ctime"} -> NsecJunk] :
        AddFile(CacheItem(archive[n].head,
                          HeaderSize(archive[n].head) + Round(Fields(archive[n].head).size), junk))
  BY DEF ScanHeader
<1>2. n \in 1 .. Len(archive) /\ readSize = archive[n].at
  BY DEF Here
<1>3. /\ archive[n].file \in Files /\ archive[n].head = CreateHeader(archive[n].file, saves)
      /\ readSize \in Nat /\ saves \in Saves
  BY <1>2, LaidFact DEF IInv, Laid
<1>4. ItemOf(archive[n].file, saves, junk, readSize) \in ScanItems
  BY <1>3 DEF ScanItems
<1> QED
  BY <1>1, <1>3, <1>4, ItemIsOf

LEMMA StoreSteps == ASSUME IInv, [Next]_vars PROVE [StepOn(ScanItems)]_storeVars
<1>1. CASE \E f \in Files : PackFile(f)
  BY <1>1 DEF PackFile
<1>2. CASE Open
  BY <1>2 DEF Open
<1>3. CASE ScanHeader
  BY <1>3, ScanAdds DEF StepOn
<1>4. CASE ScanEnd
  BY <1>4 DEF ScanEnd
<1>5. CASE ScanFault
  BY <1>5 DEF ScanFault, Fail
<1>6. CASE ScanRefuses
  BY <1>6 DEF ScanRefuses, Fail
<1>7. CASE Again
  BY <1>7 DEF Again, StepOn
<1>8. CASE Ready
  BY <1>8 DEF Ready, StepOn
<1>9. CASE \E r \in Readers : Enumerate(r)
  BY <1>9 DEF Enumerate, StepOn
<1>10. CASE UNCHANGED vars
  BY <1>10 DEF vars
<1> QED
  BY <1>1, <1>2, <1>3, <1>4, <1>5, <1>6, <1>7, <1>8, <1>9, <1>10 DEF Next

(* What is proved of the store on its own holds under a scan: adding a     *)
(* file, clearing, publishing and enumerating keep its invariant, and are  *)
(* steps of the list.                                                      *)
LEMMA ScanStores ==
  IInv /\ StoreInv(ScanItems) /\ [Next]_vars =>
    StoreInv(ScanItems)' /\ [List!Next]_(List!listVars)
<1> SUFFICES ASSUME IInv, StoreInv(ScanItems), [Next]_vars
             PROVE  StoreInv(ScanItems)' /\ [List!Next]_(List!listVars)
  OBVIOUS
<1>1. [StepOn(ScanItems)]_storeVars
  BY StoreSteps
<1> QED
  BY <1>1, ScanItemsFit, StepFact

LEMMA StartsEmpty == Init => StoreInv(ScanItems) /\ List!Init
<1> SUFFICES ASSUME Init PROVE StoreInv(ScanItems) /\ List!Init
  OBVIOUS
<1>1. StoreInit
  BY DEF Init
<1> QED
  BY <1>1, InitStep

(* The items that a scan makes stay in their blocks (add_file_internal).   *)
THEOREM ScanStaysInBlocks == Spec => []NoOverrun
<1>1. StoreInv(ScanItems) => NoOverrun
  BY ScanItemsFit, InvKeepsBlocks
<1> QED
  BY <1>1, StartsEmpty, ScanStores, Invariance, PTL DEF Spec

(* The index a scan builds is a list: whatever was packed, every           *)
(* enumeration is given each file once and in order (get_next_file).       *)
THEOREM IndexIsList == Spec => IsItemList
<1> QED
  BY StartsEmpty, ScanStores, Invariance, PTL DEF Spec, IsItemList, List!Spec

=============================================================================
