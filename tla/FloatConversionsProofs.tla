----------------------- MODULE FloatConversionsProofs -----------------------
(***************************************************************************)
(* Proofs about FloatConversions for any widths of exponent and mantissa   *)
(* that its assumption allows.                                             *)
(*                                                                         *)
(* A pattern is its fields (FieldsFound, FieldsExist), and what a field is *)
(* shifted by is a power of two.  Widening is exact because the fields it  *)
(* computes stand for as many units (Widens).  Narrowing is to nearest     *)
(* because the bits that are dropped say which of the two patterns around  *)
(* a float is nearer (Dropped), and no other is between them (UnitsGrow).  *)
(***************************************************************************)
EXTENDS FloatConversions, NaturalsInduction, WellFoundedInduction, TLAPS

-----------------------------------------------------------------------------
\* Induction and recursion over the first n numbers.

\* A set of natural numbers that is not empty has a least element.
LEMMA LeastNatural ==
  ASSUME NEW S, S \subseteq Nat, S # {}
  PROVE  \E i \in S : \A j \in S : i <= j
<1>1. PICK i \in S : \A j \in S : ~(<<j, i>> \in OpToRel(<, Nat))
  BY NatLessThanWellFounded, WFMin, ZenonT(60)
<1>2. \A j \in S : ~(j < i)
  BY <1>1 DEF OpToRel
<1> QED
  BY <1>2, SMT

\* What holds of a, and of each number up to n when it holds of the one before.
LEMMA Induction ==
  ASSUME NEW a \in Int, NEW n \in Int, NEW P,
         a \in P, \A d \in a + 1 .. n : d - 1 \in P => d \in P
  PROVE  a .. n \subseteq P
<1> DEFINE wrong == {k \in Nat : a + k \in a .. n /\ a + k \notin P}
<1>1. CASE wrong = {}
  <2> SUFFICES ASSUME NEW d \in a .. n, d \notin P PROVE FALSE
    OBVIOUS
  <2>1. d - a \in Nat /\ a + (d - a) = d OBVIOUS
  <2>2. d - a \in wrong BY <2>1
  <2> QED BY <1>1, <2>2
<1>2. CASE wrong # {}
  <2>1. wrong \subseteq Nat OBVIOUS
  <2>2. PICK k \in wrong : \A j \in wrong : k <= j
    BY <1>2, <2>1, LeastNatural
  <2>3. k \in Nat /\ a + k \in a .. n /\ a + k \notin P OBVIOUS
  <2>4. k # 0 BY <2>3
  <2>5. k - 1 \in Nat /\ a + (k - 1) \in a .. n /\ a + (k - 1) = (a + k) - 1
    BY <2>3, <2>4
  <2>6. k - 1 \notin wrong BY <2>2, <2>3, <2>5
  <2>7. (a + k) - 1 \in P BY <2>5, <2>6
  <2>8. a + k \in a + 1 .. n BY <2>3, <2>4
  <2>9. \A d \in a + 1 .. n : d - 1 \in P => d \in P OBVIOUS
  <2>10. a + k \in P BY <2>7, <2>8, <2>9
  <2> QED BY <2>3, <2>10
<1> QED BY <1>1, <1>2

\* A loop that starts at x and takes step[d] in dimension d.
Loops(f, n, x, step) ==
  f[0] = x /\ \A d \in 1 .. n : f[d] = step[d][f[d - 1]]
LEMMA Recursion ==
  ASSUME NEW n \in Nat, NEW S, NEW x \in S, NEW step \in [1 .. n -> [S -> S]]
  PROVE  \E f \in [0 .. n -> S] : Loops(f, n, x, step)
<1> DEFINE Done == {k \in 0 .. n : \E f \in [0 .. k -> S] : Loops(f, k, x, step)}
<1>1. 0 \in Done
  <2>1. [d \in 0 .. 0 |-> x] \in [0 .. 0 -> S] OBVIOUS
  <2>2. Loops([d \in 0 .. 0 |-> x], 0, x, step) BY DEF Loops
  <2> QED BY <2>1, <2>2
<1>2. ASSUME NEW k \in 1 .. n, k - 1 \in Done PROVE k \in Done
  <2>1. PICK f \in [0 .. k - 1 -> S] : Loops(f, k - 1, x, step) BY <1>2
  <2> DEFINE g == [d \in 0 .. k |-> IF d = k THEN step[k][f[k - 1]] ELSE f[d]]
  <2>2. k - 1 \in 0 .. k - 1 /\ \A d \in 0 .. k : d # k => d \in 0 .. k - 1
    OBVIOUS
  <2>3. step[k][f[k - 1]] \in S BY <2>2
  <2>4. g \in [0 .. k -> S] BY <2>2, <2>3
  <2>5. Loops(g, k, x, step)
    <3>1. g[0] = x BY <2>1, <2>2 DEF Loops
    <3>2. ASSUME NEW d \in 1 .. k PROVE g[d] = step[d][g[d - 1]]
      <4>1. d \in 0 .. k /\ d - 1 \in 0 .. k /\ d - 1 # k OBVIOUS
      <4>2. CASE d = k BY <4>1, <4>2
      <4>3. CASE d # k
        <5>1. d \in 1 .. k - 1 BY <4>3
        <5>2. f[d] = step[d][f[d - 1]] BY <2>1, <5>1 DEF Loops
        <5> QED BY <4>1, <4>3, <5>2
      <4> QED BY <4>2, <4>3
    <3> QED BY <3>1, <3>2 DEF Loops
  <2> HIDE DEF g
  <2> QED BY <2>4, <2>5
<1> HIDE DEF Done
<1>3. 0 .. n \subseteq Done
  <2>1. 0 \in Int /\ n \in Int /\ 0 + 1 = 1 OBVIOUS
  <2>2. \A d \in 0 + 1 .. n : d - 1 \in Done => d \in Done BY <1>2, <2>1
  <2> QED BY <1>1, <2>1, <2>2, Induction
<1>4. n \in Done BY <1>3
<1> QED BY <1>4 DEF Done

\* A loop stays in a set that every round stays in.
LEMMA LoopType ==
  ASSUME NEW n \in Nat, NEW S, NEW f, f[0] \in S,
         \A d \in 1 .. n : f[d - 1] \in S => f[d] \in S
  PROVE  \A d \in 0 .. n : f[d] \in S
<1> DEFINE P == {d \in Int : f[d] \in S}
<1>1. 0 \in Int /\ n \in Int /\ 0 + 1 = 1 /\ 0 \in P OBVIOUS
<1>2. \A d \in 1 .. n : d - 1 \in P => d \in P OBVIOUS
<1> HIDE DEF P
<1>3. 0 .. n \subseteq P BY <1>1, <1>2, Induction
<1> QED BY <1>3 DEF P

-----------------------------------------------------------------------------
\* Powers of two.
Doubles(f, n) ==
  f \in [0 .. n -> Nat] /\ f[0] = 1 /\ \A d \in 1 .. n : f[d] = 2 * f[d - 1]

\* Two tables of powers agree where both have one.
LEMMA DoublesOnce ==
  ASSUME NEW n \in Nat, NEW k \in Nat, NEW f, NEW g, Doubles(f, n), Doubles(g, k), k <= n
  PROVE  \A d \in 0 .. k : f[d] = g[d]
<1> DEFINE P == {d \in Int : f[d] = g[d]}
<1>1. 0 \in Int /\ k \in Int /\ 0 + 1 = 1 /\ 0 \in P BY DEF Doubles
<1>2. ASSUME NEW d \in 1 .. k, d - 1 \in P PROVE d \in P
  <2>1. d \in 1 .. n /\ f[d - 1] = g[d - 1] BY <1>2
  <2>2. f[d] = 2 * f[d - 1] /\ g[d] = 2 * g[d - 1] BY <2>1 DEF Doubles
  <2> QED BY <2>1, <2>2
<1> HIDE DEF P
<1>3. 0 .. k \subseteq P
  <2>1. \A d \in 0 + 1 .. k : d - 1 \in P => d \in P BY <1>1, <1>2
  <2> QED BY <1>1, <2>1, Induction
<1> QED BY <1>3 DEF P

\* The power of a number is found from the one before it.
LEMMA PowerIs == Pow2 = [k \in Nat |-> IF k = 0 THEN 1 ELSE 2 * Pow2[k - 1]]
<1>1. ASSUME NEW n \in Nat PROVE \E f : Doubles(f, n)
  <2> DEFINE step == [d \in 1 .. n |-> [x \in Nat |-> 2 * x]]
  <2>1. step \in [1 .. n -> [Nat -> Nat]] /\ 1 \in Nat OBVIOUS
  <2>2. \A d \in 1 .. n : step[d] = [x \in Nat |-> 2 * x] OBVIOUS
  <2> HIDE DEF step
  <2>3. PICK f \in [0 .. n -> Nat] : Loops(f, n, 1, step) BY <2>1, Recursion
  <2>4. \A d \in 1 .. n : f[d] = 2 * f[d - 1]
    <3> SUFFICES ASSUME NEW d \in 1 .. n PROVE f[d] = 2 * f[d - 1] OBVIOUS
    <3>1. d - 1 \in 0 .. n /\ f[d - 1] \in Nat OBVIOUS
    <3>2. f[d] = step[d][f[d - 1]] BY <2>3 DEF Loops
    <3> QED BY <2>2, <3>1, <3>2
  <2> QED BY <2>3, <2>4 DEF Doubles, Loops
<1> DEFINE Table(n) == CHOOSE f : Doubles(f, n)
           F == [k \in Nat |-> Table(k)[k]]
<1>2. \A n \in Nat : Doubles(Table(n), n) BY <1>1
<1> HIDE DEF Table
<1>3. ASSUME NEW k \in Nat PROVE F[k] = IF k = 0 THEN 1 ELSE 2 * F[k - 1]
  <2>1. CASE k = 0 BY <1>2, <2>1 DEF Doubles
  <2>2. CASE k # 0
    <3>1. k - 1 \in Nat /\ k - 1 <= k /\ k \in 1 .. k /\ k - 1 \in 0 .. k - 1
      BY <2>2
    <3>2. Table(k)[k - 1] = Table(k - 1)[k - 1] BY <1>2, <3>1, DoublesOnce
    <3>3. Table(k)[k] = 2 * Table(k)[k - 1] BY <1>2, <3>1 DEF Doubles
    <3> QED BY <2>2, <3>1, <3>2, <3>3
  <2> QED BY <2>1, <2>2
<1>4. F = [k \in Nat |-> IF k = 0 THEN 1 ELSE 2 * F[k - 1]] BY <1>3
<1> HIDE DEF F
<1> QED BY <1>4 DEF Pow2

\* Powers are positive; the next one is twice as large.
LEMMA Power ==
  /\ Pow2[0] = 1
  /\ \A k \in Nat : Pow2[k] \in Nat /\ Pow2[k] > 0 /\ Pow2[k + 1] = 2 * Pow2[k]
<1>1. Pow2[0] = 1 BY PowerIs
<1>2. \A k \in Nat : Pow2[k + 1] = 2 * Pow2[k]
  <2> SUFFICES ASSUME NEW k \in Nat PROVE Pow2[k + 1] = 2 * Pow2[k] OBVIOUS
  <2>1. k + 1 \in Nat /\ k + 1 # 0 /\ (k + 1) - 1 = k OBVIOUS
  <2> QED BY PowerIs, <2>1
<1> DEFINE P == {k \in Int : Pow2[k] \in Nat /\ Pow2[k] > 0}
<1>3. ASSUME NEW n \in Nat PROVE n \in P
  <2>1. 0 \in Int /\ n \in Int /\ 0 + 1 = 1 /\ 0 \in P BY <1>1
  <2>2. ASSUME NEW d \in 1 .. n, d - 1 \in P PROVE d \in P
    <3>1. d - 1 \in Nat /\ (d - 1) + 1 = d OBVIOUS
    <3> QED BY <1>2, <2>2, <3>1
  <2> HIDE DEF P
  <2>3. 0 .. n \subseteq P BY <2>1, <2>2, Induction
  <2> QED BY <2>3
<1> QED BY <1>1, <1>2, <1>3

\* ... of a positive number, twice the one before it.
LEMMA PowerHalf ==
  ASSUME NEW k \in Nat, k > 0
  PROVE  k - 1 \in Nat /\ Pow2[k] = 2 * Pow2[k - 1] /\ Pow2[k - 1] \in Nat /\ Pow2[k - 1] > 0
<1>1. k - 1 \in Nat /\ (k - 1) + 1 = k OBVIOUS
<1> QED BY <1>1, Power

\* The power of a sum.
LEMMA PowerSum ==
  ASSUME NEW a \in Nat, NEW b \in Nat
  PROVE  Pow2[a + b] = Pow2[a] * Pow2[b]
<1> DEFINE P == {k \in Int : Pow2[a + k] = Pow2[a] * Pow2[k]}
<1>1. 0 \in Int /\ b \in Int /\ 0 + 1 = 1 /\ 0 \in P BY Power
<1>2. ASSUME NEW d \in 1 .. b, d - 1 \in P PROVE d \in P
  <2>1. d - 1 \in Nat /\ (d - 1) + 1 = d /\ a + (d - 1) \in Nat /\ (a + (d - 1)) + 1 = a + d
    OBVIOUS
  <2>2. Pow2[d] = 2 * Pow2[d - 1] /\ Pow2[a + d] = 2 * Pow2[a + (d - 1)] BY <2>1, Power
  <2>3. Pow2[a] \in Nat /\ Pow2[d - 1] \in Nat BY <2>1, Power
  <2>4. Pow2[a + (d - 1)] = Pow2[a] * Pow2[d - 1] BY <1>2
  <2>5. 2 * (Pow2[a] * Pow2[d - 1]) = Pow2[a] * (2 * Pow2[d - 1]) BY <2>3
  <2> QED BY <2>2, <2>4, <2>5
<1> HIDE DEF P
<1>3. 0 .. b \subseteq P BY <1>1, <1>2, Induction
<1> QED BY <1>3 DEF P

\* A larger number has a larger power.
LEMMA PowerGrows ==
  ASSUME NEW a \in Nat, NEW b \in Nat, a <= b
  PROVE  Pow2[a] <= Pow2[b] /\ (a < b => 2 * Pow2[a] <= Pow2[b])
<1> DEFINE c == b - a
<1>1. c \in Nat /\ a + c = b /\ (a < b => c > 0) OBVIOUS
<1> HIDE DEF c
<1>2. Pow2[b] = Pow2[a] * Pow2[c] BY <1>1, PowerSum
<1>3. Pow2[a] \in Nat /\ Pow2[a] > 0 /\ Pow2[c] \in Nat /\ Pow2[c] > 0 BY <1>1, Power
<1>4. c > 0 => Pow2[c] >= 2
  <2>1. CASE c > 0
    <3>1. Pow2[c] = 2 * Pow2[c - 1] /\ Pow2[c - 1] \in Nat /\ Pow2[c - 1] > 0
      BY <1>1, <2>1, PowerHalf
    <3> QED BY <3>1
  <2> QED BY <2>1
<1>5. \A x \in Nat, y \in Nat : y >= 1 => x <= x * y OBVIOUS
<1>6. \A x \in Nat, y \in Nat : y >= 2 => 2 * x <= x * y OBVIOUS
<1> QED BY <1>1, <1>2, <1>3, <1>4, <1>5, <1>6

-----------------------------------------------------------------------------
\* The fields of a pattern.

\* A number is what it has of a divisor, and the rest.
LEMMA Divided ==
  ASSUME NEW a \in Nat, NEW M \in Nat, M > 0
  PROVE  a \div M \in Nat /\ a % M \in 0 .. M - 1 /\ a = (a \div M) * M + (a % M)
<1>1. M \in Int /\ M > 0 /\ a \in Int OBVIOUS
<1> DEFINE q == a \div M
           r == a % M
<1>2. q \in Int /\ r \in 0 .. M - 1 /\ a = r + q * M BY <1>1, Z3
<1> HIDE DEF q, r
<1>3. q * M \in Int /\ (q <= -1 => q * M <= -M) BY <1>1, <1>2
<1>4. q >= 0 BY <1>1, <1>2, <1>3
<1> QED BY <1>2, <1>3, <1>4 DEF q, r

\* There is only one way to divide it.
LEMMA Division ==
  ASSUME NEW q \in Nat, NEW M \in Nat, NEW r \in 0 .. M - 1
  PROVE  (q * M + r) \div M = q /\ (q * M + r) % M = r
<1> DEFINE a == q * M + r
<1>1. M > 0 /\ q * M \in Nat /\ a \in Nat OBVIOUS
<1> DEFINE p == a \div M
           s == a % M
<1>2. p \in Nat /\ s \in 0 .. M - 1 /\ a = p * M + s BY <1>1, Divided
<1> HIDE DEF p, s
<1>3. PICK k \in Int : k = q - p BY <1>2
<1>4. k * M = q * M - p * M
  <2>1. (q - p) * M = q * M - p * M BY <1>1, <1>2
  <2> QED BY <1>3, <2>1
<1>5. p * M \in Nat BY <1>1, <1>2
<1>6. k * M = s - r BY <1>1, <1>2, <1>4, <1>5
<1>7. k * M < M /\ k * M > -M BY <1>1, <1>2, <1>6
<1>8. k * M \in Int /\ (k >= 1 => k * M >= M) /\ (k <= -1 => k * M <= -M) BY <1>1
<1>9. k = 0 BY <1>1, <1>7, <1>8
<1>10. p = q BY <1>2, <1>3, <1>9
<1>11. k * M = 0 BY <1>1, <1>9
<1>12. s = r BY <1>2, <1>6, <1>11
<1> QED BY <1>10, <1>12 DEF p, s

\* A pattern with sign s, exponent x and mantissa y.
Fields(bits, e, m, s, x, y) ==
  /\ s \in Nat /\ x \in 0 .. Pow2[e] - 1 /\ y \in 0 .. Pow2[m] - 1
  /\ bits = s * Pow2[e + m] + (x * Pow2[m] + y)

\* The bits below the sign are fewer than those of the exponent and mantissa.
LEMMA BelowSign ==
  ASSUME NEW e \in Nat, NEW m \in Nat, NEW x \in 0 .. Pow2[e] - 1, NEW y \in 0 .. Pow2[m] - 1
  PROVE  /\ x * Pow2[m] + y \in 0 .. Pow2[e + m] - 1
         /\ x * Pow2[m] + y <= Infinity(e, m) <=> x < Pow2[e] - 1 \/ y = 0
         /\ x < Pow2[e] - 1 => x * Pow2[m] + y < Infinity(e, m)
<1>1. Pow2[e] \in Nat /\ Pow2[m] \in Nat /\ Pow2[m] > 0 /\ Pow2[e + m] = Pow2[e] * Pow2[m]
  BY Power, PowerSum
<1> DEFINE A == Pow2[e]
           B == Pow2[m]
<1> HIDE DEF A, B
<1>2. /\ A \in Nat /\ B \in Nat /\ B > 0 /\ x \in Nat /\ x <= A - 1 /\ y \in Nat /\ y < B
      /\ Pow2[e + m] = A * B
  BY <1>1 DEF A, B
<1>3. x * B \in Nat /\ A * B \in Nat /\ (A - 1) * B = A * B - B BY <1>2
<1>4. x * B <= (A - 1) * B
  <2>1. \A p \in Int, q \in Int : p <= q => p * B <= q * B BY <1>2
  <2> QED BY <1>2, <2>1
<1>5. x < A - 1 => x * B + B <= (A - 1) * B
  <2>1. \A p \in Int, q \in Int : p + 1 <= q => p * B + B <= q * B BY <1>2
  <2> QED BY <1>2, <2>1
<1>6. x = A - 1 => x * B = (A - 1) * B OBVIOUS
<1>7. x * B + y \in 0 .. A * B - 1 BY <1>2, <1>3, <1>4
<1>8. x * B + y <= (A - 1) * B <=> x < A - 1 \/ y = 0 BY <1>2, <1>3, <1>4, <1>5, <1>6
<1>9. x < A - 1 => x * B + y < (A - 1) * B BY <1>2, <1>3, <1>5
<1> QED BY <1>2, <1>7, <1>8, <1>9 DEF A, B, Infinity

\* What the masks and shifts find in a pattern is its fields, ...
LEMMA FieldsFound ==
  ASSUME NEW e \in Nat, NEW m \in Nat, NEW bits, NEW s, NEW x, NEW y,
         Fields(bits, e, m, s, x, y)
  PROVE  /\ bits \in Nat
         /\ Sign(bits, e, m) = s /\ Exponent(bits, e, m) = x /\ Mantissa(bits, m) = y
         /\ bits % Pow2[e + m] = x * Pow2[m] + y
<1> DEFINE A == Pow2[e]
           B == Pow2[m]
           C == Pow2[e + m]
<1>1. A \in Nat /\ B \in Nat /\ B > 0 /\ C \in Nat /\ C = A * B /\ A > 0
  <2>1. e + m \in Nat OBVIOUS
  <2> QED BY <2>1, Power, PowerSum
<1>2. s \in Nat /\ x \in 0 .. A - 1 /\ y \in 0 .. B - 1 /\ bits = s * C + (x * B + y)
  BY DEF Fields
<1>3. x * B + y \in 0 .. C - 1 BY <1>2, BelowSign
<1> HIDE DEF A, B, C
<1>4. bits \in Nat BY <1>1, <1>2, <1>3
<1>5. bits \div C = s /\ bits % C = x * B + y
  <2>1. PICK r \in 0 .. C - 1 : r = x * B + y BY <1>3
  <2>2. s \in Nat /\ C \in Nat BY <1>1, <1>2
  <2>3. (s * C + r) \div C = s /\ (s * C + r) % C = r BY <2>2, Division
  <2> QED BY <1>2, <2>1, <2>3
<1>6. bits = (s * A + x) * B + y
  <2>1. s * (A * B) = (s * A) * B BY <1>1, <1>2
  <2>2. (s * A + x) * B = (s * A) * B + x * B BY <1>1, <1>2
  <2>3. s * A \in Nat /\ (s * A) * B \in Nat /\ x * B \in Nat BY <1>1, <1>2
  <2> QED BY <1>1, <1>2, <2>1, <2>2, <2>3
<1>7. s * A + x \in Nat BY <1>1, <1>2
<1>8. bits \div B = s * A + x /\ bits % B = y
  <2>1. ((s * A + x) * B + y) \div B = s * A + x /\ ((s * A + x) * B + y) % B = y
    BY <1>1, <1>2, <1>7, Division
  <2> QED BY <1>6, <2>1
<1>9. (s * A + x) % A = x BY <1>1, <1>2, Division
<1> QED BY <1>4, <1>5, <1>8, <1>9 DEF A, B, C, Sign, Exponent, Mantissa

\* ... and every pattern has them.
LEMMA FieldsExist ==
  ASSUME NEW e \in Nat, NEW m \in Nat, NEW bits \in Nat
  PROVE  \E s \in Nat, x \in 0 .. Pow2[e] - 1, y \in 0 .. Pow2[m] - 1 :
           Fields(bits, e, m, s, x, y)
<1> DEFINE A == Pow2[e]
           B == Pow2[m]
           y == bits % B
           q == bits \div B
           x == q % A
           s == q \div A
<1>1. A \in Nat /\ B \in Nat /\ B > 0 /\ Pow2[e + m] = A * B /\ A > 0
  BY Power, PowerSum
<1> HIDE DEF A, B
<1>2. q \in Nat /\ y \in 0 .. B - 1 /\ bits = q * B + y BY <1>1, Divided
<1> HIDE DEF q, y
<1>3. s \in Nat /\ x \in 0 .. A - 1 /\ q = s * A + x BY <1>1, <1>2, Divided
<1> HIDE DEF x, s
<1>4. bits = s * (A * B) + (x * B + y)
  <2>1. s * (A * B) = (s * A) * B BY <1>1, <1>3
  <2>2. (s * A + x) * B = (s * A) * B + x * B BY <1>1, <1>3
  <2>3. s * A \in Nat /\ (s * A) * B \in Nat /\ x * B \in Nat BY <1>1, <1>3
  <2> QED BY <1>2, <1>3, <2>1, <2>2, <2>3
<1> QED BY <1>1, <1>2, <1>3, <1>4 DEF A, B, Fields

-----------------------------------------------------------------------------
\* Widening: Float16::ToFloat and BFloat16::ToFloat.

\* The widths are positive, and the exponents of a float reach below those of
\* a Float16 by more than its mantissa is wide.
LEMMA Widths ==
  /\ E32 \in Nat /\ M32 \in Nat /\ E16 \in Nat /\ M16 \in Nat /\ MB \in Nat
  /\ E32 > 0 /\ M32 > 0 /\ E16 > 1 /\ M16 > 0 /\ MB > 0
  /\ M32 - M16 \in Nat /\ M32 - M16 > 0 /\ M32 - MB \in Nat /\ M32 - MB > 0
  /\ Bias(E32) \in Nat /\ Bias(E16) \in Nat /\ Bias(E16) > 0
  /\ Bias(E16) + M16 < Bias(E32)
  /\ Pow2[E16] = 2 * Bias(E16) + 2 /\ Pow2[E32] = 2 * Bias(E32) + 2
<1>1. /\ E32 \in Nat /\ M32 \in Nat /\ E16 \in Nat /\ M16 \in Nat /\ MB \in Nat
      /\ E32 > 0 /\ M32 > 0 /\ E16 > 1 /\ M16 > 0 /\ MB > 0
      /\ M32 - M16 \in Nat /\ M32 - M16 > 0 /\ M32 - MB \in Nat /\ M32 - MB > 0
      /\ Pow2[E16 - 1] + M16 < Pow2[E32 - 1]
  BY WidthsAssumption
<1>2. /\ Pow2[E16 - 1] \in Nat /\ Pow2[E16] = 2 * Pow2[E16 - 1]
      /\ Pow2[E32 - 1] \in Nat /\ Pow2[E32] = 2 * Pow2[E32 - 1] /\ Pow2[E32 - 1] > 0
  BY <1>1, PowerHalf
<1>3. Pow2[E16 - 1] >= 2
  <2>1. E16 - 1 \in Nat /\ E16 - 1 > 0 BY <1>1
  <2>2. Pow2[E16 - 1] = 2 * Pow2[E16 - 1 - 1] /\ Pow2[E16 - 1 - 1] \in Nat
        /\ Pow2[E16 - 1 - 1] > 0
    BY <2>1, PowerHalf
  <2> QED BY <2>2
<1> QED BY <1>1, <1>2, <1>3 DEF Bias

\* Units by exponent and mantissa.
UnitsOf(x, y, m) == IF x = 0 THEN y ELSE (Pow2[m] + y) * Pow2[x - 1]
LEMMA UnitsAre ==
  ASSUME NEW e \in Nat, NEW m \in Nat, NEW bits, NEW s, NEW x, NEW y,
         Fields(bits, e, m, s, x, y)
  PROVE  /\ Units(bits, e, m) = UnitsOf(x, y, m)
         /\ Units(bits, e, m) \in Nat
         /\ IsNaN(bits, e, m) <=> x = Pow2[e] - 1 /\ y # 0
<1>1. Exponent(bits, e, m) = x /\ Mantissa(bits, m) = y BY FieldsFound
<1>2. UnitsOf(x, y, m) \in Nat
  <2>1. x \in Nat /\ y \in Nat /\ Pow2[m] \in Nat BY Power DEF Fields
  <2>2. CASE x = 0 BY <2>1, <2>2 DEF UnitsOf
  <2>3. CASE x # 0
    <3>1. Pow2[x - 1] \in Nat BY <2>1, <2>3, PowerHalf
    <3>2. (Pow2[m] + y) * Pow2[x - 1] \in Nat BY <2>1, <3>1
    <3> QED BY <2>3, <3>2 DEF UnitsOf
  <2> QED BY <2>2, <2>3
<1> QED BY <1>1, <1>2 DEF Units, UnitsOf, IsNaN

\* A mantissa that is shifted up fits the wider one.
LEMMA ShiftedUp ==
  ASSUME NEW a \in Nat, NEW b \in Nat, NEW y \in 0 .. Pow2[a] - 1
  PROVE  /\ y * Pow2[b] \in 0 .. Pow2[a + b] - 1
         /\ y * Pow2[b] = 0 <=> y = 0
<1> DEFINE A == Pow2[a]
           B == Pow2[b]
<1>1. A \in Nat /\ B \in Nat /\ B > 0 /\ Pow2[a + b] = A * B /\ y \in 0 .. A - 1
  BY Power, PowerSum
<1> HIDE DEF A, B
<1>2. y * B \in Nat /\ A * B \in Nat BY <1>1
<1>3. y * B + B <= A * B
  <2>1. \A p \in Int, q \in Int : p + 1 <= q => p * B + B <= q * B BY <1>1
  <2> QED BY <1>1, <2>1
<1>4. y >= 1 => y * B >= B BY <1>1
<1>5. y = 0 => y * B = 0 BY <1>1
<1> QED BY <1>1, <1>2, <1>3, <1>4, <1>5 DEF B

\* The loop over a subnormal mantissa finds its leading bit.
LEMMA ShiftsFinds ==
  ASSUME NEW y \in 1 .. Pow2[M16] - 1
  PROVE  /\ Shifts(y) \in 1 .. M16
         /\ y * Pow2[Shifts(y)] \in Pow2[M16] .. Pow2[M16 + 1] - 1
<1> DEFINE S == {s \in Nat : y * Pow2[s] >= Pow2[M16]}
<1>1. M16 \in Nat /\ Pow2[M16] \in Nat /\ Pow2[M16] > 0 /\ Pow2[M16 + 1] = 2 * Pow2[M16]
      /\ y \in Nat /\ y >= 1 /\ y < Pow2[M16]
  BY Widths, Power
<1>2. M16 \in S
  <2>1. \A p \in Nat, q \in Nat : p >= 1 => p * q >= q OBVIOUS
  <2> QED BY <1>1, <2>1
<1>3. PICK s \in S : \A j \in S : s <= j
  <2>1. S \subseteq Nat /\ S # {} BY <1>2
  <2> QED BY <2>1, LeastNatural
<1>4. s \in Nat /\ s <= M16 /\ y * Pow2[s] >= Pow2[M16] BY <1>2, <1>3
<1>5. s # 0
  <2>1. y * Pow2[0] = y BY <1>1, Power
  <2> QED BY <1>1, <1>4, <2>1
<1>6. s - 1 \in Nat /\ Pow2[s] = 2 * Pow2[s - 1] /\ Pow2[s - 1] \in Nat
  BY <1>4, <1>5, PowerHalf
<1>7. s - 1 \notin S BY <1>3, <1>6
<1>8. y * Pow2[s - 1] < Pow2[M16]
  <2>1. y * Pow2[s - 1] \in Nat BY <1>1, <1>6
  <2> QED BY <1>1, <1>6, <1>7, <2>1
<1>9. y * Pow2[s] = 2 * (y * Pow2[s - 1]) /\ y * Pow2[s - 1] \in Nat BY <1>1, <1>6
<1>10. s \in 1 .. M16 /\ y * Pow2[s] \in Pow2[M16] .. Pow2[M16 + 1] - 1
  BY <1>1, <1>4, <1>5, <1>8, <1>9
<1> QED BY <1>10 DEF Shifts

\* What a widened number is as a float: its fields, which are of as many units
\* as the number, and are infinity and NaN only if it is.
Widens(w, x, y) ==
  \E x2 \in 0 .. Pow2[E32] - 1, y2 \in 0 .. Pow2[M32] - 1 :
    /\ w = x2 * Pow2[M32] + y2
    /\ x2 = Pow2[E32] - 1 <=> x = Pow2[E16] - 1
    /\ x = Pow2[E16] - 1 => (y2 = 0 <=> y = 0)
    /\ x # Pow2[E16] - 1 => UnitsOf(x2, y2, M32) = UnitsOf(x, y, M16) * Scale(E16, M16)

\* Of a product it does not matter in which order the powers are taken.
LEMMA PowersTogether ==
  ASSUME NEW g \in Nat, NEW a \in Nat, NEW b \in Nat
  PROVE  (g * Pow2[a]) * Pow2[b] = g * Pow2[a + b]
<1>1. Pow2[a] \in Nat /\ Pow2[b] \in Nat /\ Pow2[a + b] = Pow2[a] * Pow2[b]
  BY Power, PowerSum
<1>2. \A p \in Nat, q \in Nat : (g * p) * q = g * (p * q) OBVIOUS
<1> QED BY <1>1, <1>2

LEMMA WidenedSpecial ==
  ASSUME NEW y \in 0 .. Pow2[M16] - 1
  PROVE  Widens(Widened16(Pow2[E16] - 1, y), Pow2[E16] - 1, y)
<1> DEFINE D == M32 - M16
           x == Pow2[E16] - 1
           x2 == Pow2[E32] - 1
           y2 == y * Pow2[D]
<1>1. D \in Nat /\ M16 \in Nat /\ M32 \in Nat /\ E32 \in Nat /\ M16 + D = M32 BY Widths
<1>2. y2 \in 0 .. Pow2[M32] - 1 /\ (y2 = 0 <=> y = 0) BY <1>1, ShiftedUp
<1>3. Pow2[E32] \in Nat /\ Pow2[E32] > 0 /\ Pow2[E16] \in Nat /\ x \in Int /\ x > 0 BY <1>1, Widths, Power
<1>4. Widened16(x, y) = Infinity(E32, M32) + y2
  <2>1. x \notin 1 .. Pow2[E16] - 2 /\ x # 0 BY <1>3
  <2> QED BY <2>1 DEF Widened16
<1>5. Widened16(x, y) = x2 * Pow2[M32] + y2 BY <1>4 DEF Infinity
<1>6. x2 \in 0 .. Pow2[E32] - 1 BY <1>3
<1> HIDE DEF y2, x2
<1> QED BY <1>2, <1>5, <1>6 DEF Widens, x2

LEMMA WidenedZero ==
  Widens(Widened16(0, 0), 0, 0)
<1>1. Pow2[E32] \in Nat /\ Pow2[E32] > 1 /\ Pow2[M32] \in Nat /\ Pow2[M32] > 0
      /\ Pow2[E16] \in Nat /\ Pow2[E16] > 1
  BY Widths, Power
<1>2. 0 # Pow2[E16] - 1 /\ 0 \notin 1 .. Pow2[E16] - 2 BY <1>1
<1>3. Widened16(0, 0) = 0 BY <1>2 DEF Widened16
<1>4. 0 \in 0 .. Pow2[E32] - 1 /\ 0 \in 0 .. Pow2[M32] - 1 /\ 0 = 0 * Pow2[M32] + 0
      /\ 0 # Pow2[E32] - 1
  BY <1>1
<1>5. Scale(E16, M16) \in Nat
  <2>1. Bias(E32) + M32 - Bias(E16) - M16 \in Nat BY Widths
  <2> QED BY <2>1, Power DEF Scale
<1>6. UnitsOf(0, 0, M32) = 0 /\ UnitsOf(0, 0, M16) * Scale(E16, M16) = 0
  BY <1>5 DEF UnitsOf
<1> QED BY <1>2, <1>3, <1>4, <1>6 DEF Widens

LEMMA WidenedSmall ==
  ASSUME NEW y \in 1 .. Pow2[M16] - 1
  PROVE  Widens(Widened16(0, y), 0, y)
<1> DEFINE D == M32 - M16
           h == Shifts(y)
           g == y * Pow2[h]
           y1 == g - Pow2[M16]
           x2 == 1 - Bias(E16) - h + Bias(E32)
           y2 == y1 * Pow2[D]
           K == Bias(E32) - Bias(E16) - h
<1>1. /\ D \in Nat /\ M16 \in Nat /\ M32 \in Nat /\ E32 \in Nat /\ M16 + D = M32
      /\ Bias(E32) \in Nat /\ Bias(E16) \in Nat /\ Bias(E16) > 0
      /\ Bias(E16) + M16 < Bias(E32)
      /\ Pow2[E16] = 2 * Bias(E16) + 2 /\ Pow2[E32] = 2 * Bias(E32) + 2
  BY Widths
<1>2. h \in 1 .. M16 /\ g \in Pow2[M16] .. Pow2[M16 + 1] - 1 BY ShiftsFinds
<1>3. y \in Nat /\ y # 0 /\ Pow2[M16] \in Nat /\ Pow2[M16] > 0 /\ Pow2[M16 + 1] = 2 * Pow2[M16]
  BY <1>1, Power
<1> HIDE DEF h
<1>4. x2 \in 0 .. Pow2[E32] - 1 /\ x2 # 0 /\ x2 # Pow2[E32] - 1 /\ x2 - 1 = K /\ K \in Nat
  BY <1>1, <1>2
<1>5. Widened16(0, y) = x2 * Pow2[M32] + y2
  <2>1. 0 # Pow2[E16] - 1 /\ 0 \notin 1 .. Pow2[E16] - 2 BY <1>1
  <2>2. Widened16(0, y) = WidenedSubnormal(y) BY <1>3, <2>1 DEF Widened16
  <2>3. g % Pow2[M16] = y1
    <3>1. y1 \in 0 .. Pow2[M16] - 1 /\ g = 1 * Pow2[M16] + y1 BY <1>2, <1>3
    <3> HIDE DEF g, y1
    <3>2. (1 * Pow2[M16] + y1) % Pow2[M16] = y1 BY <1>3, <3>1, Division
    <3> QED BY <3>1, <3>2
  <2> QED BY <2>2, <2>3 DEF WidenedSubnormal, Mantissa, h
<1>6. y1 \in 0 .. Pow2[M16] - 1 /\ g = Pow2[M16] + y1 /\ g \in Nat BY <1>2, <1>3
<1>7. y2 \in 0 .. Pow2[M32] - 1
  <2> HIDE DEF y1
  <2> QED BY <1>1, <1>6, ShiftedUp
<1>8. UnitsOf(x2, y2, M32) = UnitsOf(0, y, M16) * Scale(E16, M16)
  <2>1. Pow2[M32] + y2 = g * Pow2[D]
    <3> HIDE DEF D, g, y1
    <3>1. Pow2[M32] = Pow2[M16] * Pow2[D] /\ Pow2[D] \in Nat
      <4>1. Pow2[M16 + D] = Pow2[M16] * Pow2[D] BY <1>1, PowerSum
      <4> QED BY <1>1, <4>1, Power
    <3>2. (Pow2[M16] + y1) * Pow2[D] = Pow2[M16] * Pow2[D] + y1 * Pow2[D]
      BY <1>3, <1>6, <3>1
    <3> QED BY <1>6, <3>1, <3>2
  <2>2. h + D + K = Bias(E32) + M32 - Bias(E16) - M16 /\ h \in Nat /\ h + D \in Nat
    BY <1>1, <1>2
  <2>3. UnitsOf(x2, y2, M32) = (g * Pow2[D]) * Pow2[K] BY <1>4, <2>1 DEF UnitsOf
  <2>4. g * Pow2[D] = y * Pow2[h + D]
    <3> HIDE DEF D
    <3>1. y \in Nat /\ h \in Nat /\ D \in Nat BY <1>1, <1>3, <2>2
    <3> QED BY <3>1, PowersTogether
  <2>5. (y * Pow2[h + D]) * Pow2[K] = y * Pow2[h + D + K]
    <3>1. y \in Nat /\ h + D \in Nat /\ K \in Nat BY <1>3, <1>4, <2>2
    <3> HIDE DEF D, K
    <3> QED BY <3>1, PowersTogether
  <2>6. UnitsOf(0, y, M16) = y BY DEF UnitsOf
  <2> QED BY <2>2, <2>3, <2>4, <2>5, <2>6 DEF Scale
<1>9. 0 # Pow2[E16] - 1 BY <1>1
<1> HIDE DEF x2, y2
<1> QED BY <1>4, <1>5, <1>7, <1>8, <1>9 DEF Widens

LEMMA WidenedNormal ==
  ASSUME NEW x \in 1 .. Pow2[E16] - 2, NEW y \in 0 .. Pow2[M16] - 1
  PROVE  Widens(Widened16(x, y), x, y)
<1> DEFINE D == M32 - M16
           x2 == x + Bias(E32) - Bias(E16)
           y2 == y * Pow2[D]
           g == Pow2[M16] + y
           K == Bias(E32) - Bias(E16)
<1>1. /\ D \in Nat /\ M16 \in Nat /\ M32 \in Nat /\ E32 \in Nat /\ M16 + D = M32
      /\ Bias(E32) \in Nat /\ Bias(E16) \in Nat /\ Bias(E16) > 0
      /\ Bias(E16) + M16 < Bias(E32)
      /\ Pow2[E16] = 2 * Bias(E16) + 2 /\ Pow2[E32] = 2 * Bias(E32) + 2
  BY Widths
<1>2. x \in Nat /\ x # 0 /\ x - 1 \in Nat /\ x # Pow2[E16] - 1 /\ y \in Nat
      /\ Pow2[M16] \in Nat /\ g \in Nat
  BY <1>1, Power
<1>3. x2 \in 0 .. Pow2[E32] - 1 /\ x2 # 0 /\ x2 # Pow2[E32] - 1 /\ x2 - 1 = (x - 1) + K
      /\ K \in Nat
  BY <1>1, <1>2
<1>4. Widened16(x, y) = x2 * Pow2[M32] + y2 BY <1>2 DEF Widened16
<1>5. y2 \in 0 .. Pow2[M32] - 1 BY <1>1, ShiftedUp
<1>6. UnitsOf(x2, y2, M32) = UnitsOf(x, y, M16) * Scale(E16, M16)
  <2>1. Pow2[M32] + y2 = g * Pow2[D]
    <3> HIDE DEF D
    <3>1. Pow2[M32] = Pow2[M16] * Pow2[D] /\ Pow2[D] \in Nat
      <4>1. Pow2[M16 + D] = Pow2[M16] * Pow2[D] BY <1>1, PowerSum
      <4> QED BY <1>1, <4>1, Power
    <3>2. (Pow2[M16] + y) * Pow2[D] = Pow2[M16] * Pow2[D] + y * Pow2[D]
      BY <1>2, <3>1
    <3> QED BY <3>1, <3>2
  <2>2. /\ D + ((x - 1) + K) = (x - 1) + (D + K) /\ D + K \in Nat /\ (x - 1) + K \in Nat
        /\ D + K = Bias(E32) + M32 - Bias(E16) - M16
    BY <1>1, <1>2, <1>3
  <2>3. UnitsOf(x2, y2, M32) = (g * Pow2[D]) * Pow2[(x - 1) + K]
    BY <1>3, <2>1 DEF UnitsOf
  <2> HIDE DEF g
  <2>4. (g * Pow2[D]) * Pow2[(x - 1) + K] = g * Pow2[D + ((x - 1) + K)]
    <3> HIDE DEF D, K
    <3> DEFINE k == (x - 1) + K
    <3>1. g \in Nat /\ D \in Nat /\ k \in Nat BY <1>1, <1>2, <2>2 DEF g
    <3> HIDE DEF k
    <3>2. (g * Pow2[D]) * Pow2[k] = g * Pow2[D + k] BY <3>1, PowersTogether
    <3> QED BY <3>2 DEF k
  <2>5. (g * Pow2[x - 1]) * Pow2[D + K] = g * Pow2[(x - 1) + (D + K)]
    <3> DEFINE i == x - 1
               j == D + K
    <3>1. g \in Nat /\ i \in Nat /\ j \in Nat BY <1>2, <2>2 DEF g
    <3> HIDE DEF i, j
    <3>2. (g * Pow2[i]) * Pow2[j] = g * Pow2[i + j] BY <3>1, PowersTogether
    <3> QED BY <3>2 DEF i, j
  <2>6. UnitsOf(x, y, M16) = g * Pow2[x - 1] BY <1>2 DEF UnitsOf, g
  <2> QED BY <2>2, <2>3, <2>4, <2>5, <2>6 DEF Scale
<1> HIDE DEF x2, y2
<1> QED BY <1>2, <1>3, <1>4, <1>5, <1>6 DEF Widens

\* Numbers of as many units are the same, and so are infinities.
LEMMA SameIs ==
  ASSUME NEW e \in Nat, NEW m \in Nat, NEW bits, NEW f,
         NEW s, NEW x, NEW y, NEW x2, NEW y2,
         Fields(bits, e, m, s, x, y), Fields(f, E32, M32, s, x2, y2),
         x2 = Pow2[E32] - 1 <=> x = Pow2[e] - 1,
         x = Pow2[e] - 1 => (y2 = 0 <=> y = 0),
         x # Pow2[e] - 1 => UnitsOf(x2, y2, M32) = UnitsOf(x, y, m) * Scale(e, m)
  PROVE  Same(f, bits, e, m)
<1>1. E32 \in Nat /\ M32 \in Nat BY Widths
<1>2. /\ Sign(bits, e, m) = s /\ Sign(f, E32, M32) = s
      /\ bits % Pow2[e + m] = x * Pow2[m] + y /\ f % Pow2[E32 + M32] = x2 * Pow2[M32] + y2
  BY <1>1, FieldsFound
<1>3. /\ Units(bits, e, m) = UnitsOf(x, y, m) /\ Units(f, E32, M32) = UnitsOf(x2, y2, M32)
      /\ Units(f, E32, M32) \in Nat
      /\ IsNaN(bits, e, m) <=> x = Pow2[e] - 1 /\ y # 0
      /\ IsNaN(f, E32, M32) <=> x2 = Pow2[E32] - 1 /\ y2 # 0
  BY <1>1, UnitsAre
<1>4. CASE x = Pow2[e] - 1
  <2>1. IsNaN(f, E32, M32) <=> IsNaN(bits, e, m) BY <1>3, <1>4
  <2>2. ASSUME ~IsNaN(bits, e, m) PROVE f % Pow2[E32 + M32] = Infinity(E32, M32)
                                        /\ bits % Pow2[e + m] = Infinity(e, m)
    <3>1. y = 0 /\ y2 = 0 BY <1>3, <1>4, <2>2
    <3>2. x * Pow2[m] \in Nat /\ x2 * Pow2[M32] \in Nat BY <1>1, Power DEF Fields
    <3> QED BY <1>2, <1>4, <3>1, <3>2 DEF Infinity
  <2> QED BY <1>2, <2>1, <2>2 DEF Same
<1>5. CASE x # Pow2[e] - 1
  <2>1. ~IsNaN(f, E32, M32) /\ ~IsNaN(bits, e, m) BY <1>3, <1>5
  <2>2. Distance(f, bits, e, m) = 0
    <3>1. Units(f, E32, M32) = Units(bits, e, m) * Scale(e, m) BY <1>3, <1>5
    <3> QED BY <1>3, <3>1 DEF Distance
  <2>3. bits % Pow2[e + m] # Infinity(e, m)
    <3>1. Pow2[e] \in Nat /\ x \in 0 .. Pow2[e] - 1 /\ y \in 0 .. Pow2[m] - 1
          /\ Pow2[m] \in Nat
      BY Power DEF Fields
    <3>2. x < Pow2[e] - 1 BY <1>5, <3>1
    <3>3. x * Pow2[m] + y < Infinity(e, m) BY <3>1, <3>2, BelowSign
    <3>4. x * Pow2[m] + y \in Int /\ Infinity(e, m) \in Int BY <3>1 DEF Infinity
    <3> QED BY <1>2, <3>3, <3>4
  <2> QED BY <1>2, <2>1, <2>2, <2>3 DEF Same
<1> QED BY <1>4, <1>5

\* The sign is one bit of the patterns of a format.
LEMMA SignBit ==
  ASSUME NEW e \in Nat, NEW m \in Nat, NEW bits, NEW s, NEW x, NEW y,
         Fields(bits, e, m, s, x, y)
  PROVE  bits \in 0 .. Pow2[1 + e + m] - 1 <=> s \in {0, 1}
<1> DEFINE C == Pow2[e + m]
<1>1. C \in Nat /\ C > 0 /\ Pow2[1 + e + m] = 2 * C
  <2>1. e + m \in Nat /\ (e + m) + 1 = 1 + e + m OBVIOUS
  <2> QED BY <2>1, Power
<1>2. x \in 0 .. Pow2[e] - 1 /\ y \in 0 .. Pow2[m] - 1 /\ s \in Nat
      /\ bits = s * C + (x * Pow2[m] + y)
  BY DEF Fields
<1>3. PICK r \in 0 .. C - 1 : r = x * Pow2[m] + y BY <1>2, BelowSign
<1> HIDE DEF C
<1>4. bits = s * C + r /\ s * C \in Nat BY <1>1, <1>2, <1>3
<1>5. (s >= 2 => s * C >= 2 * C) /\ (s = 1 => s * C = C) /\ (s = 0 => s * C = 0)
  BY <1>1, <1>2
<1>6. s \in {0, 1} <=> ~(s >= 2) BY <1>2
<1> QED BY <1>1, <1>2, <1>3, <1>4, <1>5, <1>6

\* Float16::ToFloat keeps the number.
LEMMA WidenedFloat16 ==
  ASSUME NEW h \in 0 .. Pow2[1 + E16 + M16] - 1
  PROVE  Same(Float16ToFloat(h), h, E16, M16) /\ Float16ToFloat(h) \in Floats
<1>1. E32 \in Nat /\ M32 \in Nat /\ E16 \in Nat /\ M16 \in Nat BY Widths
<1>2. h \in Nat
  <2>1. 1 + E16 + M16 \in Nat BY <1>1
  <2> QED BY <2>1, Power
<1>3. PICK s \in Nat, x \in 0 .. Pow2[E16] - 1, y \in 0 .. Pow2[M16] - 1 :
        Fields(h, E16, M16, s, x, y)
  BY <1>1, <1>2, FieldsExist
<1>4. Sign(h, E16, M16) = s /\ Exponent(h, E16, M16) = x /\ Mantissa(h, M16) = y
  BY <1>1, <1>3, FieldsFound
<1>5. Widens(Widened16(x, y), x, y)
  <2>1. Pow2[E16] \in Nat /\ Pow2[M16] \in Nat BY <1>1, Power
  <2>2. CASE x = Pow2[E16] - 1 BY <2>2, WidenedSpecial
  <2>3. CASE x = 0 /\ y = 0 BY <2>3, WidenedZero
  <2>4. CASE x = 0 /\ y # 0
    <3>1. y \in 1 .. Pow2[M16] - 1 BY <2>1, <2>4
    <3> QED BY <2>4, <3>1, WidenedSmall
  <2>5. CASE x # 0 /\ x # Pow2[E16] - 1
    <3>1. x \in 1 .. Pow2[E16] - 2 BY <2>1, <2>5
    <3> QED BY <3>1, WidenedNormal
  <2> QED BY <2>2, <2>3, <2>4, <2>5
<1>6. PICK x2 \in 0 .. Pow2[E32] - 1, y2 \in 0 .. Pow2[M32] - 1 :
        /\ Widened16(x, y) = x2 * Pow2[M32] + y2
        /\ x2 = Pow2[E32] - 1 <=> x = Pow2[E16] - 1
        /\ x = Pow2[E16] - 1 => (y2 = 0 <=> y = 0)
        /\ x # Pow2[E16] - 1 => UnitsOf(x2, y2, M32) = UnitsOf(x, y, M16) * Scale(E16, M16)
  BY <1>5 DEF Widens
<1>7. Fields(Float16ToFloat(h), E32, M32, s, x2, y2)
  BY <1>4, <1>6 DEF Float16ToFloat, Fields
<1>8. s \in {0, 1} BY <1>1, <1>3, SignBit
<1>9. Float16ToFloat(h) \in Floats BY <1>1, <1>7, <1>8, SignBit DEF Floats
<1>10. Same(Float16ToFloat(h), h, E16, M16) BY <1>1, <1>3, <1>6, <1>7, SameIs
<1> QED BY <1>9, <1>10

\* A BFloat16 is exact because its exponents are those of a float.
LEMMA WidenedBFloat16 ==
  ASSUME NEW b \in 0 .. Pow2[1 + E32 + MB] - 1
  PROVE  Same(BFloat16ToFloat(b), b, E32, MB) /\ BFloat16ToFloat(b) \in Floats
<1> DEFINE D == M32 - MB
<1>1. /\ E32 \in Nat /\ M32 \in Nat /\ MB \in Nat /\ D \in Nat /\ MB + D = M32
      /\ Bias(E32) \in Nat /\ Bias(E32) + M32 - Bias(E32) - MB = D
  BY Widths
<1>2. b \in Nat
  <2>1. 1 + E32 + MB \in Nat BY <1>1
  <2> QED BY <2>1, Power
<1>3. PICK s \in Nat, x \in 0 .. Pow2[E32] - 1, y \in 0 .. Pow2[MB] - 1 :
        Fields(b, E32, MB, s, x, y)
  BY <1>1, <1>2, FieldsExist
<1>4. Scale(E32, MB) = Pow2[D] BY <1>1 DEF Scale
<1>5. BFloat16ToFloat(b) = b * Pow2[D] BY DEF BFloat16ToFloat
<1> HIDE DEF D
<1> DEFINE y2 == y * Pow2[D]
<1>6. /\ Pow2[D] \in Nat /\ Pow2[MB] \in Nat /\ Pow2[M32] = Pow2[MB] * Pow2[D]
      /\ Pow2[E32 + MB] \in Nat /\ Pow2[E32 + M32] = Pow2[E32 + MB] * Pow2[D]
  <2>1. E32 + MB \in Nat /\ (E32 + MB) + D = E32 + M32 BY <1>1
  <2>2. Pow2[MB + D] = Pow2[MB] * Pow2[D] /\ Pow2[(E32 + MB) + D] = Pow2[E32 + MB] * Pow2[D]
    BY <1>1, <2>1, PowerSum
  <2> QED BY <1>1, <2>1, <2>2, Power
<1>7. y2 \in 0 .. Pow2[M32] - 1 /\ (y2 = 0 <=> y = 0)
  <2>1. y2 \in 0 .. Pow2[MB + D] - 1 /\ (y2 = 0 <=> y = 0) BY <1>1, <1>3, ShiftedUp
  <2> QED BY <1>1, <2>1
<1>8. s \in Nat /\ x \in Nat /\ y \in Nat BY <1>3
<1>9. Fields(BFloat16ToFloat(b), E32, M32, s, x, y2)
  <2> DEFINE A == Pow2[E32 + MB]
             B == Pow2[MB]
             C == Pow2[D]
  <2>1. A \in Nat /\ B \in Nat /\ C \in Nat BY <1>6
  <2>2. b = s * A + (x * B + y) BY <1>3 DEF Fields
  <2>3. Pow2[M32] = B * C /\ Pow2[E32 + M32] = A * C /\ y2 = y * C /\ BFloat16ToFloat(b) = b * C
    BY <1>5, <1>6
  <2> HIDE DEF A, B, C, y2
  <2>4. s * A \in Nat /\ x * B \in Nat BY <1>8, <2>1
  <2>5. b * C = (s * A) * C + ((x * B) * C + y * C) BY <1>8, <2>1, <2>2, <2>4
  <2>6. (s * A) * C = s * (A * C) /\ (x * B) * C = x * (B * C) BY <1>8, <2>1
  <2> QED BY <1>3, <1>7, <2>3, <2>5, <2>6 DEF Fields
<1>10. UnitsOf(x, y2, M32) = UnitsOf(x, y, MB) * Scale(E32, MB)
  <2>1. CASE x = 0 BY <1>4, <2>1 DEF UnitsOf
  <2>2. CASE x # 0
    <3> DEFINE B == Pow2[MB]
               C == Pow2[D]
               X == Pow2[x - 1]
    <3>1. B \in Nat /\ C \in Nat /\ X \in Nat BY <1>6, <1>8, <2>2, PowerHalf
    <3>2. UnitsOf(x, y2, M32) = (B * C + y * C) * X /\ UnitsOf(x, y, MB) = (B + y) * X
      BY <1>6, <2>2 DEF UnitsOf
    <3>3. Scale(E32, MB) = C BY <1>4
    <3> HIDE DEF B, C, X
    <3>4. PICK g \in Nat : g = B + y BY <1>8, <3>1
    <3>5. B * C + y * C = g * C BY <1>8, <3>1, <3>4
    <3>6. (g * C) * X = (g * X) * C BY <3>1, <3>4
    <3> QED BY <3>2, <3>3, <3>4, <3>5, <3>6
  <2> QED BY <2>1, <2>2
<1>11. s \in {0, 1} BY <1>1, <1>3, SignBit
<1>12. BFloat16ToFloat(b) \in Floats BY <1>1, <1>9, <1>11, SignBit DEF Floats
<1> HIDE DEF y2
<1>13. Same(BFloat16ToFloat(b), b, E32, MB) BY <1>1, <1>3, <1>7, <1>9, <1>10, SameIs
<1> QED BY <1>12, <1>13

-----------------------------------------------------------------------------
\* Narrowing: Float16::FromFloat and BFloat16::FromFloat.

\* A larger pattern is of more units.
LEMMA UnitsGrow ==
  ASSUME NEW m \in Nat, NEW x \in Nat, NEW z \in Nat,
         NEW y \in 0 .. Pow2[m] - 1, NEW w \in 0 .. Pow2[m] - 1,
         x < z \/ (x = z /\ y < w)
  PROVE  UnitsOf(x, y, m) < UnitsOf(z, w, m)
<1> DEFINE M == Pow2[m]
<1>1. M \in Nat /\ M > 0 /\ y \in Nat /\ w \in Nat /\ y < M /\ w < M BY Power
<1> HIDE DEF M
<1>2. CASE x = z /\ x = 0 BY <1>2 DEF UnitsOf
<1>3. CASE x = z /\ x # 0
  <2>1. Pow2[x - 1] \in Nat /\ Pow2[x - 1] > 0 BY <1>3, PowerHalf
  <2>2. M + y \in Int /\ M + w \in Int /\ M + y < M + w BY <1>1, <1>3
  <2>3. \A p \in Int, q \in Int, r \in Nat : p < q /\ r > 0 => p * r < q * r OBVIOUS
  <2>4. (M + y) * Pow2[x - 1] < (M + w) * Pow2[x - 1] BY <2>1, <2>2, <2>3
  <2> QED BY <1>3, <2>4 DEF UnitsOf, M
<1>4. CASE x < z
  <2>1. Pow2[x] \in Nat /\ Pow2[x] > 0 BY Power
  <2>2. UnitsOf(x, y, m) < M * Pow2[x]
    <3>1. CASE x = 0 BY <1>1, <3>1, Power DEF UnitsOf
    <3>2. CASE x # 0
      <4>1. Pow2[x - 1] \in Nat /\ Pow2[x - 1] > 0 /\ Pow2[x] = 2 * Pow2[x - 1]
        BY <3>2, PowerHalf
      <4>2. \A p \in Int, q \in Int, r \in Nat : p < q /\ r > 0 => p * r < q * r OBVIOUS
      <4>3. M + y \in Int /\ 2 * M \in Int /\ M + y < 2 * M BY <1>1
      <4>4. (M + y) * Pow2[x - 1] < (2 * M) * Pow2[x - 1] BY <4>1, <4>2, <4>3
      <4>5. (2 * M) * Pow2[x - 1] = M * (2 * Pow2[x - 1]) BY <1>1, <4>1
      <4> QED BY <3>2, <4>1, <4>4, <4>5 DEF UnitsOf, M
    <3> QED BY <3>1, <3>2
  <2>3. z # 0 /\ z - 1 \in Nat /\ x <= z - 1 BY <1>4
  <2>4. Pow2[x] <= Pow2[z - 1] /\ Pow2[z - 1] \in Nat BY <2>3, PowerGrows, Power
  <2>5. M * Pow2[x] <= (M + w) * Pow2[z - 1]
    <3>1. \A p \in Nat, q \in Nat : p <= q => M * p <= M * q BY <1>1
    <3>2. \A p \in Nat : M * p <= (M + w) * p BY <1>1
    <3>3. M * Pow2[x] <= M * Pow2[z - 1] /\ M * Pow2[z - 1] <= (M + w) * Pow2[z - 1]
      BY <2>1, <2>4, <3>1, <3>2
    <3>4. M * Pow2[x] \in Int /\ M * Pow2[z - 1] \in Int /\ (M + w) * Pow2[z - 1] \in Int
      BY <1>1, <2>1, <2>4
    <3> QED BY <3>3, <3>4
  <2>6. UnitsOf(z, w, m) = (M + w) * Pow2[z - 1] BY <2>3 DEF UnitsOf, M
  <2>7. UnitsOf(x, y, m) \in Int
    <3>1. CASE x = 0 BY <1>1, <3>1 DEF UnitsOf
    <3>2. CASE x # 0
      <4>1. Pow2[x - 1] \in Nat BY <3>2, PowerHalf
      <4>2. (M + y) * Pow2[x - 1] \in Int BY <1>1, <4>1
      <4> QED BY <3>2, <4>2 DEF UnitsOf, M
    <3> QED BY <3>1, <3>2
  <2>8. M * Pow2[x] \in Int /\ (M + w) * Pow2[z - 1] \in Int BY <1>1, <2>1, <2>4
  <2> QED BY <2>2, <2>5, <2>6, <2>7, <2>8
<1> QED BY <1>2, <1>3, <1>4

\* The fields of a pattern without a sign.
LEMMA FieldsBelow ==
  ASSUME NEW e \in Nat, NEW m \in Nat, NEW p \in 0 .. Infinity(e, m)
  PROVE  \E x \in 0 .. Pow2[e] - 1, y \in 0 .. Pow2[m] - 1 :
           Fields(p, e, m, 0, x, y) /\ (x < Pow2[e] - 1 \/ y = 0)
<1>1. p \in Nat OBVIOUS
<1>2. PICK s \in Nat, x \in 0 .. Pow2[e] - 1, y \in 0 .. Pow2[m] - 1 :
        Fields(p, e, m, s, x, y)
  BY <1>1, FieldsExist
<1> DEFINE A == Pow2[e]
           B == Pow2[m]
           C == Pow2[e + m]
<1>3. A \in Nat /\ A > 0 /\ B \in Nat /\ B > 0 /\ C \in Nat /\ C = A * B
  <2>1. e + m \in Nat OBVIOUS
  <2> QED BY <2>1, Power, PowerSum
<1>4. p = s * C + (x * B + y) BY <1>2 DEF Fields
<1>5. Infinity(e, m) = C - B
  <2>1. Infinity(e, m) = (A - 1) * B BY DEF Infinity
  <2> HIDE DEF A, B, C
  <2>2. (A - 1) * B = A * B - B BY <1>3
  <2> QED BY <1>3, <2>1, <2>2
<1>6. x * B + y \in Nat BY <1>2, <1>3
<1> HIDE DEF A, B, C
<1>7. s * C \in Nat /\ (s >= 1 => s * C >= C) BY <1>3
<1>8. s = 0 BY <1>3, <1>4, <1>5, <1>6, <1>7
<1>9. p = x * B + y BY <1>3, <1>4, <1>6, <1>8
<1>10. x < Pow2[e] - 1 \/ y = 0
  <2>1. x * Pow2[m] + y <= Infinity(e, m) BY <1>9 DEF B
  <2> QED BY <2>1, BelowSign
<1> QED BY <1>2, <1>8, <1>10

\* ... and its units grow with it.
LEMMA PatternsGrow ==
  ASSUME NEW e \in Nat, NEW m \in Nat,
         NEW p \in 0 .. Infinity(e, m), NEW q \in 0 .. Infinity(e, m), p < q
  PROVE  Units(p, e, m) < Units(q, e, m)
<1>1. PICK x \in 0 .. Pow2[e] - 1, y \in 0 .. Pow2[m] - 1 : Fields(p, e, m, 0, x, y)
  BY FieldsBelow
<1>2. PICK z \in 0 .. Pow2[e] - 1, w \in 0 .. Pow2[m] - 1 : Fields(q, e, m, 0, z, w)
  BY FieldsBelow
<1> DEFINE B == Pow2[m]
<1>3. B \in Nat /\ B > 0 /\ x \in Nat /\ z \in Nat /\ y \in Nat /\ w \in Nat /\ y < B /\ w < B
  BY <1>1, <1>2, Power
<1>4. p = x * B + y /\ q = z * B + w
  <2>1. e + m \in Nat OBVIOUS
  <2>2. Pow2[e + m] \in Nat BY <2>1, Power
  <2>3. x * B + y \in Nat /\ z * B + w \in Nat BY <1>3
  <2> QED BY <1>1, <1>2, <2>2, <2>3 DEF Fields
<1> HIDE DEF B
<1>5. x < z \/ (x = z /\ y < w)
  <2>1. ~(x > z)
    <3>1. \A i \in Nat, j \in Nat : i >= j + 1 => i * B >= j * B + B BY <1>3
    <3>2. x * B \in Nat /\ z * B \in Nat BY <1>3
    <3> QED BY <1>3, <1>4, <3>1, <3>2
  <2>2. x = z => y < w
    <3>1. x * B \in Nat BY <1>3
    <3> QED BY <1>3, <1>4, <3>1
  <2> QED BY <1>3, <2>1, <2>2
<1>6. UnitsOf(x, y, m) < UnitsOf(z, w, m) BY <1>1, <1>2, <1>3, <1>5, UnitsGrow
<1> QED BY <1>1, <1>2, <1>6, UnitsAre

\* The distance from a number to the next.
Gap(x) == IF x = 0 THEN 1 ELSE Pow2[x - 1]
LEMMA NextUnits ==
  ASSUME NEW e \in Nat, NEW m \in Nat, NEW p, NEW x, NEW y,
         Fields(p, e, m, 0, x, y), x < Pow2[e] - 1
  PROVE  Units(p + 1, e, m) = Units(p, e, m) + Gap(x)
<1>1. x \in Nat /\ x \in 0 .. Pow2[e] - 1 /\ y \in Nat /\ y <= Pow2[m] - 1
      /\ Pow2[m] \in Nat /\ Pow2[m] > 0 /\ Pow2[e] \in Nat
      /\ Pow2[x] \in Nat /\ Pow2[e + m] \in Nat
  <2>1. e + m \in Nat /\ x \in Nat BY DEF Fields
  <2> QED BY <2>1, Power DEF Fields
<1>2. p = 0 * Pow2[e + m] + (x * Pow2[m] + y) /\ x * Pow2[m] \in Nat
  BY <1>1 DEF Fields
<1>3. Units(p, e, m) = UnitsOf(x, y, m) BY UnitsAre
<1>4. CASE y < Pow2[m] - 1
  <2>1. p + 1 = 0 * Pow2[e + m] + (x * Pow2[m] + (y + 1)) BY <1>1, <1>2
  <2>2. y + 1 \in 0 .. Pow2[m] - 1 BY <1>1, <1>4
  <2>3. Fields(p + 1, e, m, 0, x, y + 1) BY <1>1, <2>1, <2>2 DEF Fields
  <2>4. Units(p + 1, e, m) = UnitsOf(x, y + 1, m) BY <2>3, UnitsAre
  <2>5. UnitsOf(x, y + 1, m) = UnitsOf(x, y, m) + Gap(x)
    <3>1. CASE x = 0 BY <3>1 DEF UnitsOf, Gap
    <3>2. CASE x # 0
      <4>1. Pow2[x - 1] \in Nat BY <1>1, <3>2, PowerHalf
      <4>2. (Pow2[m] + (y + 1)) * Pow2[x - 1] = (Pow2[m] + y) * Pow2[x - 1] + Pow2[x - 1]
        BY <1>1, <4>1
      <4> QED BY <3>2, <4>2 DEF UnitsOf, Gap
    <3> QED BY <3>1, <3>2
  <2> QED BY <1>3, <2>4, <2>5
<1>5. CASE y = Pow2[m] - 1
  <2>0. \A a \in Nat, b \in Nat : (a + 1) * b = a * b + b OBVIOUS
  <2>1. (x + 1) * Pow2[m] = x * Pow2[m] + Pow2[m] BY <1>1, <2>0
  <2>2. p + 1 = 0 * Pow2[e + m] + ((x + 1) * Pow2[m] + 0) BY <1>1, <1>2, <1>5, <2>1
  <2>3. 0 \in 0 .. Pow2[m] - 1 /\ x + 1 \in 0 .. Pow2[e] - 1 BY <1>1
  <2>4. Fields(p + 1, e, m, 0, x + 1, 0) BY <2>2, <2>3 DEF Fields
  <2>5. Units(p + 1, e, m) = UnitsOf(x + 1, 0, m) BY <2>4, UnitsAre
  <2>6. UnitsOf(x + 1, 0, m) = Pow2[m] * Pow2[x]
    <3>1. x + 1 # 0 /\ (x + 1) - 1 = x /\ Pow2[m] + 0 = Pow2[m] BY <1>1
    <3> QED BY <3>1 DEF UnitsOf
  <2>7. UnitsOf(x, y, m) + Gap(x) = Pow2[m] * Pow2[x]
    <3>1. CASE x = 0 BY <1>1, <1>5, <3>1, Power DEF UnitsOf, Gap
    <3>2. CASE x # 0
      <4>1. Pow2[x - 1] \in Nat /\ Pow2[x] = 2 * Pow2[x - 1] BY <1>1, <3>2, PowerHalf
      <4>2. \A a \in Nat, b \in Nat : (a + (a - 1)) * b + b = a * (2 * b) OBVIOUS
      <4>3. (Pow2[m] + y) * Pow2[x - 1] + Pow2[x - 1] = Pow2[m] * Pow2[x]
        BY <1>1, <1>5, <4>1, <4>2
      <4> QED BY <3>2, <4>3 DEF UnitsOf, Gap
    <3> QED BY <3>1, <3>2
  <2> QED BY <1>3, <2>5, <2>6, <2>7
<1> QED BY <1>1, <1>4, <1>5

\* Dropping bits rounds to the nearest, and to even in the middle.
RoundsUp(r, M, q) == 2 * r > M \/ (2 * r = M /\ q % 2 = 1)
LEMMA RoundOffIs ==
  ASSUME NEW q \in Nat, NEW d \in Nat, d > 0, NEW r \in 0 .. Pow2[d] - 1, NEW bits,
         bits = q * Pow2[d] + r
  PROVE  RoundOff(bits, d) = IF RoundsUp(r, Pow2[d], q) THEN q + 1 ELSE q
<1> DEFINE M == Pow2[d]
           H == Pow2[d - 1]
           z == q % 2
<1>1. M \in Nat /\ H \in Nat /\ H > 0 /\ M = 2 * H /\ r \in Nat /\ r <= M - 1
  BY PowerHalf
<1>2. z \in {0, 1}
  <2>1. z \in 0 .. 1 BY Divided
  <2> QED BY <2>1
<1>3. bits \div M = q
  <2>1. (q * M + r) \div M = q BY <1>1, Division
  <2> QED BY <2>1
<1>4. RoundOff(bits, d) = (bits + (H - 1 + z)) \div M BY <1>3 DEF RoundOff, BiasEven
<1>5. bits = q * M + r OBVIOUS
<1> HIDE DEF M, H, z
<1>6. CASE r + (H - 1 + z) < M
  <2>1. PICK t \in 0 .. M - 1 : t = r + (H - 1 + z) BY <1>1, <1>2, <1>6
  <2>2. (q * M + t) \div M = q BY <1>1, Division
  <2>3. bits + (H - 1 + z) = q * M + t
    <3>1. q * M \in Nat BY <1>1
    <3> QED BY <1>1, <1>2, <1>5, <2>1, <3>1
  <2>4. ~(2 * r > M \/ (2 * r = M /\ z = 1)) BY <1>1, <1>2, <1>6
  <2> QED BY <1>4, <2>2, <2>3, <2>4 DEF RoundsUp, M, z
<1>7. CASE ~(r + (H - 1 + z) < M)
  <2>1. PICK t \in 0 .. M - 1 : t = r + (H - 1 + z) - M BY <1>1, <1>2, <1>7
  <2>2. q + 1 \in Nat OBVIOUS
  <2>3. ((q + 1) * M + t) \div M = q + 1 BY <1>1, <2>2, Division
  <2>4. bits + (H - 1 + z) = (q + 1) * M + t
    <3>1. q * M \in Nat /\ (q + 1) * M = q * M + M BY <1>1
    <3> QED BY <1>1, <1>2, <1>5, <2>1, <3>1
  <2>5. 2 * r > M \/ (2 * r = M /\ z = 1) BY <1>1, <1>2, <1>7
  <2> QED BY <1>4, <2>3, <2>4, <2>5 DEF RoundsUp, M, z
<1> QED BY <1>6, <1>7

\* Even numbers added change no last bit.
LEMMA LastBit ==
  ASSUME NEW a \in Nat, NEW b \in Nat
  PROVE  (2 * a + b) % 2 = b % 2
<1> DEFINE q == b \div 2
           r == b % 2
<1>1. q \in Nat /\ r \in 0 .. 2 - 1 /\ b = q * 2 + r BY Divided
<1> HIDE DEF q, r
<1>2. 2 * a + b = (a + q) * 2 + r /\ a + q \in Nat BY <1>1
<1>3. ((a + q) * 2 + r) % 2 = r BY <1>1, <1>2, Division
<1> QED BY <1>2, <1>3 DEF r

\* A pattern with a sign has the units and the last bit of the one without,
\* and is no NaN if that one is infinity or less.
LEMMA Signed ==
  ASSUME NEW e \in Nat, NEW m \in Nat, m > 0, NEW s \in Nat,
         NEW p \in 0 .. Infinity(e, m), NEW h, h = s * Pow2[e + m] + p
  PROVE  /\ Sign(h, e, m) = s /\ h % Pow2[e + m] = p /\ Units(h, e, m) = Units(p, e, m)
         /\ h % 2 = p % 2 /\ ~IsNaN(h, e, m)
         /\ s \in {0, 1} => h \in 0 .. Pow2[1 + e + m] - 1
<1>1. PICK x \in 0 .. Pow2[e] - 1, y \in 0 .. Pow2[m] - 1 :
        Fields(p, e, m, 0, x, y) /\ (x < Pow2[e] - 1 \/ y = 0)
  BY FieldsBelow
<1>2. p = x * Pow2[m] + y
  <2>1. e + m \in Nat OBVIOUS
  <2>2. Pow2[e + m] \in Nat /\ Pow2[m] \in Nat /\ x \in Nat /\ y \in Nat
    BY <1>1, <2>1, Power
  <2>3. x * Pow2[m] + y \in Nat BY <2>2
  <2> QED BY <1>1, <2>2, <2>3 DEF Fields
<1>3. Fields(h, e, m, s, x, y) BY <1>2 DEF Fields
<1>4. Sign(h, e, m) = s /\ h % Pow2[e + m] = p BY <1>2, <1>3, FieldsFound
<1>5. Units(h, e, m) = Units(p, e, m) BY <1>1, <1>3, UnitsAre
<1>6. ~IsNaN(h, e, m)
  <2>1. Pow2[e] \in Nat BY Power
  <2> QED BY <1>1, <1>3, <2>1, UnitsAre
<1>7. h % 2 = p % 2
  <2>1. e + m \in Nat /\ e + m > 0 OBVIOUS
  <2>2. Pow2[e + m] = 2 * Pow2[e + m - 1] /\ Pow2[e + m - 1] \in Nat BY <2>1, PowerHalf
  <2>3. PICK a \in Nat : a = s * Pow2[e + m - 1] BY <2>2
  <2>4. s * Pow2[e + m] = 2 * a BY <2>2, <2>3
  <2>5. p \in Nat OBVIOUS
  <2> QED BY <2>4, <2>5, LastBit
<1>8. s \in {0, 1} => h \in 0 .. Pow2[1 + e + m] - 1 BY <1>3, SignBit
<1> QED BY <1>4, <1>5, <1>6, <1>7, <1>8

\* A float is nearest to the pattern p if p is one of the two it is between, and
\* nearer to it, or even. Beyond infinity it is nearest to infinity.
Rounds(u, p, e, m) ==
  \/ p = Infinity(e, m) /\ u >= Units(p, e, m) * Scale(e, m)
  \/ \E q \in 0 .. Infinity(e, m) - 1 :
       LET a == Units(q, e, m) * Scale(e, m)
           b == Units(q + 1, e, m) * Scale(e, m)
       IN  /\ a <= u /\ u < b
           /\ \/ p = q /\ (2 * u < a + b \/ (2 * u = a + b /\ p % 2 = 0))
              \/ p = q + 1 /\ (2 * u > a + b \/ (2 * u = a + b /\ p % 2 = 0))
LEMMA RoundsNearest ==
  ASSUME NEW e \in Nat, NEW m \in Nat, m > 0, NEW s \in Nat,
         NEW p \in 0 .. Infinity(e, m), NEW h, h = s * Pow2[e + m] + p,
         NEW f, Sign(f, E32, M32) = s, Units(f, E32, M32) \in Nat,
         Scale(e, m) \in Nat, Scale(e, m) > 0, Rounds(Units(f, E32, M32), p, e, m)
  PROVE  Nearest(f, h, e, m)
<1> DEFINE I == Infinity(e, m)
           C == Scale(e, m)
           W(o) == Units(o, e, m) * C
           u == Units(f, E32, M32)
           Far(v) == IF u - v < 0 THEN -(u - v) ELSE u - v
<1>1. /\ Sign(h, e, m) = s /\ h % Pow2[e + m] = p /\ Units(h, e, m) = Units(p, e, m)
      /\ h % 2 = p % 2
  BY Signed
<1>2. \A o \in 0 .. I : Units(o, e, m) \in Nat
  <2> SUFFICES ASSUME NEW o \in 0 .. I PROVE Units(o, e, m) \in Nat OBVIOUS
  <2>1. PICK x \in 0 .. Pow2[e] - 1, y \in 0 .. Pow2[m] - 1 : Fields(o, e, m, 0, x, y)
    BY FieldsBelow
  <2> QED BY <2>1, UnitsAre
<1>3. \A o \in 0 .. I : W(o) \in Nat
  <2>1. \A i \in Nat, j \in Nat : i * j \in Nat OBVIOUS
  <2> HIDE DEF C, I
  <2> QED BY <1>2, <2>1 DEF C
<1>4. \A i \in 0 .. I, j \in 0 .. I : i < j => W(i) < W(j)
  <2> SUFFICES ASSUME NEW i \in 0 .. I, NEW j \in 0 .. I, i < j PROVE W(i) < W(j)
    OBVIOUS
  <2>1. Units(i, e, m) < Units(j, e, m) BY PatternsGrow
  <2>2. \A k \in Nat, l \in Nat, c \in Nat : k < l /\ c > 0 => k * c < l * c OBVIOUS
  <2> QED BY <1>2, <2>1, <2>2
<1>5. /\ \A o \in 0 .. I : Distance(f, o, e, m) = Far(W(o))
      /\ Distance(f, h, e, m) = Far(W(p))
  BY <1>1 DEF Distance
<1>6. Rounds(u, p, e, m) /\ u \in Nat /\ p \in 0 .. I OBVIOUS
<1>7. I \in Int /\ 0 <= I
  <2>1. Pow2[e] - 1 \in Int /\ Pow2[m] \in Int BY Power
  <2>2. I \in Int BY <2>1 DEF Infinity
  <2> HIDE DEF I
  <2> QED BY <1>6, <2>2
<1>8. \/ p = I /\ u >= W(p)
      \/ \E q \in 0 .. I - 1 :
           /\ W(q) <= u /\ u < W(q + 1)
           /\ \/ p = q /\ (2 * u < W(q) + W(q + 1) \/ (2 * u = W(q) + W(q + 1) /\ p % 2 = 0))
              \/ p = q + 1 /\ (2 * u > W(q) + W(q + 1) \/ (2 * u = W(q) + W(q + 1) /\ p % 2 = 0))
  BY <1>6 DEF Rounds
<1> HIDE DEF I, C, W, u
<1>9. ASSUME NEW o \in 0 .. I, o # p
      PROVE  Far(W(p)) < Far(W(o)) \/ (Far(W(p)) = Far(W(o)) /\ p % 2 = 0)
  <2>1. W(o) \in Nat /\ W(p) \in Nat /\ o \in Int /\ p \in Int /\ o <= I /\ u \in Nat
    BY <1>3, <1>6, <1>7
  <2>2. CASE p = I /\ u >= W(p)
    <3>1. o < p BY <1>9, <2>1, <2>2
    <3>2. W(o) < W(p) BY <1>4, <1>6, <3>1
    <3> QED BY <2>1, <2>2, <3>2
  <2>3. ASSUME NEW q \in 0 .. I - 1, W(q) <= u, u < W(q + 1),
               \/ p = q /\ (2 * u < W(q) + W(q + 1) \/ (2 * u = W(q) + W(q + 1) /\ p % 2 = 0))
               \/ p = q + 1 /\ (2 * u > W(q) + W(q + 1) \/ (2 * u = W(q) + W(q + 1) /\ p % 2 = 0))
        PROVE  Far(W(p)) < Far(W(o)) \/ (Far(W(p)) = Far(W(o)) /\ p % 2 = 0)
    <3>1. q \in 0 .. I /\ q + 1 \in 0 .. I /\ q \in Int BY <1>7
    <3>2. W(q) \in Nat /\ W(q + 1) \in Nat BY <1>3, <3>1
    <3>3. CASE o < q
      <4>1. W(o) < W(q) BY <1>4, <3>1, <3>3
      <4> QED BY <2>1, <2>3, <3>2, <4>1
    <3>4. CASE o > q + 1
      <4>1. W(o) > W(q + 1) BY <1>4, <3>1, <3>4
      <4> QED BY <2>1, <2>3, <3>2, <4>1
    <3>5. CASE o = q \/ o = q + 1
      BY <1>9, <2>1, <2>3, <3>1, <3>2, <3>5
    <3>6. o < q \/ o > q + 1 \/ o = q \/ o = q + 1 BY <2>1, <3>1
    <3> QED BY <3>3, <3>4, <3>5, <3>6
  <2> QED BY <1>8, <2>2, <2>3
<1>10. \A other \in 0 .. I :
         \/ other = p
         \/ Far(W(p)) < Far(W(other))
         \/ Far(W(p)) = Far(W(other)) /\ p % 2 = 0
  BY <1>9
<1> HIDE DEF Far
<1> QED BY <1>1, <1>5, <1>10 DEF Nearest, I

\* Dropping the last bits of the significand picks the nearer of the pattern
\* that has the others and the next: each dropped unit is S units of a float.
LEMMA Dropped ==
  ASSUME NEW e \in Nat, NEW m \in Nat, NEW b \in Nat, NEW k \in Nat,
         NEW d \in Nat, d > 0, NEW r \in 0 .. Pow2[d] - 1, NEW bits, bits = k * Pow2[d] + r,
         NEW S \in Nat, S > 0, NEW u \in Nat,
         2 * b + k \in 0 .. Infinity(e, m) - 1,
         Units(2 * b + k, e, m) * Scale(e, m) \in Nat,
         u = Units(2 * b + k, e, m) * Scale(e, m) + r * S,
         Units((2 * b + k) + 1, e, m) * Scale(e, m)
           = Units(2 * b + k, e, m) * Scale(e, m) + Pow2[d] * S
  PROVE  /\ 2 * b + RoundOff(bits, d) \in 0 .. Infinity(e, m)
         /\ Rounds(u, 2 * b + RoundOff(bits, d), e, m)
<1> DEFINE M == Pow2[d]
           q == 2 * b + k
           p == 2 * b + RoundOff(bits, d)
           x == Units(q, e, m) * Scale(e, m)
           y == Units(q + 1, e, m) * Scale(e, m)
<1>1. M \in Nat /\ M > 0 /\ r \in Nat /\ r < M BY Power
<1>2. RoundOff(bits, d) = IF RoundsUp(r, M, k) THEN k + 1 ELSE k BY RoundOffIs
<1>3. q % 2 = k % 2 BY LastBit
<1>4. q \in 0 .. Infinity(e, m) - 1 /\ q \in Nat /\ x \in Nat /\ u = x + r * S /\ y = x + M * S
  OBVIOUS
<1>5. p = IF RoundsUp(r, M, k) THEN q + 1 ELSE q BY <1>2
<1>6. Infinity(e, m) \in Int
  <2>1. Pow2[e] \in Int /\ Pow2[m] \in Int BY Power
  <2> QED BY <2>1 DEF Infinity
<1>7. p \in 0 .. Infinity(e, m)
  <2> HIDE DEF p, q
  <2> QED BY <1>4, <1>5, <1>6
<1> HIDE DEF M, q, p, x, y
<1>8. r * S \in Nat /\ M * S \in Nat /\ 2 * (r * S) = (2 * r) * S BY <1>1
<1>9. r * S < M * S
  <2>1. \A i \in Nat, j \in Nat : i < j => i * S < j * S OBVIOUS
  <2> QED BY <1>1, <2>1
<1>10. /\ 2 * r > M => 2 * (r * S) > M * S
       /\ 2 * r = M => 2 * (r * S) = M * S
       /\ 2 * r < M => 2 * (r * S) < M * S
  <2>1. \A i \in Nat, j \in Nat : i < j => i * S < j * S OBVIOUS
  <2>2. 2 * r \in Nat BY <1>1
  <2> QED BY <1>1, <1>8, <2>1, <2>2
<1>11. x <= u /\ u < y BY <1>4, <1>8, <1>9
<1>12. Rounds(u, p, e, m)
  <2>1. CASE RoundsUp(r, M, k)
    <3>1. p = q + 1 BY <1>5, <2>1
    <3>2. 2 * r > M \/ (2 * r = M /\ k % 2 = 1) BY <2>1 DEF RoundsUp
    <3>3. k % 2 = 1 => (q + 1) % 2 = 0
      <4>1. q \div 2 \in Nat /\ q % 2 \in 0 .. 2 - 1 /\ q = (q \div 2) * 2 + (q % 2)
        BY <1>4, Divided
      <4>2. PICK i \in Nat : i = q \div 2 BY <4>1
      <4>3. k % 2 = 1 => q + 1 = (i + 1) * 2 + 0 BY <1>3, <4>1, <4>2
      <4>4. i + 1 \in Nat /\ 0 \in 0 .. 2 - 1 /\ 2 \in Nat BY <4>2
      <4>5. ((i + 1) * 2 + 0) % 2 = 0 BY <4>4, Division
      <4> QED BY <4>3, <4>5
    <3>4. 2 * u > x + y \/ (2 * u = x + y /\ p % 2 = 0)
      BY <1>4, <1>8, <1>10, <3>1, <3>2, <3>3
    <3>5. \/ p = q /\ (2 * u < x + y \/ (2 * u = x + y /\ p % 2 = 0))
          \/ p = q + 1 /\ (2 * u > x + y \/ (2 * u = x + y /\ p % 2 = 0))
      BY <3>1, <3>4
    <3> QED BY <1>4, <1>11, <3>5 DEF Rounds, x, y
  <2>2. CASE ~RoundsUp(r, M, k)
    <3>1. p = q BY <1>5, <2>2
    <3>2. 2 * r < M \/ (2 * r = M /\ k % 2 # 1) BY <1>1, <2>2 DEF RoundsUp
    <3>3. k % 2 # 1 => q % 2 = 0
      <4>1. k % 2 \in 0 .. 2 - 1 BY Divided
      <4> QED BY <1>3, <4>1
    <3>4. 2 * u < x + y \/ (2 * u = x + y /\ p % 2 = 0)
      BY <1>4, <1>8, <1>10, <3>1, <3>2, <3>3
    <3>5. \/ p = q /\ (2 * u < x + y \/ (2 * u = x + y /\ p % 2 = 0))
          \/ p = q + 1 /\ (2 * u > x + y \/ (2 * u = x + y /\ p % 2 = 0))
      BY <3>1, <3>4
    <3> QED BY <1>4, <1>11, <3>5 DEF Rounds, x, y
  <2> QED BY <2>1, <2>2
<1> QED BY <1>7, <1>12 DEF p

\* A unit of a Float16 is many units of a float.
LEMMA ScaleIs ==
  /\ Bias(E32) + M32 - Bias(E16) - M16 \in Nat
  /\ Scale(E16, M16) = Pow2[Bias(E32) + M32 - Bias(E16) - M16]
  /\ Scale(E16, M16) \in Nat /\ Scale(E16, M16) > 0
<1>1. Bias(E32) + M32 - Bias(E16) - M16 \in Nat BY Widths
<1> QED BY <1>1, Power DEF Scale

\* What Narrowed16 computes of a float with exponent x and mantissa y.
Narrows(x, y) ==
  /\ Narrowed16(x - Bias(E32), y) \in 0 .. Infinity(E16, M16)
  /\ Rounds(UnitsOf(x, y, M32), Narrowed16(x - Bias(E32), y), E16, M16)

LEMMA NarrowedLarge ==
  ASSUME NEW x \in 0 .. Pow2[E32] - 1, NEW y \in 0 .. Pow2[M32] - 1,
         x < Pow2[E32] - 1 \/ y = 0, x - Bias(E32) >= Bias(E16) + 1
  PROVE  Narrows(x, y)
<1> DEFINE I == Infinity(E16, M16)
           K == Bias(E32) + M32 - Bias(E16) - M16
           X == Pow2[E16] - 1
<1>1. /\ M32 \in Nat /\ E16 \in Nat /\ M16 \in Nat
      /\ Bias(E32) \in Nat /\ Bias(E16) \in Nat /\ Bias(E16) > 0
      /\ Pow2[E16] = 2 * Bias(E16) + 2 /\ Pow2[E32] = 2 * Bias(E32) + 2
  BY Widths
<1>2. x \in Nat /\ x # 0 /\ x - 1 \in Nat /\ y \in Nat /\ Pow2[M32] \in Nat
      /\ Pow2[M16] \in Nat /\ Pow2[M16] > 0
  BY <1>1, Power
<1>3. Narrowed16(x - Bias(E32), y) = I
  <2>1. ~(x - Bias(E32) = Bias(E32) + 1 /\ y # 0) BY <1>1, <1>2
  <2>2. x - Bias(E32) \notin 1 - Bias(E16) .. Bias(E16)
        /\ x - Bias(E32) \notin -(Bias(E16) + M16) .. -Bias(E16)
    BY <1>1, <1>2
  <2> QED BY <2>1, <2>2 DEF Narrowed16
<1>4. X \in 0 .. Pow2[E16] - 1 /\ X # 0 /\ X - 1 \in Nat /\ X - 1 = 2 * Bias(E16) BY <1>1
<1>5. Units(I, E16, M16) = Pow2[M16] * Pow2[X - 1]
  <2>1. 0 \in 0 .. Pow2[M16] - 1 BY <1>2
  <2>2. Fields(I, E16, M16, 0, X, 0)
    <3>1. E16 + M16 \in Nat BY <1>1
    <3>2. Pow2[E16 + M16] \in Nat /\ I \in Int /\ I = X * Pow2[M16]
      BY <1>1, <1>2, <3>1, Power DEF Infinity
    <3> HIDE DEF X
    <3>3. X * Pow2[M16] \in Int BY <1>2, <1>4
    <3> QED BY <1>4, <2>1, <3>2, <3>3 DEF Fields
  <2>3. Units(I, E16, M16) = UnitsOf(X, 0, M16) BY <1>1, <2>2, UnitsAre
  <2> HIDE DEF X
  <2>4. Pow2[M16] + 0 = Pow2[M16] BY <1>2
  <2> QED BY <1>4, <2>3, <2>4 DEF UnitsOf
<1>6. Units(I, E16, M16) * Scale(E16, M16) = Pow2[M32 + (Bias(E16) + Bias(E32))]
  <2>1. K \in Nat /\ Scale(E16, M16) = Pow2[K] BY ScaleIs
  <2>2. M16 + ((X - 1) + K) = M32 + (Bias(E16) + Bias(E32)) /\ (X - 1) + K \in Nat
    BY <1>1, <1>4, <2>1
  <2> HIDE DEF X, K, I
  <2>3. (Pow2[M16] * Pow2[X - 1]) * Pow2[K] = Pow2[M16] * Pow2[(X - 1) + K]
    <3> DEFINE i == X - 1
    <3>1. Pow2[M16] \in Nat /\ i \in Nat /\ K \in Nat BY <1>2, <1>4, <2>1
    <3> HIDE DEF i
    <3>2. (Pow2[M16] * Pow2[i]) * Pow2[K] = Pow2[M16] * Pow2[i + K]
      BY <3>1, PowersTogether
    <3> QED BY <3>2 DEF i
  <2>4. Pow2[M16] * Pow2[(X - 1) + K] = Pow2[M16 + ((X - 1) + K)]
    BY <1>1, <2>2, PowerSum
  <2> QED BY <1>5, <2>1, <2>2, <2>3, <2>4
<1>7. UnitsOf(x, y, M32) >= Pow2[M32 + (Bias(E16) + Bias(E32))]
  <2> DEFINE k == M32 + (Bias(E16) + Bias(E32))
             l == M32 + (x - 1)
  <2>1. k \in Nat /\ l \in Nat /\ k <= l BY <1>1, <1>2
  <2>2. Pow2[k] <= Pow2[l] /\ Pow2[k] \in Nat BY <2>1, PowerGrows, Power
  <2>3. Pow2[l] = Pow2[M32] * Pow2[x - 1] BY <1>1, <1>2, PowerSum
  <2>4. Pow2[x - 1] \in Nat BY <1>2, Power
  <2>5. \A i \in Nat, j \in Nat, n \in Nat : i * n <= (i + j) * n /\ i * n \in Nat /\ (i + j) * n \in Nat
    OBVIOUS
  <2>6. UnitsOf(x, y, M32) = (Pow2[M32] + y) * Pow2[x - 1] BY <1>2 DEF UnitsOf
  <2> HIDE DEF k, l
  <2>7. Pow2[l] <= UnitsOf(x, y, M32) /\ Pow2[l] \in Nat /\ UnitsOf(x, y, M32) \in Nat
    BY <1>2, <2>3, <2>4, <2>5, <2>6
  <2>8. UnitsOf(x, y, M32) >= Pow2[k] BY <2>2, <2>7
  <2> QED BY <2>8 DEF k
<1>8. I \in 0 .. I
  <2>1. I \in Nat
    <3>1. \A i \in Nat, j \in Nat : i * j \in Nat OBVIOUS
    <3>2. X \in Nat BY <1>1
    <3> QED BY <1>2, <3>1, <3>2 DEF Infinity
  <2> HIDE DEF I
  <2> QED BY <2>1
<1> QED BY <1>3, <1>6, <1>7, <1>8 DEF Narrows, Rounds

LEMMA NarrowedZero ==
  ASSUME NEW x \in 0 .. Pow2[E32] - 1, NEW y \in 0 .. Pow2[M32] - 1,
         x - Bias(E32) < -(Bias(E16) + M16)
  PROVE  Narrows(x, y)
<1> DEFINE K == Bias(E32) + M32 - Bias(E16) - M16
           u == UnitsOf(x, y, M32)
<1>1. /\ M32 \in Nat /\ E16 \in Nat /\ M16 \in Nat
      /\ Bias(E32) \in Nat /\ Bias(E16) \in Nat /\ Bias(E16) > 0
      /\ Pow2[E16] = 2 * Bias(E16) + 2 /\ Bias(E16) + M16 < Bias(E32)
  BY Widths
<1>2. K \in Nat /\ Scale(E16, M16) = Pow2[K] /\ Pow2[K] \in Nat BY ScaleIs
<1>3. x \in Nat /\ y \in Nat /\ Pow2[M32] \in Nat /\ Pow2[M32] > 0
      /\ Pow2[M16] \in Nat /\ Pow2[M16] > 0
  BY <1>1, Power
<1>4. Narrowed16(x - Bias(E32), y) = 0
  <2>1. /\ ~(x - Bias(E32) >= Bias(E16) + 1)
        /\ x - Bias(E32) \notin 1 - Bias(E16) .. Bias(E16)
        /\ x - Bias(E32) \notin -(Bias(E16) + M16) .. -Bias(E16)
    BY <1>1, <1>3
  <2> QED BY <2>1 DEF Narrowed16
<1>5. Units(0, E16, M16) = 0 /\ Units(0 + 1, E16, M16) = 1
  <2>1. 0 \in 0 .. Pow2[M16] - 1 /\ 0 \in 0 .. Pow2[E16] - 1 /\ 0 < Pow2[E16] - 1
    BY <1>1, <1>3
  <2>2. E16 + M16 \in Nat BY <1>1
  <2>3. Fields(0, E16, M16, 0, 0, 0) BY <1>3, <2>1, <2>2, Power DEF Fields
  <2>4. Units(0, E16, M16) = UnitsOf(0, 0, M16) BY <1>1, <2>3, UnitsAre
  <2>5. Units(0 + 1, E16, M16) = Units(0, E16, M16) + Gap(0)
    BY <1>1, <2>1, <2>3, NextUnits
  <2> QED BY <2>4, <2>5 DEF UnitsOf, Gap
<1>6. u \in Nat /\ 2 * u < Pow2[K]
  <2>1. CASE x = 0
    <3>1. u = y BY <2>1 DEF UnitsOf
    <3>2. M32 < K BY <1>1
    <3>3. 2 * Pow2[M32] <= Pow2[K]
      <4> HIDE DEF K
      <4> QED BY <1>1, <1>2, <3>2, PowerGrows
    <3> HIDE DEF K, u
    <3> QED BY <1>2, <1>3, <3>1, <3>3
  <2>2. CASE x # 0
    <3> DEFINE l == M32 + x
    <3>1. x - 1 \in Nat /\ Pow2[x - 1] \in Nat /\ Pow2[x - 1] > 0 /\ Pow2[x] = 2 * Pow2[x - 1]
      BY <1>3, <2>2, PowerHalf
    <3>2. u = (Pow2[M32] + y) * Pow2[x - 1] BY <2>2 DEF UnitsOf
    <3>3. l < K /\ l \in Nat BY <1>1, <1>3
    <3>4. Pow2[l] = Pow2[M32] * Pow2[x] BY <1>1, <1>3, PowerSum
    <3> HIDE DEF K, u, l
    <3>5. 2 * Pow2[l] <= Pow2[K] BY <1>2, <3>3, PowerGrows
    <3>6. \A i \in Nat, j \in Nat, n \in Nat :
            j < i /\ n > 0 => (i + j) * n \in Nat /\ i * (2 * n) \in Nat /\ (i + j) * n < i * (2 * n)
      <4> SUFFICES ASSUME NEW i \in Nat, NEW j \in Nat, NEW n \in Nat, j < i, n > 0
                   PROVE  (i + j) * n \in Nat /\ i * (2 * n) \in Nat /\ (i + j) * n < i * (2 * n)
        OBVIOUS
      <4>1. (i + j) * n \in Nat /\ i * (2 * n) \in Nat OBVIOUS
      <4>2. i * (2 * n) = (i + i) * n OBVIOUS
      <4>3. \A p \in Nat, q \in Nat : p < q => p * n < q * n OBVIOUS
      <4>4. (i + j) * n < (i + i) * n BY <4>3
      <4> QED BY <4>1, <4>2, <4>4
    <3>7. u \in Nat /\ Pow2[l] \in Nat /\ u < Pow2[l]
      BY <1>3, <3>1, <3>2, <3>4, <3>6
    <3> QED BY <1>2, <3>5, <3>7
  <2> QED BY <2>1, <2>2
<1>7. 0 \in 0 .. Infinity(E16, M16) - 1 /\ 0 \in 0 .. Infinity(E16, M16)
  <2>1. \A i \in Nat, j \in Nat : i > 0 /\ j > 0 => i * j \in Nat /\ i * j > 0 OBVIOUS
  <2>2. Pow2[E16] - 1 \in Nat /\ Pow2[E16] - 1 > 0 BY <1>1
  <2>3. Infinity(E16, M16) \in Nat /\ Infinity(E16, M16) > 0
    BY <1>3, <2>1, <2>2 DEF Infinity
  <2> QED BY <2>3
<1>8. Rounds(u, 0, E16, M16)
  <2>1. 0 * Scale(E16, M16) = 0 /\ 1 * Scale(E16, M16) = Pow2[K] BY <1>2
  <2>2. /\ Units(0, E16, M16) * Scale(E16, M16) = 0
        /\ Units(0 + 1, E16, M16) * Scale(E16, M16) = Pow2[K]
    BY <1>5, <2>1
  <2> HIDE DEF u, K
  <2>3. 0 <= u /\ u < Pow2[K] /\ 2 * u < 0 + Pow2[K] BY <1>2, <1>6
  <2> QED BY <1>7, <2>2, <2>3 DEF Rounds
<1> QED BY <1>4, <1>7, <1>8 DEF Narrows

LEMMA NarrowedNormal ==
  ASSUME NEW x \in 0 .. Pow2[E32] - 1, NEW y \in 0 .. Pow2[M32] - 1,
         x - Bias(E32) \in 1 - Bias(E16) .. Bias(E16)
  PROVE  Narrows(x, y)
<1> DEFINE D == M32 - M16
           K == Bias(E32) - Bias(E16)
           z == x - Bias(E32) + Bias(E16)
           k == y \div Pow2[D]
           r == y % Pow2[D]
           S == Pow2[x - 1]
           g == Pow2[M16] + k
           b == z * Pow2[M16 - 1]
           q == 2 * b + k
           C == Scale(E16, M16)
           u == UnitsOf(x, y, M32)
<1>1. /\ D \in Nat /\ D > 0 /\ M16 \in Nat /\ M32 \in Nat /\ E32 \in Nat /\ E16 \in Nat
      /\ M16 + D = M32 /\ M16 > 0
      /\ Bias(E32) \in Nat /\ Bias(E16) \in Nat /\ Bias(E16) > 0
      /\ Bias(E16) + M16 < Bias(E32)
      /\ Pow2[E16] = 2 * Bias(E16) + 2
  BY Widths
<1>2. /\ x \in Nat /\ x - 1 \in Nat /\ x # 0 /\ z \in Nat /\ z # 0 /\ z - 1 \in Nat
      /\ z < Pow2[E16] - 1 /\ z \in 0 .. Pow2[E16] - 1
      /\ x - 1 = (z - 1) + K /\ K \in Nat /\ y \in Nat
  BY <1>1
<1>3. /\ S \in Nat /\ S > 0 /\ Pow2[M16 - 1] \in Nat /\ Pow2[M16] = 2 * Pow2[M16 - 1]
      /\ Pow2[D] \in Nat /\ Pow2[D] > 0 /\ Pow2[M32] = Pow2[M16] * Pow2[D]
      /\ Pow2[M16] \in Nat /\ Pow2[z - 1] \in Nat
  <2> HIDE DEF D
  <2>1. Pow2[M16 + D] = Pow2[M16] * Pow2[D] BY <1>1, PowerSum
  <2> QED BY <1>1, <1>2, <2>1, Power, PowerHalf
<1>4. k \in Nat /\ r \in 0 .. Pow2[D] - 1 /\ y = k * Pow2[D] + r BY <1>2, <1>3, Divided
<1>5. C = Pow2[D + K] /\ D + K \in Nat /\ C \in Nat
  <2>1. D + K = Bias(E32) + M32 - Bias(E16) - M16 BY <1>1
  <2> QED BY <2>1, ScaleIs
<1> HIDE DEF k, r, C
<1>6. k \in 0 .. Pow2[M16] - 1
  <2> DEFINE A == Pow2[M16]
             B == Pow2[D]
  <2>1. A \in Nat /\ B \in Nat /\ B > 0 /\ r \in Nat /\ k * B + r < A * B
    BY <1>3, <1>4
  <2> HIDE DEF A, B
  <2>2. k >= A => k * B >= A * B BY <1>4, <2>1
  <2>3. k * B \in Nat /\ A * B \in Nat BY <1>4, <2>1
  <2>4. k < A BY <1>4, <2>1, <2>2, <2>3
  <2> QED BY <1>4, <2>1, <2>4 DEF A
<1>7. b \in Nat /\ 2 * b = z * Pow2[M16]
  <2>1. \A i \in Nat, j \in Nat : i * j \in Nat /\ 2 * (i * j) = i * (2 * j) OBVIOUS
  <2> HIDE DEF z
  <2> QED BY <1>2, <1>3, <2>1
<1>8. q = z * Pow2[M16] + k BY <1>7
<1> HIDE DEF b, z, S
<1>9. q \in 0 .. Infinity(E16, M16) - 1
  <2>1. z * Pow2[M16] + k \in 0 .. Pow2[E16 + M16] - 1
        /\ z * Pow2[M16] + k < Infinity(E16, M16)
    BY <1>1, <1>2, <1>6, BelowSign
  <2>2. Pow2[E16] - 1 \in Int BY <1>1
  <2>3. Infinity(E16, M16) \in Int BY <1>3, <2>2 DEF Infinity
  <2>4. q \in Nat BY <1>4, <1>7
  <2> QED BY <1>8, <2>1, <2>3, <2>4
<1>10. Fields(q, E16, M16, 0, z, k)
  <2>1. E16 + M16 \in Nat BY <1>1
  <2>2. Pow2[E16 + M16] \in Nat /\ q \in Nat BY <1>4, <1>7, <2>1, Power
  <2> QED BY <1>2, <1>6, <1>8, <2>2 DEF Fields
<1>11. Units(q, E16, M16) = g * Pow2[z - 1]
       /\ Units(q + 1, E16, M16) = g * Pow2[z - 1] + Pow2[z - 1]
  <2>1. Units(q, E16, M16) = UnitsOf(z, k, M16) BY <1>1, <1>10, UnitsAre
  <2>2. Units(q + 1, E16, M16) = Units(q, E16, M16) + Gap(z)
    BY <1>1, <1>2, <1>10, NextUnits
  <2> QED BY <1>2, <2>1, <2>2 DEF UnitsOf, Gap
<1>12. Pow2[z - 1] * C = Pow2[D] * S
  <2>1. Pow2[z - 1] * Pow2[D + K] = Pow2[(z - 1) + (D + K)]
    <3> DEFINE i == z - 1
               j == D + K
    <3>1. i \in Nat /\ j \in Nat BY <1>2, <1>5
    <3> HIDE DEF i, j
    <3>2. Pow2[i + j] = Pow2[i] * Pow2[j] BY <3>1, PowerSum
    <3> QED BY <3>2 DEF i, j
  <2>2. Pow2[D] * Pow2[x - 1] = Pow2[D + (x - 1)]
    <3> DEFINE j == x - 1
    <3>1. D \in Nat /\ j \in Nat BY <1>1, <1>2
    <3> HIDE DEF D, j
    <3>2. Pow2[D + j] = Pow2[D] * Pow2[j] BY <3>1, PowerSum
    <3> QED BY <3>2 DEF j
  <2>3. D + (x - 1) = (z - 1) + (D + K) BY <1>1, <1>2
  <2> QED BY <1>5, <2>1, <2>2, <2>3 DEF S
<1>13. g \in Nat BY <1>3, <1>4
<1>14. u = (g * Pow2[D] + r) * S
  <2>1. u = (Pow2[M32] + y) * S BY <1>2 DEF UnitsOf, S
  <2>2. Pow2[M32] + y = g * Pow2[D] + r
    <3> DEFINE A == Pow2[M16]
               B == Pow2[D]
    <3>1. A \in Nat /\ B \in Nat /\ r \in Nat BY <1>3, <1>4
    <3>2. Pow2[M32] = A * B /\ y = k * B + r BY <1>3, <1>4
    <3> HIDE DEF A, B
    <3>3. (A + k) * B = A * B + k * B /\ A * B \in Nat /\ k * B \in Nat BY <1>4, <3>1
    <3> QED BY <3>1, <3>2, <3>3 DEF A, B
  <2> QED BY <2>1, <2>2
<1> DEFINE N == g * Pow2[z - 1]
<1>15. N * C \in Nat /\ u = N * C + r * S /\ (N + Pow2[z - 1]) * C = N * C + Pow2[D] * S
       /\ u \in Nat
  <2> DEFINE A == Pow2[D]
             B == Pow2[z - 1]
  <2>1. A \in Nat /\ B \in Nat /\ S \in Nat /\ C \in Nat /\ g \in Nat /\ r \in Nat
    BY <1>3, <1>4, <1>5, <1>13
  <2>2. u = (g * A + r) * S /\ B * C = A * S /\ N = g * B BY <1>12, <1>14
  <2> HIDE DEF A, B, C, S, g, r, u, N
  <2>3. N \in Nat BY <2>1, <2>2
  <2>4. N * C = (g * A) * S
    <3>1. (g * B) * C = g * (B * C) /\ g * (A * S) = (g * A) * S BY <2>1
    <3> QED BY <2>2, <3>1
  <2>5. (g * A + r) * S = (g * A) * S + r * S
    <3>1. PICK i \in Nat : i = g * A BY <2>1
    <3>2. (i + r) * S = i * S + r * S BY <2>1, <3>1
    <3> QED BY <3>1, <3>2
  <2>6. (N + B) * C = N * C + B * C BY <2>1, <2>3
  <2>7. N * C \in Nat /\ r * S \in Nat BY <2>1, <2>3
  <2> QED BY <2>2, <2>4, <2>5, <2>6, <2>7 DEF A, B
<1> HIDE DEF N, u, q, D, g
<1>16. 2 * b + RoundOff(y, D) \in 0 .. Infinity(E16, M16)
       /\ Rounds(u, 2 * b + RoundOff(y, D), E16, M16)
  <2>1. q = 2 * b + k BY DEF q
  <2>2. Units(q, E16, M16) = N /\ Units(q + 1, E16, M16) = N + Pow2[z - 1] BY <1>11 DEF N
  <2> DEFINE V(p) == Units(p, E16, M16) * Scale(E16, M16)
  <2>3. /\ 2 * b + k \in 0 .. Infinity(E16, M16) - 1
        /\ V(2 * b + k) \in Nat
        /\ u = V(2 * b + k) + r * S
        /\ V((2 * b + k) + 1) = V(2 * b + k) + Pow2[D] * S
    BY <1>9, <1>15, <2>1, <2>2 DEF C
  <2>4. /\ E16 \in Nat /\ M16 \in Nat /\ b \in Nat /\ k \in Nat /\ D \in Nat /\ D > 0
        /\ r \in 0 .. Pow2[D] - 1 /\ y = k * Pow2[D] + r /\ S \in Nat /\ S > 0 /\ u \in Nat
    BY <1>1, <1>3, <1>4, <1>7, <1>15
  <2> QED BY <2>3, <2>4, Dropped
<1>17. Narrowed16(x - Bias(E32), y) = 2 * b + RoundOff(y, D)
  <2>1. ~(x - Bias(E32) >= Bias(E16) + 1) /\ x - Bias(E32) \in Int BY <1>1, <1>2
  <2>2. x - Bias(E32) \notin -(Bias(E16) + M16) .. -Bias(E16) BY <1>1, <2>1
  <2>3. Narrowed16(x - Bias(E32), y) = z * Pow2[M16] + RoundOff(y, D)
    BY <2>1, <2>2 DEF Narrowed16, z, D
  <2> QED BY <1>7, <2>3
<1> QED BY <1>16, <1>17 DEF Narrows, u

LEMMA NarrowedSmall ==
  ASSUME NEW x \in 0 .. Pow2[E32] - 1, NEW y \in 0 .. Pow2[M32] - 1,
         x - Bias(E32) \in -(Bias(E16) + M16) .. -Bias(E16)
  PROVE  Narrows(x, y)
<1> DEFINE d == M32 - M16 + 1 - Bias(E16) - (x - Bias(E32))
           g == y + Pow2[M32]
           k == g \div Pow2[d]
           r == g % Pow2[d]
           S == Pow2[x - 1]
           C == Scale(E16, M16)
           u == UnitsOf(x, y, M32)
<1>1. /\ M16 \in Nat /\ M32 \in Nat /\ E32 \in Nat /\ E16 \in Nat
      /\ M32 - M16 \in Nat
      /\ Bias(E32) \in Nat /\ Bias(E16) \in Nat /\ Bias(E16) > 0
      /\ Bias(E16) + M16 < Bias(E32)
      /\ Pow2[E16] = 2 * Bias(E16) + 2
  BY Widths
<1>2. /\ x \in Nat /\ x - 1 \in Nat /\ x # 0 /\ y \in Nat
      /\ d \in Nat /\ d > 0 /\ M32 + 1 <= M16 + d
      /\ d + (x - 1) = Bias(E32) + M32 - Bias(E16) - M16
  BY <1>1
<1> HIDE DEF d
<1>3. /\ S \in Nat /\ S > 0 /\ Pow2[d] \in Nat /\ Pow2[d] > 0
      /\ Pow2[M16] \in Nat /\ Pow2[M16] > 0 /\ Pow2[M32] \in Nat /\ g \in Nat
  BY <1>1, <1>2, Power
<1>4. k \in Nat /\ r \in 0 .. Pow2[d] - 1 /\ g = k * Pow2[d] + r BY <1>3, Divided
<1>5. C = Pow2[d] * S /\ C \in Nat
  <2> DEFINE j == x - 1
  <2>1. C = Pow2[d + j] /\ C \in Nat BY <1>2, ScaleIs
  <2>2. j \in Nat BY <1>2
  <2> HIDE DEF j
  <2>3. Pow2[d + j] = Pow2[d] * Pow2[j] BY <1>2, <2>2, PowerSum
  <2> QED BY <2>1, <2>3 DEF j
<1>6. g < Pow2[M16] * Pow2[d]
  <2>1. M16 + d \in Nat /\ M32 + 1 \in Nat BY <1>1, <1>2
  <2>2. Pow2[M32 + 1] = 2 * Pow2[M32] /\ Pow2[M32 + 1] <= Pow2[M16 + d]
        /\ Pow2[M16 + d] \in Nat
    BY <1>1, <1>2, <2>1, Power, PowerGrows
  <2>3. Pow2[M16 + d] = Pow2[M16] * Pow2[d] BY <1>1, <1>2, PowerSum
  <2>4. g < 2 * Pow2[M32] BY <1>2, <1>3
  <2> HIDE DEF g
  <2> QED BY <1>3, <2>2, <2>3, <2>4
<1> HIDE DEF k, r, C, g
<1>7. k \in 0 .. Pow2[M16] - 1
  <2> DEFINE A == Pow2[M16]
             B == Pow2[d]
  <2>1. A \in Nat /\ B \in Nat /\ B > 0 /\ r \in Nat /\ k * B + r < A * B
    BY <1>3, <1>4, <1>6
  <2> HIDE DEF A, B
  <2>2. k >= A => k * B >= A * B BY <1>4, <2>1
  <2>3. k * B \in Nat /\ A * B \in Nat BY <1>4, <2>1
  <2>4. k < A BY <1>4, <2>1, <2>2, <2>3
  <2> QED BY <1>4, <2>1, <2>4 DEF A
<1>8. 0 \in 0 .. Pow2[E16] - 1 /\ 0 < Pow2[E16] - 1 BY <1>1
<1>9. k \in 0 .. Infinity(E16, M16) - 1
  <2>1. 0 * Pow2[M16] + k < Infinity(E16, M16) BY <1>1, <1>7, <1>8, BelowSign
  <2>2. Pow2[E16] - 1 \in Int BY <1>1
  <2>3. Infinity(E16, M16) \in Int BY <1>3, <2>2 DEF Infinity
  <2> QED BY <1>3, <1>4, <2>1, <2>3
<1>10. Fields(k, E16, M16, 0, 0, k)
  <2>1. E16 + M16 \in Nat BY <1>1
  <2>2. Pow2[E16 + M16] \in Nat BY <2>1, Power
  <2> QED BY <1>3, <1>4, <1>7, <1>8, <2>2 DEF Fields
<1>11. Units(k, E16, M16) = k /\ Units(k + 1, E16, M16) = k + 1
  <2>1. Units(k, E16, M16) = UnitsOf(0, k, M16) BY <1>1, <1>10, UnitsAre
  <2>2. Units(k + 1, E16, M16) = Units(k, E16, M16) + Gap(0)
    BY <1>1, <1>8, <1>10, NextUnits
  <2> QED BY <2>1, <2>2 DEF UnitsOf, Gap
<1>12. u = g * S
  <2>1. u = (Pow2[M32] + y) * S BY <1>2 DEF UnitsOf
  <2>2. g = Pow2[M32] + y BY <1>2, <1>3 DEF g
  <2> QED BY <2>1, <2>2
<1>13. k * C \in Nat /\ u = k * C + r * S /\ (k + 1) * C = k * C + Pow2[d] * S /\ u \in Nat
  <2> DEFINE A == Pow2[d]
  <2>1. A \in Nat /\ S \in Nat /\ C \in Nat /\ r \in Nat /\ g \in Nat
    BY <1>3, <1>4, <1>5 DEF g
  <2>2. C = A * S /\ g = k * A + r /\ u = g * S BY <1>4, <1>5, <1>12
  <2> HIDE DEF A, S, u
  <2>3. k * C = (k * A) * S
    <3>1. k * (A * S) = (k * A) * S BY <1>4, <2>1
    <3> QED BY <2>2, <3>1
  <2>4. (k * A + r) * S = (k * A) * S + r * S
    <3>1. PICK i \in Nat : i = k * A BY <1>4, <2>1
    <3>2. (i + r) * S = i * S + r * S BY <2>1, <3>1
    <3> QED BY <3>1, <3>2
  <2>5. (k + 1) * C = k * C + C BY <1>4, <2>1
  <2>6. k * C \in Nat /\ r * S \in Nat BY <1>4, <2>1
  <2> QED BY <2>2, <2>3, <2>4, <2>5, <2>6 DEF A
<1> HIDE DEF S, u
<1>14. 2 * 0 + RoundOff(g, d) \in 0 .. Infinity(E16, M16)
       /\ Rounds(u, 2 * 0 + RoundOff(g, d), E16, M16)
  <2>1. 2 * 0 + k = k /\ 0 \in Nat BY <1>4
  <2> DEFINE V(p) == Units(p, E16, M16) * Scale(E16, M16)
  <2>2. /\ 2 * 0 + k \in 0 .. Infinity(E16, M16) - 1
        /\ V(2 * 0 + k) \in Nat
        /\ u = V(2 * 0 + k) + r * S
        /\ V((2 * 0 + k) + 1) = V(2 * 0 + k) + Pow2[d] * S
    BY <1>9, <1>11, <1>13, <2>1 DEF C
  <2>3. /\ E16 \in Nat /\ M16 \in Nat /\ 0 \in Nat /\ k \in Nat /\ d \in Nat /\ d > 0
        /\ r \in 0 .. Pow2[d] - 1 /\ g = k * Pow2[d] + r /\ S \in Nat /\ S > 0 /\ u \in Nat
    BY <1>1, <1>2, <1>3, <1>4, <1>13 DEF S
  <2> QED BY <2>2, <2>3, Dropped
<1>15. Narrowed16(x - Bias(E32), y) = 2 * 0 + RoundOff(g, d)
  <2>1. /\ ~(x - Bias(E32) >= Bias(E16) + 1) /\ x - Bias(E32) \notin 1 - Bias(E16) .. Bias(E16)
    BY <1>1, <1>2
  <2>2. Narrowed16(x - Bias(E32), y) = RoundOff(g, d)
    BY <2>1 DEF Narrowed16, Subnormal, g, d
  <2>3. RoundOff(g, d) = IF RoundsUp(r, Pow2[d], k) THEN k + 1 ELSE k
    BY <1>2, <1>4, RoundOffIs
  <2>4. RoundOff(g, d) \in Nat BY <1>4, <2>3
  <2> QED BY <2>2, <2>4
<1> QED BY <1>14, <1>15 DEF Narrows, u

\* Float16::FromFloat rounds to the nearest, and a NaN stays one.
LEMMA NarrowedFloat16 ==
  ASSUME NEW f \in Floats
  PROVE  /\ Float16FromFloat(f) \in 0 .. Pow2[1 + E16 + M16] - 1
         /\ IF IsNaN(f, E32, M32) THEN IsNaN(Float16FromFloat(f), E16, M16)
            ELSE ~IsNaN(Float16FromFloat(f), E16, M16) /\ Nearest(f, Float16FromFloat(f), E16, M16)
<1> DEFINE h == Float16FromFloat(f)
<1>1. /\ E32 \in Nat /\ M32 \in Nat /\ E16 \in Nat /\ M16 \in Nat /\ M16 > 0
      /\ Bias(E32) \in Nat /\ Bias(E16) \in Nat /\ Bias(E16) + M16 < Bias(E32)
      /\ Pow2[E32] = 2 * Bias(E32) + 2 /\ Pow2[E16] = 2 * Bias(E16) + 2
  BY Widths
<1>2. f \in Nat
  <2>1. 1 + E32 + M32 \in Nat BY <1>1
  <2> QED BY <2>1, Power DEF Floats
<1>3. PICK s \in Nat, x \in 0 .. Pow2[E32] - 1, y \in 0 .. Pow2[M32] - 1 :
        Fields(f, E32, M32, s, x, y)
  BY <1>1, <1>2, FieldsExist
<1>4. Sign(f, E32, M32) = s /\ Exponent(f, E32, M32) = x /\ Mantissa(f, M32) = y
  BY <1>1, <1>3, FieldsFound
<1>5. /\ Units(f, E32, M32) = UnitsOf(x, y, M32) /\ Units(f, E32, M32) \in Nat
      /\ IsNaN(f, E32, M32) <=> x = Pow2[E32] - 1 /\ y # 0
  BY <1>1, <1>3, UnitsAre
<1>6. s \in {0, 1} BY <1>1, <1>3, SignBit DEF Floats
<1>7. h = s * Pow2[E16 + M16] + Narrowed16(x - Bias(E32), y)
  BY <1>4 DEF Float16FromFloat
<1>8. CASE IsNaN(f, E32, M32)
  <2>1. x - Bias(E32) = Bias(E32) + 1 /\ y # 0 BY <1>1, <1>5, <1>8
  <2>2. Narrowed16(x - Bias(E32), y) = Infinity(E16, M16) + Pow2[M16 - 1]
    <3>1. /\ x - Bias(E32) >= Bias(E16) + 1
          /\ x - Bias(E32) \notin 1 - Bias(E16) .. Bias(E16)
          /\ x - Bias(E32) \notin -(Bias(E16) + M16) .. -Bias(E16)
      BY <1>1, <2>1
    <3> QED BY <2>1, <3>1 DEF Narrowed16
  <2>3. Pow2[M16 - 1] \in 0 .. Pow2[M16] - 1 /\ Pow2[M16 - 1] # 0 BY <1>1, PowerHalf
  <2>4. Pow2[E16] - 1 \in 0 .. Pow2[E16] - 1 BY <1>1
  <2>5. Fields(h, E16, M16, s, Pow2[E16] - 1, Pow2[M16 - 1])
    BY <1>7, <2>2, <2>3, <2>4 DEF Fields, Infinity
  <2>6. IsNaN(h, E16, M16) BY <1>1, <2>3, <2>5, UnitsAre
  <2>7. h \in 0 .. Pow2[1 + E16 + M16] - 1 BY <1>1, <1>6, <2>5, SignBit
  <2> QED BY <1>8, <2>6, <2>7
<1>9. CASE ~IsNaN(f, E32, M32)
  <2>1. x < Pow2[E32] - 1 \/ y = 0 BY <1>1, <1>5, <1>9
  <2>2. Narrows(x, y)
    <3>1. x - Bias(E32) \in Int /\ M16 \in Nat BY <1>1
    <3>2. CASE x - Bias(E32) >= Bias(E16) + 1 BY <2>1, <3>2, NarrowedLarge
    <3>3. CASE x - Bias(E32) \in 1 - Bias(E16) .. Bias(E16) BY <3>3, NarrowedNormal
    <3>4. CASE x - Bias(E32) \in -(Bias(E16) + M16) .. -Bias(E16) BY <3>4, NarrowedSmall
    <3>5. CASE x - Bias(E32) < -(Bias(E16) + M16) BY <3>5, NarrowedZero
    <3> HIDE DEF Narrows
    <3> QED BY <1>1, <3>1, <3>2, <3>3, <3>4, <3>5
  <2>3. PICK p \in 0 .. Infinity(E16, M16) : p = Narrowed16(x - Bias(E32), y)
    BY <2>2 DEF Narrows
  <2>4. Rounds(Units(f, E32, M32), p, E16, M16) BY <1>5, <2>2, <2>3 DEF Narrows
  <2>5. h = s * Pow2[E16 + M16] + p BY <1>7, <2>3
  <2> HIDE DEF h
  <2>6. ~IsNaN(h, E16, M16) /\ h \in 0 .. Pow2[1 + E16 + M16] - 1
    BY <1>1, <1>6, <2>5, Signed
  <2>7. Scale(E16, M16) \in Nat /\ Scale(E16, M16) > 0 BY ScaleIs
  <2>8. Nearest(f, h, E16, M16) BY <1>1, <1>4, <1>5, <2>4, <2>5, <2>7, RoundsNearest
  <2> QED BY <1>9, <2>6, <2>8 DEF h
<1> QED BY <1>8, <1>9

\* Rounding the magnitude of a float to a BFloat16.
LEMMA NarrowedB ==
  ASSUME NEW x \in 0 .. Pow2[E32] - 1, NEW y \in 0 .. Pow2[M32] - 1,
         x < Pow2[E32] - 1 \/ y = 0
  PROVE  /\ x * Pow2[MB] + RoundOff(y, M32 - MB) \in 0 .. Infinity(E32, MB)
         /\ Rounds(UnitsOf(x, y, M32), x * Pow2[MB] + RoundOff(y, M32 - MB), E32, MB)
<1> DEFINE D == M32 - MB
           k == y \div Pow2[D]
           r == y % Pow2[D]
           b == x * Pow2[MB - 1]
           q == 2 * b + k
           C == Scale(E32, MB)
           S == Gap(x)
           u == UnitsOf(x, y, M32)
           N == UnitsOf(x, k, MB)
<1>1. /\ D \in Nat /\ D > 0 /\ MB \in Nat /\ M32 \in Nat /\ E32 \in Nat /\ MB + D = M32
      /\ MB > 0 /\ Bias(E32) \in Nat /\ Bias(E32) + M32 - Bias(E32) - MB = D
      /\ Pow2[E32] = 2 * Bias(E32) + 2
  BY Widths
<1>2. C = Pow2[D] BY <1>1 DEF Scale
<1> HIDE DEF D, C
<1>3. /\ Pow2[D] \in Nat /\ Pow2[D] > 0 /\ Pow2[MB] \in Nat /\ Pow2[MB] > 0
      /\ Pow2[M32] = Pow2[MB] * Pow2[D]
      /\ Pow2[MB - 1] \in Nat /\ Pow2[MB] = 2 * Pow2[MB - 1]
  <2>1. Pow2[MB + D] = Pow2[MB] * Pow2[D] BY <1>1, PowerSum
  <2> QED BY <1>1, <2>1, Power, PowerHalf
<1>4. x \in Nat /\ y \in Nat BY <1>1
<1>5. k \in Nat /\ r \in 0 .. Pow2[D] - 1 /\ y = k * Pow2[D] + r BY <1>3, <1>4, Divided
<1> HIDE DEF k, r
<1>6. k \in 0 .. Pow2[MB] - 1
  <2> DEFINE A == Pow2[MB]
             B == Pow2[D]
  <2>1. A \in Nat /\ B \in Nat /\ B > 0 /\ r \in Nat /\ k * B + r < A * B
    BY <1>3, <1>5
  <2> HIDE DEF A, B
  <2>2. k >= A => k * B >= A * B BY <1>5, <2>1
  <2>3. k * B \in Nat /\ A * B \in Nat BY <1>5, <2>1
  <2>4. k < A BY <1>5, <2>1, <2>2, <2>3
  <2> QED BY <1>5, <2>1, <2>4 DEF A
<1>7. b \in Nat /\ 2 * b = x * Pow2[MB] /\ x * Pow2[MB] \in Nat
  <2>1. \A i \in Nat, j \in Nat : i * j \in Nat /\ 2 * (i * j) = i * (2 * j) OBVIOUS
  <2> QED BY <1>3, <1>4, <2>1
<1> HIDE DEF b
<1>8. Fields(q, E32, MB, 0, x, k)
  <2>1. E32 + MB \in Nat BY <1>1
  <2>2. Pow2[E32 + MB] \in Nat /\ q \in Nat BY <1>5, <1>7, <2>1, Power
  <2> QED BY <1>6, <1>7, <2>2 DEF Fields
<1>9. Units(q, E32, MB) = N /\ N \in Nat BY <1>1, <1>8, UnitsAre
<1>10. S \in Nat /\ S > 0
  <2>1. CASE x = 0 BY <2>1 DEF Gap
  <2>2. CASE x # 0 BY <1>4, <2>2, PowerHalf DEF Gap
  <2> QED BY <2>1, <2>2
<1>11. u = N * C + r * S /\ N * C \in Nat /\ r * S \in Nat /\ u \in Nat
  <2> DEFINE A == Pow2[MB]
             B == Pow2[D]
  <2>1. A \in Nat /\ B \in Nat /\ r \in Nat /\ C = B /\ y = k * B + r /\ Pow2[M32] = A * B
    BY <1>2, <1>3, <1>5
  <2>2. CASE x = 0
    <3>1. u = y /\ N = k /\ S = 1 BY <2>2 DEF UnitsOf, Gap
    <3> HIDE DEF A, B, u, N, S
    <3>2. k * B \in Nat BY <1>5, <2>1
    <3> QED BY <2>1, <3>1, <3>2
  <2>3. CASE x # 0
    <3>1. u = (Pow2[M32] + y) * S /\ N = (A + k) * S BY <2>3 DEF UnitsOf, Gap
    <3> HIDE DEF A, B, u, N, S
    <3>2. PICK g \in Nat : g = A + k BY <1>5, <2>1
    <3>3. g * B = A * B + k * B /\ A * B \in Nat /\ k * B \in Nat BY <1>5, <2>1, <3>2
    <3>4. PICK i \in Nat : i = g * B BY <3>3
    <3>5. Pow2[M32] + y = i + r BY <2>1, <3>3, <3>4
    <3>6. (i + r) * S = i * S + r * S /\ i * S \in Nat /\ r * S \in Nat BY <1>10, <2>1
    <3>7. i * S = (g * S) * B
      <4>1. (g * B) * S = (g * S) * B BY <1>10, <2>1
      <4> QED BY <3>4, <4>1
    <3> QED BY <2>1, <3>1, <3>2, <3>5, <3>6, <3>7
  <2> QED BY <2>2, <2>3
<1>12. CASE x < Pow2[E32] - 1
  <2>1. Units(q + 1, E32, MB) = N + S BY <1>1, <1>8, <1>9, <1>12, NextUnits
  <2>2. (N + S) * C = N * C + Pow2[D] * S
    <3>1. C \in Nat BY <1>2, <1>3
    <3> HIDE DEF N, S
    <3>2. (N + S) * C = N * C + C * S BY <1>9, <1>10, <3>1
    <3> QED BY <1>2, <3>2
  <2>3. q \in 0 .. Infinity(E32, MB) - 1
    <3>1. x * Pow2[MB] + k < Infinity(E32, MB) BY <1>1, <1>6, <1>12, BelowSign
    <3>2. Pow2[E32] - 1 \in Int BY <1>1
    <3>3. Infinity(E32, MB) \in Int BY <1>3, <3>2 DEF Infinity
    <3>4. q \in Nat BY <1>5, <1>7
    <3> QED BY <1>7, <3>1, <3>3, <3>4
  <2> HIDE DEF N, S, u
  <2> DEFINE V(p) == Units(p, E32, MB) * Scale(E32, MB)
  <2>4. /\ V(2 * b + k) \in Nat
        /\ u = V(2 * b + k) + r * S
        /\ V((2 * b + k) + 1) = V(2 * b + k) + Pow2[D] * S
    BY <1>9, <1>11, <2>1, <2>2 DEF C
  <2>5. 2 * b + RoundOff(y, D) \in 0 .. Infinity(E32, MB)
        /\ Rounds(u, 2 * b + RoundOff(y, D), E32, MB)
    <3>1. /\ E32 \in Nat /\ MB \in Nat /\ b \in Nat /\ k \in Nat /\ D \in Nat /\ D > 0
          /\ r \in 0 .. Pow2[D] - 1 /\ y = k * Pow2[D] + r /\ S \in Nat /\ S > 0 /\ u \in Nat
      BY <1>1, <1>5, <1>7, <1>10, <1>11
    <3> QED BY <2>3, <2>4, <3>1, Dropped
  <2> QED BY <1>7, <2>5 DEF u, D
<1>13. CASE x = Pow2[E32] - 1
  <2>1. y = 0 BY <1>1, <1>13
  <2>2. k = 0 /\ r = 0
    <3>1. 0 \in 0 .. Pow2[D] - 1 /\ 0 \in Nat /\ 0 * Pow2[D] + 0 = 0 BY <1>3
    <3>2. Pow2[D] \in Nat BY <1>3
    <3>3. (0 * Pow2[D] + 0) \div Pow2[D] = 0 /\ (0 * Pow2[D] + 0) % Pow2[D] = 0
      BY <3>1, <3>2, Division
    <3> QED BY <2>1, <3>1, <3>3 DEF k, r
  <2>3. RoundOff(y, D) = 0
    <3>1. RoundOff(y, D) = IF RoundsUp(r, Pow2[D], k) THEN k + 1 ELSE k
      BY <1>1, <1>5, RoundOffIs
    <3>2. ~RoundsUp(r, Pow2[D], k) BY <1>3, <2>2 DEF RoundsUp
    <3> QED BY <2>2, <3>1, <3>2
  <2>4. x * Pow2[MB] + 0 = Infinity(E32, MB) BY <1>7, <1>13 DEF Infinity
  <2>5. q = Infinity(E32, MB) BY <1>7, <2>2, <2>4
  <2>6. u >= Units(Infinity(E32, MB), E32, MB) * C
    <3> HIDE DEF q, u, N, S
    <3>1. r * S = 0 BY <1>10, <2>2
    <3> QED BY <1>9, <1>11, <2>5, <3>1
  <2>7. Infinity(E32, MB) \in 0 .. Infinity(E32, MB) BY <1>7, <2>4
  <2> QED BY <2>3, <2>4, <2>6, <2>7 DEF Rounds, C, D
<1>14. x < Pow2[E32] - 1 \/ x = Pow2[E32] - 1 BY <1>1
<1> QED BY <1>12, <1>13, <1>14

\* BFloat16::FromFloat rounds to the nearest; a carry does not reach the sign.
LEMMA NarrowedBFloat16 ==
  ASSUME NEW f \in Floats
  PROVE  /\ BFloat16FromFloat(f) \in 0 .. Pow2[1 + E32 + MB] - 1
         /\ ~IsNaN(f, E32, M32) =>
              /\ ~IsNaN(BFloat16FromFloat(f), E32, MB)
              /\ Nearest(f, BFloat16FromFloat(f), E32, MB)
<1> DEFINE D == M32 - MB
           h == BFloat16FromFloat(f)
           T == Pow2[1 + E32 + MB]
<1>1. /\ E32 \in Nat /\ M32 \in Nat /\ MB \in Nat /\ MB > 0 /\ D \in Nat /\ D > 0
      /\ MB + D = M32 /\ Bias(E32) \in Nat /\ Bias(E32) + M32 - Bias(E32) - MB = D
      /\ Pow2[E32] = 2 * Bias(E32) + 2
  BY Widths
<1>2. Scale(E32, MB) = Pow2[D] BY <1>1 DEF Scale
<1>3. h = RoundOff(f, D) % T BY DEF BFloat16FromFloat
<1> HIDE DEF D, h
<1>4. f \in Nat
  <2>1. 1 + E32 + M32 \in Nat BY <1>1
  <2> QED BY <2>1, Power DEF Floats
<1>5. PICK s \in Nat, x \in 0 .. Pow2[E32] - 1, y \in 0 .. Pow2[M32] - 1 :
        Fields(f, E32, M32, s, x, y)
  BY <1>1, <1>4, FieldsExist
<1>6. Sign(f, E32, M32) = s BY <1>1, <1>5, FieldsFound
<1>7. /\ Units(f, E32, M32) = UnitsOf(x, y, M32) /\ Units(f, E32, M32) \in Nat
      /\ IsNaN(f, E32, M32) <=> x = Pow2[E32] - 1 /\ y # 0
  BY <1>1, <1>5, UnitsAre
<1>8. s \in {0, 1} BY <1>1, <1>5, SignBit DEF Floats
<1> DEFINE k == y \div Pow2[D]
           r == y % Pow2[D]
           t == s * Pow2[E32 + MB - 1] + x * Pow2[MB - 1]
<1>9. /\ Pow2[D] \in Nat /\ Pow2[D] > 0 /\ Pow2[MB] \in Nat /\ Pow2[MB - 1] \in Nat
      /\ Pow2[MB] = 2 * Pow2[MB - 1] /\ Pow2[M32] = Pow2[MB] * Pow2[D]
      /\ Pow2[E32 + MB - 1] \in Nat /\ Pow2[E32 + MB] = 2 * Pow2[E32 + MB - 1]
      /\ Pow2[E32 + M32] = Pow2[E32 + MB] * Pow2[D] /\ Pow2[E32 + MB] \in Nat
      /\ T \in Nat /\ T > 0
  <2>1. E32 + MB \in Nat /\ E32 + MB > 0 /\ (E32 + MB) + D = E32 + M32 /\ 1 + E32 + MB \in Nat
    BY <1>1
  <2>2. Pow2[MB + D] = Pow2[MB] * Pow2[D] /\ Pow2[(E32 + MB) + D] = Pow2[E32 + MB] * Pow2[D]
    BY <1>1, <2>1, PowerSum
  <2>3. Pow2[MB] = 2 * Pow2[MB - 1] /\ Pow2[E32 + MB] = 2 * Pow2[E32 + MB - 1]
        /\ Pow2[MB - 1] \in Nat /\ Pow2[E32 + MB - 1] \in Nat
    BY <1>1, <2>1, PowerHalf
  <2> QED BY <1>1, <2>1, <2>2, <2>3, Power
<1>10. x \in Nat /\ y \in Nat BY <1>1
<1>11. k \in Nat /\ r \in 0 .. Pow2[D] - 1 /\ y = k * Pow2[D] + r
  BY <1>9, <1>10, Divided
<1> HIDE DEF k, r, T
<1>12. t \in Nat /\ 2 * t = s * Pow2[E32 + MB] + x * Pow2[MB]
  <2>1. \A i \in Nat, j \in Nat : i * j \in Nat /\ 2 * (i * j) = i * (2 * j) OBVIOUS
  <2>2. /\ s * Pow2[E32 + MB - 1] \in Nat
        /\ 2 * (s * Pow2[E32 + MB - 1]) = s * Pow2[E32 + MB]
        /\ x * Pow2[MB - 1] \in Nat
        /\ 2 * (x * Pow2[MB - 1]) = x * Pow2[MB]
    BY <1>9, <1>10, <2>1
  <2> QED BY <2>2
<1> HIDE DEF t
<1>13. f = (2 * t + k) * Pow2[D] + r
  <2> DEFINE A == Pow2[E32 + MB]
             B == Pow2[MB]
             C == Pow2[D]
  <2>1. /\ A \in Nat /\ B \in Nat /\ C \in Nat /\ r \in Nat /\ y = k * C + r
        /\ f = s * (A * C) + (x * (B * C) + y) /\ 2 * t = s * A + x * B
    BY <1>5, <1>9, <1>11, <1>12 DEF Fields
  <2> HIDE DEF A, B, C
  <2>2. PICK i \in Nat, j \in Nat : i = s * A /\ j = x * B BY <1>10, <2>1
  <2>3. s * (A * C) = i * C /\ x * (B * C) = j * C
    <3>1. s * (A * C) = (s * A) * C /\ x * (B * C) = (x * B) * C BY <1>10, <2>1
    <3> QED BY <2>2, <3>1
  <2>4. ((i + j) + k) * C = i * C + j * C + k * C BY <1>11, <2>1
  <2>5. i * C \in Nat /\ j * C \in Nat /\ k * C \in Nat BY <1>11, <2>1
  <2>6. 2 * t + k = (i + j) + k BY <2>1, <2>2
  <2> QED BY <2>1, <2>3, <2>4, <2>5, <2>6 DEF C
<1>14. RoundOff(f, D) = 2 * t + RoundOff(y, D) /\ RoundOff(y, D) \in Nat
  <2>1. 2 * t + k \in Nat BY <1>11, <1>12
  <2>2. RoundOff(f, D) = IF RoundsUp(r, Pow2[D], 2 * t + k) THEN (2 * t + k) + 1 ELSE 2 * t + k
    <3> DEFINE w == 2 * t + k
    <3>1. w \in Nat /\ f = w * Pow2[D] + r /\ r \in 0 .. Pow2[D] - 1 /\ D \in Nat /\ D > 0
      BY <1>1, <1>11, <1>13, <2>1
    <3> HIDE DEF w
    <3>2. RoundOff(f, D) = IF RoundsUp(r, Pow2[D], w) THEN w + 1 ELSE w
      BY <3>1, RoundOffIs
    <3> QED BY <3>2 DEF w
  <2>3. RoundOff(y, D) = IF RoundsUp(r, Pow2[D], k) THEN k + 1 ELSE k
    BY <1>1, <1>11, RoundOffIs
  <2>4. (2 * t + k) % 2 = k % 2 BY <1>11, <1>12, LastBit
  <2>5. RoundsUp(r, Pow2[D], 2 * t + k) <=> RoundsUp(r, Pow2[D], k) BY <2>4 DEF RoundsUp
  <2> QED BY <1>11, <1>12, <2>2, <2>3, <2>5
<1>15. h \in 0 .. T - 1
  <2>1. RoundOff(f, D) \in Nat BY <1>12, <1>14
  <2> QED BY <1>3, <1>9, <2>1, Divided
<1>16. ASSUME ~IsNaN(f, E32, M32)
       PROVE  ~IsNaN(h, E32, MB) /\ Nearest(f, h, E32, MB)
  <2>1. x < Pow2[E32] - 1 \/ y = 0 BY <1>1, <1>7, <1>16
  <2>2. x * Pow2[MB] + RoundOff(y, D) \in 0 .. Infinity(E32, MB)
        /\ Rounds(UnitsOf(x, y, M32), x * Pow2[MB] + RoundOff(y, D), E32, MB)
    BY <2>1, NarrowedB DEF D
  <2>3. PICK p \in 0 .. Infinity(E32, MB) : p = x * Pow2[MB] + RoundOff(y, D) BY <2>2
  <2>4. RoundOff(f, D) = s * Pow2[E32 + MB] + p
    <3>1. s * Pow2[E32 + MB] \in Nat /\ x * Pow2[MB] \in Nat BY <1>9, <1>10
    <3> QED BY <1>12, <1>14, <2>3, <3>1
  <2>5. ~IsNaN(RoundOff(f, D), E32, MB) /\ RoundOff(f, D) \in 0 .. T - 1
    <3>1. E32 \in Nat /\ MB \in Nat /\ MB > 0 BY <1>1
    <3> DEFINE w == RoundOff(f, D)
    <3>2. w = s * Pow2[E32 + MB] + p BY <2>4
    <3> HIDE DEF w
    <3>3. ~IsNaN(w, E32, MB) /\ (s \in {0, 1} => w \in 0 .. Pow2[1 + E32 + MB] - 1)
      BY <3>1, <3>2, Signed
    <3> QED BY <1>8, <3>3 DEF T, w
  <2>6. h = RoundOff(f, D)
    <3>1. PICK z \in 0 .. T - 1 : z = RoundOff(f, D) BY <2>5
    <3>2. T \in Nat /\ 0 \in Nat BY <1>9
    <3>3. (0 * T + z) % T = z BY <3>2, Division
    <3>4. 0 * T + z = z BY <3>2
    <3> QED BY <1>3, <3>1, <3>3, <3>4
  <2>7. Scale(E32, MB) \in Nat /\ Scale(E32, MB) > 0 BY <1>2, <1>9
  <2>8. Rounds(Units(f, E32, M32), p, E32, MB) BY <1>7, <2>2, <2>3
  <2>9. Nearest(f, RoundOff(f, D), E32, MB)
    BY <1>1, <1>6, <1>7, <2>4, <2>7, <2>8, RoundsNearest
  <2> QED BY <2>5, <2>6, <2>9
<1> QED BY <1>15, <1>16 DEF h, T

-----------------------------------------------------------------------------
\* A number has the bits of its type.
ValueOK ==
  value # NoValue =>
    \/ value.dtype = "float32" /\ value.bits \in Floats
    \/ value.dtype = "float16" /\ value.bits \in 0 .. Pow2[1 + E16 + M16] - 1
    \/ value.dtype = "bfloat16" /\ value.bits \in 0 .. Pow2[1 + E32 + MB] - 1

LEMMA NumberIs ==
  ASSUME NEW dtype, NEW bits
  PROVE  Number(dtype, bits).dtype = dtype /\ Number(dtype, bits).bits = bits
BY DEF Number

LEMMA ValueStep == ValueOK /\ [ValueNext]_value => ValueOK'
<1> SUFFICES ASSUME ValueOK, [ValueNext]_value PROVE ValueOK' OBVIOUS
<1>1. CASE \E f \in Floats : Load(f)
  <2>1. PICK f \in Floats : value' = Number("float32", f) BY <1>1 DEF Load
  <2> QED BY <2>1, NumberIs DEF ValueOK
<1>2. CASE FromFloat
  <2>1. value.bits \in Floats BY <1>2 DEF FromFloat, Has, ValueOK
  <2>2. CASE value' = Number("float16", Float16FromFloat(value.bits))
    <3>1. Float16FromFloat(value.bits) \in 0 .. Pow2[1 + E16 + M16] - 1
      BY <2>1, NarrowedFloat16
    <3> QED BY <2>2, <3>1, NumberIs DEF ValueOK
  <2>3. CASE value' = Number("bfloat16", BFloat16FromFloat(value.bits))
    <3>1. BFloat16FromFloat(value.bits) \in 0 .. Pow2[1 + E32 + MB] - 1
      BY <2>1, NarrowedBFloat16
    <3> QED BY <2>3, <3>1, NumberIs DEF ValueOK
  <2> QED BY <1>2, <2>2, <2>3 DEF FromFloat
<1>3. CASE ToFloat
  <2>1. CASE Has("float16") /\ value' = Number("float32", Float16ToFloat(value.bits))
    <3>1. value.bits \in 0 .. Pow2[1 + E16 + M16] - 1 BY <2>1 DEF Has, ValueOK
    <3>2. Float16ToFloat(value.bits) \in Floats BY <3>1, WidenedFloat16
    <3> QED BY <2>1, <3>2, NumberIs DEF ValueOK
  <2>2. CASE Has("bfloat16") /\ value' = Number("float32", BFloat16ToFloat(value.bits))
    <3>1. value.bits \in 0 .. Pow2[1 + E32 + MB] - 1 BY <2>2 DEF Has, ValueOK
    <3>2. BFloat16ToFloat(value.bits) \in Floats BY <3>1, WidenedBFloat16
    <3> QED BY <2>2, <3>2, NumberIs DEF ValueOK
  <2> QED BY <1>3, <2>1, <2>2 DEF ToFloat
<1>4. CASE Drop BY <1>4 DEF Drop, ValueOK
<1>5. CASE UNCHANGED value BY <1>5 DEF ValueOK
<1> QED BY <1>1, <1>2, <1>3, <1>4, <1>5 DEF ValueNext

\* Every number has the bits of its type: no conversion leaves its format,
\* though the sum that rounds a BFloat16 may wrap around
\* (src/data_type.h:78-158).
THEOREM ValueTypes == ValueSpec => []ValueOK
<1>1. ValueInit => ValueOK BY DEF ValueInit, ValueOK
<1> QED BY <1>1, ValueStep, PTL DEF ValueSpec

\* In any widths of exponent and mantissa, FromFloat picks the nearest number,
\* the even one of two that are equally near, from the subnormals up to
\* infinity, keeps the sign, and makes a NaN of a NaN in a Float16
\* (src/data_type.h:81-107, 142-150).
THEOREM ConversionsRound == ValueSpec => RoundsToNearest
<1> DEFINE A ==
      FromFloat =>
       IF IsNaN(value.bits, E32, M32)
       THEN value'.dtype = "float16" => IsNaN(value'.bits, E16, M16)
       ELSE IF value'.dtype = "float16"
       THEN ~IsNaN(value'.bits, E16, M16) /\ Nearest(value.bits, value'.bits, E16, M16)
       ELSE ~IsNaN(value'.bits, E32, MB) /\ Nearest(value.bits, value'.bits, E32, MB)
<1>1. ValueOK /\ [ValueNext]_value => [A]_value
  <2> SUFFICES ASSUME ValueOK, FromFloat PROVE A OBVIOUS
  <2>1. value.bits \in Floats BY DEF FromFloat, Has, ValueOK
  <2>2. CASE value' = Number("float16", Float16FromFloat(value.bits))
    <3>1. value'.dtype = "float16" /\ value'.bits = Float16FromFloat(value.bits)
      BY <2>2, NumberIs
    <3> QED BY <2>1, <3>1, NarrowedFloat16
  <2>3. CASE value' = Number("bfloat16", BFloat16FromFloat(value.bits))
    <3>1. value'.dtype = "bfloat16" /\ value'.bits = BFloat16FromFloat(value.bits)
      BY <2>3, NumberIs
    <3> QED BY <2>1, <3>1, NarrowedBFloat16
  <2> QED BY <2>2, <2>3 DEF FromFloat
<1> QED BY <1>1, ValueTypes, PTL DEF ValueSpec, RoundsToNearest

\* In any widths of exponent and mantissa in which a float holds them, ToFloat
\* is exact: it keeps the number, a subnormal one as well, and its sign, and
\* what is not a number (src/data_type.h:109-136, 152-157).
THEOREM WideningIsExact == ValueSpec => WidensExactly
<1> DEFINE A ==
      ToFloat =>
       IF value.dtype = "float16" THEN Same(value'.bits, value.bits, E16, M16)
       ELSE Same(value'.bits, value.bits, E32, MB)
<1>1. ValueOK /\ [ValueNext]_value => [A]_value
  <2> SUFFICES ASSUME ValueOK, ToFloat PROVE A OBVIOUS
  <2>1. CASE Has("float16") /\ value' = Number("float32", Float16ToFloat(value.bits))
    <3>1. value.dtype = "float16" /\ value.bits \in 0 .. Pow2[1 + E16 + M16] - 1
      BY <2>1 DEF Has, ValueOK
    <3>2. value'.bits = Float16ToFloat(value.bits) BY <2>1, NumberIs
    <3> QED BY <3>1, <3>2, WidenedFloat16
  <2>2. CASE Has("bfloat16") /\ value' = Number("float32", BFloat16ToFloat(value.bits))
    <3>1. value.dtype = "bfloat16" /\ value.bits \in 0 .. Pow2[1 + E32 + MB] - 1
      BY <2>2 DEF Has, ValueOK
    <3>2. value'.bits = BFloat16ToFloat(value.bits) BY <2>2, NumberIs
    <3> QED BY <3>1, <3>2, WidenedBFloat16
  <2> QED BY <2>1, <2>2 DEF ToFloat
<1> QED BY <1>1, ValueTypes, PTL DEF ValueSpec, WidensExactly
=============================================================================
