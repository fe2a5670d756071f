-------------------------- MODULE CoreTypesProofs --------------------------
(***************************************************************************)
(* Proofs about TensorView and Dispatcher, alone and as the core types     *)
(* together, for any shapes, strides, pointers and lists.                  *)
(*                                                                         *)
(* What the code computes in a loop over the dimensions, or over a list,   *)
(* is a recursive function in the modules.  A fact about one is proved by  *)
(* induction over the dimensions done: the set of those for which it holds *)
(* contains 0 and is closed under the next one (Induction).  What is       *)
(* printed of a view recurses over views; it is the same as a recursion    *)
(* over the number of dimensions (Tabulates).                              *)
(***************************************************************************)
EXTENDS CoreTypes, FloatConversionsProofs, SequenceTheorems, FunctionTheorems,
        FiniteSetTheorems

-----------------------------------------------------------------------------
\* Numbers that are the same in the width of a pointer.
Congruent(a, b) == \E k \in Int : a = b + k * Modulus

\* The width has more than one number.
LEMMA Width == Modulus \in Int /\ Modulus > 1
BY TensorViewAssumption

\* A residue fits the width and is congruent to its number.
LEMMA Residue ==
  ASSUME NEW a \in Int
  PROVE  a % Modulus \in 0 .. Modulus - 1 /\ Congruent(a, a % Modulus)
<1>1. Modulus \in Int /\ Modulus > 0 BY Width
<1>2. a \div Modulus \in Int /\ a = (a % Modulus) + (a \div Modulus) * Modulus
      /\ a % Modulus \in 0 .. Modulus - 1
  BY <1>1, Z3
<1> QED BY <1>2 DEF Congruent

\* Congruence is reflexive, ...
LEMMA CongruentSame == ASSUME NEW a \in Int PROVE Congruent(a, a)
<1>1. 0 \in Int /\ a = a + 0 * Modulus BY Width
<1> QED BY <1>1 DEF Congruent

\* ... symmetric ...
LEMMA CongruentBack ==
  ASSUME NEW a \in Int, NEW b \in Int, Congruent(a, b)
  PROVE  Congruent(b, a)
<1>1. PICK k \in Int : a = b + k * Modulus BY DEF Congruent
<1>2. -k \in Int /\ b = a + (-k) * Modulus BY <1>1, Width
<1> QED BY <1>2 DEF Congruent

\* ... and transitive.
LEMMA CongruentOn ==
  ASSUME NEW a \in Int, NEW b \in Int, NEW c \in Int, Congruent(a, b), Congruent(b, c)
  PROVE  Congruent(a, c)
<1>1. PICK k \in Int : a = b + k * Modulus BY DEF Congruent
<1>2. PICK l \in Int : b = c + l * Modulus BY DEF Congruent
<1>3. k + l \in Int /\ a = c + (k + l) * Modulus BY <1>1, <1>2, Width
<1> QED BY <1>3 DEF Congruent

\* Sums and products of congruent numbers are congruent.
LEMMA CongruentSum ==
  ASSUME NEW a \in Int, NEW b \in Int, NEW c \in Int, NEW d \in Int,
         Congruent(a, b), Congruent(c, d)
  PROVE  Congruent(a + c, b + d)
<1>1. PICK k \in Int : a = b + k * Modulus BY DEF Congruent
<1>2. PICK l \in Int : c = d + l * Modulus BY DEF Congruent
<1>3. k + l \in Int /\ a + c = (b + d) + (k + l) * Modulus BY <1>1, <1>2, Width
<1> QED BY <1>3 DEF Congruent

\* A multiple of congruent numbers is congruent.
LEMMA CongruentProduct ==
  ASSUME NEW a \in Int, NEW b \in Int, NEW c \in Int, Congruent(a, b)
  PROVE  Congruent(a * c, b * c) /\ Congruent(c * a, c * b)
<1>1. PICK k \in Int : a = b + k * Modulus BY DEF Congruent
<1>2. k * c \in Int /\ a * c = b * c + (k * c) * Modulus /\ c * a = c * b + (k * c) * Modulus
  BY <1>1, Width
<1> QED BY <1>2 DEF Congruent

\* They are the numbers with the same residue.
LEMMA ResiduesEqual ==
  ASSUME NEW a \in Int, NEW b \in Int
  PROVE  Congruent(a, b) <=> a % Modulus = b % Modulus
<1>1. Modulus \in Int /\ Modulus > 0 BY Width
<1> DEFINE r == a % Modulus
           s == b % Modulus
<1>2. r \in 0 .. Modulus - 1 /\ Congruent(a, r) /\ s \in 0 .. Modulus - 1 /\ Congruent(b, s)
  BY Residue
<1> HIDE DEF r, s
<1>3. r \in Int /\ s \in Int /\ Congruent(r, a) /\ Congruent(s, b)
  BY <1>1, <1>2, CongruentBack
<1>4. ASSUME r = s PROVE Congruent(a, b)
  BY <1>2, <1>3, <1>4, CongruentOn
<1>5. ASSUME Congruent(a, b) PROVE r = s
  <2>1. Congruent(r, s) BY <1>2, <1>3, <1>5, CongruentOn
  <2>2. PICK k \in Int : r = s + k * Modulus BY <2>1 DEF Congruent
  <2>3. k * Modulus < Modulus /\ k * Modulus > -Modulus BY <1>1, <1>2, <1>3, <2>2
  <2>4. k >= 1 => k * Modulus >= Modulus BY <1>1
  <2>5. k <= -1 => k * Modulus <= -Modulus BY <1>1
  <2>6. k = 0
    <3>1. k * Modulus \in Int BY <1>1
    <3> QED BY <1>1, <2>3, <2>4, <2>5, <3>1
  <2> QED BY <1>1, <1>3, <2>2, <2>6
<1> QED BY <1>4, <1>5 DEF r, s

\* A summand may be taken in the width before or after adding.
LEMMA ResidueSum ==
  ASSUME NEW a \in Int, NEW b \in Int
  PROVE  (a + (b % Modulus)) % Modulus = (a + b) % Modulus
<1> DEFINE r == b % Modulus
<1>1. r \in Int /\ Congruent(b, r) BY Residue, Width
<1> HIDE DEF r
<1>2. PICK k \in Int : b = r + k * Modulus BY <1>1 DEF Congruent
<1>3. a + b = (a + r) + k * Modulus BY <1>1, <1>2, Width
<1>4. Congruent(a + b, a + r) /\ a + b \in Int /\ a + r \in Int
  BY <1>1, <1>3 DEF Congruent
<1> QED BY <1>4, ResiduesEqual DEF r

-----------------------------------------------------------------------------
\* The loops over the dimensions of a view.
\* The parts of a view, dimension by dimension.
LEMMA ViewType ==
  ASSUME NEW v \in Views
  PROVE  /\ Ndim(v) \in Nat /\ DOMAIN v.shape = 1 .. Ndim(v)
         /\ v.shape \in Seq(Nat) /\ v.strides \in Seq(Int)
         /\ \A d \in 1 .. Ndim(v) : v.shape[d] \in Nat /\ v.strides[d] \in Int
         /\ v.data \in 0 .. Modulus - 1 /\ v.dtype \in DataTypes
         /\ SizeOf[v.dtype] \in Nat /\ SizeOf[v.dtype] > 0
<1>1. v.shape \in Seq(Nat) /\ v.strides \in Seq(Int)
      /\ v.data \in 0 .. Modulus - 1 /\ v.dtype \in DataTypes
  BY DEF Views
<1>2. SizeOf[v.dtype] \in Nat /\ SizeOf[v.dtype] > 0
  BY <1>1, TensorViewAssumption
<1>3. Ndim(v) \in Nat /\ DOMAIN v.shape = 1 .. Ndim(v) /\ Len(v.strides) = Ndim(v)
  BY <1>1, LenProperties DEF Ndim, Views
<1>4. \A d \in 1 .. Ndim(v) : v.shape[d] \in Nat /\ v.strides[d] \in Int
  BY <1>1, <1>3, ElementOfSeq DEF Ndim
<1> QED BY <1>1, <1>2, <1>3, <1>4

\* The offset of an element grows by index and stride of each dimension.
Offsets(f, v, J) ==
  /\ f \in [0 .. Ndim(v) -> Int] /\ f[0] = 0
  /\ \A d \in 1 .. Ndim(v) : f[d] = f[d - 1] + J[d] * v.strides[d]
LEMMA AddressLoop ==
  ASSUME NEW v \in Views, NEW J, \A d \in 1 .. Ndim(v) : J[d] \in Int
  PROVE  \E f : /\ Offsets(f, v, J)
                /\ Address(v, J) = (v.data + f[Ndim(v)] * SizeOf[v.dtype]) % Modulus
<1> DEFINE n == Ndim(v)
           step == [d \in 1 .. n |-> [y \in Int |-> y + J[d] * v.strides[d]]]
           body(f) == [d \in 0 .. n |-> IF d = 0 THEN 0 ELSE f[d - 1] + J[d] * v.strides[d]]
           offset == CHOOSE f : f = body(f)
<1>1. n \in Nat /\ \A d \in 1 .. n : J[d] * v.strides[d] \in Int
  BY ViewType
<1>2. Address(v, J) = (v.data + offset[n] * SizeOf[v.dtype]) % Modulus
  BY DEF Address
<1> HIDE DEF n
<1>3. step \in [1 .. n -> [Int -> Int]] BY <1>1
<1>4. PICK g \in [0 .. n -> Int] : Loops(g, n, 0, step)
  <2>1. 0 \in Int /\ 0 \in Nat OBVIOUS
  <2> HIDE DEF step
  <2> QED BY <1>1, <1>3, <2>1, Recursion
<1>5. g = body(g)
  <2>1. \A d \in 1 .. n : g[d] = g[d - 1] + J[d] * v.strides[d]
    <3> TAKE d \in 1 .. n
    <3>1. d - 1 \in 0 .. n /\ g[d - 1] \in Int BY <1>1, <1>4
    <3>2. g[d] = step[d][g[d - 1]]
      <4> HIDE DEF step
      <4> QED BY <1>4 DEF Loops
    <3> QED BY <3>1, <3>2
  <2>2. \A d \in 0 .. n : d # 0 => d \in 1 .. n BY <1>1
  <2>3. \A d \in 0 .. n : g[d] = body(g)[d] BY <1>4, <2>1, <2>2 DEF Loops
  <2> QED BY <1>4, <2>3
<1>6. offset = body(offset)
  <2>1. \E f : f = body(f) BY <1>5
  <2> HIDE DEF body
  <2> QED BY <2>1
<1> HIDE DEF offset
<1>7. \A d \in 0 .. n : offset[d] = IF d = 0 THEN 0 ELSE offset[d - 1] + J[d] * v.strides[d]
  BY <1>6
<1>8. offset[0] = 0 /\ \A d \in 1 .. n : offset[d] = offset[d - 1] + J[d] * v.strides[d]
  BY <1>1, <1>7
<1>9. \A d \in 0 .. n : offset[d] \in Int
  <2>1. offset[0] \in Int BY <1>8
  <2>2. \A d \in 1 .. n : offset[d - 1] \in Int => offset[d] \in Int
    BY <1>1, <1>8
  <2> QED BY <1>1, <2>1, <2>2, LoopType
<1>10. offset \in [0 .. n -> Int] BY <1>6, <1>9
<1> QED BY <1>2, <1>8, <1>10 DEF Offsets, n

\* numel() multiplies in the width of a size.
Products(f, v) ==
  /\ f \in [0 .. Ndim(v) -> Nat] /\ f[0] = 1
  /\ \A d \in 1 .. Ndim(v) : f[d] = (f[d - 1] * v.shape[d]) % Modulus
LEMMA NumelLoop ==
  ASSUME NEW v \in Views
  PROVE  \E f : Products(f, v) /\ Numel(v) = f[Ndim(v)]
<1> DEFINE n == Ndim(v)
           step == [d \in 1 .. n |-> [y \in Nat |-> (y * v.shape[d]) % Modulus]]
           body(f) == [d \in 0 .. n |-> IF d = 0 THEN 1 ELSE (f[d - 1] * v.shape[d]) % Modulus]
           result == CHOOSE f : f = body(f)
<1>1. n \in Nat /\ \A d \in 1 .. n, y \in Nat : (y * v.shape[d]) % Modulus \in Nat
  <2>1. \A x \in Nat : x % Modulus \in Nat BY Width, Residue
  <2>2. \A d \in 1 .. n, y \in Nat : y * v.shape[d] \in Nat BY ViewType
  <2> QED BY <2>1, <2>2, ViewType
<1>2. Numel(v) = result[n] BY DEF Numel
<1> HIDE DEF n
<1>3. step \in [1 .. n -> [Nat -> Nat]] BY <1>1
<1>4. PICK g \in [0 .. n -> Nat] : Loops(g, n, 1, step)
  <2>1. 1 \in Int /\ 1 \in Nat OBVIOUS
  <2> HIDE DEF step
  <2> QED BY <1>1, <1>3, <2>1, Recursion
<1>5. g = body(g)
  <2>1. \A d \in 1 .. n : g[d] = (g[d - 1] * v.shape[d]) % Modulus
    <3> TAKE d \in 1 .. n
    <3>1. d - 1 \in 0 .. n /\ g[d - 1] \in Nat BY <1>1, <1>4
    <3> QED BY <1>4, <3>1 DEF Loops
  <2>2. \A d \in 0 .. n : d # 0 => d \in 1 .. n BY <1>1
  <2>3. \A d \in 0 .. n : g[d] = body(g)[d] BY <1>4, <2>1, <2>2 DEF Loops
  <2> QED BY <1>4, <2>3
<1>6. result = body(result)
  <2>1. \E f : f = body(f) BY <1>5
  <2> HIDE DEF body
  <2> QED BY <2>1
<1> HIDE DEF result
<1>7. \A d \in 0 .. n : result[d] = IF d = 0 THEN 1 ELSE (result[d - 1] * v.shape[d]) % Modulus
  BY <1>6
<1>8. result[0] = 1 /\ \A d \in 1 .. n : result[d] = (result[d - 1] * v.shape[d]) % Modulus
  BY <1>1, <1>7
<1>9. \A d \in 0 .. n : result[d] \in Nat
  <2>1. result[0] \in Nat BY <1>8
  <2>2. \A d \in 1 .. n : result[d - 1] \in Nat => result[d] \in Nat
    BY <1>1, <1>8
  <2> QED BY <1>1, <2>1, <2>2, LoopType
<1>10. result \in [0 .. n -> Nat] BY <1>6, <1>9
<1> QED BY <1>2, <1>8, <1>10 DEF Products, n

\* The place of an element in row-major order.
Places(f, v, J) ==
  /\ f \in [0 .. Ndim(v) -> Int] /\ f[0] = 0
  /\ \A d \in 1 .. Ndim(v) : f[d] = f[d - 1] * v.shape[d] + J[d]
LEMMA PositionLoop ==
  ASSUME NEW v \in Views, NEW J, \A d \in 1 .. Ndim(v) : J[d] \in Int
  PROVE  \E f : Places(f, v, J) /\ Position(v, J) = f[Ndim(v)]
<1> DEFINE n == Ndim(v)
           step == [d \in 1 .. n |-> [y \in Int |-> y * v.shape[d] + J[d]]]
           body(f) == [d \in 0 .. n |-> IF d = 0 THEN 0 ELSE f[d - 1] * v.shape[d] + J[d]]
           before == CHOOSE f : f = body(f)
<1>1. n \in Nat /\ \A d \in 1 .. n, y \in Int : y * v.shape[d] + J[d] \in Int
  BY ViewType
<1>2. Position(v, J) = before[n] BY DEF Position
<1> HIDE DEF n
<1>3. step \in [1 .. n -> [Int -> Int]] BY <1>1
<1>4. PICK g \in [0 .. n -> Int] : Loops(g, n, 0, step)
  <2>1. 0 \in Int /\ 0 \in Nat OBVIOUS
  <2> HIDE DEF step
  <2> QED BY <1>1, <1>3, <2>1, Recursion
<1>5. g = body(g)
  <2>1. \A d \in 1 .. n : g[d] = g[d - 1] * v.shape[d] + J[d]
    <3> TAKE d \in 1 .. n
    <3>1. d - 1 \in 0 .. n /\ g[d - 1] \in Int BY <1>1, <1>4
    <3> QED BY <1>4, <3>1 DEF Loops
  <2>2. \A d \in 0 .. n : d # 0 => d \in 1 .. n BY <1>1
  <2>3. \A d \in 0 .. n : g[d] = body(g)[d] BY <1>4, <2>1, <2>2 DEF Loops
  <2> QED BY <1>4, <2>3
<1>6. before = body(before)
  <2>1. \E f : f = body(f) BY <1>5
  <2> HIDE DEF body
  <2> QED BY <2>1
<1> HIDE DEF before
<1>7. \A d \in 0 .. n : before[d] = IF d = 0 THEN 0 ELSE before[d - 1] * v.shape[d] + J[d]
  BY <1>6
<1>8. before[0] = 0 /\ \A d \in 1 .. n : before[d] = before[d - 1] * v.shape[d] + J[d]
  BY <1>1, <1>7
<1>9. \A d \in 0 .. n : before[d] \in Int
  <2>1. before[0] \in Int BY <1>8
  <2>2. \A d \in 1 .. n : before[d - 1] \in Int => before[d] \in Int
    BY <1>1, <1>8
  <2> QED BY <1>1, <2>1, <2>2, LoopType
<1>10. before \in [0 .. n -> Int] BY <1>6, <1>9
<1> QED BY <1>2, <1>8, <1>10 DEF Places, n

-----------------------------------------------------------------------------
\* The strides that a view is given by default.
LEMMA WrappedCongruent ==
  ASSUME NEW x \in Int
  PROVE  Wrapped(x) \in Int /\ Congruent(Wrapped(x), x)
<1> DEFINE h == Modulus \div 2
           r == (x + h) % Modulus
<1>1. h \in Int BY Width
<1> HIDE DEF h
<1>2. r \in Int /\ Congruent(r, x + h)
  BY <1>1, Residue, CongruentBack, Width
<1>3. Wrapped(x) = r - h BY DEF Wrapped, h
<1> HIDE DEF r
<1>4. PICK k \in Int : r = x + h + k * Modulus BY <1>2 DEF Congruent
<1>5. r - h = x + k * Modulus BY <1>1, <1>2, <1>4, Width
<1> QED BY <1>1, <1>2, <1>3, <1>4, <1>5 DEF Congruent

\* Each is the next one times the size of that dimension, in the width of a
\* stride.
LEMMA StridesLoop ==
  ASSUME NEW shape \in Seq(Nat)
  PROVE  /\ DefaultStrides(shape) \in Seq(Int)
         /\ Len(DefaultStrides(shape)) = Len(shape)
         /\ Len(shape) # 0 => DefaultStrides(shape)[Len(shape)] = 1
         /\ \A d \in 1 .. Len(shape) - 1 :
              DefaultStrides(shape)[d]
                = Wrapped(DefaultStrides(shape)[d + 1] * shape[d + 1])
<1> DEFINE n == Len(shape)
           body(f) == [d \in 1 .. n |-> IF d = n THEN 1 ELSE Wrapped(f[d + 1] * shape[d + 1])]
           strides == CHOOSE f : f = body(f)
<1>1. n \in Nat /\ \A d \in 1 .. n : shape[d] \in Nat
  BY LenProperties, ElementOfSeq
<1>2. DefaultStrides(shape) = strides BY DEF DefaultStrides
<1> HIDE DEF n
<1>3. \E f : f = body(f)
  <2>1. CASE n = 0
    <3> DEFINE f == [d \in 1 .. n |-> 1]
    <3>1. f = body(f) BY <2>1
    <3> HIDE DEF body, f
    <3> QED BY <3>1
  <2>2. CASE n # 0
    <3> DEFINE step == [k \in 1 .. n - 1 |-> [y \in Int |-> Wrapped(y * shape[n - k + 1])]]
    <3>1. \A k \in 1 .. n - 1 : n - k + 1 \in 1 .. n BY <1>1
    <3>2. ASSUME NEW k \in 1 .. n - 1, NEW y \in Int
          PROVE  Wrapped(y * shape[n - k + 1]) \in Int
      <4> DEFINE x == y * shape[n - k + 1]
      <4>1. shape[n - k + 1] \in Nat BY <1>1, <3>1
      <4>2. x \in Int BY <4>1
      <4> HIDE DEF x
      <4>3. Wrapped(x) \in Int BY <4>2, WrappedCongruent
      <4> QED BY <4>3 DEF x
    <3>3. step \in [1 .. n - 1 -> [Int -> Int]] BY <3>2
    <3>4. PICK f \in [0 .. n - 1 -> Int] : Loops(f, n - 1, 1, step)
      <4>1. 1 \in Int /\ n - 1 \in Nat BY <1>1, <2>2
      <4> HIDE DEF step
      <4> QED BY <3>3, <4>1, Recursion
    <3> DEFINE g == [d \in 1 .. n |-> f[n - d]]
    <3>5. ASSUME NEW d \in 1 .. n PROVE g[d] = body(g)[d]
      <4>1. CASE d = n
        <5>1. g[d] = f[0] BY <1>1, <4>1
        <5> QED BY <3>4, <4>1, <5>1 DEF Loops
      <4>2. CASE d # n
        <5> DEFINE k == n - d
        <5>1. k \in 1 .. n - 1 /\ d + 1 \in 1 .. n /\ n - (d + 1) = k - 1 /\ n - k + 1 = d + 1
              /\ k - 1 \in 0 .. n - 1
          BY <1>1, <4>2
        <5>2. f[k] = step[k][f[k - 1]] BY <3>4, <5>1 DEF Loops
        <5>3. f[k - 1] \in Int BY <3>4, <5>1
        <5>4. step[k][f[k - 1]] = Wrapped(f[k - 1] * shape[d + 1]) BY <5>1, <5>3
        <5>5. g[d + 1] = f[k - 1] BY <5>1
        <5> QED BY <4>2, <5>2, <5>4, <5>5
      <4> QED BY <4>1, <4>2
    <3>6. g = body(g) BY <3>5
    <3> HIDE DEF body, g
    <3> QED BY <3>6
  <2> QED BY <2>1, <2>2
<1>4. strides = body(strides)
  <2> HIDE DEF body
  <2> QED BY <1>3
<1> HIDE DEF strides
<1>5. \A d \in 1 .. n : strides[d] = IF d = n THEN 1 ELSE Wrapped(strides[d + 1] * shape[d + 1])
  BY <1>4
<1>6. \A d \in 1 .. n : strides[d] \in Int
  <2>1. CASE n = 0 BY <2>1
  <2>2. CASE n # 0
    <3> DEFINE f == [k \in 0 .. n - 1 |-> strides[n - k]]
    <3>1. n - 1 \in Nat BY <1>1, <2>2
    <3>2. f[0] \in Int
      <4>1. n \in 1 .. n /\ n - 0 = n /\ 0 \in 0 .. n - 1 BY <1>1, <2>2
      <4>2. strides[n] = 1 BY <1>5, <4>1
      <4>3. f[0] = 1 BY <4>1, <4>2
      <4> QED BY <4>3
    <3>3. ASSUME NEW k \in 1 .. n - 1, f[k - 1] \in Int PROVE f[k] \in Int
      <4>1. n - k \in 1 .. n /\ n - k # n /\ (n - k) + 1 = n - (k - 1) /\ (n - k) + 1 \in 1 .. n
            /\ k - 1 \in 0 .. n - 1 /\ k \in 0 .. n - 1
        BY <1>1
      <4>2. strides[(n - k) + 1] \in Int BY <3>3, <4>1
      <4>3. strides[n - k] = Wrapped(strides[(n - k) + 1] * shape[(n - k) + 1])
        BY <1>5, <4>1
      <4>4. strides[(n - k) + 1] * shape[(n - k) + 1] \in Int BY <1>1, <4>1, <4>2
      <4>5. strides[n - k] \in Int BY <4>3, <4>4, WrappedCongruent
      <4> QED BY <4>1, <4>5
    <3> HIDE DEF f
    <3>4. \A k \in 0 .. n - 1 : f[k] \in Int BY <3>1, <3>2, <3>3, LoopType
    <3>5. ASSUME NEW d \in 1 .. n PROVE strides[d] \in Int
      <4>1. n - d \in 0 .. n - 1 /\ n - (n - d) = d BY <1>1
      <4>2. f[n - d] = strides[d] BY <4>1 DEF f
      <4> QED BY <3>4, <4>1, <4>2
    <3> QED BY <3>5
  <2> QED BY <2>1, <2>2
<1>7. strides \in [1 .. n -> Int] BY <1>4, <1>6
<1>8. strides \in Seq(Int) /\ Len(strides) = n
  <2>1. strides \in Seq(Int) BY <1>1, <1>7
  <2> QED BY <1>1, <1>7, <2>1, LenProperties
<1>9. n # 0 => strides[n] = 1 BY <1>1, <1>5
<1>10. \A d \in 1 .. n - 1 : strides[d] = Wrapped(strides[d + 1] * shape[d + 1])
  BY <1>1, <1>5
<1> QED BY <1>2, <1>8, <1>9, <1>10 DEF n

-----------------------------------------------------------------------------
\* Type correctness: a view has a stride for each dimension.
ViewOK == view = None \/ view \in Views

\* operator[] drops the first dimension and keeps the others as they are.
LEMMA SubviewType ==
  ASSUME NEW v \in Views, Ndim(v) > 0, NEW index \in Int
  PROVE  /\ Subview(v, index) \in Views
         /\ Ndim(Subview(v, index)) = Ndim(v) - 1
         /\ Subview(v, index).dtype = v.dtype
         /\ \A d \in 1 .. Ndim(v) - 1 :
              /\ Subview(v, index).shape[d] = v.shape[d + 1]
              /\ Subview(v, index).strides[d] = v.strides[d + 1]
         /\ EffectiveIndex(index, v.shape[1]) \in Int
         /\ Congruent(Subview(v, index).data,
                      v.data + EffectiveIndex(index, v.shape[1]) * v.strides[1] * SizeOf[v.dtype])
<1> DEFINE n == Ndim(v)
           e == EffectiveIndex(index, v.shape[1])
           o == e * v.strides[1] * SizeOf[v.dtype]
           w == Subview(v, index)
<1>1. /\ n \in Nat /\ n > 0 /\ v.shape \in Seq(Nat) /\ v.strides \in Seq(Int)
      /\ v.shape[1] \in Nat /\ v.strides[1] \in Int
      /\ v.data \in Int /\ v.dtype \in DataTypes /\ SizeOf[v.dtype] \in Int
      /\ Len(v.shape) = n /\ Len(v.strides) = n
  BY ViewType, Width DEF Views, Ndim
<1>2. e \in Int BY <1>1 DEF EffectiveIndex
<1>3. o \in Int
  <2> HIDE DEF e
  <2> QED BY <1>1, <1>2
<1>4. Offset(v, index) = o % Modulus BY DEF Offset
<1>5. /\ w.data = (v.data + Offset(v, index)) % Modulus /\ w.dtype = v.dtype
      /\ w.shape = Tail(v.shape) /\ w.strides = Tail(v.strides)
      /\ w = [data |-> w.data, shape |-> w.shape, strides |-> w.strides, dtype |-> w.dtype]
  <2>1. v \in [data : 0 .. Modulus - 1, shape : Seq(Nat), strides : Seq(Int), dtype : DataTypes]
    BY DEF Views
  <2>2. w = [v EXCEPT !.data = (v.data + Offset(v, index)) % Modulus,
                      !.shape = Tail(v.shape), !.strides = Tail(v.strides)]
    BY DEF Subview, RemainingStrides
  <2> HIDE DEF w
  <2> QED BY <2>1, <2>2
<1> HIDE DEF w, o, e
<1>6. w.data = (v.data + o) % Modulus
  BY <1>1, <1>3, <1>4, <1>5, ResidueSum
<1>7. w.data \in 0 .. Modulus - 1 /\ Congruent(w.data, v.data + o)
  <2> DEFINE x == v.data + o
  <2>1. w.data = x % Modulus /\ x \in Int BY <1>1, <1>3, <1>6
  <2> HIDE DEF x
  <2>2. x % Modulus \in 0 .. Modulus - 1 /\ Congruent(x, x % Modulus) /\ x % Modulus \in Int
    BY <2>1, Residue, Width
  <2>3. w.data \in 0 .. Modulus - 1 /\ Congruent(w.data, x)
    BY <2>1, <2>2, CongruentBack
  <2> QED BY <2>3 DEF x
<1>8. /\ w.shape \in Seq(Nat) /\ Len(w.shape) = n - 1
      /\ \A d \in 1 .. n - 1 : w.shape[d] = v.shape[d + 1]
  <2> DEFINE s == v.shape
  <2>1. s \in Seq(Nat) /\ Len(s) = n /\ s # << >> /\ w.shape = Tail(s) BY <1>1, <1>5
  <2> HIDE DEF s
  <2>2. /\ Tail(s) \in Seq(Nat) /\ Len(Tail(s)) = Len(s) - 1
        /\ \A d \in 1 .. Len(Tail(s)) : Tail(s)[d] = s[d + 1]
    BY <2>1, HeadTailProperties
  <2> QED BY <2>1, <2>2 DEF s
<1>9. /\ w.strides \in Seq(Int) /\ Len(w.strides) = n - 1
      /\ \A d \in 1 .. n - 1 : w.strides[d] = v.strides[d + 1]
  <2> DEFINE s == v.strides
  <2>1. s \in Seq(Int) /\ Len(s) = n /\ s # << >> /\ w.strides = Tail(s) BY <1>1, <1>5
  <2> HIDE DEF s
  <2>2. /\ Tail(s) \in Seq(Int) /\ Len(Tail(s)) = Len(s) - 1
        /\ \A d \in 1 .. Len(Tail(s)) : Tail(s)[d] = s[d + 1]
    BY <2>1, HeadTailProperties
  <2> QED BY <2>1, <2>2 DEF s
<1>10. w \in Views BY <1>1, <1>5, <1>7, <1>8, <1>9 DEF Views
<1> QED BY <1>2, <1>5, <1>7, <1>8, <1>9, <1>10 DEF w, o, e, Ndim

\* The view that T returns.
Transposed(v) == [v EXCEPT !.shape = SwappedShape(v), !.strides = SwappedStrides(v)]

\* T keeps the first two dimensions, swapped.
LEMMA TransposeType ==
  ASSUME NEW v \in Views, Ndim(v) >= 2
  PROVE  /\ Transposed(v) \in Views /\ Ndim(Transposed(v)) = 2
         /\ Transposed(v).data = v.data /\ Transposed(v).dtype = v.dtype
         /\ Transposed(v).shape[1] = v.shape[2] /\ Transposed(v).shape[2] = v.shape[1]
         /\ Transposed(v).strides[1] = v.strides[2] /\ Transposed(v).strides[2] = v.strides[1]
<1> DEFINE w == Transposed(v)
<1>1. v \in Views OBVIOUS
<1>2. /\ v.shape[1] \in Nat /\ v.shape[2] \in Nat /\ v.strides[1] \in Int /\ v.strides[2] \in Int
      /\ v.data \in 0 .. Modulus - 1 /\ v.dtype \in DataTypes
  BY ViewType
<1>3. /\ w.shape = <<v.shape[2], v.shape[1]>> /\ w.strides = <<v.strides[2], v.strides[1]>>
      /\ w.data = v.data /\ w.dtype = v.dtype
      /\ w = [data |-> v.data, shape |-> w.shape, strides |-> w.strides, dtype |-> v.dtype]
  <2>1. v \in [data : 0 .. Modulus - 1, shape : Seq(Nat), strides : Seq(Int), dtype : DataTypes]
    BY <1>1 DEF Views
  <2>2. w = [v EXCEPT !.shape = <<v.shape[2], v.shape[1]>>,
                      !.strides = <<v.strides[2], v.strides[1]>>]
    BY DEF Transposed, SwappedShape, SwappedStrides
  <2> HIDE DEF w
  <2> QED BY <2>1, <2>2
<1> HIDE DEF w
<1>4. w.shape \in Seq(Nat) /\ w.strides \in Seq(Int) /\ Len(w.shape) = 2 /\ Len(w.strides) = 2
  <2>1. <<v.shape[2], v.shape[1]>> \in Seq(Nat) BY <1>2
  <2>2. <<v.strides[2], v.strides[1]>> \in Seq(Int) BY <1>2
  <2> QED BY <1>3, <2>1, <2>2
<1>5. w \in Views BY <1>2, <1>3, <1>4 DEF Views
<1>6. /\ w.shape[1] = v.shape[2] /\ w.shape[2] = v.shape[1]
      /\ w.strides[1] = v.strides[2] /\ w.strides[2] = v.strides[1]
  BY <1>3
<1> QED BY <1>3, <1>4, <1>5, <1>6 DEF Ndim, w

\* What a constructor is given makes a view.
LEMMA BeginsView ==
  ASSUME NEW data \in Pointers, NEW shape \in Seq(Nat), NEW strides \in Seq(Int),
         Len(strides) = Len(shape), NEW dtype \in DataTypes
  PROVE  [data |-> data, shape |-> shape, strides |-> strides, dtype |-> dtype] \in Views
<1>1. data \in 0 .. Modulus - 1 BY TensorViewAssumption
<1> QED BY <1>1 DEF Views

\* The indices that callers may use count from either end of the first dimension.
LEMMA CallableIndex ==
  ASSUME ViewOK, NEW index \in CallableIndices
  PROVE  /\ view \in Views /\ Ndim(view) > 0 /\ index \in Int
         /\ index \in -view.shape[1] .. view.shape[1] - 1 /\ view.shape[1] \in Nat
<1>1. view # None /\ Ndim(view) # 0 /\ index \in -view.shape[1] .. view.shape[1] - 1
  BY DEF CallableIndices
<1>2. view \in Views BY <1>1 DEF ViewOK
<1>3. Ndim(view) \in Nat /\ Ndim(view) > 0 BY <1>1, <1>2, ViewType
<1>4. view.shape[1] \in Nat BY <1>2, <1>3, ViewType
<1> QED BY <1>1, <1>2, <1>3, <1>4

\* Every step leaves a view.
LEMMA ViewStep == ViewOK /\ [Next]_vars => ViewOK'
<1> SUFFICES ASSUME ViewOK, [Next]_vars PROVE ViewOK'
  OBVIOUS
<1>1. ASSUME NEW data \in Pointers, NEW dtype \in DataTypes, NEW shape \in Shapes,
             Construct(data, shape, dtype)
      PROVE  ViewOK'
  <2>1. shape \in Seq(Nat) BY TensorViewAssumption
  <2>2. DefaultStrides(shape) \in Seq(Int) /\ Len(DefaultStrides(shape)) = Len(shape)
    BY <2>1, StridesLoop
  <2>3. view' = [data |-> data, shape |-> shape, strides |-> DefaultStrides(shape), dtype |-> dtype]
    BY <1>1 DEF Construct, Begin
  <2> QED BY <2>1, <2>2, <2>3, BeginsView DEF ViewOK
<1>2. ASSUME NEW data \in Pointers, NEW dtype \in DataTypes, NEW s \in Stridings,
             ConstructStrided(data, s, dtype)
      PROVE  ViewOK'
  <2>1. s.shape \in Seq(Nat) /\ s.strides \in Seq(Int) /\ Len(s.shape) = Len(s.strides)
    BY TensorViewAssumption
  <2>2. view' = [data |-> data, shape |-> s.shape, strides |-> s.strides, dtype |-> dtype]
    BY <1>2 DEF ConstructStrided, Begin
  <2> QED BY <2>1, <2>2, BeginsView DEF ViewOK
<1>3. ASSUME NEW index \in CallableIndices, Index(index) PROVE ViewOK'
  <2>1. Subview(view, index) \in Views BY CallableIndex, SubviewType
  <2> QED BY <1>3, <2>1 DEF Index, ViewOK
<1>4. CASE Transpose
  <2>1. view \in Views /\ Ndim(view) >= 2 BY <1>4 DEF Transpose, ViewOK
  <2>2. view' = Transposed(view) BY <1>4 DEF Transpose, Transposed
  <2> QED BY <2>1, <2>2, TransposeType DEF ViewOK
<1>5. CASE Destroy BY <1>5 DEF Destroy, ViewOK
<1>6. CASE UNCHANGED vars BY <1>6 DEF vars, ViewOK
<1> QED BY <1>1, <1>2, <1>3, <1>4, <1>5, <1>6 DEF Next

\* A view always has a pointer of its width and a stride for each dimension
\* (src/tensor_view.cc:7-76).
THEOREM ViewTypes == Spec => []ViewOK
<1>1. Init => ViewOK BY DEF Init, ViewOK
<1>2. ViewOK /\ [Next]_vars => ViewOK' BY ViewStep
<1> QED BY <1>1, <1>2, PTL DEF Spec

-----------------------------------------------------------------------------
\* operator[] and T select the elements they should.
LEMMA IndicesAre ==
  ASSUME NEW v \in Views, NEW J
  PROVE  J \in Indices(v) <=>
           J \in [1 .. Ndim(v) -> Nat] /\ \A d \in 1 .. Ndim(v) : J[d] < v.shape[d]
<1> DEFINE n == Ndim(v)
           all == UNION {0 .. v.shape[d] - 1 : d \in 1 .. n}
<1>1. n \in Nat /\ \A d \in 1 .. n : v.shape[d] \in Nat BY ViewType
<1> HIDE DEF n
<1>2. \A x \in all : x \in Nat BY <1>1
<1>3. ASSUME J \in [1 .. n -> Nat], \A d \in 1 .. n : J[d] < v.shape[d]
      PROVE  J \in [1 .. n -> all]
  <2>1. ASSUME NEW d \in 1 .. n PROVE J[d] \in all
    <3>1. J[d] \in 0 .. v.shape[d] - 1 BY <1>1, <1>3
    <3> QED BY <3>1
  <2> HIDE DEF all
  <2> QED BY <1>3, <2>1
<1>4. J \in [1 .. n -> all] => J \in [1 .. n -> Nat]
  <2> HIDE DEF all
  <2> QED BY <1>2
<1>5. Indices(v) = {K \in [1 .. n -> all] : \A d \in 1 .. n : K[d] < v.shape[d]}
  BY DEF Indices, n
<1> HIDE DEF all
<1> QED BY <1>3, <1>4, <1>5 DEF n

\* The offsets behind the first dimension are those of all without the first.
LEMMA SubviewAddress ==
  ASSUME NEW v \in Views, Ndim(v) > 0, NEW index \in Int,
         NEW J, \A d \in 1 .. Ndim(v) : J[d] \in Int,
         J[1] = EffectiveIndex(index, v.shape[1]),
         NEW K, \A d \in 1 .. Ndim(v) - 1 : K[d] = J[d + 1]
  PROVE  Address(Subview(v, index), K) = Address(v, J)
<1> DEFINE n == Ndim(v)
           w == Subview(v, index)
           sz == SizeOf[v.dtype]
<1>1. /\ w \in Views /\ Ndim(w) = n - 1 /\ w.dtype = v.dtype
      /\ \A d \in 1 .. n - 1 : w.strides[d] = v.strides[d + 1]
      /\ Congruent(w.data, v.data + J[1] * v.strides[1] * sz)
  BY SubviewType
<1>2. /\ n \in Nat /\ n > 0 /\ \A d \in 1 .. n : J[d] \in Int /\ v.strides[d] \in Int
      /\ v.data \in Int /\ sz \in Int
  <2>1. n \in Nat /\ \A d \in 1 .. n : v.strides[d] \in Int BY ViewType
  <2>2. v.data \in Int /\ sz \in Int BY ViewType, Width
  <2> QED BY <2>1, <2>2
<1>3. w.data \in Int BY <1>1, ViewType, Width
<1> HIDE DEF n, w, sz
<1>4. \A d \in 1 .. n - 1 : d + 1 \in 1 .. n /\ K[d] = J[d + 1] BY <1>2 DEF n
<1>5. PICK f : Offsets(f, v, J) /\ Address(v, J) = (v.data + f[n] * sz) % Modulus
  BY AddressLoop DEF n, sz
<1>6. PICK g : Offsets(g, w, K) /\ Address(w, K) = (w.data + g[n - 1] * sz) % Modulus
  <2>1. \A d \in 1 .. n - 1 : K[d] \in Int BY <1>2, <1>4
  <2> QED BY <1>1, <2>1, AddressLoop DEF sz
<1>7. /\ f \in [0 .. n -> Int] /\ f[0] = 0
      /\ \A d \in 1 .. n : f[d] = f[d - 1] + J[d] * v.strides[d]
  BY <1>5 DEF Offsets, n
<1>8. /\ g \in [0 .. n - 1 -> Int] /\ g[0] = 0
      /\ \A d \in 1 .. n - 1 : g[d] = g[d - 1] + K[d] * w.strides[d]
  BY <1>1, <1>6 DEF Offsets
<1>9. f[1] = J[1] * v.strides[1] /\ f[1] \in Int
  <2>1. 1 \in 1 .. n /\ 1 \in 0 .. n /\ J[1] * v.strides[1] \in Int BY <1>2
  <2> QED BY <1>7, <2>1
<1>10. f[n] = g[n - 1] + f[1]
  <2> DEFINE P == {d \in Int : d \in 0 .. n - 1 => f[d + 1] = g[d] + f[1]}
  <2>1. 0 \in Int /\ n - 1 \in Int /\ 0 + 1 = 1 BY <1>2
  <2>2. 0 \in P BY <1>8, <1>9
  <2>3. ASSUME NEW d \in 1 .. n - 1, d - 1 \in P PROVE d \in P
    <3>1. f[d] = g[d - 1] + f[1] /\ d - 1 \in 0 .. n - 1
      <4>1. d - 1 \in 0 .. n - 1 /\ (d - 1) + 1 = d BY <1>2
      <4> QED BY <2>3, <4>1
    <3>2. f[d + 1] = f[d] + J[d + 1] * v.strides[d + 1]
      <4>1. d + 1 \in 1 .. n /\ (d + 1) - 1 = d BY <1>2
      <4> QED BY <1>7, <4>1
    <3>3. g[d] = g[d - 1] + J[d + 1] * v.strides[d + 1] BY <1>1, <1>4, <1>8
    <3>4. g[d - 1] \in Int /\ J[d + 1] * v.strides[d + 1] \in Int
      <4>1. d + 1 \in 1 .. n BY <1>4
      <4>2. J[d + 1] \in Int /\ v.strides[d + 1] \in Int BY <1>2, <4>1
      <4>3. g[d - 1] \in Int BY <1>8, <3>1
      <4> QED BY <4>2, <4>3
    <3> DEFINE p == J[d + 1] * v.strides[d + 1]
    <3>5. f[d + 1] = f[d] + p /\ g[d] = g[d - 1] + p /\ p \in Int /\ g[d - 1] \in Int
          /\ f[1] \in Int
      BY <1>9, <3>2, <3>3, <3>4
    <3> HIDE DEF p
    <3> QED BY <3>1, <3>5
  <2> HIDE DEF P
  <2>4. 0 .. n - 1 \subseteq P
    <3> DEFINE m == n - 1
    <3>1. 0 \in Int /\ m \in Int /\ \A d \in 0 + 1 .. m : d - 1 \in P => d \in P
      BY <2>1, <2>3
    <3> HIDE DEF m
    <3>2. 0 .. m \subseteq P BY <2>2, <3>1, Induction
    <3> QED BY <3>2 DEF m
  <2>5. n - 1 \in P /\ n - 1 \in 0 .. n - 1 BY <1>2, <2>4
  <2>6. (n - 1) + 1 = n BY <1>2
  <2> QED BY <2>5, <2>6 DEF P
<1>11. g[n - 1] \in Int /\ f[n] \in Int BY <1>2, <1>7, <1>8
<1>12. Congruent(w.data + g[n - 1] * sz, v.data + f[n] * sz)
  <2> DEFINE a == v.data + f[1] * sz
             b == g[n - 1] * sz
  <2>1. Congruent(w.data, a) BY <1>1, <1>9
  <2>2. a \in Int /\ b \in Int BY <1>2, <1>9, <1>11
  <2>3. Congruent(b, b) BY <2>2, CongruentSame
  <2>4. a + b = v.data + f[n] * sz BY <1>2, <1>9, <1>10, <1>11
  <2> HIDE DEF a, b
  <2>5. Congruent(w.data + b, a + b) BY <1>3, <2>1, <2>2, <2>3, CongruentSum
  <2> QED BY <2>4, <2>5 DEF b
<1>13. w.data + g[n - 1] * sz \in Int /\ v.data + f[n] * sz \in Int
  BY <1>2, <1>3, <1>11
<1>14. (w.data + g[n - 1] * sz) % Modulus = (v.data + f[n] * sz) % Modulus
  <2> DEFINE a == w.data + g[n - 1] * sz
             b == v.data + f[n] * sz
  <2>1. a \in Int /\ b \in Int /\ Congruent(a, b) BY <1>12, <1>13
  <2> HIDE DEF a, b
  <2>2. a % Modulus = b % Modulus BY <2>1, ResiduesEqual
  <2> QED BY <2>2 DEF a, b
<1> QED BY <1>5, <1>6, <1>14 DEF w

\* Behind the third dimension, where the index stays 0, nothing is added.
LEMMA TransposeAddress ==
  ASSUME NEW v \in Views, Ndim(v) >= 2,
         NEW K, K[1] \in Int, K[2] \in Int,
         NEW J, \A d \in 1 .. Ndim(v) : J[d] = IF d <= 2 THEN K[3 - d] ELSE 0
  PROVE  Address(Transposed(v), K) = Address(v, J)
<1> DEFINE n == Ndim(v)
           w == Transposed(v)
           sz == SizeOf[v.dtype]
<1>1. /\ n \in Nat /\ n >= 2 /\ v.data \in Int /\ sz \in Int
      /\ \A d \in 1 .. n : v.strides[d] \in Int
  BY ViewType, Width
<1>2. /\ w \in Views /\ Ndim(w) = 2 /\ w.data = v.data /\ w.dtype = v.dtype
      /\ w.strides[1] = v.strides[2] /\ w.strides[2] = v.strides[1]
  BY TransposeType
<1> HIDE DEF n, sz, w
<1>3. J[1] = K[2] /\ J[2] = K[1] /\ \A d \in 3 .. n : J[d] = 0
  <2>1. \A d \in 1 .. n : J[d] = IF d <= 2 THEN K[3 - d] ELSE 0 BY DEF n
  <2> QED BY <1>1, <2>1
<1>4. \A d \in 1 .. n : J[d] \in Int
  <2>1. \A d \in 1 .. n : d = 1 \/ d = 2 \/ d \in 3 .. n BY <1>1
  <2> QED BY <1>3, <2>1
<1>5. PICK f : Offsets(f, v, J) /\ Address(v, J) = (v.data + f[n] * sz) % Modulus
  BY <1>4, AddressLoop DEF n, sz
<1>6. PICK g : Offsets(g, w, K) /\ Address(w, K) = (w.data + g[2] * sz) % Modulus
  <2>1. \A d \in 1 .. 2 : K[d] \in Int OBVIOUS
  <2> QED BY <1>2, <2>1, AddressLoop DEF sz
<1>7. /\ f \in [0 .. n -> Int] /\ f[0] = 0
      /\ \A d \in 1 .. n : f[d] = f[d - 1] + J[d] * v.strides[d]
  BY <1>5 DEF Offsets, n
<1>8. /\ g \in [0 .. 2 -> Int] /\ g[0] = 0
      /\ \A d \in 1 .. 2 : g[d] = g[d - 1] + K[d] * w.strides[d]
  BY <1>2, <1>6 DEF Offsets
<1>9. f[2] = g[2]
  <2> DEFINE a == K[1] * v.strides[2]
             b == K[2] * v.strides[1]
  <2>1. a \in Int /\ b \in Int BY <1>1
  <2>2. f[1] = f[0] + b /\ f[2] = f[1] + a
    <3>1. 1 \in 1 .. n /\ 2 \in 1 .. n /\ 1 - 1 = 0 /\ 2 - 1 = 1 BY <1>1
    <3> QED BY <1>3, <1>7, <3>1
  <2>3. g[1] = g[0] + a /\ g[2] = g[1] + b
    <3>1. 1 \in 1 .. 2 /\ 2 \in 1 .. 2 /\ 1 - 1 = 0 /\ 2 - 1 = 1 OBVIOUS
    <3> QED BY <1>2, <1>8, <3>1
  <2> HIDE DEF a, b
  <2> QED BY <1>7, <1>8, <2>1, <2>2, <2>3
<1>10. f[n] = f[2]
  <2> DEFINE P == {d \in Int : d \in 2 .. n => f[d] = f[2]}
  <2>1. 2 \in Int /\ n \in Int /\ 2 + 1 = 3 /\ 2 \in P BY <1>1
  <2>2. ASSUME NEW d \in 3 .. n, d - 1 \in P PROVE d \in P
    <3>1. d - 1 \in 2 .. n /\ d \in 1 .. n /\ d - 1 \in 0 .. n BY <1>1
    <3>2. f[d - 1] = f[2] BY <2>2, <3>1
    <3>3. f[d] = f[d - 1] + J[d] * v.strides[d] BY <1>7, <3>1
    <3>4. J[d] * v.strides[d] = 0 BY <1>1, <1>3, <3>1
    <3>5. f[d - 1] \in Int BY <1>7, <3>1
    <3>6. f[d] = f[2] BY <3>2, <3>3, <3>4, <3>5
    <3> QED BY <3>6
  <2> HIDE DEF P
  <2>3. 2 .. n \subseteq P BY <2>1, <2>2, Induction
  <2> QED BY <1>1, <2>3 DEF P
<1> QED BY <1>2, <1>5, <1>6, <1>9, <1>10 DEF w

\* An index without its first number.
LEMMA TailOfIndex ==
  ASSUME NEW n \in Nat, n > 0, NEW J \in [1 .. n -> Nat]
  PROVE  Tail(J) \in [1 .. n - 1 -> Nat] /\ \A d \in 1 .. n - 1 : Tail(J)[d] = J[d + 1]
<1>1. J \in Seq(Nat) /\ Len(J) = n
  <2>1. J \in Seq(Nat) OBVIOUS
  <2> QED BY <2>1, LenProperties
<1>2. J # << >> BY <1>1
<1>3. Tail(J) \in Seq(Nat) /\ Len(Tail(J)) = n - 1 /\ \A d \in 1 .. n - 1 : Tail(J)[d] = J[d + 1]
  BY <1>1, <1>2, HeadTailProperties
<1>4. Tail(J) \in [1 .. n - 1 -> Nat] BY <1>3, LenProperties
<1> QED BY <1>3, <1>4

\* An index of either sign is the one that the caller means.
LEMMA EffectiveIs ==
  ASSUME NEW s \in Nat, NEW index \in -s .. s - 1
  PROVE  /\ s > 0 /\ index \in Int
         /\ EffectiveIndex(index, s) = index % s /\ EffectiveIndex(index, s) \in 0 .. s - 1
<1> DEFINE q == index \div s
           r == index % s
           e == EffectiveIndex(index, s)
<1>1. s > 0 /\ s \in Int /\ index \in Int OBVIOUS
<1>2. q \in Int /\ r \in 0 .. s - 1 /\ index = r + q * s BY <1>1, Z3
<1>3. e \in 0 .. s - 1 /\ (e = index \/ e = index + s) BY <1>1 DEF EffectiveIndex
<1> HIDE DEF q, r, e
<1>4. PICK k \in Int : e = r + k * s
  <2>1. CASE e = index BY <1>2, <2>1
  <2>2. CASE e = index + s
    <3>1. q + 1 \in Int /\ e = r + (q + 1) * s BY <1>1, <1>2, <2>2
    <3> QED BY <3>1
  <2> QED BY <1>3, <2>1, <2>2
<1>5. k * s \in Int /\ k * s < s /\ k * s > -s BY <1>1, <1>2, <1>3, <1>4
<1>6. k >= 1 => k * s >= s BY <1>1
<1>7. k <= -1 => k * s <= -s BY <1>1
<1>8. k = 0 BY <1>1, <1>5, <1>6, <1>7
<1>9. e = r BY <1>1, <1>2, <1>4, <1>8
<1> QED BY <1>1, <1>3, <1>9 DEF r, e

\* The indices of a subview are those behind the index, without it.
LEMMA SubviewIndices ==
  ASSUME NEW v \in Views, Ndim(v) > 0, NEW index \in -v.shape[1] .. v.shape[1] - 1
  PROVE  Indices(Subview(v, index)) = {Tail(J) : J \in Behind(v, index % v.shape[1])}
<1> DEFINE n == Ndim(v)
           w == Subview(v, index)
           e == index % v.shape[1]
<1>1. /\ n \in Nat /\ n > 0 /\ \A d \in 1 .. n : v.shape[d] \in Nat
  BY ViewType
<1>2. index \in Int /\ v.shape[1] \in Nat
  <2>1. v.shape[1] \in Nat BY <1>1
  <2> QED BY <2>1
<1>3. e \in 0 .. v.shape[1] - 1 BY <1>2, EffectiveIs
<1>4. w \in Views /\ Ndim(w) = n - 1 /\ \A d \in 1 .. n - 1 : w.shape[d] = v.shape[d + 1]
  BY <1>2, SubviewType
<1> HIDE DEF n, w, e
<1>5. \A J : J \in Indices(v) <=> J \in [1 .. n -> Nat] /\ \A d \in 1 .. n : J[d] < v.shape[d]
  BY IndicesAre DEF n
<1>6. \A K : K \in Indices(w) <=>
              K \in [1 .. n - 1 -> Nat] /\ \A d \in 1 .. n - 1 : K[d] < w.shape[d]
  BY <1>4, IndicesAre
<1>7. ASSUME NEW J \in Behind(v, e) PROVE Tail(J) \in Indices(w)
  <2>1. J \in [1 .. n -> Nat] /\ \A d \in 1 .. n : J[d] < v.shape[d]
    BY <1>5 DEF Behind
  <2>2. Tail(J) \in [1 .. n - 1 -> Nat] /\ \A d \in 1 .. n - 1 : Tail(J)[d] = J[d + 1]
    BY <1>1, <2>1, TailOfIndex
  <2>3. \A d \in 1 .. n - 1 : d + 1 \in 1 .. n BY <1>1
  <2>4. \A d \in 1 .. n - 1 : Tail(J)[d] < w.shape[d] BY <1>4, <2>1, <2>2, <2>3
  <2> QED BY <1>6, <2>2, <2>4
<1>8. ASSUME NEW K \in Indices(w) PROVE \E J \in Behind(v, e) : K = Tail(J)
  <2>1. K \in [1 .. n - 1 -> Nat] /\ \A d \in 1 .. n - 1 : K[d] < w.shape[d] BY <1>6
  <2> DEFINE J == [d \in 1 .. n |-> IF d = 1 THEN e ELSE K[d - 1]]
  <2>2. \A d \in 1 .. n : d # 1 => d - 1 \in 1 .. n - 1 /\ (d - 1) + 1 = d BY <1>1
  <2>3. e \in Nat BY <1>2, <1>3
  <2>4. J \in [1 .. n -> Nat] BY <2>1, <2>2, <2>3
  <2>5. \A d \in 1 .. n : J[d] < v.shape[d]
    <3> TAKE d \in 1 .. n
    <3>1. CASE d = 1
      <4>1. J[d] = e BY <3>1
      <4> QED BY <1>2, <1>3, <3>1, <4>1
    <3>2. CASE d # 1
      <4>1. d - 1 \in 1 .. n - 1 /\ (d - 1) + 1 = d BY <2>2, <3>2
      <4>2. J[d] = K[d - 1] BY <3>2
      <4>3. w.shape[d - 1] = v.shape[d] BY <1>4, <4>1
      <4> QED BY <2>1, <4>1, <4>2, <4>3
    <3> QED BY <3>1, <3>2
  <2>6. J[1] = e BY <1>1
  <2>7. \A d \in 1 .. n - 1 : J[d + 1] = K[d]
    <3> TAKE d \in 1 .. n - 1
    <3>1. d + 1 \in 1 .. n /\ d + 1 # 1 /\ (d + 1) - 1 = d BY <1>1
    <3> QED BY <3>1
  <2> HIDE DEF J
  <2>8. J \in Behind(v, e) BY <1>5, <2>4, <2>5, <2>6 DEF Behind
  <2>9. Tail(J) = K
    <3> DEFINE rest == Tail(J)
    <3>1. rest \in [1 .. n - 1 -> Nat] /\ \A d \in 1 .. n - 1 : rest[d] = J[d + 1]
      BY <1>1, <2>4, TailOfIndex
    <3> HIDE DEF rest
    <3>2. \A d \in 1 .. n - 1 : rest[d] = K[d] BY <2>7, <3>1
    <3>3. rest \in [1 .. n - 1 -> Nat] /\ K \in [1 .. n - 1 -> Nat] BY <2>1, <3>1
    <3>4. rest = [d \in 1 .. n - 1 |-> rest[d]] /\ K = [d \in 1 .. n - 1 |-> K[d]]
      BY <3>3
    <3>5. [d \in 1 .. n - 1 |-> rest[d]] = [d \in 1 .. n - 1 |-> K[d]]
      BY <3>2
    <3>6. rest = K BY <3>4, <3>5
    <3> QED BY <3>6 DEF rest
  <2> QED BY <2>8, <2>9
<1> QED BY <1>7, <1>8 DEF w, e

\* What operator[] selects is behind the index; what T selects has the first
\* two indices swapped.
LEMMA IndexSelects ==
  ASSUME NEW v \in Views, Ndim(v) > 0, NEW index \in -v.shape[1] .. v.shape[1] - 1
  PROVE  /\ Indices(Subview(v, index)) = {Tail(J) : J \in Behind(v, index % v.shape[1])}
         /\ \A J \in Behind(v, index % v.shape[1]) :
              Address(Subview(v, index), Tail(J)) = Address(v, J)
<1>1. Ndim(v) \in Nat /\ v.shape[1] \in Nat BY ViewType
<1>2. index \in Int /\ EffectiveIndex(index, v.shape[1]) = index % v.shape[1]
  BY <1>1, EffectiveIs
<1>3. ASSUME NEW J \in Behind(v, index % v.shape[1])
      PROVE  Address(Subview(v, index), Tail(J)) = Address(v, J)
  <2>1. J \in Indices(v) /\ J[1] = index % v.shape[1] BY DEF Behind
  <2>2. J \in [1 .. Ndim(v) -> Nat] BY <2>1, IndicesAre
  <2>3. \A d \in 1 .. Ndim(v) - 1 : Tail(J)[d] = J[d + 1] BY <1>1, <2>2, TailOfIndex
  <2>4. \A d \in 1 .. Ndim(v) : J[d] \in Int BY <2>2
  <2>5. J[1] = EffectiveIndex(index, v.shape[1]) BY <1>2, <2>1
  <2> DEFINE K == Tail(J)
  <2>6. \A d \in 1 .. Ndim(v) - 1 : K[d] = J[d + 1] BY <2>3
  <2>7. index \in Int BY <1>2
  <2> HIDE DEF K
  <2>8. Address(Subview(v, index), K) = Address(v, J)
    BY ONLY v \in Views, Ndim(v) > 0, <2>4, <2>5, <2>6, <2>7, SubviewAddress
  <2> QED BY <2>8 DEF K
<1> QED BY <1>3, SubviewIndices

\* An element of a transposed view is the one at the swapped indices.
LEMMA TransposeSelects ==
  ASSUME NEW v \in Views, Ndim(v) >= 2, NEW K \in Indices(Transposed(v))
  PROVE  /\ Address(Transposed(v), K) =
              Address(v, [d \in 1 .. Ndim(v) |-> IF d <= 2 THEN K[3 - d] ELSE 0])
         /\ K[1] \in Nat /\ K[2] \in Nat /\ K[1] < v.shape[2] /\ K[2] < v.shape[1]
<1> DEFINE J == [d \in 1 .. Ndim(v) |-> IF d <= 2 THEN K[3 - d] ELSE 0]
           w == Transposed(v)
<1>1. w \in Views /\ Ndim(w) = 2 /\ w.shape[1] = v.shape[2] /\ w.shape[2] = v.shape[1]
  BY TransposeType
<1> HIDE DEF w
<1>2. K \in [1 .. 2 -> Nat] /\ \A d \in 1 .. 2 : K[d] < w.shape[d]
  BY <1>1, IndicesAre DEF w
<1>3. 1 \in 1 .. 2 /\ 2 \in 1 .. 2 OBVIOUS
<1>4. K[1] \in Nat /\ K[2] \in Nat /\ K[1] < v.shape[2] /\ K[2] < v.shape[1]
  BY <1>1, <1>2, <1>3
<1>5. \A d \in 1 .. Ndim(v) : J[d] = IF d <= 2 THEN K[3 - d] ELSE 0 OBVIOUS
<1> HIDE DEF J
<1>6. K[1] \in Int /\ K[2] \in Int BY <1>4
<1>7. Address(w, K) = Address(v, J) BY <1>5, <1>6, TransposeAddress DEF w
<1> QED BY <1>4, <1>7 DEF J, w

\* A derived view selects what DerivedElements says.
LEMMA DerivedStep ==
  ViewOK =>
    /\ \A index \in CallableIndices : Index(index) =>
         LET rest == Behind(view, index % view.shape[1])
         IN  /\ Indices(view') = {Tail(J) : J \in rest}
             /\ \A J \in rest : Address(view', Tail(J)) = Address(view, J)
    /\ Transpose =>
         \A K \in Indices(view') :
           Address(view', K) =
             Address(view, [d \in 1 .. Ndim(view) |-> IF d <= 2 THEN K[3 - d] ELSE 0])
<1> SUFFICES ASSUME ViewOK
    PROVE  /\ \A index \in CallableIndices : Index(index) =>
                LET rest == Behind(view, index % view.shape[1])
                IN  /\ Indices(view') = {Tail(J) : J \in rest}
                    /\ \A J \in rest : Address(view', Tail(J)) = Address(view, J)
           /\ Transpose =>
                \A K \in Indices(view') :
                  Address(view', K) =
                    Address(view, [d \in 1 .. Ndim(view) |-> IF d <= 2 THEN K[3 - d] ELSE 0])
  OBVIOUS
<1>1. ASSUME NEW index \in CallableIndices, Index(index)
      PROVE  LET rest == Behind(view, index % view.shape[1])
             IN  /\ Indices(view') = {Tail(J) : J \in rest}
                 /\ \A J \in rest : Address(view', Tail(J)) = Address(view, J)
  <2>1. view' = Subview(view, index) BY <1>1 DEF Index
  <2>2. view \in Views /\ Ndim(view) > 0 /\ index \in -view.shape[1] .. view.shape[1] - 1
    BY CallableIndex
  <2> QED BY <2>1, <2>2, IndexSelects
<1>2. ASSUME Transpose, NEW K \in Indices(view')
      PROVE  Address(view', K) =
               Address(view, [d \in 1 .. Ndim(view) |-> IF d <= 2 THEN K[3 - d] ELSE 0])
  <2>1. view \in Views /\ Ndim(view) >= 2
        /\ view' = Transposed(view)
    BY <1>2 DEF Transpose, ViewOK, Transposed
  <2> QED BY <2>1, TransposeSelects
<1> QED BY <1>1, <1>2

\* Of a view with any shape and any strides, indexing selects exactly the
\* elements behind the index, and transposition swaps the first two indices
\* (src/tensor_view.cc:18-29, 67-76).
THEOREM SelectsElements == Spec => DerivedElements
<1>1. ViewOK /\ [Next]_vars
      => [/\ \A index \in CallableIndices : Index(index) =>
               LET rest == Behind(view, index % view.shape[1])
               IN  /\ Indices(view') = {Tail(J) : J \in rest}
                   /\ \A J \in rest : Address(view', Tail(J)) = Address(view, J)
          /\ Transpose =>
               \A K \in Indices(view') :
                 Address(view', K) =
                   Address(view, [d \in 1 .. Ndim(view) |->
                                    IF d <= 2 THEN K[3 - d] ELSE 0])]_vars
  BY DerivedStep
<1> QED BY <1>1, ViewTypes, PTL DEF Spec, DerivedElements

\* No view reaches an element that the constructed view did not have, however
\* it was indexed and, of two dimensions, transposed
\* (src/tensor_view.cc:18-29, 67-76).
THEOREM StaysInside == Spec => []InsideAllocation
<1>1. Init => InsideAllocation BY DEF Init, InsideAllocation
<1>2. ViewOK /\ InsideAllocation /\ [Next]_vars => InsideAllocation'
  <2> SUFFICES ASSUME ViewOK, InsideAllocation, [Next]_vars, view' # None, origin' # "cut"
               PROVE  Elements(view') \subseteq extent'
    BY DEF InsideAllocation
  <2>1. ASSUME NEW data \in Pointers, NEW dtype \in DataTypes, NEW shape \in Shapes,
               Construct(data, shape, dtype)
        PROVE  Elements(view') \subseteq extent'
    BY <2>1 DEF Construct, Begin
  <2>6. ASSUME NEW data \in Pointers, NEW dtype \in DataTypes, NEW s \in Stridings,
               ConstructStrided(data, s, dtype)
        PROVE  Elements(view') \subseteq extent'
    BY <2>6 DEF ConstructStrided, Begin
  <2>2. ASSUME NEW index \in CallableIndices, Index(index)
        PROVE  Elements(view') \subseteq extent'
    <3>1. view' = Subview(view, index) /\ extent' = extent /\ origin' = origin
      BY <2>2 DEF Index
    <3>2. view \in Views /\ Ndim(view) > 0 /\ index \in -view.shape[1] .. view.shape[1] - 1
      BY CallableIndex
    <3>3. view # None BY DEF CallableIndices
    <3>4. Elements(view) \subseteq extent BY <3>1, <3>3 DEF InsideAllocation
    <3>5. ASSUME NEW K \in Indices(view') PROVE Address(view', K) \in Elements(view)
      <4>1. PICK J \in Behind(view, index % view.shape[1]) : K = Tail(J)
        BY <3>1, <3>2, IndexSelects
      <4>2. Address(view', K) = Address(view, J) BY <3>1, <3>2, <4>1, IndexSelects
      <4> QED BY <4>2 DEF Elements, Behind
    <3> QED BY <3>1, <3>4, <3>5 DEF Elements
  <2>3. CASE Transpose
    <3>1. /\ view # None /\ Ndim(view) >= 2 /\ extent' = extent
          /\ view' = Transposed(view)
          /\ origin' = IF Ndim(view) > 2 \/ origin = "cut" THEN "cut" ELSE "transposed"
      BY <2>3 DEF Transpose, Transposed
    <3>2. view \in Views BY <3>1 DEF ViewOK
    <3>3. Ndim(view) = 2 /\ origin # "cut"
      <4>1. Ndim(view) \in Nat BY <3>2, ViewType
      <4>2. ~(Ndim(view) > 2 \/ origin = "cut") BY <3>1
      <4> QED BY <3>1, <4>1, <4>2
    <3>4. Elements(view) \subseteq extent BY <3>1, <3>3 DEF InsideAllocation
    <3>5. ASSUME NEW K \in Indices(view') PROVE Address(view', K) \in Elements(view)
      <4> DEFINE J == [d \in 1 .. Ndim(view) |-> IF d <= 2 THEN K[3 - d] ELSE 0]
      <4>1. /\ Address(view', K) = Address(view, J)
            /\ K[1] \in Nat /\ K[2] \in Nat
            /\ K[1] < view.shape[2] /\ K[2] < view.shape[1]
        BY <3>1, <3>2, TransposeSelects
      <4>2. J \in [1 .. Ndim(view) -> Nat] /\ \A d \in 1 .. Ndim(view) : J[d] < view.shape[d]
        <5>1. J = [d \in 1 .. 2 |-> K[3 - d]] BY <3>3
        <5>2. 3 - 1 = 2 /\ 3 - 2 = 1 /\ \A d \in 1 .. 2 : d = 1 \/ d = 2 OBVIOUS
        <5> QED BY <3>3, <4>1, <5>1, <5>2
      <4>3. J \in Indices(view) BY <3>2, <4>2, IndicesAre
      <4> HIDE DEF J
      <4> QED BY <4>1, <4>3 DEF Elements
    <3> QED BY <3>1, <3>4, <3>5 DEF Elements
  <2>4. CASE Destroy BY <2>4 DEF Destroy
  <2>5. CASE UNCHANGED vars BY <2>5 DEF vars, InsideAllocation
  <2> QED BY <2>1, <2>2, <2>3, <2>4, <2>5, <2>6 DEF Next
<1> QED BY <1>1, <1>2, ViewTypes, PTL DEF Spec

-----------------------------------------------------------------------------
\* There are as many indices as the product of the sizes.
FirstIndices(v, k) == {J \in [1 .. k -> Nat] : \A d \in 1 .. k : J[d] < v.shape[d]}

\* One dimension more multiplies the number of indices by its size.
LEMMA PrefixCount ==
  ASSUME NEW v \in Views, NEW k \in 1 .. Ndim(v), IsFiniteSet(FirstIndices(v, k - 1))
  PROVE  /\ IsFiniteSet(FirstIndices(v, k))
         /\ Cardinality(FirstIndices(v, k)) = Cardinality(FirstIndices(v, k - 1)) * v.shape[k]
<1> DEFINE A == FirstIndices(v, k - 1)
           s == v.shape[k]
           B == 0 .. s - 1
           P == FirstIndices(v, k)
           Short(J) == [d \in 1 .. k - 1 |-> J[d]]
           F == [J \in P |-> <<Short(J), J[k]>>]
<1>1. Ndim(v) \in Nat /\ k \in Nat /\ k >= 1 /\ s \in Nat BY ViewType
<1>2. k \in 1 .. k /\ \A d \in 1 .. k - 1 : d \in 1 .. k /\ d # k BY <1>1
<1>3. \A J : J \in P <=> J \in [1 .. k -> Nat] /\ \A d \in 1 .. k : J[d] < v.shape[d]
  BY DEF FirstIndices
<1>4. \A J : J \in A <=> J \in [1 .. k - 1 -> Nat] /\ \A d \in 1 .. k - 1 : J[d] < v.shape[d]
  BY DEF FirstIndices
<1> HIDE DEF A, P, s
<1>5. F \in [P -> A \X B]
  <2> SUFFICES ASSUME NEW J \in P PROVE Short(J) \in A /\ J[k] \in B
    OBVIOUS
  <2>1. J \in [1 .. k -> Nat] /\ \A d \in 1 .. k : J[d] < v.shape[d] BY <1>3
  <2>2. J[k] \in B BY <1>1, <1>2, <2>1 DEF s
  <2>3. Short(J) \in A BY <1>2, <1>4, <2>1
  <2> QED BY <2>2, <2>3
<1>6. ASSUME NEW J \in P, NEW K \in P, F[J] = F[K] PROVE J = K
  <2>1. J \in [1 .. k -> Nat] /\ K \in [1 .. k -> Nat] BY <1>3
  <2>2. Short(J) = Short(K) /\ J[k] = K[k] BY <1>6
  <2>3. \A d \in 1 .. k - 1 : J[d] = K[d]
    <3>1. \A d \in 1 .. k - 1 : Short(J)[d] = Short(K)[d] BY <2>2
    <3> QED BY <3>1
  <2>4. \A d \in 1 .. k : d = k \/ d \in 1 .. k - 1 BY <1>1
  <2>5. \A d \in 1 .. k : J[d] = K[d] BY <2>2, <2>3, <2>4
  <2>6. J = [d \in 1 .. k |-> J[d]] /\ K = [d \in 1 .. k |-> K[d]] BY <2>1
  <2>7. [d \in 1 .. k |-> J[d]] = [d \in 1 .. k |-> K[d]] BY <2>5
  <2> QED BY <2>6, <2>7
<1>7. ASSUME NEW t \in A \X B PROVE \E J \in P : F[J] = t
  <2> DEFINE K == t[1]
             j == t[2]
  <2>1. t = <<K, j>> /\ K \in A /\ j \in B OBVIOUS
  <2> HIDE DEF K, j
  <2>2. K \in [1 .. k - 1 -> Nat] /\ \A d \in 1 .. k - 1 : K[d] < v.shape[d] BY <1>4, <2>1
  <2>3. j \in Nat /\ j < v.shape[k] BY <1>1, <2>1 DEF s
  <2> DEFINE J == [d \in 1 .. k |-> IF d = k THEN j ELSE K[d]]
  <2>4. \A d \in 1 .. k : d = k \/ d \in 1 .. k - 1 BY <1>1
  <2>5. J \in [1 .. k -> Nat] /\ \A d \in 1 .. k : J[d] < v.shape[d]
    BY <2>2, <2>3, <2>4
  <2>6. J \in P BY <1>3, <2>5
  <2>7. Short(J) = K
    <3>1. \A d \in 1 .. k - 1 : J[d] = K[d] BY <1>2
    <3>2. Short(J) = [d \in 1 .. k - 1 |-> K[d]] BY <3>1
    <3> QED BY <2>2, <3>2
  <2>8. J[k] = j BY <1>2
  <2> HIDE DEF J
  <2>9. F[J] = t BY <2>1, <2>6, <2>7, <2>8
  <2> QED BY <2>6, <2>9
<1>8. F \in Bijection(P, A \X B)
  <2> HIDE DEF F
  <2> QED BY <1>5, <1>6, <1>7, Fun_IsBij
<1>9. ExistsBijection(A \X B, P)
  <2>1. ExistsBijection(P, A \X B) BY <1>8 DEF ExistsBijection
  <2> HIDE DEF B
  <2> QED BY <2>1, Fun_ExistsBijSymmetric
<1>10. IsFiniteSet(B) /\ Cardinality(B) = s
  <2>1. 0 \in Int /\ s - 1 \in Int BY <1>1
  <2>2. IsFiniteSet(B) /\ Cardinality(B) = IF 0 > s - 1 THEN 0 ELSE (s - 1) - 0 + 1
    BY <2>1, FS_Interval
  <2> QED BY <1>1, <2>2
<1>11. IsFiniteSet(A) BY DEF A
<1> HIDE DEF B
<1>12. IsFiniteSet(A \X B) /\ Cardinality(A \X B) = Cardinality(A) * s
  BY <1>10, <1>11, FS_Product
<1>13. IsFiniteSet(P) /\ Cardinality(P) = Cardinality(A \X B)
  BY <1>9, <1>12, FS_Bijection
<1> QED BY <1>12, <1>13 DEF A, P, s

\* There is one index of no dimensions.
LEMMA NoPrefix ==
  ASSUME NEW v
  PROVE  IsFiniteSet(FirstIndices(v, 0)) /\ Cardinality(FirstIndices(v, 0)) = 1
<1> DEFINE empty == [d \in 1 .. 0 |-> 0]
<1>1. FirstIndices(v, 0) = {empty}
  <2>1. empty \in FirstIndices(v, 0) BY DEF FirstIndices
  <2>2. ASSUME NEW J \in FirstIndices(v, 0) PROVE J = empty
    <3>1. J \in [1 .. 0 -> Nat] BY DEF FirstIndices
    <3>2. J = [d \in 1 .. 0 |-> J[d]] BY <3>1
    <3>3. [d \in 1 .. 0 |-> J[d]] = [d \in 1 .. 0 |-> 0] OBVIOUS
    <3> QED BY <3>2, <3>3
  <2> QED BY <2>1, <2>2
<1> HIDE DEF empty
<1> QED BY <1>1, FS_Singleton

\* numel() counts the indices, in the width of a size.
LEMMA IndicesCounted ==
  ASSUME NEW v \in Views
  PROVE  /\ IsFiniteSet(Indices(v)) /\ Cardinality(Indices(v)) \in Nat
         /\ Numel(v) = Cardinality(Indices(v)) % Modulus
<1> DEFINE n == Ndim(v)
           c(k) == Cardinality(FirstIndices(v, k))
<1>1. n \in Nat /\ \A d \in 1 .. n : v.shape[d] \in Nat BY ViewType
<1>2. PICK f : Products(f, v) /\ Numel(v) = f[n] BY NumelLoop
<1>3. /\ f \in [0 .. n -> Nat] /\ f[0] = 1
      /\ \A d \in 1 .. n : f[d] = (f[d - 1] * v.shape[d]) % Modulus
  BY <1>2 DEF Products
<1> DEFINE Q == {k \in Int : k \in 0 .. n =>
                   /\ IsFiniteSet(FirstIndices(v, k)) /\ c(k) \in Nat
                   /\ f[k] = c(k) % Modulus}
<1>4. 0 \in Q
  <2>1. 1 % Modulus = 1 BY Width, SMT
  <2> QED BY <1>3, <2>1, NoPrefix
<1>5. ASSUME NEW k \in 1 .. n, k - 1 \in Q PROVE k \in Q
  <2>1. k - 1 \in 0 .. n /\ k - 1 \in Int /\ v.shape[k] \in Nat BY <1>1
  <2>2. IsFiniteSet(FirstIndices(v, k - 1)) /\ c(k - 1) \in Nat /\ f[k - 1] = c(k - 1) % Modulus
    BY <1>5, <2>1
  <2>3. IsFiniteSet(FirstIndices(v, k)) /\ c(k) = c(k - 1) * v.shape[k]
    BY <2>2, PrefixCount
  <2> DEFINE x == c(k - 1)
             s == v.shape[k]
  <2>4. x \in Int /\ s \in Int /\ x \in Nat /\ s \in Nat /\ x % Modulus \in Int /\ c(k) = x * s
        /\ f[k] = ((x % Modulus) * s) % Modulus
    BY <1>3, <2>1, <2>2, <2>3
  <2> HIDE DEF x, s, c
  <2>5. Congruent(x, x % Modulus) BY <2>4, Residue
  <2>6. Congruent(x * s, (x % Modulus) * s) BY <2>4, <2>5, CongruentProduct
  <2>7. x * s \in Int /\ (x % Modulus) * s \in Int /\ x * s \in Nat BY <2>4
  <2>8. (x * s) % Modulus = ((x % Modulus) * s) % Modulus BY <2>6, <2>7, ResiduesEqual
  <2>9. c(k) \in Nat /\ f[k] = c(k) % Modulus BY <2>4, <2>7, <2>8
  <2> QED BY <2>3, <2>9
<1>6. n \in Q
  <2>1. 0 \in Int /\ n \in Int /\ 0 + 1 = 1 BY <1>1
  <2> HIDE DEF Q
  <2>2. 0 .. n \subseteq Q BY <1>4, <1>5, <2>1, Induction
  <2> QED BY <1>1, <2>2
<1>7. Indices(v) = FirstIndices(v, n) BY IndicesAre DEF FirstIndices
<1> QED BY <1>1, <1>2, <1>6, <1>7

-----------------------------------------------------------------------------
\* Contiguity: each stride is what the dimension behind it takes.
Packed(v) ==
  /\ Ndim(v) # 0 => v.strides[Ndim(v)] = 1
  /\ \A d \in 1 .. Ndim(v) - 1 : Congruent(v.strides[d], v.shape[d + 1] * v.strides[d + 1])

\* One round of IsContiguous compares a stride with the block behind it.
LEMMA NestedIs ==
  ASSUME NEW v \in Views, NEW d \in 1 .. Ndim(v) - 1
  PROVE  Nested(v, d - 1) <=>
           /\ ~(v.shape[d] = 1 /\ v.strides[d] = 0)
           /\ Congruent(v.strides[d], v.shape[d + 1] * v.strides[d + 1])
<1>1. Ndim(v) \in Nat /\ d \in 1 .. Ndim(v) /\ d + 1 \in 1 .. Ndim(v) BY ViewType
<1>2. v.strides[d] \in Int /\ v.strides[d + 1] \in Int /\ v.shape[d + 1] \in Nat
  BY <1>1, ViewType
<1>3. EffectiveIndex(d - 1, Ndim(v)) = d - 1 /\ EffectiveIndex((d - 1) + 1, Ndim(v)) = d
  BY <1>1 DEF EffectiveIndex
<1>4. /\ Size(v, d - 1) = v.shape[d] /\ Stride(v, d - 1) = v.strides[d]
      /\ Size(v, (d - 1) + 1) = v.shape[d + 1] /\ Stride(v, (d - 1) + 1) = v.strides[d + 1]
  <2>1. (d - 1) + 1 = d BY <1>1
  <2> QED BY <1>3, <2>1 DEF Size, Stride
<1> DEFINE x == v.strides[d]
           y == v.shape[d + 1] * v.strides[d + 1]
<1>5. x \in Int /\ y \in Int /\ x - y \in Int BY <1>2
<1>6. (x - y) % Modulus = 0 <=> Congruent(x, y)
  <2> HIDE DEF x, y
  <2>1. 0 \in Int /\ 0 % Modulus = 0 BY Width, SMT
  <2>2. Congruent(x - y, 0) <=> (x - y) % Modulus = 0 BY <1>5, <2>1, ResiduesEqual
  <2>3. \A k \in Int : (x - y = 0 + k * Modulus) <=> (x = y + k * Modulus)
    <3> TAKE k \in Int
    <3>1. k * Modulus \in Int BY Width
    <3> QED BY <1>5, <3>1
  <2>4. Congruent(x - y, 0) <=> Congruent(x, y) BY <2>3 DEF Congruent
  <2> QED BY <2>2, <2>4
<1> QED BY <1>4, <1>6 DEF Nested

\* IsContiguous accepts packed strides, unless a dimension of 1 has stride 0.
LEMMA ContiguousIs ==
  ASSUME NEW v \in Views
  PROVE  IsContiguous(v) <=>
           Packed(v) /\ \A d \in 1 .. Ndim(v) - 1 : ~(v.shape[d] = 1 /\ v.strides[d] = 0)
<1> DEFINE n == Ndim(v)
<1>1. n \in Nat BY ViewType
<1>2. CASE n = 0
  <2>1. \A d \in 1 .. n - 1 : FALSE BY <1>2
  <2> QED BY <1>2, <2>1 DEF IsContiguous, Packed
<1>3. CASE n # 0
  <2>1. Stride(v, n - 1) = v.strides[n]
    <3>1. EffectiveIndex(n - 1, Ndim(v)) = n - 1 /\ (n - 1) + 1 = n
      BY <1>1, <1>3 DEF EffectiveIndex
    <3> QED BY <3>1 DEF Stride
  <2>2. IsMergeable(v, 0, n - 1) <=> \A i \in 0 .. (n - 1) - 1 : Nested(v, i)
    <3>1. 0 = n - 1 => \A i \in 0 .. (n - 1) - 1 : FALSE BY <1>1
    <3> QED BY <3>1 DEF IsMergeable
  <2>3. (\A i \in 0 .. (n - 1) - 1 : Nested(v, i)) <=> \A d \in 1 .. n - 1 : Nested(v, d - 1)
    <3>1. \A d \in 1 .. n - 1 : d - 1 \in 0 .. (n - 1) - 1 BY <1>1
    <3>2. \A i \in 0 .. (n - 1) - 1 : i + 1 \in 1 .. n - 1 /\ (i + 1) - 1 = i BY <1>1
    <3>3. ASSUME \A d \in 1 .. n - 1 : Nested(v, d - 1), NEW i \in 0 .. (n - 1) - 1
          PROVE  Nested(v, i)
      <4>1. i + 1 \in 1 .. n - 1 /\ (i + 1) - 1 = i BY <3>2
      <4>2. Nested(v, (i + 1) - 1) BY <3>3, <4>1
      <4> QED BY <4>1, <4>2
    <3> QED BY <3>1, <3>3
  <2>4. \A d \in 1 .. n - 1 :
          Nested(v, d - 1) <=>
            /\ ~(v.shape[d] = 1 /\ v.strides[d] = 0)
            /\ Congruent(v.strides[d], v.shape[d + 1] * v.strides[d + 1])
    BY NestedIs
  <2>5. IsContiguous(v) <=>
          v.strides[n] = 1 /\ \A d \in 1 .. n - 1 : Nested(v, d - 1)
    <3>1. IsContiguous(v) <=> IsMergeable(v, 0, n - 1) /\ Stride(v, n - 1) = 1
      BY <1>3 DEF IsContiguous
    <3> QED BY ONLY <2>1, <2>2, <2>3, <3>1
  <2> QED BY <1>3, <2>4, <2>5 DEF Packed
<1> QED BY <1>2, <1>3

\* The offset so far is that many strides of the last dimension done.
LEMMA PackedAddress ==
  ASSUME NEW v \in Views, Packed(v), NEW J \in Indices(v)
  PROVE  Address(v, J) = (v.data + Position(v, J) * SizeOf[v.dtype]) % Modulus
<1> DEFINE n == Ndim(v)
           sz == SizeOf[v.dtype]
<1>1. /\ n \in Nat /\ \A d \in 1 .. n : v.shape[d] \in Nat /\ v.strides[d] \in Int
      /\ v.data \in Int /\ sz \in Int
  <2>1. n \in Nat /\ \A d \in 1 .. n : v.shape[d] \in Nat /\ v.strides[d] \in Int BY ViewType
  <2>2. v.data \in Int /\ sz \in Int BY ViewType, Width
  <2> QED BY <2>1, <2>2
<1> HIDE DEF n, sz
<1>2. \A d \in 1 .. n : J[d] \in Int
  <2>1. J \in [1 .. n -> Nat] BY IndicesAre DEF n
  <2> QED BY <2>1
<1>3. PICK f : Offsets(f, v, J) /\ Address(v, J) = (v.data + f[n] * sz) % Modulus
  BY <1>2, AddressLoop DEF n, sz
<1>4. PICK b : Places(b, v, J) /\ Position(v, J) = b[n]
  BY <1>2, PositionLoop DEF n
<1>5. /\ f \in [0 .. n -> Int] /\ f[0] = 0
      /\ \A d \in 1 .. n : f[d] = f[d - 1] + J[d] * v.strides[d]
  BY <1>3 DEF Offsets, n
<1>6. /\ b \in [0 .. n -> Int] /\ b[0] = 0
      /\ \A d \in 1 .. n : b[d] = b[d - 1] * v.shape[d] + J[d]
  BY <1>4 DEF Places, n
<1>7. Congruent(f[n], b[n])
  <2>1. CASE n = 0
    <3>1. f[n] = 0 /\ b[n] = 0 BY <1>5, <1>6, <2>1
    <3> QED BY <3>1, CongruentSame
  <2>2. CASE n # 0
    <3> DEFINE Q == {d \in Int : d \in 1 .. n => Congruent(f[d], b[d] * v.strides[d])}
    <3>1. 1 \in Q
      <4>1. 1 \in 1 .. n /\ 1 - 1 = 0 BY <1>1, <2>2
      <4>2. f[1] = 0 + J[1] * v.strides[1] /\ b[1] = 0 * v.shape[1] + J[1]
        BY <1>5, <1>6, <4>1
      <4>3. J[1] \in Int /\ v.strides[1] \in Int /\ v.shape[1] \in Int BY <1>1, <1>2, <4>1
      <4>4. f[1] = b[1] * v.strides[1] /\ f[1] \in Int BY <4>2, <4>3
      <4>5. Congruent(f[1], f[1]) BY <4>4, CongruentSame
      <4> QED BY <4>4, <4>5
    <3>2. ASSUME NEW d \in 2 .. n, d - 1 \in Q PROVE d \in Q
      <4>1. d \in 1 .. n /\ d - 1 \in 1 .. n /\ d - 1 \in 0 .. n /\ d - 1 \in 1 .. n - 1
            /\ (d - 1) + 1 = d
        BY <1>1
      <4> DEFINE x == f[d - 1]
                 y == b[d - 1]
                 t == v.strides[d - 1]
                 u == v.strides[d]
                 s == v.shape[d]
                 j == J[d]
      <4>2. x \in Int /\ y \in Int /\ t \in Int /\ u \in Int /\ s \in Int /\ j \in Int
        <5>1. x \in Int BY <1>5, <4>1
        <5>2. y \in Int BY <1>6, <4>1
        <5>3. t \in Int /\ u \in Int /\ s \in Int BY <1>1, <4>1
        <5>4. j \in Int BY <1>2, <4>1
        <5> HIDE DEF x, y, t, u, s, j
        <5> QED BY <5>1, <5>2, <5>3, <5>4
      <4>3. f[d] = x + j * u /\ b[d] = y * s + j BY <1>5, <1>6, <4>1
      <4>4. Congruent(x, y * t) BY <3>2, <4>1
      <4>5. Congruent(t, s * u)
        <5>1. Congruent(v.strides[d - 1], v.shape[(d - 1) + 1] * v.strides[(d - 1) + 1])
          BY <4>1 DEF Packed, n
        <5> QED BY <4>1, <5>1
      <4> HIDE DEF x, y, t, s, j, u
      <4>6. Congruent(y * t, y * (s * u))
        <5>1. s * u \in Int BY <4>2
        <5> QED BY <4>2, <4>5, <5>1, CongruentProduct
      <4>7. Congruent(x, y * (s * u))
        <5>1. y * t \in Int /\ y * (s * u) \in Int BY <4>2
        <5> QED BY <4>2, <4>4, <4>6, <5>1, CongruentOn
      <4>8. Congruent(x + j * u, y * (s * u) + j * u)
        <5>1. y * (s * u) \in Int /\ j * u \in Int BY <4>2
        <5>2. Congruent(j * u, j * u) BY <5>1, CongruentSame
        <5> QED BY <4>2, <4>7, <5>1, <5>2, CongruentSum
      <4>9. y * (s * u) + j * u = (y * s + j) * u BY <4>2
      <4>10. Congruent(f[d], b[d] * u) BY <4>3, <4>8, <4>9
      <4> QED BY <4>10 DEF u
    <3>3. 1 \in Int /\ n \in Int /\ 1 + 1 = 2 BY <1>1
    <3> HIDE DEF Q
    <3>4. 1 .. n \subseteq Q BY <3>1, <3>2, <3>3, Induction
    <3>5. n \in 1 .. n /\ n \in 0 .. n BY <1>1, <2>2
    <3>6. Congruent(f[n], b[n] * v.strides[n]) BY <3>4, <3>5 DEF Q
    <3>7. v.strides[n] = 1 BY <2>2 DEF Packed, n
    <3>8. b[n] \in Int BY <1>6, <3>5
    <3>9. b[n] * v.strides[n] = b[n] BY <3>7, <3>8
    <3> QED BY <3>6, <3>9
  <2> QED BY <2>1, <2>2
<1> DEFINE x == f[n]
           y == b[n]
<1>8. x \in Int /\ y \in Int /\ Congruent(x, y) BY <1>1, <1>5, <1>6, <1>7
<1> HIDE DEF x, y
<1>9. Congruent(x * sz, y * sz) BY <1>1, <1>8, CongruentProduct
<1>10. x * sz \in Int /\ y * sz \in Int BY <1>1, <1>8
<1>11. Congruent(v.data + x * sz, v.data + y * sz)
  <2>1. Congruent(v.data, v.data) BY <1>1, CongruentSame
  <2> QED BY <1>1, <1>9, <1>10, <2>1, CongruentSum
<1>12. v.data + x * sz \in Int /\ v.data + y * sz \in Int BY <1>1, <1>10
<1>13. (v.data + x * sz) % Modulus = (v.data + y * sz) % Modulus
  BY <1>11, <1>12, ResiduesEqual
<1> QED BY <1>3, <1>4, <1>13 DEF x, y, sz

\* A contiguous view is one block, which numel() counts
\* (src/tensor_view.cc:94-104, 134-150).
THEOREM ContiguousIsOneBlock == Spec => []ContiguousIsBlock
<1>1. ViewOK => ContiguousIsBlock
  <2> SUFFICES ASSUME ViewOK, view # None, IsContiguous(view)
      PROVE  /\ Numel(view) = Cardinality(Indices(view)) % Modulus
             /\ \A J \in Indices(view) :
                  Address(view, J) =
                    (view.data + Position(view, J) * SizeOf[view.dtype]) % Modulus
    BY DEF ContiguousIsBlock
  <2>1. view \in Views BY DEF ViewOK
  <2>2. Packed(view) BY <2>1, ContiguousIs
  <2> QED BY <2>1, <2>2, IndicesCounted, PackedAddress
<1> QED BY <1>1, ViewTypes, PTL

-----------------------------------------------------------------------------
\* Default strides are packed, and indexing keeps them so.
DefaultPacked == view # None /\ origin = "default" => Packed(view)

\* Default strides are packed, ...
LEMMA DefaultsPacked ==
  ASSUME NEW v \in Views, v.strides = DefaultStrides(v.shape)
  PROVE  Packed(v)
<1> DEFINE n == Ndim(v)
<1>1. n \in Nat /\ v.shape \in Seq(Nat) /\ Len(v.shape) = n BY ViewType DEF Ndim
<1>2. n # 0 => v.strides[n] = 1 BY <1>1, StridesLoop
<1>3. ASSUME NEW d \in 1 .. n - 1
      PROVE  Congruent(v.strides[d], v.shape[d + 1] * v.strides[d + 1])
  <2>1. v.strides[d] = Wrapped(v.strides[d + 1] * v.shape[d + 1]) BY <1>1, StridesLoop
  <2>2. d + 1 \in 1 .. n BY <1>1
  <2>3. v.strides[d + 1] \in Int /\ v.shape[d + 1] \in Int BY <2>2, ViewType
  <2> DEFINE x == v.strides[d + 1] * v.shape[d + 1]
  <2>4. x \in Int /\ x = v.shape[d + 1] * v.strides[d + 1] BY <2>3
  <2>5. v.strides[d] = Wrapped(x) BY <2>1
  <2> HIDE DEF x
  <2> QED BY <2>4, <2>5, WrappedCongruent
<1> QED BY <1>2, <1>3 DEF Packed

\* ... stay so when a dimension is dropped ...
LEMMA SubviewPacked ==
  ASSUME NEW v \in Views, Ndim(v) > 0, Packed(v), NEW index \in Int
  PROVE  Packed(Subview(v, index))
<1> DEFINE n == Ndim(v)
           w == Subview(v, index)
<1>1. n \in Nat /\ n > 0 BY ViewType
<1>2. /\ Ndim(w) = n - 1
      /\ \A d \in 1 .. n - 1 : w.shape[d] = v.shape[d + 1] /\ w.strides[d] = v.strides[d + 1]
  BY SubviewType
<1> HIDE DEF w
<1>3. n - 1 # 0 => w.strides[n - 1] = 1
  <2>1. n - 1 # 0 => n - 1 \in 1 .. n - 1 /\ (n - 1) + 1 = n BY <1>1
  <2>2. v.strides[n] = 1 BY <1>1 DEF Packed
  <2> QED BY <1>2, <2>1, <2>2
<1>4. ASSUME NEW d \in 1 .. (n - 1) - 1
      PROVE  Congruent(w.strides[d], w.shape[d + 1] * w.strides[d + 1])
  <2>1. d \in 1 .. n - 1 /\ d + 1 \in 1 .. n - 1 BY <1>1
  <2>2. Congruent(v.strides[d + 1], v.shape[(d + 1) + 1] * v.strides[(d + 1) + 1])
    BY <2>1 DEF Packed
  <2> QED BY <1>2, <2>1, <2>2
<1> QED BY <1>2, <1>3, <1>4 DEF Packed, w

\* ... and through every step.
LEMMA DefaultStep == ViewOK /\ DefaultPacked /\ [Next]_vars => DefaultPacked'
<1> SUFFICES ASSUME ViewOK, DefaultPacked, [Next]_vars, view' # None, origin' = "default"
             PROVE  Packed(view')
  BY DEF DefaultPacked, Packed, Ndim, Congruent
<1>1. ASSUME NEW data \in Pointers, NEW dtype \in DataTypes, NEW shape \in Shapes,
             Construct(data, shape, dtype)
      PROVE  Packed(view')
  <2>1. view' = [data |-> data, shape |-> shape, strides |-> DefaultStrides(shape), dtype |-> dtype]
    BY <1>1 DEF Construct, Begin
  <2>2. shape \in Seq(Nat) BY TensorViewAssumption
  <2>3. DefaultStrides(shape) \in Seq(Int) /\ Len(DefaultStrides(shape)) = Len(shape)
    BY <2>2, StridesLoop
  <2>4. view' \in Views BY <2>1, <2>2, <2>3, BeginsView
  <2>5. view'.strides = DefaultStrides(view'.shape) BY <2>1
  <2> QED BY <2>4, <2>5, DefaultsPacked
<1>2. ASSUME NEW data \in Pointers, NEW dtype \in DataTypes, NEW s \in Stridings,
             ConstructStrided(data, s, dtype)
      PROVE  FALSE
  BY <1>2 DEF ConstructStrided
<1>3. ASSUME NEW index \in CallableIndices, Index(index) PROVE Packed(view')
  <2>1. view' = Subview(view, index) /\ origin' = origin BY <1>3 DEF Index
  <2>2. view # None BY DEF CallableIndices
  <2>3. Packed(view) BY <2>1, <2>2 DEF DefaultPacked
  <2>4. view \in Views /\ Ndim(view) > 0 /\ index \in Int BY CallableIndex
  <2> QED BY <2>1, <2>3, <2>4, SubviewPacked
<1>4. CASE Transpose
  <2>1. origin' = IF Ndim(view) > 2 \/ origin = "cut" THEN "cut" ELSE "transposed"
    BY <1>4 DEF Transpose
  <2> QED BY <2>1
<1>5. CASE Destroy BY <1>5 DEF Destroy
<1>6. CASE UNCHANGED vars BY <1>6 DEF vars, DefaultPacked
<1> QED BY <1>1, <1>2, <1>3, <1>4, <1>5, <1>6 DEF Next

\* A packed stride of 0 means that the sizes behind it multiply to 0 in the
\* width of a size.
LEMMA PackedZero ==
  ASSUME NEW v \in Views, Packed(v), NEW z \in 1 .. Ndim(v) - 1, v.strides[z] = 0
  PROVE  Numel(v) = 0
<1> DEFINE n == Ndim(v)
<1>1. n \in Nat /\ \A d \in 1 .. n : v.shape[d] \in Nat /\ v.strides[d] \in Int BY ViewType
<1>2. PICK f : Products(f, v) /\ Numel(v) = f[n] BY NumelLoop
<1>3. /\ f \in [0 .. n -> Nat]
      /\ \A d \in 1 .. n : f[d] = (f[d - 1] * v.shape[d]) % Modulus
  BY <1>2 DEF Products
<1>4. n \in 1 .. n /\ n - 1 \in 0 .. n BY <1>1
<1> DEFINE Q == {k \in Int : k \in 0 .. n - 1 => Congruent(f[n], f[n - k] * v.strides[n - k])}
<1>5. 0 \in Q
  <2>1. f[n] \in Int /\ v.strides[n] = 1 /\ n - 0 = n BY <1>1, <1>3, <1>4 DEF Packed
  <2>2. f[n] * v.strides[n] = f[n] BY <2>1
  <2>3. Congruent(f[n], f[n]) BY <2>1, CongruentSame
  <2> QED BY <2>1, <2>2, <2>3
<1>6. ASSUME NEW k \in 1 .. n - 1, k - 1 \in Q PROVE k \in Q
  <2> DEFINE e == n - (k - 1)
  <2>1. e \in 1 .. n /\ n - k = e - 1 /\ e - 1 \in 1 .. n - 1
        /\ e - 1 \in 1 .. n /\ e - 1 \in 0 .. n
        /\ k - 1 \in 0 .. n - 1 /\ (e - 1) + 1 = e /\ e \in 0 .. n
    BY <1>1
  <2> HIDE DEF e
  <2> DEFINE r == f[n]
             x == f[e]
             y == f[e - 1]
             s == v.shape[e]
             u == v.strides[e]
             t == v.strides[e - 1]
  <2>2. r \in Int /\ x \in Int /\ y \in Int /\ s \in Int /\ u \in Int /\ t \in Int
    <3>1. x \in Nat /\ y \in Nat /\ r \in Nat
      <4>1. n \in 0 .. n BY <1>1
      <4>2. \A d \in 0 .. n : f[d] \in Nat BY <1>3
      <4> QED BY <2>1, <4>1, <4>2
    <3>2. s \in Nat /\ u \in Int /\ t \in Int BY <1>1, <2>1
    <3> QED BY <3>1, <3>2
  <2>3. Congruent(r, x * u) BY <1>6, <2>1 DEF e
  <2>4. x = (y * s) % Modulus BY <1>3, <2>1
  <2>5. Congruent(t, s * u)
    <3>1. Congruent(v.strides[e - 1], v.shape[(e - 1) + 1] * v.strides[(e - 1) + 1])
      BY <2>1 DEF Packed
    <3> QED BY <2>1, <3>1
  <2> HIDE DEF r, x, y, s, u, t
  <2>6. y * s \in Int /\ x * u \in Int /\ s * u \in Int /\ (y * s) * u \in Int /\ y * t \in Int
    BY <2>2
  <2>7. Congruent(x, y * s) BY <2>2, <2>4, <2>6, Residue, CongruentBack
  <2>8. Congruent(x * u, (y * s) * u) BY <2>2, <2>6, <2>7, CongruentProduct
  <2>9. Congruent(s * u, t) BY <2>2, <2>5, <2>6, CongruentBack
  <2>10. Congruent(y * (s * u), y * t) BY <2>2, <2>6, <2>9, CongruentProduct
  <2>11. (y * s) * u = y * (s * u) BY <2>2
  <2>12. Congruent(r, y * t)
    <3>1. Congruent(r, (y * s) * u) BY <2>2, <2>3, <2>6, <2>8, CongruentOn
    <3>2. Congruent((y * s) * u, y * t) BY <2>10, <2>11
    <3> QED BY <2>2, <2>6, <3>1, <3>2, CongruentOn
  <2>13. Congruent(f[n], f[n - k] * v.strides[n - k]) BY <2>1, <2>12 DEF r, y, t
  <2> QED BY <2>13
<1>7. n - z \in Q
  <2>1. 0 \in Int /\ n - 1 \in Int /\ 0 + 1 = 1 /\ n - z \in 0 .. n - 1 BY <1>1
  <2>2. \A k \in 0 + 1 .. n - 1 : k - 1 \in Q => k \in Q BY <1>6
  <2> HIDE DEF Q
  <2> DEFINE m == n - 1
  <2>3. m \in Int /\ \A k \in 0 + 1 .. m : k - 1 \in Q => k \in Q BY <2>1, <2>2
  <2> HIDE DEF m
  <2>4. 0 .. m \subseteq Q BY <1>5, <2>1, <2>3, Induction
  <2> QED BY <2>1, <2>4 DEF m
<1>8. Congruent(f[n], 0)
  <2>1. n - z \in 0 .. n - 1 /\ n - (n - z) = z /\ z \in 0 .. n BY <1>1
  <2>2. Congruent(f[n], f[z] * v.strides[z]) BY <1>7, <2>1
  <2>3. f[z] \in Nat BY <1>3, <2>1
  <2>4. f[z] * v.strides[z] = 0 BY <2>3
  <2> QED BY <2>2, <2>4
<1>9. f[n] \in 0 .. Modulus - 1 /\ f[n] \in Int
  <2> DEFINE x == f[n - 1] * v.shape[n]
  <2>1. f[n] = x % Modulus BY <1>3, <1>4
  <2>2. f[n - 1] \in Nat /\ v.shape[n] \in Nat BY <1>1, <1>3, <1>4
  <2>3. x \in Int BY <2>2
  <2> HIDE DEF x
  <2>4. x % Modulus \in 0 .. Modulus - 1 BY <2>3, Residue
  <2> QED BY <2>1, <2>4, Width
<1>10. f[n] = 0
  <2>1. PICK k \in Int : f[n] = 0 + k * Modulus BY <1>8 DEF Congruent
  <2>2. k >= 1 => k * Modulus >= Modulus BY Width
  <2>3. k <= -1 => k * Modulus <= -Modulus BY Width
  <2>4. k * Modulus \in Int BY Width
  <2>5. k = 0 BY <1>9, <2>1, <2>2, <2>3, <2>4, Width
  <2> QED BY <2>1, <2>5, Width
<1> QED BY <1>2, <1>10

\* With default strides a view is contiguous, and so is each view that
\* indexing makes of it, unless numel() is 0, even when strides wrap around
\* (src/tensor_view.cc:134-150).
THEOREM DefaultsStayContiguous == Spec => []DefaultStaysContiguous
<1>1. Init => DefaultPacked BY DEF Init, DefaultPacked
<1>2. ViewOK /\ DefaultPacked => DefaultStaysContiguous
  <2> SUFFICES ASSUME ViewOK, DefaultPacked, view # None, origin = "default", Numel(view) # 0
               PROVE  IsContiguous(view)
    BY DEF DefaultStaysContiguous
  <2>1. view \in Views /\ Packed(view) BY DEF ViewOK, DefaultPacked
  <2>2. \A d \in 1 .. Ndim(view) - 1 : view.strides[d] # 0 BY <2>1, PackedZero
  <2> QED BY <2>1, <2>2, ContiguousIs
<1> QED BY <1>1, <1>2, DefaultStep, ViewTypes, PTL DEF Spec

-----------------------------------------------------------------------------
\* The counter of HasBroadcastDim stays among the dimensions.
LEMMA BroadcastDim ==
  ASSUME NEW v \in Views, HasBroadcastDim(v)
  PROVE  \E d \in 1 .. Ndim(v) : v.shape[d] # 1 /\ v.strides[d] = 0
<1> DEFINE n == Ndim(v)
           step == [visit \in 1 .. n |-> [y \in Nat |-> IF v.shape[y] # 1 THEN y + 1 ELSE y]]
           body(f) == [visit \in 0 .. n |->
                         IF visit = 0 THEN 1
                         ELSE IF v.shape[f[visit - 1]] # 1 THEN f[visit - 1] + 1
                         ELSE f[visit - 1]]
           at == CHOOSE f : f = body(f)
<1>1. n \in Nat BY ViewType
<1>2. \E visit \in 0 .. n - 1 : v.shape[at[visit]] # 1 /\ v.strides[at[visit]] = 0
  BY Zenon DEF HasBroadcastDim
<1> HIDE DEF n
<1>3. PICK g \in [0 .. n -> Nat] : Loops(g, n, 1, step)
  <2>1. step \in [1 .. n -> [Nat -> Nat]] /\ 1 \in Nat OBVIOUS
  <2> HIDE DEF step
  <2> QED BY <1>1, <2>1, Recursion
<1>4. g = body(g)
  <2>1. \A d \in 1 .. n : g[d] = IF v.shape[g[d - 1]] # 1 THEN g[d - 1] + 1 ELSE g[d - 1]
    <3> TAKE d \in 1 .. n
    <3>1. d - 1 \in 0 .. n /\ g[d - 1] \in Nat BY <1>1, <1>3
    <3> QED BY <1>3, <3>1 DEF Loops
  <2>2. \A d \in 0 .. n : d # 0 => d \in 1 .. n BY <1>1
  <2>3. \A d \in 0 .. n : g[d] = body(g)[d] BY <1>3, <2>1, <2>2 DEF Loops
  <2> QED BY <1>3, <2>3
<1>5. at = body(at)
  <2>1. \E f : f = body(f) BY <1>4
  <2> HIDE DEF body
  <2> QED BY <2>1
<1> HIDE DEF at
<1>6. \A d \in 0 .. n : at[d] = IF d = 0 THEN 1
                                ELSE IF v.shape[at[d - 1]] # 1 THEN at[d - 1] + 1
                                ELSE at[d - 1]
  BY <1>5
<1>7. at[0] = 1 /\ \A d \in 1 .. n : at[d] = at[d - 1] \/ at[d] = at[d - 1] + 1
  BY <1>1, <1>6
<1> DEFINE Q == {d \in Int : d \in 0 .. n => at[d] \in 1 .. d + 1}
<1>8. 0 .. n \subseteq Q
  <2>1. 0 \in Int /\ n \in Int /\ 0 + 1 = 1 BY <1>1
  <2>2. 0 \in Q BY <1>7
  <2>3. ASSUME NEW d \in 1 .. n, d - 1 \in Q PROVE d \in Q
    <3>1. d - 1 \in 0 .. n /\ (d - 1) + 1 = d BY <1>1
    <3>2. at[d - 1] \in 1 .. d BY <2>3, <3>1
    <3>3. at[d] = at[d - 1] \/ at[d] = at[d - 1] + 1 BY <1>7
    <3>4. at[d] \in 1 .. d + 1 BY <3>2, <3>3
    <3> QED BY <3>4
  <2> HIDE DEF Q
  <2> QED BY <2>1, <2>2, <2>3, Induction
<1>9. PICK visit \in 0 .. n - 1 : v.shape[at[visit]] # 1 /\ v.strides[at[visit]] = 0
  BY <1>2
<1>10. at[visit] \in 1 .. n
  <2>1. visit \in 0 .. n /\ visit + 1 <= n BY <1>1
  <2>2. at[visit] \in 1 .. visit + 1 BY <1>8, <2>1
  <2> QED BY <1>1, <2>1, <2>2
<1> QED BY <1>9, <1>10 DEF n

\* Where the stride is 0, the index does not matter.
LEMMA StrideZeroAddress ==
  ASSUME NEW v \in Views, NEW J \in Indices(v), NEW K \in Indices(v),
         \A d \in 1 .. Ndim(v) : J[d] = K[d] \/ v.strides[d] = 0
  PROVE  Address(v, J) = Address(v, K)
<1> DEFINE n == Ndim(v)
<1>1. n \in Nat /\ \A d \in 1 .. n : v.strides[d] \in Int BY ViewType
<1>2. \A d \in 1 .. n : J[d] = K[d] \/ v.strides[d] = 0 OBVIOUS
<1> HIDE DEF n
<1>3. \A d \in 1 .. n : J[d] \in Int /\ K[d] \in Int
  <2>1. J \in [1 .. n -> Nat] /\ K \in [1 .. n -> Nat] BY IndicesAre DEF n
  <2> QED BY <2>1
<1>4. PICK f : Offsets(f, v, J) /\ Address(v, J) = (v.data + f[n] * SizeOf[v.dtype]) % Modulus
  BY <1>3, AddressLoop DEF n
<1>5. PICK g : Offsets(g, v, K) /\ Address(v, K) = (v.data + g[n] * SizeOf[v.dtype]) % Modulus
  BY <1>3, AddressLoop DEF n
<1>6. /\ f \in [0 .. n -> Int] /\ f[0] = 0
      /\ \A d \in 1 .. n : f[d] = f[d - 1] + J[d] * v.strides[d]
  BY <1>4 DEF Offsets, n
<1>7. /\ g \in [0 .. n -> Int] /\ g[0] = 0
      /\ \A d \in 1 .. n : g[d] = g[d - 1] + K[d] * v.strides[d]
  BY <1>5 DEF Offsets, n
<1>8. \A d \in 1 .. n : J[d] * v.strides[d] = K[d] * v.strides[d]
  BY <1>1, <1>2, <1>3
<1> DEFINE Q == {d \in Int : d \in 0 .. n => f[d] = g[d]}
<1>9. 0 \in Q BY <1>6, <1>7
<1>10. ASSUME NEW d \in 1 .. n, d - 1 \in Q PROVE d \in Q
  <2>1. d - 1 \in 0 .. n BY <1>1
  <2>2. f[d - 1] = g[d - 1] BY <1>10, <2>1
  <2>3. f[d] = g[d] BY <1>6, <1>7, <1>8, <2>2
  <2> QED BY <2>3
<1>11. f[n] = g[n]
  <2>1. 0 \in Int /\ n \in Int /\ 0 + 1 = 1 BY <1>1
  <2> HIDE DEF Q
  <2>2. 0 .. n \subseteq Q BY <1>9, <1>10, <2>1, Induction
  <2> QED BY <1>1, <2>2 DEF Q
<1> QED BY <1>4, <1>5, <1>11

\* Two indices with one address leave fewer addresses than indices.
LEMMA Repeats ==
  ASSUME NEW v \in Views, NEW J \in Indices(v), NEW K \in Indices(v), J # K,
         Address(v, J) = Address(v, K)
  PROVE  Cardinality(Elements(v)) < Cardinality(Indices(v))
<1> DEFINE S == Indices(v) \ {K}
           F == [I \in S |-> Address(v, I)]
           c == Cardinality(Indices(v))
<1>1. IsFiniteSet(Indices(v)) /\ c \in Nat BY IndicesCounted
<1>2. IsFiniteSet(S) /\ Cardinality(S) = c - 1 BY <1>1, FS_RemoveElement
<1>3. F \in Surjection(S, Elements(v))
  <2>1. F \in [S -> Elements(v)] BY DEF Elements
  <2>2. ASSUME NEW t \in Elements(v) PROVE \E I \in S : F[I] = t
    <3>1. PICK I \in Indices(v) : t = Address(v, I) BY DEF Elements
    <3>2. CASE I = K BY <3>1, <3>2
    <3>3. CASE I # K BY <3>1, <3>3
    <3> QED BY <3>2, <3>3
  <2> HIDE DEF F, S
  <2> QED BY <2>1, <2>2, Fun_IsSurj
<1> HIDE DEF F, S
<1>4. Cardinality(Elements(v)) <= Cardinality(S) /\ IsFiniteSet(Elements(v))
  BY <1>2, <1>3, FS_Surjection
<1>5. Cardinality(Elements(v)) \in Nat BY <1>4, FS_CardinalityType
<1> QED BY <1>1, <1>2, <1>4, <1>5

\* A view that has elements and a broadcast dimension shows one of them twice
\* (src/tensor_view.cc:84-92).
THEOREM BroadcastsRepeat == Spec => []BroadcastRepeats
<1>1. ViewOK => BroadcastRepeats
  <2> SUFFICES ASSUME ViewOK, view # None, HasBroadcastDim(view), NEW J \in Indices(view)
               PROVE  Cardinality(Elements(view)) < Cardinality(Indices(view))
    BY DEF BroadcastRepeats
  <2> DEFINE n == Ndim(view)
  <2>1. view \in Views BY DEF ViewOK
  <2>2. PICK d \in 1 .. n : view.shape[d] # 1 /\ view.strides[d] = 0
    BY <2>1, BroadcastDim
  <2>3. J \in [1 .. n -> Nat] /\ \A e \in 1 .. n : J[e] < view.shape[e]
    BY <2>1, IndicesAre
  <2>4. view.shape[d] \in Nat /\ view.shape[d] >= 2
    <3>1. view.shape[d] \in Nat BY <2>1, ViewType
    <3>2. J[d] \in Nat /\ J[d] < view.shape[d] BY <2>3
    <3> QED BY <2>2, <3>1, <3>2
  <2> HIDE DEF n
  <2> DEFINE K == [J EXCEPT ![d] = IF J[d] = 0 THEN 1 ELSE 0]
  <2>5. K \in [1 .. n -> Nat] /\ K[d] # J[d] /\ \A e \in 1 .. n : e # d => K[e] = J[e]
    BY <2>3
  <2>6. K[d] < view.shape[d]
    <3>1. K[d] = 0 \/ K[d] = 1 BY <2>3
    <3> QED BY <2>4, <3>1
  <2> HIDE DEF K
  <2>7. K \in Indices(view)
    <3>1. \A e \in 1 .. n : K[e] < view.shape[e] BY <2>3, <2>5, <2>6
    <3> QED BY <2>1, <2>5, <3>1, IndicesAre DEF n
  <2>8. \A e \in 1 .. Ndim(view) : J[e] = K[e] \/ view.strides[e] = 0
    BY <2>2, <2>5 DEF n
  <2>9. Address(view, J) = Address(view, K) BY <2>1, <2>7, <2>8, StrideZeroAddress
  <2> QED BY <2>1, <2>5, <2>7, <2>9, Repeats
<1> QED BY <1>1, ViewTypes, PTL

-----------------------------------------------------------------------------
\* Dispatch: whatever was filtered out, and in whatever order the
\* alternatives are tried, the one that equals the value is found.
LEMMA AppendRange ==
  ASSUME NEW S, NEW s \in Seq(S), NEW x \in S
  PROVE  Append(s, x) \in Seq(S) /\ ToSet(Append(s, x)) = ToSet(s) \cup {x}
<1> DEFINE a == Append(s, x)
<1>1. /\ a \in Seq(S) /\ Len(s) \in Nat /\ Len(a) = Len(s) + 1
      /\ \A i \in 1 .. Len(s) : a[i] = s[i]
      /\ a[Len(s) + 1] = x
  BY AppendProperties, LenProperties
<1>2. DOMAIN a = 1 .. Len(s) + 1 /\ DOMAIN s = 1 .. Len(s) BY <1>1, LenProperties
<1> HIDE DEF a
<1>3. ASSUME NEW i \in DOMAIN a PROVE a[i] \in ToSet(s) \cup {x}
  <2>1. i = Len(s) + 1 \/ i \in 1 .. Len(s) BY <1>1, <1>2
  <2> QED BY <1>1, <1>2, <2>1 DEF ToSet
<1>4. ASSUME NEW i \in DOMAIN s PROVE s[i] \in ToSet(a)
  <2>1. i \in DOMAIN a /\ a[i] = s[i] BY <1>1, <1>2
  <2> QED BY <2>1 DEF ToSet
<1>5. x \in ToSet(a)
  <2>1. Len(s) + 1 \in DOMAIN a BY <1>1, <1>2
  <2> QED BY <1>1, <2>1 DEF ToSet
<1>6. ToSet(a) = ToSet(s) \cup {x} BY <1>3, <1>4, <1>5 DEF ToSet
<1> QED BY <1>1, <1>6 DEF a

\* Filtering leaves the alternatives that the functor can be called with.
LEMMA FilterIs ==
  ASSUME NEW S, NEW values \in Seq(S), NEW invocable
  PROVE  /\ Filter(values, invocable) \in Seq(S)
         /\ ToSet(Filter(values, invocable)) = ToSet(values) \cap invocable
<1> DEFINE n == Len(values)
           next(y, i) == IF values[i] \in invocable \ ToSet(y) THEN Append(y, values[i]) ELSE y
           step == [i \in 1 .. n |-> [y \in Seq(S) |-> next(y, i)]]
           body(f) == [i \in 0 .. n |-> IF i = 0 THEN << >>
                                        ELSE IF values[i] \in invocable \ ToSet(f[i - 1])
                                        THEN Append(f[i - 1], values[i])
                                        ELSE f[i - 1]]
           filtered == CHOOSE f : f = body(f)
<1>1. n \in Nat /\ DOMAIN values = 1 .. n /\ \A i \in 1 .. n : values[i] \in S
  BY LenProperties, ElementOfSeq
<1>2. Filter(values, invocable) = filtered[n] BY DEF Filter
<1> HIDE DEF n
<1>3. PICK g \in [0 .. n -> Seq(S)] : Loops(g, n, << >>, step)
  <2>1. step \in [1 .. n -> [Seq(S) -> Seq(S)]]
    <3>1. \A i \in 1 .. n, y \in Seq(S) : next(y, i) \in Seq(S) BY <1>1, AppendRange
    <3> HIDE DEF next
    <3> QED BY <3>1
  <2>2. << >> \in Seq(S) OBVIOUS
  <2> HIDE DEF step
  <2> QED BY <1>1, <2>1, <2>2, Recursion
<1>4. g = body(g)
  <2>1. \A i \in 1 .. n : g[i] = next(g[i - 1], i)
    <3> TAKE i \in 1 .. n
    <3>1. i - 1 \in 0 .. n /\ g[i - 1] \in Seq(S) BY <1>1, <1>3
    <3> HIDE DEF next
    <3> QED BY <1>3, <3>1 DEF Loops
  <2>2. \A i \in 0 .. n : i # 0 => i \in 1 .. n BY <1>1
  <2>3. \A i \in 0 .. n : g[i] = body(g)[i] BY <1>3, <2>1, <2>2 DEF Loops
  <2> QED BY <1>3, <2>3
<1>5. filtered = body(filtered)
  <2>1. \E f : f = body(f) BY <1>4
  <2> HIDE DEF body
  <2> QED BY <2>1
<1> HIDE DEF filtered
<1>6. filtered[0] = << >> /\ \A i \in 1 .. n : filtered[i] = next(filtered[i - 1], i)
  <2>1. \A i \in 0 .. n : filtered[i] = IF i = 0 THEN << >> ELSE next(filtered[i - 1], i)
    BY <1>5
  <2>2. 0 \in 0 .. n /\ \A i \in 1 .. n : i # 0 /\ i \in 0 .. n BY <1>1
  <2> HIDE DEF next
  <2> QED BY <2>1, <2>2
<1> DEFINE seen(i) == {values[j] : j \in 1 .. i}
           Q == {i \in Int : i \in 0 .. n => /\ filtered[i] \in Seq(S)
                                             /\ ToSet(filtered[i]) = seen(i) \cap invocable}
<1>7. 0 \in Q
  <2>1. << >> \in Seq(S) /\ ToSet(<< >>) = {} BY DEF ToSet
  <2>2. seen(0) = {} OBVIOUS
  <2>3. filtered[0] \in Seq(S) /\ ToSet(filtered[0]) = {} BY <1>6, <2>1
  <2> HIDE DEF seen
  <2>4. ToSet(filtered[0]) = seen(0) \cap invocable BY <2>2, <2>3
  <2> QED BY <2>3, <2>4
<1>8. ASSUME NEW i \in 1 .. n, i - 1 \in Q PROVE i \in Q
  <2> DEFINE y == filtered[i - 1]
  <2>1. i - 1 \in 0 .. n BY <1>1
  <2>2. y \in Seq(S) /\ ToSet(y) = seen(i - 1) \cap invocable BY <1>8, <2>1
  <2>3. seen(i) = seen(i - 1) \cup {values[i]}
    <3>1. \A j \in 1 .. i : j = i \/ j \in 1 .. i - 1 BY <1>1
    <3>2. i \in 1 .. i /\ \A j \in 1 .. i - 1 : j \in 1 .. i BY <1>1
    <3> QED BY <3>1, <3>2
  <2>4. filtered[i] = next(y, i) /\ values[i] \in S BY <1>1, <1>6
  <2> HIDE DEF y, seen
  <2>5. CASE values[i] \in invocable \ ToSet(y)
    <3>1. filtered[i] = Append(y, values[i]) BY <2>4, <2>5
    <3>2. Append(y, values[i]) \in Seq(S)
          /\ ToSet(Append(y, values[i])) = ToSet(y) \cup {values[i]}
      BY <2>2, <2>4, AppendRange
    <3>3. ToSet(filtered[i]) = seen(i) \cap invocable BY <2>2, <2>3, <2>5, <3>1, <3>2
    <3>4. filtered[i] \in Seq(S) BY <3>1, <3>2
    <3> QED BY <3>3, <3>4
  <2>6. CASE values[i] \notin invocable \ ToSet(y)
    <3>1. filtered[i] = y BY <2>4, <2>6
    <3>2. ToSet(filtered[i]) = seen(i) \cap invocable BY <2>2, <2>3, <2>6, <3>1
    <3> QED BY <2>2, <3>1, <3>2
  <2> QED BY <2>5, <2>6
<1>9. n \in Q
  <2>1. 0 \in Int /\ n \in Int /\ 0 + 1 = 1 BY <1>1
  <2> HIDE DEF Q
  <2>2. 0 .. n \subseteq Q BY <1>7, <1>8, <2>1, Induction
  <2> QED BY <1>1, <2>2
<1>10. n \in 0 .. n /\ seen(n) = ToSet(values) BY <1>1 DEF ToSet
<1> QED BY <1>2, <1>9, <1>10

\* Trying the tail before the head leaves no alternative out.
LEMMA TriesAll ==
  ASSUME NEW S, NEW list \in Seq(S), list # << >>
  PROVE  Tries(list) \in Seq(S) /\ ToSet(Tries(list)) = ToSet(list)
<1>1. /\ Head(list) \in S /\ Tail(list) \in Seq(S) /\ Len(Tail(list)) = Len(list) - 1
      /\ \A i \in 1 .. Len(Tail(list)) : Tail(list)[i] = list[i + 1]
      /\ Head(list) = list[1] /\ Len(list) \in Nat /\ Len(list) > 0
  BY HeadTailProperties, EmptySeq, LenProperties
<1>2. DOMAIN list = 1 .. Len(list) /\ DOMAIN Tail(list) = 1 .. Len(list) - 1
  BY <1>1, LenProperties
<1>3. Tries(list) \in Seq(S) /\ ToSet(Tries(list)) = ToSet(Tail(list)) \cup {Head(list)}
  <2> DEFINE rest == Tail(list)
             first == Head(list)
  <2>1. Tries(list) = Append(rest, first) BY DEF Tries
  <2>2. rest \in Seq(S) /\ first \in S BY <1>1
  <2> HIDE DEF rest, first
  <2>3. Append(rest, first) \in Seq(S) /\ ToSet(Append(rest, first)) = ToSet(rest) \cup {first}
    BY <2>2, AppendRange
  <2> QED BY <2>1, <2>3 DEF rest, first
<1>4. ToSet(Tail(list)) = {list[i] : i \in 2 .. Len(list)}
  <2>1. \A i \in 1 .. Len(list) - 1 : i + 1 \in 2 .. Len(list) BY <1>1
  <2>2. ASSUME NEW i \in 2 .. Len(list) PROVE list[i] \in ToSet(Tail(list))
    <3>1. i - 1 \in 1 .. Len(list) - 1 /\ (i - 1) + 1 = i BY <1>1
    <3>2. Tail(list)[i - 1] = list[i] BY <1>1, <3>1
    <3> QED BY <1>2, <3>1, <3>2 DEF ToSet
  <2>3. ASSUME NEW x \in ToSet(Tail(list)) PROVE x \in {list[i] : i \in 2 .. Len(list)}
    <3>1. PICK i \in 1 .. Len(list) - 1 : x = Tail(list)[i] BY <1>2 DEF ToSet
    <3>2. x = list[i + 1] BY <1>1, <3>1
    <3> QED BY <2>1, <3>2
  <2> QED BY <2>2, <2>3
<1>5. ToSet(list) = {list[i] : i \in 2 .. Len(list)} \cup {list[1]}
  <2>1. 1 \in 1 .. Len(list) /\ \A i \in 2 .. Len(list) : i \in 1 .. Len(list) BY <1>1
  <2>2. \A i \in 1 .. Len(list) : i = 1 \/ i \in 2 .. Len(list) BY <1>1
  <2> QED BY <1>2, <2>1, <2>2 DEF ToSet
<1> QED BY <1>1, <1>3, <1>4, <1>5

\* A dispatch finds the alternative that equals the value, if there is one.
LEMMA DispatchIs ==
  ASSUME NEW S, NEW number, NEW values \in Seq(S), NEW invocable
  PROVE  DispatchFunc(number, values, invocable) =
           IF number \in ToSet(values) \cap invocable THEN number ELSE NoMatch
<1> DEFINE list == Filter(values, invocable)
<1>1. list \in Seq(S) /\ ToSet(list) = ToSet(values) \cap invocable BY FilterIs
<1>2. DispatchFunc(number, values, invocable) =
        IF list = << >> THEN NoMatch ELSE DispatchFuncImpl(number, list)
  BY DEF DispatchFunc
<1> HIDE DEF list
<1>3. CASE list = << >>
  <2>1. ToSet(list) = {} BY <1>3 DEF ToSet
  <2> QED BY <1>1, <1>2, <1>3, <2>1
<1>4. CASE list # << >>
  <2> DEFINE tries == Tries(list)
             matches == {i \in 1 .. Len(tries) : tries[i] = number}
             least == CHOOSE i \in matches : \A j \in matches : i <= j
  <2>1. tries \in Seq(S) /\ ToSet(tries) = ToSet(list) BY <1>1, <1>4, TriesAll
  <2>2. DispatchFuncImpl(number, list) = IF matches = {} THEN NoMatch ELSE tries[least]
    BY DEF DispatchFuncImpl
  <2> HIDE DEF tries
  <2>3. Len(tries) \in Nat /\ DOMAIN tries = 1 .. Len(tries) BY <2>1, LenProperties
  <2>4. matches = {} <=> number \notin ToSet(tries) BY <2>3 DEF ToSet
  <2>5. ASSUME matches # {} PROVE tries[least] = number
    <3>1. matches \subseteq Nat BY <2>3
    <3>2. \E i \in matches : \A j \in matches : i <= j
      <4> HIDE DEF matches
      <4> QED BY <2>5, <3>1, LeastNatural
    <3>3. least \in matches
      <4> HIDE DEF matches
      <4> QED BY <3>2
    <3> HIDE DEF least
    <3> QED BY <3>3
  <2> HIDE DEF matches, least
  <2> QED BY <1>1, <1>2, <1>4, <2>1, <2>2, <2>4, <2>5
<1> QED BY <1>3, <1>4

-----------------------------------------------------------------------------
\* Type correctness of a dispatch, and what it has resolved so far.
Alternatives == 0 .. KeyModulus - 1

CallOK ==
  call # NoCall =>
    call \in [keys : Seq(Nat), lists : Seq(Seq(Alternatives)), invocable : SUBSET Alternatives,
              items : Seq(Alternatives),
              status : {"resolving", "called", "aborted", "thrown"}]

\* No more dimensions are resolved than there are lists, and keys for them.
Resolved ==
  call # NoCall =>
    /\ Len(call.items) <= Len(call.lists)
    /\ Len(call.items) <= Len(call.keys)

CallInv == CallOK /\ Resolved /\ DispatchesByValue

\* Narrowing a key gives a number of the alternatives' width.
LEMMA ToEnumType == \A key \in Nat : ToEnum(key) \in Alternatives
<1> SUFFICES ASSUME NEW key \in Nat PROVE key % KeyModulus \in 0 .. KeyModulus - 1
  BY DEF ToEnum, Alternatives
<1>1. KeyModulus \in Int /\ KeyModulus > 0 BY DispatcherAssumption
<1> QED BY <1>1, Z3

\* Match is the one answer, or there is none.
LEMMA MatchIs ==
  ASSUME CallOK, call # NoCall,
         Len(call.items) < Len(call.lists), Len(call.items) < Len(call.keys)
  PROVE  /\ Match = NoMatch => Answers(Dimension) = {}
         /\ Match # NoMatch => Match \in Alternatives /\ Answers(Dimension) = {Match}
<1> DEFINE d == Dimension
           key == ToEnum(call.keys[d])
<1>1. /\ call.keys \in Seq(Nat) /\ call.lists \in Seq(Seq(Alternatives))
      /\ call.items \in Seq(Alternatives)
  BY DEF CallOK
<1>2. d \in 1 .. Len(call.keys) /\ d \in 1 .. Len(call.lists)
  <2>1. Len(call.items) \in Nat /\ Len(call.keys) \in Nat /\ Len(call.lists) \in Nat
    BY <1>1, LenProperties
  <2> QED BY <2>1 DEF Dimension
<1> HIDE DEF d
<1>3. call.keys[d] \in Nat /\ call.lists[d] \in Seq(Alternatives)
  BY <1>1, <1>2, ElementOfSeq
<1>4. key \in Alternatives BY <1>3, ToEnumType
<1>5. NoMatch \notin Alternatives BY DispatcherAssumption DEF Alternatives
<1> HIDE DEF key
<1>6. DispatchFunc(key, call.lists[d], call.invocable) =
        IF key \in ToSet(call.lists[d]) \cap call.invocable THEN key ELSE NoMatch
  BY <1>3, DispatchIs
<1>7. Match = IF key \in ToSet(call.lists[d]) \cap call.invocable THEN key ELSE NoMatch
  BY <1>6 DEF Match, d, key
<1>8. Answers(d) = {key} \cap ToSet(call.lists[d]) \cap call.invocable
  BY DEF Answers, key
<1>9. CASE key \in ToSet(call.lists[d]) \cap call.invocable
  <2>1. Match = key /\ Answers(d) = {key} BY <1>7, <1>8, <1>9
  <2> QED BY <1>4, <1>5, <2>1 DEF d
<1>10. CASE key \notin ToSet(call.lists[d]) \cap call.invocable
  <2>1. Match = NoMatch /\ Answers(d) = {} BY <1>7, <1>8, <1>10
  <2> QED BY <2>1 DEF d
<1> QED BY <1>9, <1>10

\* A call that begins has resolved nothing.
LEMMA BeginsCall ==
  ASSUME NEW keys \in Seq(Nat), NEW lists \in Seq(Seq(Alternatives)),
         NEW invocable \in SUBSET Alternatives, call' = Call(keys, lists, invocable)
  PROVE  CallInv'
<1>1. /\ call'.keys = keys /\ call'.lists = lists /\ call'.invocable = invocable
      /\ call'.items = << >> /\ call'.status = "resolving"
      /\ call' = [keys |-> keys, lists |-> lists, invocable |-> invocable,
                  items |-> << >>, status |-> "resolving"]
  BY DEF Call
<1>2. << >> \in Seq(Alternatives) /\ Len(<< >>) = 0 OBVIOUS
<1>3. CallOK' BY <1>1, <1>2 DEF CallOK
<1>4. Len(keys) \in Nat /\ Len(lists) \in Nat BY LenProperties
<1>5. Resolved' BY <1>1, <1>2, <1>4 DEF Resolved
<1>6. DispatchesByValue'
  <2>1. Len(call'.items) = 0 BY <1>1, <1>2
  <2>2. \A d \in 1 .. 0 : FALSE OBVIOUS
  <2> QED BY <1>1, <2>1, <2>2 DEF DispatchesByValue
<1> QED BY <1>3, <1>5, <1>6 DEF CallInv

\* A bounded sequence is a sequence.
LEMMA BoundedIsSeq ==
  ASSUME NEW T, NEW S, S \subseteq T, NEW n \in Nat, NEW s \in BoundedSeq(S, n)
  PROVE  s \in Seq(T)
<1>1. PICK m \in 0 .. n : s \in [1 .. m -> S] BY DEF BoundedSeq, SeqOf
<1>2. m \in Nat /\ s \in [1 .. m -> T] BY <1>1
<1> QED BY <1>2

\* Resolving one dimension keeps what was resolved before it.
LEMMA ResolveStep ==
  ASSUME CallInv, Resolve
  PROVE  CallInv'
<1> DEFINE n == Len(call.items)
<1>1. /\ call # NoCall /\ call.status = "resolving"
      /\ n < Len(call.lists) /\ n + 1 <= Len(call.keys)
      /\ call' = IF Match = NoMatch THEN [call EXCEPT !.status = "aborted"]
                 ELSE [call EXCEPT !.items = Append(call.items, Match)]
  BY DEF Resolve, Resolves, Dimension
<1>2. call \in [keys : Seq(Nat), lists : Seq(Seq(Alternatives)),
                invocable : SUBSET Alternatives, items : Seq(Alternatives),
                status : {"resolving", "called", "aborted", "thrown"}]
  BY <1>1 DEF CallInv, CallOK
<1>3. call.items \in Seq(Alternatives) /\ n \in Nat /\ Len(call.keys) \in Nat
      /\ Len(call.lists) \in Nat
  BY <1>2, LenProperties
<1>4. /\ Match = NoMatch => Answers(n + 1) = {}
      /\ Match # NoMatch => Match \in Alternatives /\ Answers(n + 1) = {Match}
  <2>1. n < Len(call.keys) BY <1>1, <1>3
  <2> QED BY <1>1, <2>1, MatchIs DEF CallInv, Dimension
<1>5. \A d \in 1 .. n : Answers(d) = {call.items[d]} BY <1>1 DEF CallInv, DispatchesByValue
<1>6. CASE Match = NoMatch
  <2>1. call' = [call EXCEPT !.status = "aborted"] BY <1>1, <1>6
  <2>2. /\ call'.keys = call.keys /\ call'.lists = call.lists
        /\ call'.invocable = call.invocable /\ call'.items = call.items
        /\ call'.status = "aborted"
    BY <1>2, <2>1
  <2>3. CallOK' BY <1>2, <2>1 DEF CallOK
  <2>4. Resolved' BY <1>1, <2>2 DEF CallInv, Resolved
  <2>5. \A d : Answers(d)' = Answers(d) BY <2>2 DEF Answers
  <2>6. DispatchesByValue'
    BY <1>4, <1>5, <1>6, <2>2, <2>5 DEF DispatchesByValue
  <2> QED BY <2>3, <2>4, <2>6 DEF CallInv
<1>7. CASE Match # NoMatch
  <2> DEFINE m == Match
             longer == Append(call.items, m)
  <2>1. call' = [call EXCEPT !.items = longer] BY <1>1, <1>7
  <2>2. m \in Alternatives /\ Answers(n + 1) = {m} BY <1>4, <1>7
  <2> HIDE DEF m
  <2>3. /\ longer \in Seq(Alternatives) /\ Len(longer) = n + 1
        /\ \A d \in 1 .. n : longer[d] = call.items[d]
        /\ longer[n + 1] = m
    BY <1>3, <2>2, AppendProperties
  <2> HIDE DEF longer
  <2>4. /\ call'.keys = call.keys /\ call'.lists = call.lists
        /\ call'.invocable = call.invocable /\ call'.items = longer
        /\ call'.status = "resolving"
    BY <1>1, <1>2, <2>1
  <2>5. CallOK' BY <1>2, <2>1, <2>3 DEF CallOK
  <2>6. Resolved' BY <1>1, <1>3, <2>3, <2>4 DEF Resolved
  <2>7. \A d : Answers(d)' = Answers(d) BY <2>4 DEF Answers
  <2>8. \A d \in 1 .. n + 1 : Answers(d)' = {longer[d]}
    <3>1. \A d \in 1 .. n + 1 : d = n + 1 \/ d \in 1 .. n BY <1>3
    <3> QED BY <1>5, <2>2, <2>3, <2>7, <3>1
  <2>9. DispatchesByValue' BY <2>3, <2>4, <2>8 DEF DispatchesByValue
  <2> QED BY <2>5, <2>6, <2>9 DEF CallInv
<1> QED BY <1>6, <1>7

\* A step that only ends the dispatch.
LEMMA EndStep ==
  ASSUME CallInv, call # NoCall, NEW status \in {"called", "thrown"},
         call' = [call EXCEPT !.status = status],
         status = "called" => Len(call.items) = Len(call.lists),
         status = "thrown" => Len(call.items) = Len(call.keys) /\ Len(call.items) < Len(call.lists)
  PROVE  CallInv'
<1>1. call \in [keys : Seq(Nat), lists : Seq(Seq(Alternatives)),
                invocable : SUBSET Alternatives, items : Seq(Alternatives),
                status : {"resolving", "called", "aborted", "thrown"}]
  BY DEF CallInv, CallOK
<1>2. /\ call'.keys = call.keys /\ call'.lists = call.lists
      /\ call'.invocable = call.invocable /\ call'.items = call.items
      /\ call'.status = status
  BY <1>1
<1>3. CallOK' BY <1>1 DEF CallOK
<1>4. Resolved' BY <1>2 DEF CallInv, Resolved
<1>5. \A d : Answers(d)' = Answers(d) BY <1>2 DEF Answers
<1>6. \A d \in 1 .. Len(call.items) : Answers(d) = {call.items[d]}
  BY DEF CallInv, DispatchesByValue
<1>7. DispatchesByValue' BY <1>2, <1>5, <1>6 DEF DispatchesByValue
<1> QED BY <1>3, <1>4, <1>7 DEF CallInv

\* Every step of a dispatch keeps its invariant.
LEMMA CallStep == CallInv /\ [CallNext]_call => CallInv'
<1> SUFFICES ASSUME CallInv, [CallNext]_call PROVE CallInv'
  OBVIOUS
<1>1. \A list \in Lists : list \in Seq(Alternatives)
  BY DispatcherAssumption DEF Alternatives
<1>2. ASSUME NEW values \in Lists, NEW number \in 0 .. KeyModulus - 1,
             NEW invocable \in SUBSET (0 .. KeyModulus - 1),
             BeginSingle(number, values, invocable)
      PROVE  CallInv'
  <2>1. call' = Call(<<number>>, <<values>>, invocable) BY <1>2 DEF BeginSingle
  <2>2. KeyModulus \in Nat BY DispatcherAssumption
  <2>3. number \in Nat BY <2>2
  <2>4. <<number>> \in Seq(Nat) BY <2>3
  <2>5. values \in Seq(Alternatives) BY <1>1
  <2>6. <<values>> \in Seq(Seq(Alternatives)) BY <2>5
  <2>7. invocable \in SUBSET Alternatives BY DEF Alternatives
  <2> QED BY <2>1, <2>4, <2>6, <2>7, BeginsCall
<1>3. ASSUME NEW lists \in BoundedSeq(Lists, MaxDimensions),
             NEW keys \in BoundedSeq(Keys, MaxDimensions), BeginMulti(keys, lists)
      PROVE  CallInv'
  <2>1. call' = Call(keys, lists, 0 .. KeyModulus - 1) BY <1>3 DEF BeginMulti
  <2>2. MaxDimensions \in Nat /\ Keys \subseteq Nat BY DispatcherAssumption
  <2>3. Lists \subseteq Seq(Alternatives) BY <1>1
  <2>4. keys \in Seq(Nat) BY <2>2, BoundedIsSeq
  <2>6. lists \in Seq(Seq(Alternatives)) BY <2>2, <2>3, BoundedIsSeq
  <2>7. 0 .. KeyModulus - 1 \in SUBSET Alternatives BY DEF Alternatives
  <2> QED BY <2>1, <2>4, <2>6, <2>7, BeginsCall
<1>4. CASE Resolve BY <1>4, ResolveStep
<1>5. CASE Throw
  <2>1. /\ call # NoCall /\ Len(call.items) < Len(call.lists)
        /\ Len(call.items) + 1 > Len(call.keys)
        /\ call' = [call EXCEPT !.status = "thrown"]
    BY <1>5 DEF Throw, Resolves, Dimension
  <2>2. Len(call.items) \in Nat /\ Len(call.keys) \in Nat
    BY <2>1, LenProperties DEF CallInv, CallOK
  <2>3. Len(call.items) = Len(call.keys) BY <2>1, <2>2 DEF CallInv, Resolved
  <2> QED BY <2>1, <2>3, EndStep
<1>6. CASE Invoke
  <2>1. /\ call # NoCall /\ ~(Len(call.items) < Len(call.lists))
        /\ call' = [call EXCEPT !.status = "called"]
    BY <1>6 DEF Invoke, Resolves
  <2>2. Len(call.items) \in Nat /\ Len(call.lists) \in Nat
    BY <2>1, LenProperties DEF CallInv, CallOK
  <2>3. Len(call.items) = Len(call.lists) BY <2>1, <2>2 DEF CallInv, Resolved
  <2> QED BY <2>1, <2>3, EndStep
<1>7. CASE Return
  BY <1>7 DEF Return, CallInv, CallOK, Resolved, DispatchesByValue
<1>8. CASE UNCHANGED call
  BY <1>8 DEF CallInv, CallOK, Resolved, DispatchesByValue, Answers
<1> QED BY <1>2, <1>3, <1>4, <1>5, <1>6, <1>7, <1>8 DEF CallNext

\* A dispatch over any lists, in which an alternative may be repeated, resolves
\* each dimension to the one alternative that equals its key, or aborts at the
\* first key without one (src/dispatcher.h:22-75, 163-187;
\* src/common/traits.h:147-156).
THEOREM DispatchCorrect == CallSpec => []DispatchesByValue
<1>1. CallInit => CallInv
  BY DEF CallInit, CallInv, CallOK, Resolved, DispatchesByValue
<1>2. CallInv => DispatchesByValue BY DEF CallInv
<1> QED BY <1>1, <1>2, CallStep, PTL DEF CallSpec

-----------------------------------------------------------------------------
\* The number of indices of the first dimensions.
Counts(c, v) ==
  /\ c \in [0 .. Ndim(v) -> Nat] /\ c[0] = 1
  /\ \A d \in 1 .. Ndim(v) : c[d] = c[d - 1] * v.shape[d]
LEMMA CountsLoop ==
  ASSUME NEW v \in Views
  PROVE  \E c : Counts(c, v) /\ Cardinality(Indices(v)) = c[Ndim(v)]
<1> DEFINE n == Ndim(v)
           c == [k \in 0 .. n |-> Cardinality(FirstIndices(v, k))]
           Q == {k \in Int : k \in 0 .. n => IsFiniteSet(FirstIndices(v, k)) /\ c[k] \in Nat}
<1>1. n \in Nat /\ \A d \in 1 .. n : v.shape[d] \in Nat BY ViewType
<1> HIDE DEF n
<1>2. 0 \in Q /\ c[0] = 1
  <2>1. 0 \in 0 .. n BY <1>1
  <2> QED BY <2>1, NoPrefix
<1>3. ASSUME NEW k \in 1 .. n, k - 1 \in Q
      PROVE  k \in Q /\ c[k] = c[k - 1] * v.shape[k]
  <2>1. k - 1 \in 0 .. n /\ k \in 0 .. n /\ k - 1 \in Int /\ v.shape[k] \in Nat BY <1>1
  <2>2. IsFiniteSet(FirstIndices(v, k - 1)) /\ c[k - 1] \in Nat BY <1>3, <2>1
  <2>3. /\ IsFiniteSet(FirstIndices(v, k))
        /\ Cardinality(FirstIndices(v, k)) = Cardinality(FirstIndices(v, k - 1)) * v.shape[k]
    BY <2>2, PrefixCount DEF n
  <2>4. c[k] = c[k - 1] * v.shape[k] BY <2>1, <2>3
  <2>5. c[k] \in Nat
    <3> HIDE DEF c
    <3> QED BY <2>1, <2>2, <2>4
  <2> QED BY <2>3, <2>4, <2>5
<1>4. \A k \in 0 .. n : k \in Q
  <2> HIDE DEF Q, c
  <2>1. 0 \in Int /\ n \in Int /\ \A k \in 0 + 1 .. n : k - 1 \in Q => k \in Q
    BY <1>1, <1>3
  <2>2. 0 .. n \subseteq Q BY <1>2, <2>1, Induction
  <2> QED BY <2>2
<1>5. c \in [0 .. n -> Nat] BY <1>4
<1>6. \A d \in 1 .. n : c[d] = c[d - 1] * v.shape[d]
  <2> TAKE d \in 1 .. n
  <2>1. d - 1 \in 0 .. n BY <1>1
  <2>2. d - 1 \in Q BY <1>4, <2>1
  <2> HIDE DEF Q, c
  <2> QED BY <1>3, <2>2
<1>7. c[n] = Cardinality(Indices(v))
  <2>1. Indices(v) = FirstIndices(v, n) BY IndicesAre DEF FirstIndices, n
  <2> QED BY <1>1, <2>1
<1> HIDE DEF c
<1> QED BY <1>2, <1>5, <1>6, <1>7 DEF Counts, n

\* An index is a place before the number of indices.
LEMMA PositionType ==
  ASSUME NEW v \in Views, NEW J \in Indices(v)
  PROVE  Position(v, J) \in 0 .. Cardinality(Indices(v)) - 1
<1> DEFINE n == Ndim(v)
<1>1. /\ n \in Nat /\ J \in [1 .. n -> Nat]
      /\ \A d \in 1 .. n : v.shape[d] \in Nat /\ J[d] < v.shape[d]
  BY ViewType, IndicesAre
<1>2. \A d \in 1 .. n : J[d] \in Int BY <1>1
<1>3. PICK f : Places(f, v, J) /\ Position(v, J) = f[n] BY <1>2, PositionLoop
<1>4. PICK c : Counts(c, v) /\ Cardinality(Indices(v)) = c[n] BY CountsLoop
<1> HIDE DEF n
<1>5. /\ f \in [0 .. n -> Int] /\ f[0] = 0
      /\ \A d \in 1 .. n : f[d] = f[d - 1] * v.shape[d] + J[d]
  BY <1>3 DEF Places, n
<1>6. /\ c \in [0 .. n -> Nat] /\ c[0] = 1
      /\ \A d \in 1 .. n : c[d] = c[d - 1] * v.shape[d]
  BY <1>4 DEF Counts, n
<1> DEFINE Q == {d \in Int : d \in 0 .. n => 0 <= f[d] /\ f[d] < c[d]}
<1>7. 0 \in Q BY <1>5, <1>6
<1>8. ASSUME NEW d \in 1 .. n, d - 1 \in Q PROVE d \in Q
  <2>1. d - 1 \in 0 .. n /\ d \in 0 .. n /\ d \in Int BY <1>1
  <2> DEFINE a == f[d - 1]
             b == c[d - 1]
             s == v.shape[d]
             j == J[d]
  <2>2. a \in Int /\ b \in Int /\ 0 <= a /\ a < b BY <1>5, <1>6, <1>8, <2>1
  <2>3. s \in Nat /\ j \in Nat /\ j < s BY <1>1
  <2>4. f[d] = a * s + j /\ c[d] = b * s BY <1>5, <1>6
  <2> HIDE DEF a, b, s, j
  <2>5. a * s >= 0 /\ (b - 1 - a) * s >= 0 /\ a * s \in Int /\ b * s \in Int
    BY <2>2, <2>3
  <2>6. (b - 1 - a) * s = b * s - s - a * s BY <2>2, <2>3
  <2>7. 0 <= a * s + j /\ a * s + j < b * s BY <2>3, <2>5, <2>6
  <2> QED BY <2>1, <2>4, <2>7
<1>9. \A d \in 0 .. n : d \in Q
  <2> HIDE DEF Q
  <2>1. 0 \in Int /\ n \in Int /\ \A d \in 0 + 1 .. n : d - 1 \in Q => d \in Q
    BY <1>1, <1>8
  <2>2. 0 .. n \subseteq Q BY <1>7, <2>1, Induction
  <2> QED BY <2>2
<1>10. n \in 0 .. n BY <1>1
<1>11. 0 <= f[n] /\ f[n] < c[n] /\ f[n] \in Int /\ c[n] \in Int
  BY <1>5, <1>6, <1>9, <1>10
<1> QED BY <1>3, <1>4, <1>11 DEF n

\* No two indices are in one place.
LEMMA PositionOnce ==
  ASSUME NEW v \in Views, NEW J \in Indices(v), NEW K \in Indices(v),
         Position(v, J) = Position(v, K)
  PROVE  J = K
<1> DEFINE n == Ndim(v)
<1>1. /\ n \in Nat /\ J \in [1 .. n -> Nat] /\ K \in [1 .. n -> Nat]
      /\ \A d \in 1 .. n : v.shape[d] \in Nat /\ J[d] < v.shape[d] /\ K[d] < v.shape[d]
  BY ViewType, IndicesAre
<1>2. \A d \in 1 .. n : J[d] \in Int /\ K[d] \in Int BY <1>1
<1>3. PICK f : Places(f, v, J) /\ Position(v, J) = f[n] BY <1>2, PositionLoop
<1>4. PICK g : Places(g, v, K) /\ Position(v, K) = g[n] BY <1>2, PositionLoop
<1> HIDE DEF n
<1>5. /\ f \in [0 .. n -> Int]
      /\ \A d \in 1 .. n : f[d] = f[d - 1] * v.shape[d] + J[d]
  BY <1>3 DEF Places, n
<1>6. /\ g \in [0 .. n -> Int]
      /\ \A d \in 1 .. n : g[d] = g[d - 1] * v.shape[d] + K[d]
  BY <1>4 DEF Places, n
<1>7. ASSUME NEW d \in 1 .. n, f[d] = g[d]
      PROVE  f[d - 1] = g[d - 1] /\ J[d] = K[d]
  <2>1. d - 1 \in 0 .. n BY <1>1
  <2> DEFINE a == f[d - 1]
             b == g[d - 1]
             s == v.shape[d]
             j == J[d]
             k == K[d]
  <2>2. a \in Int /\ b \in Int BY <1>5, <1>6, <2>1
  <2>3. s \in Nat /\ j \in Nat /\ j < s /\ k \in Nat /\ k < s BY <1>1
  <2>4. a * s + j = b * s + k BY <1>5, <1>6, <1>7
  <2> HIDE DEF a, b, s, j, k
  <2>5. (a - b) * s = k - j BY <2>2, <2>3, <2>4
  <2>6. a - b >= 1 => (a - b) * s >= s BY <2>2, <2>3
  <2>7. a - b <= -1 => (a - b) * s <= -s BY <2>2, <2>3
  <2>8. a = b BY <2>2, <2>3, <2>5, <2>6, <2>7
  <2>9. j = k BY <2>2, <2>3, <2>4, <2>8
  <2> QED BY <2>8, <2>9 DEF a, b, j, k
<1> DEFINE Q == {d \in Int : d \in 0 .. n => f[n - d] = g[n - d]}
<1>8. 0 \in Q
  <2>1. f[n] = g[n] BY <1>3, <1>4 DEF n
  <2>2. n - 0 = n BY <1>1
  <2> QED BY <2>1, <2>2
<1>9. ASSUME NEW d \in 1 .. n, d - 1 \in Q PROVE d \in Q
  <2>1. d - 1 \in 0 .. n /\ n - (d - 1) \in 1 .. n /\ (n - (d - 1)) - 1 = n - d BY <1>1
  <2>2. f[n - (d - 1)] = g[n - (d - 1)] BY <1>9, <2>1
  <2>3. f[n - d] = g[n - d] BY <1>7, <2>1, <2>2
  <2> QED BY <2>3
<1>10. 0 .. n \subseteq Q
  <2> HIDE DEF Q
  <2>1. 0 \in Int /\ n \in Int /\ \A d \in 0 + 1 .. n : d - 1 \in Q => d \in Q
    BY <1>1, <1>9
  <2> QED BY <1>8, <2>1, Induction
<1>11. \A d \in 1 .. n : J[d] = K[d]
  <2> TAKE d \in 1 .. n
  <2>1. n - d \in 0 .. n /\ n - (n - d) = d BY <1>1
  <2>2. f[d] = g[d] BY <1>10, <2>1
  <2> QED BY <1>7, <2>2
<1> QED BY <1>1, <1>11

\* Each place is that of an index.
LEMMA PositionAll ==
  ASSUME NEW v \in Views, NEW p \in 0 .. Cardinality(Indices(v)) - 1
  PROVE  \E J \in Indices(v) : Position(v, J) = p
<1> DEFINE S == Indices(v)
           N == Cardinality(S)
           T == 0 .. N - 1
           f == [J \in S |-> Position(v, J)]
<1>1. IsFiniteSet(S) /\ N \in Nat BY IndicesCounted
<1>2. f \in Injection(S, T)
  <2>1. f \in [S -> T] BY PositionType
  <2>2. \A J, K \in S : f[J] = f[K] => J = K BY PositionOnce
  <2> QED BY <2>1, <2>2 DEF Injection, IsInjective
<1> HIDE DEF N
<1>3. IsFiniteSet(T) /\ Cardinality(T) = N
  <2>1. 0 \in Int /\ N - 1 \in Int BY <1>1
  <2>2. Cardinality(T) = IF 0 > N - 1 THEN 0 ELSE (N - 1) - 0 + 1
    BY <2>1, FS_Interval
  <2> QED BY <1>1, <2>1, <2>2, FS_Interval
<1> HIDE DEF S, T, f
<1>4. Cardinality(S) = Cardinality(T) BY <1>3 DEF N
<1>5. f \in Surjection(S, T) BY <1>2, <1>3, <1>4, FS_Injection
<1>6. p \in T BY DEF T, N, S
<1>7. PICK J \in S : f[J] = p BY <1>5, <1>6 DEF Surjection
<1> QED BY <1>7 DEF f, S
-----------------------------------------------------------------------------
\* An index with a number in front of it.
Joined(i, K, n) == [d \in 1 .. n |-> IF d = 1 THEN i ELSE K[d - 1]]

\* It is behind that number in the view, ...
LEMMA JoinedIs ==
  ASSUME NEW v \in Views, Ndim(v) > 0, NEW i \in 0 .. v.shape[1] - 1,
         NEW K \in Indices(Subview(v, i))
  PROVE  /\ Joined(i, K, Ndim(v)) \in Indices(v)
         /\ Joined(i, K, Ndim(v))[1] = i
         /\ \A d \in 1 .. Ndim(v) - 1 : Joined(i, K, Ndim(v))[d + 1] = K[d]
         /\ Address(v, Joined(i, K, Ndim(v))) = Address(Subview(v, i), K)
<1> DEFINE n == Ndim(v)
           w == Subview(v, i)
           s == v.shape[1]
           J == Joined(i, K, n)
<1>1. n \in Nat /\ n > 0 /\ \A d \in 1 .. n : v.shape[d] \in Nat
  BY ViewType
<1>2. s \in Nat /\ i \in Nat /\ i < s /\ i \in Int BY <1>1
<1>3. w \in Views /\ Ndim(w) = n - 1 /\ \A d \in 1 .. n - 1 : w.shape[d] = v.shape[d + 1]
  BY <1>2, SubviewType
<1> HIDE DEF w
<1>4. K \in [1 .. n - 1 -> Nat] /\ \A d \in 1 .. n - 1 : K[d] < w.shape[d]
  BY <1>3, IndicesAre DEF w
<1> HIDE DEF n, s
<1>5. \A d \in 1 .. n : J[d] = IF d = 1 THEN i ELSE K[d - 1] BY DEF Joined
<1>6. \A d \in 1 .. n : d # 1 => d - 1 \in 1 .. n - 1 /\ (d - 1) + 1 = d BY <1>1
<1>7. J \in [1 .. n -> Nat]
  <2>1. \A d \in 1 .. n : (IF d = 1 THEN i ELSE K[d - 1]) \in Nat BY <1>2, <1>4, <1>6
  <2> QED BY <2>1 DEF Joined
<1> HIDE DEF J
<1>8. J[1] = i
  <2>1. 1 \in 1 .. n BY <1>1
  <2> QED BY <1>5, <2>1
<1>9. \A d \in 1 .. n - 1 : J[d + 1] = K[d]
  <2> TAKE d \in 1 .. n - 1
  <2>1. d + 1 \in 1 .. n /\ d + 1 # 1 /\ (d + 1) - 1 = d BY <1>1
  <2> QED BY <1>5, <2>1
<1>10. \A d \in 1 .. n : J[d] < v.shape[d]
  <2> TAKE d \in 1 .. n
  <2>1. CASE d = 1 BY <1>2, <1>8, <2>1 DEF s
  <2>2. CASE d # 1
    <3>1. d - 1 \in 1 .. n - 1 /\ (d - 1) + 1 = d BY <1>6, <2>2
    <3>2. J[d] = K[d - 1] BY <1>9, <3>1
    <3>3. w.shape[d - 1] = v.shape[d] BY <1>3, <3>1
    <3> QED BY <1>4, <3>1, <3>2, <3>3
  <2> QED BY <2>1, <2>2
<1>11. J \in Indices(v) BY <1>7, <1>10, IndicesAre DEF n
<1>12. Address(w, K) = Address(v, J)
  <2>1. \A d \in 1 .. Ndim(v) : J[d] \in Int BY <1>7 DEF n
  <2>2. EffectiveIndex(i, v.shape[1]) = i BY <1>2 DEF EffectiveIndex
  <2>3. \A d \in 1 .. Ndim(v) - 1 : K[d] = J[d + 1] BY <1>9 DEF n
  <2>4. J[1] = EffectiveIndex(i, v.shape[1]) BY <1>8, <2>2
  <2>5. i \in Int BY <1>2
  <2> HIDE DEF J
  <2> QED BY ONLY v \in Views, Ndim(v) > 0, <2>1, <2>3, <2>4, <2>5, SubviewAddress DEF w
<1> QED BY <1>8, <1>9, <1>11, <1>12 DEF J, n, w

\* ... and each index of the view is one.
LEMMA IndexIsJoined ==
  ASSUME NEW v \in Views, Ndim(v) > 0, NEW J \in Indices(v)
  PROVE  /\ J[1] \in 0 .. v.shape[1] - 1
         /\ \E K \in Indices(Subview(v, J[1])) : J = Joined(J[1], K, Ndim(v))
<1> DEFINE n == Ndim(v)
           i == J[1]
           w == Subview(v, i)
           K == [d \in 1 .. n - 1 |-> J[d + 1]]
<1>1. /\ n \in Nat /\ n > 0 /\ J \in [1 .. n -> Nat]
      /\ \A d \in 1 .. n : v.shape[d] \in Nat /\ J[d] < v.shape[d]
  BY ViewType, IndicesAre
<1>2. 1 \in 1 .. n BY <1>1
<1>3. i \in 0 .. v.shape[1] - 1 /\ i \in Int BY <1>1, <1>2
<1>4. w \in Views /\ Ndim(w) = n - 1 /\ \A d \in 1 .. n - 1 : w.shape[d] = v.shape[d + 1]
  BY <1>3, SubviewType
<1> HIDE DEF w
<1>5. \A d \in 1 .. n - 1 : d + 1 \in 1 .. n BY <1>1
<1>6. K \in [1 .. n - 1 -> Nat] /\ \A d \in 1 .. n - 1 : K[d] < w.shape[d]
  <2> HIDE DEF n
  <2> QED BY <1>1, <1>4, <1>5
<1>7. J = Joined(i, K, n)
  <2>1. \A d \in 1 .. n : J[d] = IF d = 1 THEN i ELSE K[d - 1]
    <3> TAKE d \in 1 .. n
    <3>1. d # 1 => d - 1 \in 1 .. n - 1 /\ (d - 1) + 1 = d BY <1>1
    <3> QED BY <3>1
  <2> HIDE DEF K, i, n
  <2>2. J = [d \in 1 .. n |-> J[d]] BY <1>1
  <2>3. [d \in 1 .. n |-> J[d]] = [d \in 1 .. n |-> IF d = 1 THEN i ELSE K[d - 1]] BY <2>1
  <2> QED BY <2>2, <2>3 DEF Joined
<1> HIDE DEF K, n
<1>8. K \in Indices(w) BY <1>4, <1>6, IndicesAre
<1> QED BY <1>3, <1>7, <1>8 DEF w, n

\* The subviews of a view have the same indices, in the same places.
LEMMA SubviewsAlike ==
  ASSUME NEW v \in Views, NEW i
  PROVE  /\ Indices(Subview(v, i)) = Indices(Subview(v, 0))
         /\ \A K : Position(Subview(v, i), K) = Position(Subview(v, 0), K)
<1> DEFINE w == Subview(v, i)
           x == Subview(v, 0)
<1>1. v \in [data : 0 .. Modulus - 1, shape : Seq(Nat), strides : Seq(Int), dtype : DataTypes]
  BY DEF Views
<1>2. w.shape = x.shape
  <2>1. w.shape = Tail(v.shape) BY <1>1 DEF Subview
  <2>2. x.shape = Tail(v.shape) BY <1>1 DEF Subview
  <2> QED BY <2>1, <2>2
<1> HIDE DEF w, x
<1>3. Indices(w) = Indices(x) BY <1>2 DEF Indices, Ndim
<1>4. \A K : Position(w, K) = Position(x, K) BY <1>2 DEF Position, Ndim
<1> QED BY <1>3, <1>4 DEF w, x

\* The indices behind one number come in the order of the subview, after
\* those behind the numbers before.
LEMMA PositionSplits ==
  ASSUME NEW v \in Views, Ndim(v) > 0
  PROVE  /\ Cardinality(Indices(v)) = v.shape[1] * Cardinality(Indices(Subview(v, 0)))
         /\ \A i \in 0 .. v.shape[1] - 1 : \A K \in Indices(Subview(v, i)) :
              Position(v, Joined(i, K, Ndim(v))) =
                i * Cardinality(Indices(Subview(v, 0))) + Position(Subview(v, i), K)
<1> DEFINE n == Ndim(v)
           x == Subview(v, 0)
           s == v.shape[1]
<1>1. n \in Nat /\ n > 0 /\ s \in Nat /\ \A d \in 1 .. n : v.shape[d] \in Nat BY ViewType
<1>2. x \in Views /\ Ndim(x) = n - 1 /\ \A d \in 1 .. n - 1 : x.shape[d] = v.shape[d + 1]
  BY SubviewType
<1>3. PICK c : Counts(c, v) /\ Cardinality(Indices(v)) = c[n] BY CountsLoop
<1>4. PICK b : Counts(b, x) /\ Cardinality(Indices(x)) = b[n - 1] BY <1>2, CountsLoop
<1> HIDE DEF x, n, s
<1>5. /\ c \in [0 .. n -> Nat] /\ c[0] = 1
      /\ \A d \in 1 .. n : c[d] = c[d - 1] * v.shape[d]
  BY <1>3 DEF Counts, n
<1>6. /\ b \in [0 .. n - 1 -> Nat] /\ b[0] = 1
      /\ \A d \in 1 .. n - 1 : b[d] = b[d - 1] * v.shape[d + 1]
  BY <1>2, <1>4 DEF Counts
<1>7. c[n] = s * b[n - 1]
  <2> DEFINE Q == {d \in Int : d \in 0 .. n - 1 => c[d + 1] = s * b[d]}
  <2>1. 0 \in Q
    <3>1. 1 \in 1 .. n /\ 1 - 1 = 0 /\ 0 + 1 = 1 BY <1>1
    <3>2. c[1] = 1 * v.shape[1] BY <1>5, <3>1
    <3> QED BY <1>1, <1>6, <3>1, <3>2 DEF s
  <2>2. ASSUME NEW d \in 1 .. n - 1, d - 1 \in Q PROVE d \in Q
    <3> DEFINE p == b[d - 1]
               t == v.shape[d + 1]
    <3>1. d - 1 \in 0 .. n - 1 /\ (d - 1) + 1 = d /\ d + 1 \in 1 .. n /\ (d + 1) - 1 = d
          /\ d \in Int
      BY <1>1
    <3>2. c[d] = s * p BY <2>2, <3>1
    <3>3. c[d + 1] = c[d] * t BY <1>5, <3>1
    <3>4. b[d] = p * t BY <1>6
    <3>5. p \in Nat /\ t \in Nat BY <1>1, <1>6, <3>1
    <3> HIDE DEF p, t
    <3>6. (s * p) * t = s * (p * t) BY <1>1, <3>5
    <3> QED BY <3>1, <3>2, <3>3, <3>4, <3>6
  <2> DEFINE m == n - 1
  <2>3. 0 \in Int /\ m \in Int /\ \A d \in 0 + 1 .. m : d - 1 \in Q => d \in Q BY <1>1, <2>2
  <2>4. m \in 0 .. m /\ m + 1 = n /\ m = n - 1 BY <1>1
  <2> HIDE DEF Q, m
  <2>5. 0 .. m \subseteq Q BY <2>1, <2>3, Induction
  <2>6. m \in Q BY <2>4, <2>5
  <2> QED BY <2>4, <2>6 DEF Q
<1>8. ASSUME NEW i \in 0 .. s - 1, NEW K \in Indices(Subview(v, i))
      PROVE  Position(v, Joined(i, K, n)) = i * b[n - 1] + Position(Subview(v, i), K)
  <2> DEFINE w == Subview(v, i)
             J == Joined(i, K, n)
  <2>1. i \in Nat /\ i \in Int /\ i \in 0 .. v.shape[1] - 1 /\ Ndim(v) > 0 BY <1>1 DEF s, n
  <2>2. w \in Views /\ Ndim(w) = n - 1 /\ \A d \in 1 .. n - 1 : w.shape[d] = v.shape[d + 1]
    BY <2>1, SubviewType DEF n
  <2>3. J \in Indices(v) /\ J[1] = i /\ \A d \in 1 .. n - 1 : J[d + 1] = K[d]
    BY <2>1, JoinedIs DEF n
  <2>4. K \in [1 .. n - 1 -> Nat] BY <2>2, IndicesAre
  <2>5. J \in [1 .. n -> Nat] BY <2>3, IndicesAre DEF n
  <2> HIDE DEF w, J
  <2>6. \A d \in 1 .. Ndim(v) : J[d] \in Int BY <2>5 DEF n
  <2>7. \A d \in 1 .. Ndim(w) : K[d] \in Int BY <2>2, <2>4
  <2>8. PICK f : Places(f, v, J) /\ Position(v, J) = f[n] BY <2>6, PositionLoop DEF n
  <2>9. PICK g : Places(g, w, K) /\ Position(w, K) = g[n - 1] BY <2>2, <2>7, PositionLoop
  <2>10. /\ f \in [0 .. n -> Int] /\ f[0] = 0
         /\ \A d \in 1 .. n : f[d] = f[d - 1] * v.shape[d] + J[d]
    BY <2>8 DEF Places, n
  <2>11. /\ g \in [0 .. n - 1 -> Int] /\ g[0] = 0
         /\ \A d \in 1 .. n - 1 : g[d] = g[d - 1] * v.shape[d + 1] + K[d]
    BY <2>2, <2>9 DEF Places
  <2> DEFINE Q == {d \in Int : d \in 0 .. n - 1 => f[d + 1] = i * b[d] + g[d]}
  <2>12. 0 \in Q
    <3>1. 1 \in 1 .. n /\ 1 - 1 = 0 /\ 0 + 1 = 1 BY <1>1
    <3>2. f[1] = 0 * v.shape[1] + i BY <2>3, <2>10, <3>1
    <3>3. v.shape[1] \in Nat BY <1>1 DEF s
    <3>4. f[0 + 1] = i /\ i * b[0] + g[0] = i BY <1>6, <2>1, <2>11, <3>1, <3>2, <3>3
    <3> QED BY <3>4
  <2>13. ASSUME NEW d \in 1 .. n - 1, d - 1 \in Q PROVE d \in Q
    <3> DEFINE p == b[d - 1]
               q == g[d - 1]
               t == v.shape[d + 1]
               k == K[d]
    <3>1. d - 1 \in 0 .. n - 1 /\ (d - 1) + 1 = d /\ d + 1 \in 1 .. n /\ (d + 1) - 1 = d
          /\ d \in Int
      BY <1>1
    <3>2. f[d] = i * p + q BY <2>13, <3>1
    <3>3. f[d + 1] = f[d] * t + k BY <2>3, <2>10, <3>1
    <3>4. b[d] = p * t /\ g[d] = q * t + k BY <1>6, <2>11
    <3>5. p \in Nat /\ t \in Nat /\ q \in Int /\ k \in Int BY <1>1, <1>6, <2>4, <2>11, <3>1
    <3> HIDE DEF p, q, t, k
    <3>6. (i * p + q) * t + k = i * (p * t) + (q * t + k) BY <2>1, <3>5
    <3>7. f[d + 1] = i * b[d] + g[d] BY <3>2, <3>3, <3>4, <3>6
    <3> QED BY <3>1, <3>7
  <2> DEFINE m == n - 1
  <2>14. 0 \in Int /\ m \in Int /\ \A d \in 0 + 1 .. m : d - 1 \in Q => d \in Q
    <3> HIDE DEF Q
    <3> QED BY <1>1, <2>13
  <2>15. m \in 0 .. m /\ m + 1 = n /\ m = n - 1 BY <1>1
  <2> HIDE DEF Q, m
  <2>16. 0 .. m \subseteq Q BY <2>12, <2>14, Induction
  <2>17. m \in Q BY <2>15, <2>16
  <2>18. f[n] = i * b[n - 1] + g[n - 1] BY <2>15, <2>17 DEF Q
  <2> QED BY <2>8, <2>9, <2>18 DEF w, J
<1> QED BY <1>3, <1>4, <1>7, <1>8 DEF n, s, x
-----------------------------------------------------------------------------
\* What ToStringHelper makes of the texts of a view's rows, ...
Printed(s, row) ==
  LET text[i \in 0 .. s] ==
        IF i = 0 THEN <<LeftBracket>>
        ELSE text[i - 1] \o row[i - 1] \o <<Comma, Space>>
  IN  IF row[0] \in {Aborts, Undefined} THEN row[0] ELSE Closed(text[s])

\* ... and of a view, given what it makes of others.
Prints(f, v) ==
  IF Ndim(v) = 0 THEN Scalar(v)
  ELSE IF v.shape[1] = 0 THEN Undefined
  ELSE Printed(v.shape[1], [i \in 0 .. v.shape[1] - 1 |-> f[Subview(v, i)]])

\* Tables of what is printed of the views of up to n dimensions.
Upto(n) == {v \in Views : Ndim(v) <= n}
Tabulates(f, n) == \A v \in Upto(n) : f[v] = Prints(f, v)

\* The rows decide what is printed.
LEMMA RowsDecide ==
  ASSUME NEW v \in Views, NEW f, NEW g,
         Ndim(v) # 0 => \A i \in 0 .. v.shape[1] - 1 : f[Subview(v, i)] = g[Subview(v, i)]
  PROVE  Prints(f, v) = Prints(g, v)
<1>1. CASE Ndim(v) = 0 BY <1>1 DEF Prints
<1>2. CASE Ndim(v) # 0
  <2>1. [i \in 0 .. v.shape[1] - 1 |-> f[Subview(v, i)]]
        = [i \in 0 .. v.shape[1] - 1 |-> g[Subview(v, i)]]
    BY <1>2
  <2> QED BY <2>1 DEF Prints
<1> QED BY <1>1, <1>2

\* The rows of a view have a dimension less.
LEMMA RowsUpto ==
  ASSUME NEW n \in Nat, NEW v \in Upto(n), Ndim(v) # 0, NEW i \in 0 .. v.shape[1] - 1
  PROVE  n > 0 /\ Subview(v, i) \in Upto(n - 1)
<1>1. v \in Views /\ Ndim(v) <= n BY DEF Upto
<1>2. Ndim(v) \in Nat /\ Ndim(v) > 0 /\ i \in Int BY <1>1, ViewType
<1>3. Subview(v, i) \in Views /\ Ndim(Subview(v, i)) = Ndim(v) - 1 BY <1>1, <1>2, SubviewType
<1> QED BY <1>1, <1>2, <1>3 DEF Upto

\* Two tables agree.
LEMMA TablesAgree ==
  ASSUME NEW n \in Nat, NEW k \in Nat, k <= n, NEW f, NEW g, Tabulates(f, n), Tabulates(g, k)
  PROVE  \A v \in Upto(k) : f[v] = g[v]
<1> DEFINE P == {d \in Int : d <= k => \A v \in Upto(d) : f[v] = g[v]}
<1>1. ASSUME NEW d \in 0 .. k, d = 0 \/ d - 1 \in P PROVE d \in P
  <2>1. d \in Nat /\ d <= n /\ d <= k /\ d \in Int OBVIOUS
  <2>2. ASSUME NEW v \in Upto(d) PROVE f[v] = g[v]
    <3>1. v \in Upto(n) /\ v \in Upto(k) /\ v \in Views
      <4>1. v \in Views /\ Ndim(v) <= d BY DEF Upto
      <4>2. Ndim(v) \in Nat BY <4>1, ViewType
      <4> QED BY <2>1, <4>1, <4>2 DEF Upto
    <3>2. Ndim(v) # 0 => \A i \in 0 .. v.shape[1] - 1 : f[Subview(v, i)] = g[Subview(v, i)]
      <4> SUFFICES ASSUME Ndim(v) # 0, NEW i \in 0 .. v.shape[1] - 1
                   PROVE  f[Subview(v, i)] = g[Subview(v, i)]
        OBVIOUS
      <4>1. d > 0 /\ Subview(v, i) \in Upto(d - 1) BY <2>1, RowsUpto
      <4>2. d - 1 \in P /\ d - 1 <= k BY <1>1, <2>1, <4>1
      <4> QED BY <4>1, <4>2
    <3> HIDE DEF P
    <3>3. Prints(f, v) = Prints(g, v) BY <3>1, <3>2, RowsDecide
    <3> QED BY <3>1, <3>3 DEF Tabulates
  <2> QED BY <2>1, <2>2
<1> HIDE DEF P
<1>2. 0 .. k \subseteq P
  <2>1. 0 \in 0 .. k /\ 0 \in Int /\ k \in Int OBVIOUS
  <2>2. 0 \in P BY <1>1, <2>1
  <2>3. \A d \in 0 + 1 .. k : d - 1 \in P => d \in P
    <3> TAKE d \in 0 + 1 .. k
    <3>1. d \in 0 .. k OBVIOUS
    <3> QED BY <1>1, <3>1
  <2> QED BY <2>1, <2>2, <2>3, Induction
<1>3. k \in P BY <1>2
<1> QED BY <1>3 DEF P

\* There are tables of any number of dimensions.
LEMMA TablesExist == \A n \in Nat : \E f : Tabulates(f, n)
<1> DEFINE P == {n \in Int : \E f : Tabulates(f, n)}
<1>1. 0 \in P
  <2> DEFINE f == [v \in Views |-> Scalar(v)]
  <2>1. Tabulates(f, 0)
    <3> SUFFICES ASSUME NEW v \in Upto(0) PROVE f[v] = Prints(f, v)
      BY DEF Tabulates
    <3>1. v \in Views /\ Ndim(v) = 0
      <4>1. v \in Views /\ Ndim(v) <= 0 BY DEF Upto
      <4>2. Ndim(v) \in Nat BY <4>1, ViewType
      <4> QED BY <4>1, <4>2
    <3>2. f[v] = Scalar(v) BY <3>1
    <3> QED BY <3>1, <3>2 DEF Prints
  <2> HIDE DEF f
  <2> QED BY <2>1
<1>2. ASSUME NEW n \in Nat, n - 1 \in P, n > 0 PROVE n \in P
  <2>1. PICK f : Tabulates(f, n - 1) BY <1>2
  <2> DEFINE g == [v \in Views |-> IF Ndim(v) <= n - 1 THEN f[v] ELSE Prints(f, v)]
  <2>2. n - 1 \in Nat /\ n \in Int BY <1>2
  <2>3. \A v \in Upto(n - 1) : g[v] = f[v] BY DEF Upto
  <2>4. ASSUME NEW v \in Upto(n) PROVE g[v] = Prints(f, v)
    <3>1. v \in Views BY DEF Upto
    <3>2. CASE Ndim(v) <= n - 1
      <4>1. v \in Upto(n - 1) BY <3>1, <3>2 DEF Upto
      <4> QED BY <2>1, <2>3, <4>1 DEF Tabulates
    <3>3. CASE ~(Ndim(v) <= n - 1) BY <3>1, <3>3
    <3> QED BY <3>2, <3>3
  <2> HIDE DEF g
  <2>5. ASSUME NEW v \in Upto(n) PROVE Prints(f, v) = Prints(g, v)
    <3>1. v \in Views BY DEF Upto
    <3>2. Ndim(v) # 0 => \A i \in 0 .. v.shape[1] - 1 : f[Subview(v, i)] = g[Subview(v, i)]
      <4> SUFFICES ASSUME Ndim(v) # 0, NEW i \in 0 .. v.shape[1] - 1
                   PROVE  f[Subview(v, i)] = g[Subview(v, i)]
        OBVIOUS
      <4>1. Subview(v, i) \in Upto(n - 1) BY RowsUpto
      <4> QED BY <2>3, <4>1
    <3> QED BY <3>1, <3>2, RowsDecide
  <2>6. Tabulates(g, n) BY <2>4, <2>5 DEF Tabulates
  <2> QED BY <2>2, <2>6
<1> HIDE DEF P
<1>3. ASSUME NEW n \in Nat PROVE n \in P
  <2>1. 0 \in Int /\ n \in Int OBVIOUS
  <2>2. \A d \in 0 + 1 .. n : d - 1 \in P => d \in P
    <3> TAKE d \in 0 + 1 .. n
    <3>1. d \in Nat /\ d > 0 OBVIOUS
    <3> QED BY <1>2, <3>1
  <2>3. 0 .. n \subseteq P BY <1>1, <2>1, <2>2, Induction
  <2> QED BY <2>3
<1> QED BY <1>3 DEF P

\* The text of a view is found from those of its rows.
LEMMA PrintsFromRows ==
  ASSUME NEW v \in Views
  PROVE  ToStringHelper[v] = Prints(ToStringHelper, v)
<1> DEFINE Table(n) == CHOOSE f : Tabulates(f, n)
           F == [w \in Views |-> Table(Ndim(w))[w]]
           body(f) == [w \in Views |-> Prints(f, w)]
<1>1. \A n \in Nat : Tabulates(Table(n), n) BY TablesExist
<1> HIDE DEF Table
<1>2. ASSUME NEW w \in Views PROVE F[w] = Prints(F, w)
  <2> DEFINE n == Ndim(w)
             T == Table(n)
  <2>1. n \in Nat /\ w \in Upto(n) BY ViewType DEF Upto
  <2> HIDE DEF n
  <2>2. Tabulates(T, n) BY <1>1, <2>1
  <2>3. ASSUME NEW x \in Upto(n) PROVE F[x] = T[x]
    <3>1. x \in Views /\ Ndim(x) <= n /\ Ndim(x) \in Nat
      <4>1. x \in Views /\ Ndim(x) <= n BY DEF Upto
      <4> QED BY <4>1, ViewType
    <3>2. F[x] = Table(Ndim(x))[x] BY <3>1
    <3>3. Tabulates(Table(Ndim(x)), Ndim(x)) BY <1>1, <3>1
    <3>4. x \in Upto(Ndim(x)) BY <3>1 DEF Upto
    <3> HIDE DEF F
    <3>5. T[x] = Table(Ndim(x))[x] BY <2>1, <2>2, <3>1, <3>3, <3>4, TablesAgree
    <3> QED BY <3>2, <3>5
  <2> HIDE DEF F, T
  <2>4. Ndim(w) # 0 => \A i \in 0 .. w.shape[1] - 1 : F[Subview(w, i)] = T[Subview(w, i)]
    <3> SUFFICES ASSUME Ndim(w) # 0, NEW i \in 0 .. w.shape[1] - 1
                 PROVE  F[Subview(w, i)] = T[Subview(w, i)]
      OBVIOUS
    <3>1. Subview(w, i) \in Upto(n - 1) /\ n > 0 BY <2>1, RowsUpto
    <3>2. Subview(w, i) \in Upto(n)
      <4>1. Subview(w, i) \in Views /\ Ndim(Subview(w, i)) <= n - 1 BY <3>1 DEF Upto
      <4>2. Ndim(Subview(w, i)) \in Nat BY <4>1, ViewType
      <4> QED BY <2>1, <4>1, <4>2 DEF Upto
    <3> QED BY <2>3, <3>2
  <2>5. Prints(F, w) = Prints(T, w) BY <2>4, RowsDecide
  <2> QED BY <2>1, <2>2, <2>3, <2>5 DEF Tabulates
<1>3. F = body(F) BY <1>2
<1>4. \E f : f = body(f)
  <2> HIDE DEF body, F
  <2> QED BY <1>3
<1>5. ToStringHelper = CHOOSE f : f = body(f)
  BY DEF ToStringHelper, Prints, Printed
<1>6. ToStringHelper = body(ToStringHelper)
  <2> HIDE DEF body
  <2> QED BY <1>4, <1>5
<1> QED BY <1>6
-----------------------------------------------------------------------------
\* Texts, and one behind the other.
Texts == Seq(Int)
Cat(s, t) == s \o t
LEMMA CatLaws ==
  /\ << >> \in Texts
  /\ \A s, t \in Texts : Cat(s, t) \in Texts
  /\ \A s \in Texts : Cat(s, << >>) = s /\ Cat(<< >>, s) = s
  /\ \A s, t, u \in Texts : Cat(Cat(s, t), u) = Cat(s, Cat(t, u))
<1>1. << >> \in Texts BY EmptySeq DEF Texts
<1>2. \A s, t \in Texts : Cat(s, t) \in Texts BY ConcatProperties DEF Texts, Cat
<1>3. \A s \in Texts : Cat(s, << >>) = s /\ Cat(<< >>, s) = s
  BY ConcatEmptySeq DEF Texts, Cat
<1>4. ASSUME NEW s \in Texts, NEW t \in Texts, NEW u \in Texts
      PROVE  Cat(Cat(s, t), u) = Cat(s, Cat(t, u))
  <2> DEFINE l == (s \o t) \o u
             r == s \o (t \o u)
  <2>1. s \o t \in Seq(Int) /\ t \o u \in Seq(Int) BY <1>2 DEF Texts, Cat
  <2>2. l \in Seq(Int) /\ r \in Seq(Int) BY <2>1, ConcatProperties DEF Texts
  <2>3. l = r BY <2>1, <2>2, SMT DEF Texts
  <2> HIDE DEF l, r
  <2>4. l = r BY <2>3
  <2> QED BY <2>4 DEF Cat, l, r
<1> QED BY <1>1, <1>2, <1>3, <1>4

\* The dimensions from which on all are in a set, as the rows that an element
\* begins or ends are.
Suffix(n, T) == {d \in 1 .. n : \A e \in d .. n : e \in T}

\* A dimension in front moves them, and is one if all others are.
LEMMA SuffixSplits ==
  ASSUME NEW n \in Nat, n > 0, NEW T, NEW U,
         \A d \in 1 .. n - 1 : d + 1 \in T <=> d \in U
  PROVE  /\ Suffix(n, T) = {d + 1 : d \in Suffix(n - 1, U)}
                             \cup (IF 1 \in T /\ Suffix(n - 1, U) = 1 .. n - 1 THEN {1} ELSE {})
         /\ Suffix(n, T) = 1 .. n <=> 1 \in T /\ Suffix(n - 1, U) = 1 .. n - 1
<1> DEFINE A == Suffix(n, T)
           B == Suffix(n - 1, U)
<1>1. \A d \in 1 .. n - 1 : d + 1 \in A <=> d \in B
  <2> SUFFICES ASSUME NEW d \in 1 .. n - 1 PROVE d + 1 \in A <=> d \in B OBVIOUS
  <2>1. d + 1 \in 1 .. n /\ d \in Int BY SMT
  <2>2. ASSUME \A e \in d + 1 .. n : e \in T PROVE \A e \in d .. n - 1 : e \in U
    <3> TAKE e \in d .. n - 1
    <3>1. e \in 1 .. n - 1 /\ e + 1 \in d + 1 .. n BY SMT
    <3> QED BY <2>2, <3>1
  <2>3. ASSUME \A e \in d .. n - 1 : e \in U PROVE \A e \in d + 1 .. n : e \in T
    <3> TAKE e \in d + 1 .. n
    <3>1. e - 1 \in 1 .. n - 1 /\ e - 1 \in d .. n - 1 /\ (e - 1) + 1 = e BY SMT
    <3> QED BY <2>3, <3>1
  <2> QED BY <2>1, <2>2, <2>3 DEF Suffix
<1>2. 1 \in A <=> 1 \in T /\ B = 1 .. n - 1
  <2>1. 1 \in A <=> \A e \in 1 .. n : e \in T BY DEF Suffix
  <2>2. B = 1 .. n - 1 <=> \A e \in 1 .. n - 1 : e \in U
    <3>1. ASSUME B = 1 .. n - 1, NEW e \in 1 .. n - 1 PROVE e \in U
      <4>1. e \in B /\ e \in e .. n - 1 BY <3>1
      <4> QED BY <4>1 DEF Suffix
    <3>2. ASSUME \A e \in 1 .. n - 1 : e \in U PROVE B = 1 .. n - 1
      <4>1. \A d \in 1 .. n - 1 : \A e \in d .. n - 1 : e \in 1 .. n - 1 OBVIOUS
      <4> QED BY <3>2, <4>1 DEF Suffix
    <3> QED BY <3>1, <3>2
  <2>3. (\A e \in 1 .. n : e \in T) <=> 1 \in T /\ \A e \in 1 .. n - 1 : e \in U
    <3>1. ASSUME \A e \in 1 .. n : e \in T, NEW e \in 1 .. n - 1 PROVE e \in U
      <4>1. e + 1 \in 1 .. n OBVIOUS
      <4> QED BY <3>1, <4>1
    <3>2. ASSUME 1 \in T, \A e \in 1 .. n - 1 : e \in U, NEW e \in 1 .. n PROVE e \in T
      <4>1. e # 1 => e - 1 \in 1 .. n - 1 /\ (e - 1) + 1 = e OBVIOUS
      <4> QED BY <3>2, <4>1
    <3>3. 1 \in 1 .. n OBVIOUS
    <3> QED BY <3>1, <3>2, <3>3
  <2> QED BY <2>1, <2>2, <2>3
<1>3. A \subseteq 1 .. n /\ B \subseteq 1 .. n - 1 BY DEF Suffix
<1> HIDE DEF A, B
<1>4. \A d \in A : d # 1 => d - 1 \in B /\ (d - 1) + 1 = d
  <2> TAKE d \in A
  <2>1. d \in 1 .. n BY <1>3
  <2>2. d # 1 => d - 1 \in 1 .. n - 1 /\ (d - 1) + 1 = d BY <2>1
  <2> QED BY <1>1, <2>2
<1>5. \A d \in B : d + 1 \in A BY <1>1, <1>3
<1>6. A = {d + 1 : d \in B} \cup (IF 1 \in T /\ B = 1 .. n - 1 THEN {1} ELSE {})
  <2>1. ASSUME NEW d \in A
        PROVE  d \in {e + 1 : e \in B} \cup (IF 1 \in T /\ B = 1 .. n - 1 THEN {1} ELSE {})
    <3>1. CASE d = 1 BY <1>2, <3>1
    <3>2. CASE d # 1 BY <1>4, <3>2
    <3> QED BY <3>1, <3>2
  <2>2. ASSUME NEW d \in {e + 1 : e \in B} \cup (IF 1 \in T /\ B = 1 .. n - 1 THEN {1} ELSE {})
        PROVE  d \in A
    <3>1. CASE d \in {e + 1 : e \in B} BY <1>5, <3>1
    <3>2. CASE d \notin {e + 1 : e \in B} BY <1>2, <3>2
    <3> QED BY <3>1, <3>2
  <2> QED BY <2>1, <2>2
<1>7. A = 1 .. n <=> 1 \in T /\ B = 1 .. n - 1
  <2>1. ASSUME A = 1 .. n PROVE 1 \in T /\ B = 1 .. n - 1
    <3>1. 1 \in A BY <2>1
    <3> QED BY <1>2, <3>1
  <2>2. ASSUME 1 \in T, B = 1 .. n - 1, NEW d \in 1 .. n PROVE d \in A
    <3>1. CASE d = 1 BY <1>2, <2>2, <3>1
    <3>2. CASE d # 1
      <4>1. d - 1 \in B /\ (d - 1) + 1 = d BY <2>2, <3>2
      <4> QED BY <1>5, <4>1
    <3> QED BY <3>1, <3>2
  <2> QED BY <1>3, <2>1, <2>2
<1> QED BY <1>6, <1>7 DEF A, B

\* There are then as many brackets as before, or one more at either end.
LEMMA BracketsSplit ==
  ASSUME NEW n \in Nat, n > 0, NEW T, NEW U, NEW bracket \in Int,
         \A d \in 1 .. n - 1 : d + 1 \in T <=> d \in U
  PROVE  /\ Brackets(bracket, Suffix(n - 1, U)) \in Texts
         /\ Brackets(bracket, Suffix(n, T)) =
              Cat(IF 1 \in T /\ Suffix(n - 1, U) = 1 .. n - 1 THEN <<bracket>> ELSE << >>,
                  Brackets(bracket, Suffix(n - 1, U)))
         /\ Brackets(bracket, Suffix(n, T)) =
              Cat(Brackets(bracket, Suffix(n - 1, U)),
                  IF 1 \in T /\ Suffix(n - 1, U) = 1 .. n - 1 THEN <<bracket>> ELSE << >>)
<1> DEFINE A == Suffix(n, T)
           B == Suffix(n - 1, U)
           C == {d + 1 : d \in B}
           more == 1 \in T /\ B = 1 .. n - 1
           one == IF more THEN <<bracket>> ELSE << >>
           b == Cardinality(B)
<1>1. A = C \cup (IF more THEN {1} ELSE {}) BY SuffixSplits
<1>2. B \subseteq 1 .. n - 1 BY DEF Suffix
<1> HIDE DEF A, B
<1>3. IsFiniteSet(B) /\ b \in Nat
  <2>1. n - 1 \in Int /\ 1 \in Int OBVIOUS
  <2>2. IsFiniteSet(1 .. n - 1) BY <2>1, FS_Interval
  <2>3. IsFiniteSet(B) BY <1>2, <2>2, FS_Subset
  <2> QED BY <2>3, FS_CardinalityType
<1>4. IsFiniteSet(C) /\ Cardinality(C) = b
  <2> DEFINE f == [d \in B |-> d + 1]
  <2>1. \A d, e \in B : d + 1 = e + 1 => d = e BY <1>2
  <2>2. f \in Bijection(B, C)
    <3>1. f \in [B -> C] OBVIOUS
    <3>2. \A d, e \in B : f[d] = f[e] => d = e BY <2>1
    <3>3. \A c \in C : \E d \in B : f[d] = c OBVIOUS
    <3> QED BY <3>1, <3>2, <3>3 DEF Bijection, Injection, Surjection, IsInjective
  <2> HIDE DEF C, f
  <2>3. ExistsBijection(B, C) BY <2>2 DEF ExistsBijection
  <2> QED BY <1>3, <2>3, FS_Bijection
<1>5. 1 \notin C BY <1>2
<1> HIDE DEF C, more, b
<1>6. Cardinality(A) = IF more THEN b + 1 ELSE b
  <2>1. CASE more
    <3>1. A = C \cup {1} BY <1>1, <2>1
    <3>2. Cardinality(C \cup {1}) = IF 1 \in C THEN Cardinality(C) ELSE Cardinality(C) + 1
      BY <1>4, FS_AddElement
    <3> QED BY <1>4, <1>5, <2>1, <3>1, <3>2
  <2>2. CASE ~more
    <3>1. A = C BY <1>1, <2>2
    <3> QED BY <1>4, <2>2, <3>1
  <2> QED BY <2>1, <2>2
<1> DEFINE x == Brackets(bracket, B)
           y == Brackets(bracket, A)
           a == Cardinality(A)
<1>7. a \in Nat BY <1>3, <1>6
<1>8. x = [r \in 1 .. b |-> bracket] /\ y = [r \in 1 .. a |-> bracket] BY DEF Brackets, b
<1> HIDE DEF x, y, a
<1>9. x \in Seq(Int) /\ Len(x) = b /\ \A r \in 1 .. b : x[r] = bracket
  BY <1>3, <1>8
<1>10. y \in Seq(Int) /\ Len(y) = a /\ \A r \in 1 .. a : y[r] = bracket
  BY <1>7, <1>8
<1>11. CASE ~more
  <2>1. x = y BY <1>6, <1>8, <1>11 DEF a
  <2>2. one = << >> BY <1>11
  <2>3. x \in Texts BY <1>9 DEF Texts
  <2>4. Cat(<< >>, x) = x /\ Cat(x, << >>) = x BY <2>3, CatLaws
  <2> QED BY <2>1, <2>2, <2>3, <2>4 DEF x, y, more, B, A
<1>12. CASE more
  <2> DEFINE z == <<bracket>>
  <2>1. one = z /\ a = b + 1 BY <1>6, <1>12 DEF a
  <2>2. z \in Seq(Int) /\ Len(z) = 1 /\ z[1] = bracket OBVIOUS
  <2> HIDE DEF z, one
  <2>3. /\ z \o x \in Seq(Int) /\ Len(z \o x) = 1 + b
        /\ \A r \in 1 .. 1 + b : (z \o x)[r] = IF r <= 1 THEN z[r] ELSE x[r - 1]
    <3>1. /\ z \o x \in Seq(Int) /\ Len(z \o x) = Len(z) + Len(x)
          /\ \A r \in 1 .. Len(z) + Len(x) :
               (z \o x)[r] = IF r <= Len(z) THEN z[r] ELSE x[r - Len(z)]
      BY <1>9, <2>2, ConcatProperties
    <3> QED BY ONLY <1>9, <2>2, <3>1
  <2>4. /\ x \o z \in Seq(Int) /\ Len(x \o z) = b + 1
        /\ \A r \in 1 .. b + 1 : (x \o z)[r] = IF r <= b THEN x[r] ELSE z[r - b]
    <3>1. /\ x \o z \in Seq(Int) /\ Len(x \o z) = Len(x) + Len(z)
          /\ \A r \in 1 .. Len(x) + Len(z) :
               (x \o z)[r] = IF r <= Len(x) THEN x[r] ELSE z[r - Len(x)]
      BY <1>9, <2>2, ConcatProperties
    <3> QED BY ONLY <1>9, <2>2, <3>1
  <2>5. y = z \o x
    <3>1. \A r \in 1 .. 1 + b : (IF r <= 1 THEN z[r] ELSE x[r - 1]) = bracket
      <4> TAKE r \in 1 .. 1 + b
      <4>1. r <= 1 => r = 1 BY <1>3
      <4>2. ~(r <= 1) => r - 1 \in 1 .. b BY <1>3
      <4> QED BY <1>9, <2>2, <4>1, <4>2
    <3>2. Len(y) = Len(z \o x) BY <1>3, <1>10, <2>1, <2>3
    <3>3. \A r \in 1 .. Len(y) : y[r] = (z \o x)[r]
      <4> DEFINE u == z \o x
      <4>1. \A r \in 1 .. 1 + b : u[r] = bracket BY <2>3, <3>1
      <4> HIDE DEF u
      <4>2. \A r \in 1 .. Len(y) : y[r] = u[r] BY <1>3, <1>10, <2>1, <4>1
      <4> QED BY <4>2 DEF u
    <3> QED BY <1>10, <2>3, <3>2, <3>3, SeqEqual
  <2>6. y = x \o z
    <3>1. \A r \in 1 .. b + 1 : (IF r <= b THEN x[r] ELSE z[r - b]) = bracket
      <4> TAKE r \in 1 .. b + 1
      <4>1. ~(r <= b) => r - b = 1 BY <1>3
      <4>2. r <= b => r \in 1 .. b BY <1>3
      <4> QED BY <1>9, <2>2, <4>1, <4>2
    <3>2. Len(y) = Len(x \o z) BY <1>3, <1>10, <2>1, <2>4
    <3>3. \A r \in 1 .. Len(y) : y[r] = (x \o z)[r]
      <4> DEFINE u == x \o z
      <4>1. \A r \in 1 .. b + 1 : u[r] = bracket BY <2>4, <3>1
      <4> HIDE DEF u
      <4>2. \A r \in 1 .. Len(y) : y[r] = u[r] BY <1>3, <1>10, <2>1, <4>1
      <4> QED BY <4>2 DEF u
    <3> QED BY <1>10, <2>4, <3>2, <3>3, SeqEqual
  <2>7. y = Cat(one, x) /\ y = Cat(x, one) BY <2>1, <2>5, <2>6, Zenon DEF Cat
  <2>8. x \in Texts BY <1>9 DEF Texts
  <2> QED BY <2>7, <2>8 DEF x, y, one, more, A, B
<1> QED BY <1>11, <1>12
-----------------------------------------------------------------------------
\* The dimensions in which an index is at the start, or at the end.
Starts(v, J) == {e \in 1 .. Ndim(v) : J[e] = 0}
Finishes(v, J) == {e \in 1 .. Ndim(v) : J[e] = v.shape[e] - 1}

\* The rows that an element begins and ends are found there, ...
LEMMA RowsAre ==
  ASSUME NEW v \in Views, NEW J
  PROVE  /\ Begins(v, J) = Suffix(Ndim(v), Starts(v, J))
         /\ Ends(v, J) = Suffix(Ndim(v), Finishes(v, J))
<1> DEFINE n == Ndim(v)
<1>1. n \in Nat BY ViewType
<1> HIDE DEF n
<1>2. \A d \in 1 .. n : \A e \in d .. n : e \in 1 .. n BY <1>1
<1>3. {d \in 1 .. n : \A e \in d .. n : J[e] = 0}
      = {d \in 1 .. n : \A e \in d .. n : e \in {k \in 1 .. n : J[k] = 0}}
  BY <1>2
<1>4. {d \in 1 .. n : \A e \in d .. n : J[e] = v.shape[e] - 1}
      = {d \in 1 .. n : \A e \in d .. n : e \in {k \in 1 .. n : J[k] = v.shape[k] - 1}}
  BY <1>2
<1> QED BY <1>3, <1>4 DEF Begins, Ends, Suffix, Starts, Finishes, n

\* ... in the subview as in the view.
LEMMA JoinedStarts ==
  ASSUME NEW v \in Views, Ndim(v) > 0, NEW i \in 0 .. v.shape[1] - 1,
         NEW K \in Indices(Subview(v, i))
  PROVE  LET J == Joined(i, K, Ndim(v))
             w == Subview(v, i)
         IN  /\ 1 \in Starts(v, J) <=> i = 0
             /\ 1 \in Finishes(v, J) <=> i = v.shape[1] - 1
             /\ \A d \in 1 .. Ndim(v) - 1 : d + 1 \in Starts(v, J) <=> d \in Starts(w, K)
             /\ \A d \in 1 .. Ndim(v) - 1 : d + 1 \in Finishes(v, J) <=> d \in Finishes(w, K)
<1> DEFINE n == Ndim(v)
           J == Joined(i, K, n)
           w == Subview(v, i)
<1>1. n \in Nat /\ n > 0 /\ \A d \in 1 .. n : v.shape[d] \in Nat BY ViewType
<1>2. i \in Int /\ v.shape[1] \in Nat BY <1>1
<1>3. w \in Views /\ Ndim(w) = n - 1 /\ \A d \in 1 .. n - 1 : w.shape[d] = v.shape[d + 1]
  BY <1>2, SubviewType
<1>4. J[1] = i /\ \A d \in 1 .. n - 1 : J[d + 1] = K[d] BY JoinedIs
<1> HIDE DEF n, J, w
<1>5. 1 \in 1 .. n /\ \A d \in 1 .. n - 1 : d + 1 \in 1 .. n BY <1>1
<1>6. /\ Starts(v, J) = {e \in 1 .. n : J[e] = 0}
      /\ Finishes(v, J) = {e \in 1 .. n : J[e] = v.shape[e] - 1}
      /\ Starts(w, K) = {e \in 1 .. n - 1 : K[e] = 0}
      /\ Finishes(w, K) = {e \in 1 .. n - 1 : K[e] = w.shape[e] - 1}
  BY <1>3 DEF Starts, Finishes, n
<1>7. 1 \in Starts(v, J) <=> i = 0 BY <1>4, <1>5, <1>6
<1>8. 1 \in Finishes(v, J) <=> i = v.shape[1] - 1 BY <1>4, <1>5, <1>6
<1>9. \A d \in 1 .. n - 1 : d + 1 \in Starts(v, J) <=> d \in Starts(w, K)
  BY <1>4, <1>5, <1>6
<1>10. \A d \in 1 .. n - 1 : d + 1 \in Finishes(v, J) <=> d \in Finishes(w, K)
  BY <1>3, <1>4, <1>5, <1>6
<1> QED BY <1>7, <1>8, <1>9, <1>10 DEF n, J, w

\* Of the places in i * count + q, the first and the last.
LEMMA FirstAndLast ==
  ASSUME NEW s \in Nat, NEW m \in Nat, NEW i \in 0 .. s - 1, NEW q \in 0 .. m - 1
  PROVE  /\ i * m + q = 0 <=> i = 0 /\ q = 0
         /\ i * m + q = s * m - 1 <=> i = s - 1 /\ q = m - 1
<1>1. i >= 1 => i * m >= m BY SMT
<1>2. i = 0 => i * m = 0 BY SMT
<1>3. i * m \in Int /\ s * m \in Int /\ m >= 1 BY SMT
<1>4. (s - 1 - i) * m = s * m - m - i * m BY SMT
<1>5. s - 1 - i >= 1 => (s - 1 - i) * m >= m BY SMT
<1>6. s - 1 - i = 0 => (s - 1 - i) * m = 0 BY SMT
<1>7. i = 0 \/ i >= 1 OBVIOUS
<1>8. s - 1 - i = 0 \/ s - 1 - i >= 1 OBVIOUS
<1>9. i * m + q = 0 <=> i = 0 /\ q = 0 BY <1>1, <1>2, <1>3, <1>7
<1>10. i * m + q = s * m - 1 <=> i = s - 1 /\ q = m - 1
  <2> DEFINE x == i * m
             y == s * m
             z == (s - 1 - i) * m
  <2>1. x \in Int /\ y \in Int /\ z = y - m - x BY <1>3, <1>4
  <2>2. s - 1 - i = 0 => z = 0 BY <1>6
  <2>3. s - 1 - i >= 1 => z >= m BY <1>5
  <2> HIDE DEF x, y, z
  <2>4. x + q = y - 1 <=> i = s - 1 /\ q = m - 1 BY <1>8, <2>1, <2>2, <2>3
  <2> QED BY <2>4 DEF x, y
<1> QED BY <1>9, <1>10

\* Only the first element of a view begins all its rows, only the last one
\* ends them.
LEMMA FirstBegins ==
  ASSUME NEW v \in Views, NEW J \in Indices(v)
  PROVE  /\ Begins(v, J) = 1 .. Ndim(v) <=> Position(v, J) = 0
         /\ Ends(v, J) = 1 .. Ndim(v) <=> Position(v, J) = Cardinality(Indices(v)) - 1
<1> DEFINE Holds(w, K) ==
             /\ Begins(w, K) = 1 .. Ndim(w) <=> Position(w, K) = 0
             /\ Ends(w, K) = 1 .. Ndim(w) <=> Position(w, K) = Cardinality(Indices(w)) - 1
           P == {n \in Int : \A w \in Views : Ndim(w) = n => \A K \in Indices(w) : Holds(w, K)}
<1>1. 0 \in P
  <2> SUFFICES ASSUME NEW w \in Views, Ndim(w) = 0, NEW K \in Indices(w) PROVE Holds(w, K)
    OBVIOUS
  <2>1. PICK c : Counts(c, w) /\ Cardinality(Indices(w)) = c[0] BY CountsLoop
  <2>2. Cardinality(Indices(w)) = 1 BY <2>1 DEF Counts
  <2>3. Position(w, K) \in 0 .. 1 - 1 BY <2>2, PositionType
  <2>4. Position(w, K) = 0 BY <2>3
  <2>5. Begins(w, K) = {} /\ Ends(w, K) = {} /\ 1 .. Ndim(w) = {} BY DEF Begins, Ends
  <2> QED BY <2>2, <2>4, <2>5
<1>2. ASSUME NEW n \in Nat, n > 0, n - 1 \in P PROVE n \in P
  <2> SUFFICES ASSUME NEW w \in Views, Ndim(w) = n, NEW K \in Indices(w) PROVE Holds(w, K)
    OBVIOUS
  <2> DEFINE i == K[1]
             x == Subview(w, i)
             s == w.shape[1]
             m == Cardinality(Indices(Subview(w, 0)))
  <2>1. i \in 0 .. s - 1 /\ \E L \in Indices(x) : K = Joined(i, L, n)
    BY <1>2, IndexIsJoined
  <2>2. PICK L \in Indices(x) : K = Joined(i, L, n) BY <2>1
  <2>3. s \in Nat /\ i \in Int
    <3>1. 1 \in 1 .. Ndim(w) BY <1>2
    <3> QED BY <2>1, <3>1, ViewType
  <2>4. x \in Views /\ Ndim(x) = n - 1 BY <1>2, <2>3, SubviewType
  <2> DEFINE q == Position(x, L)
  <2>5. Cardinality(Indices(x)) = m BY SubviewsAlike
  <2>6. q \in 0 .. m - 1 /\ m \in Nat
    <3>1. q \in 0 .. Cardinality(Indices(x)) - 1 /\ Cardinality(Indices(x)) \in Nat
      BY <2>4, PositionType, IndicesCounted
    <3> QED BY <2>5, <3>1
  <2>7. Cardinality(Indices(w)) = s * m /\ Position(w, K) = i * m + q
    BY <1>2, <2>1, <2>2, PositionSplits
  <2>8. Holds(x, L) BY <1>2, <2>4
  <2>9. /\ i * m + q = 0 <=> i = 0 /\ q = 0
        /\ i * m + q = s * m - 1 <=> i = s - 1 /\ q = m - 1
    <3>1. i \in 0 .. s - 1 /\ s \in Nat /\ m \in Nat /\ q \in 0 .. m - 1
      BY <2>1, <2>3, <2>6
    <3> HIDE DEF i, s, m, q
    <3> QED BY <3>1, FirstAndLast
  <2> DEFINE T == Starts(w, K)
             U == Starts(x, L)
             V == Finishes(w, K)
             W == Finishes(x, L)
  <2>10. /\ 1 \in T <=> i = 0
         /\ 1 \in V <=> i = s - 1
         /\ \A d \in 1 .. n - 1 : d + 1 \in T <=> d \in U
         /\ \A d \in 1 .. n - 1 : d + 1 \in V <=> d \in W
    BY <1>2, <2>1, <2>2, JoinedStarts
  <2>11. /\ Begins(w, K) = Suffix(n, T) /\ Ends(w, K) = Suffix(n, V)
         /\ Begins(x, L) = Suffix(n - 1, U) /\ Ends(x, L) = Suffix(n - 1, W)
    BY <2>4, RowsAre
  <2>12. Holds(x, L) <=> /\ Begins(x, L) = 1 .. n - 1 <=> q = 0
                         /\ Ends(x, L) = 1 .. n - 1 <=> q = m - 1
    BY <2>4, <2>5
  <2> HIDE DEF P, T, U, V, W
  <2>13. Suffix(n, T) = 1 .. n <=> 1 \in T /\ Suffix(n - 1, U) = 1 .. n - 1
    BY <1>2, <2>10, SuffixSplits
  <2>14. Suffix(n, V) = 1 .. n <=> 1 \in V /\ Suffix(n - 1, W) = 1 .. n - 1
    BY <1>2, <2>10, SuffixSplits
  <2> HIDE DEF i, x, s, m, q
  <2>15. Begins(w, K) = 1 .. n <=> Position(w, K) = 0
    BY <2>7, <2>8, <2>9, <2>10, <2>11, <2>12, <2>13
  <2>16. Ends(w, K) = 1 .. n <=> Position(w, K) = Cardinality(Indices(w)) - 1
    BY <2>7, <2>8, <2>9, <2>10, <2>11, <2>12, <2>14
  <2> QED BY <2>15, <2>16
<1> HIDE DEF P
<1>3. ASSUME NEW n \in Nat PROVE n \in P
  <2>1. 0 \in Int /\ n \in Int OBVIOUS
  <2>2. \A d \in 0 + 1 .. n : d - 1 \in P => d \in P
    <3> TAKE d \in 0 + 1 .. n
    <3>1. d \in Nat /\ d > 0 OBVIOUS
    <3> QED BY <1>2, <3>1
  <2>3. 0 .. n \subseteq P BY <1>1, <2>1, <2>2, Induction
  <2> QED BY <2>3
<1>4. Ndim(v) \in P BY <1>3, ViewType
<1> QED BY <1>4 DEF P
-----------------------------------------------------------------------------
\* The text of an element without what separates it from the next.
Core(v, J) ==
  Brackets(LeftBracket, Begins(v, J)) \o <<Address(v, J)>> \o Brackets(RightBracket, Ends(v, J))
Separator == <<Comma, Space>>

\* An address is a number.
LEMMA AddressType ==
  ASSUME NEW v \in Views, NEW J, \A d \in 1 .. Ndim(v) : J[d] \in Int
  PROVE  Address(v, J) \in Int
<1> DEFINE n == Ndim(v)
<1>1. n \in Nat /\ v.data \in Int /\ SizeOf[v.dtype] \in Int BY ViewType, Width
<1>2. PICK f : Offsets(f, v, J) /\ Address(v, J) = (v.data + f[n] * SizeOf[v.dtype]) % Modulus
  BY AddressLoop
<1> DEFINE x == v.data + f[n] * SizeOf[v.dtype]
<1>3. f[n] \in Int BY <1>1, <1>2 DEF Offsets
<1>4. x \in Int BY <1>1, <1>3
<1> HIDE DEF x
<1>5. x % Modulus \in Int BY <1>4, Residue, Width
<1> QED BY <1>2, <1>5 DEF x

\* A view of no dimensions has one element, without brackets.
LEMMA ScalarEntry ==
  ASSUME NEW v \in Views, Ndim(v) = 0, NEW J \in Indices(v)
  PROVE  /\ Cardinality(Indices(v)) = 1
         /\ Address(v, J) = Address(v, << >>) /\ Address(v, J) \in Int
         /\ Entry(v, J) = <<Address(v, << >>)>>
<1>1. PICK c : Counts(c, v) /\ Cardinality(Indices(v)) = c[0] BY CountsLoop
<1>2. Cardinality(Indices(v)) = 1 BY <1>1 DEF Counts
<1>3. J \in [1 .. 0 -> Nat] BY IndicesAre
<1>4. J = << >>
  <2>1. J \in Seq(Nat) /\ Len(J) = 0
    <3>1. J \in [1 .. 0 -> Nat] /\ 0 \in Nat BY <1>3
    <3> QED BY <3>1
  <2> QED BY <2>1, EmptySeq
<1>5. Address(v, J) \in Int
  <2>1. \A d \in 1 .. Ndim(v) : J[d] \in Int BY <1>3
  <2> QED BY <2>1, AddressType
<1>6. Begins(v, J) = {} /\ Ends(v, J) = {} /\ 1 .. Ndim(v) = {} BY DEF Begins, Ends
<1>7. \A b : Brackets(b, {}) = << >>
  <2>1. Cardinality({}) = 0 BY FS_EmptySet
  <2>2. \A b : Brackets(b, {}) = [r \in 1 .. 0 |-> b] BY <2>1 DEF Brackets
  <2>3. \A b : [r \in 1 .. 0 |-> b] = << >> OBVIOUS
  <2> QED BY <2>2, <2>3
<1> DEFINE a == <<Address(v, J)>>
<1>8. Entry(v, J) = << >> \o a \o << >> \o << >>
  BY <1>6, <1>7 DEF Entry
<1>9. a \in Seq(Int) BY <1>5
<1> HIDE DEF a
<1>10. Entry(v, J) = a BY <1>8, <1>9, ConcatEmptySeq
<1> QED BY <1>2, <1>4, <1>5, <1>10 DEF a

\* How the parts of an entry may be grouped.
LEMMA Regroup ==
  ASSUME NEW one \in Texts, NEW x \in Texts, NEW a \in Texts, NEW y \in Texts,
         NEW two \in Texts, NEW sep \in Texts
  PROVE  /\ Cat(Cat(x, a), y) \in Texts
         /\ Cat(Cat(Cat(Cat(one, x), a), Cat(y, two)), sep)
              = Cat(one, Cat(Cat(Cat(x, a), y), Cat(two, sep)))
<1> DEFINE p == Cat(x, a)
           c == Cat(p, y)
<1>1. p \in Texts /\ c \in Texts BY CatLaws
<1>2. Cat(Cat(one, x), a) = Cat(one, p) BY CatLaws
<1> HIDE DEF p
<1>3. Cat(Cat(one, p), Cat(y, two)) = Cat(one, Cat(c, two))
  <2>1. Cat(y, two) \in Texts BY CatLaws
  <2>2. Cat(Cat(one, p), Cat(y, two)) = Cat(one, Cat(p, Cat(y, two)))
    BY <1>1, <2>1, CatLaws
  <2>3. Cat(p, Cat(y, two)) = Cat(c, two) BY <1>1, CatLaws
  <2> QED BY <2>2, <2>3
<1> HIDE DEF c
<1>4. Cat(Cat(one, Cat(c, two)), sep) = Cat(one, Cat(c, Cat(two, sep)))
  <2>1. Cat(c, two) \in Texts BY <1>1, CatLaws
  <2>2. Cat(Cat(one, Cat(c, two)), sep) = Cat(one, Cat(Cat(c, two), sep))
    BY <2>1, CatLaws
  <2>3. Cat(Cat(c, two), sep) = Cat(c, Cat(two, sep)) BY <1>1, CatLaws
  <2> QED BY <2>2, <2>3
<1> QED BY <1>1, <1>2, <1>3, <1>4 DEF p, c

\* An element of the view is printed as in its row, within the brackets of
\* the view if it is its first or last, and with what separates it from the
\* next if it is not.
LEMMA JoinedEntry ==
  ASSUME NEW v \in Views, Ndim(v) > 0, NEW i \in 0 .. v.shape[1] - 1,
         NEW K \in Indices(Subview(v, i))
  PROVE  LET w == Subview(v, i)
             J == Joined(i, K, Ndim(v))
             q == Position(w, K)
             m == Cardinality(Indices(w))
         IN  /\ Core(w, K) \in Texts
             /\ Entry(w, K) = Cat(Core(w, K), IF q = m - 1 THEN << >> ELSE Separator)
             /\ Entry(v, J) =
                  Cat(IF i = 0 /\ q = 0 THEN <<LeftBracket>> ELSE << >>,
                      Cat(Core(w, K), IF i = v.shape[1] - 1 /\ q = m - 1
                                      THEN <<RightBracket>> ELSE Separator))
<1> DEFINE n == Ndim(v)
           w == Subview(v, i)
           J == Joined(i, K, n)
           q == Position(w, K)
           m == Cardinality(Indices(w))
           s == v.shape[1]
           A == <<Address(w, K)>>
           T == Starts(v, J)
           U == Starts(w, K)
           V == Finishes(v, J)
           W == Finishes(w, K)
           x == Brackets(LeftBracket, Suffix(n - 1, U))
           y == Brackets(RightBracket, Suffix(n - 1, W))
           one == IF 1 \in T /\ Suffix(n - 1, U) = 1 .. n - 1 THEN <<LeftBracket>> ELSE << >>
           two == IF 1 \in V /\ Suffix(n - 1, W) = 1 .. n - 1 THEN <<RightBracket>> ELSE << >>
<1>1. n \in Nat /\ n > 0 /\ s \in Nat /\ i \in Int BY ViewType
<1>2. w \in Views /\ Ndim(w) = n - 1 BY <1>1, SubviewType
<1>3. Address(v, J) = Address(w, K) BY JoinedIs
<1>4. A \in Texts
  <2>1. K \in [1 .. Ndim(w) -> Nat] BY <1>2, IndicesAre
  <2>2. \A d \in 1 .. Ndim(w) : K[d] \in Int BY <2>1
  <2> HIDE DEF w
  <2>3. Address(w, K) \in Int BY <1>2, <2>2, AddressType
  <2> QED BY <2>3 DEF Texts
<1>5. /\ 1 \in T <=> i = 0
      /\ 1 \in V <=> i = s - 1
      /\ \A d \in 1 .. n - 1 : d + 1 \in T <=> d \in U
      /\ \A d \in 1 .. n - 1 : d + 1 \in V <=> d \in W
  BY JoinedStarts
<1>6. /\ Begins(v, J) = Suffix(n, T) /\ Ends(v, J) = Suffix(n, V)
      /\ Begins(w, K) = Suffix(n - 1, U) /\ Ends(w, K) = Suffix(n - 1, W)
  BY <1>2, RowsAre
<1>7. /\ Begins(w, K) = 1 .. n - 1 <=> q = 0
      /\ Ends(w, K) = 1 .. n - 1 <=> q = m - 1
  BY <1>2, FirstBegins
<1> HIDE DEF T, U, V, W, w, J, q, m, s, n
<1>8. x \in Texts /\ Brackets(LeftBracket, Suffix(n, T)) = Cat(one, x)
  <2>1. LeftBracket \in Int BY DEF LeftBracket
  <2> QED BY <1>1, <1>5, <2>1, BracketsSplit
<1>9. y \in Texts /\ Brackets(RightBracket, Suffix(n, V)) = Cat(y, two)
  <2>1. RightBracket \in Int BY DEF RightBracket
  <2> QED BY <1>1, <1>5, <2>1, BracketsSplit
<1>10. Suffix(n, V) = 1 .. n <=> i = s - 1 /\ q = m - 1
  <2>1. Suffix(n, V) = 1 .. n <=> 1 \in V /\ Suffix(n - 1, W) = 1 .. n - 1
    BY <1>1, <1>5, SuffixSplits
  <2> QED BY <1>5, <1>6, <1>7, <2>1
<1>11. one = IF i = 0 /\ q = 0 THEN <<LeftBracket>> ELSE << >>
  BY <1>5, <1>6, <1>7
<1>12. two = IF i = s - 1 /\ q = m - 1 THEN <<RightBracket>> ELSE << >>
  BY <1>5, <1>6, <1>7
<1> DEFINE sep == IF i = s - 1 /\ q = m - 1 THEN << >> ELSE Separator
<1>13. Core(w, K) = Cat(Cat(x, A), y) BY <1>6, Zenon DEF Core, Cat
<1>14. Entry(v, J) = Cat(Cat(Cat(Cat(one, x), A), Cat(y, two)), sep)
  <2> DEFINE lb == Brackets(LeftBracket, Begins(v, J))
             rb == Brackets(RightBracket, Ends(v, J))
             end == IF Ends(v, J) = 1 .. n THEN << >> ELSE Separator
  <2>1. Entry(v, J) = Cat(Cat(Cat(lb, A), rb), end)
    <3> HIDE DEF lb, rb
    <3>1. Entry(v, J) = lb \o <<Address(v, J)>> \o rb \o end
      BY Zenon DEF Entry, Separator, n, lb, rb
    <3> QED BY <1>3, <3>1, Zenon DEF Cat
  <2>2. lb = Cat(one, x) /\ rb = Cat(y, two) BY <1>6, <1>8, <1>9
  <2>3. end = sep BY <1>6, <1>10
  <2> HIDE DEF lb, rb, end, sep
  <2> QED BY <2>1, <2>2, <2>3
<1>15. Entry(w, K) = Cat(Cat(Cat(x, A), y), IF q = m - 1 THEN << >> ELSE Separator)
  <2> DEFINE end == IF Ends(w, K) = 1 .. n - 1 THEN << >> ELSE Separator
  <2>1. Entry(w, K) = x \o A \o y \o end
    BY <1>2, <1>6, Zenon DEF Entry, Separator
  <2>2. Entry(w, K) = Cat(Cat(Cat(x, A), y), end) BY <2>1, Zenon DEF Cat
  <2>3. end = IF q = m - 1 THEN << >> ELSE Separator BY <1>7
  <2> HIDE DEF end
  <2> QED BY <2>2, <2>3
<1>16. one \in Texts /\ two \in Texts /\ sep \in Texts
  <2>1. LeftBracket \in Int /\ RightBracket \in Int /\ Comma \in Int /\ Space \in Int
    BY DEF LeftBracket, RightBracket, Comma, Space
  <2>2. /\ <<LeftBracket>> \in Texts /\ <<RightBracket>> \in Texts
        /\ << >> \in Texts /\ Separator \in Texts
    BY <2>1 DEF Separator, Texts
  <2> QED BY <2>2
<1>17. Cat(two, sep) = IF i = s - 1 /\ q = m - 1 THEN <<RightBracket>> ELSE Separator
  <2>1. CASE i = s - 1 /\ q = m - 1
    <3>1. sep = << >> /\ two = <<RightBracket>> BY <1>12, <2>1
    <3>2. Cat(two, << >>) = two BY <1>16, CatLaws
    <3> QED BY <2>1, <3>1, <3>2
  <2>2. CASE ~(i = s - 1 /\ q = m - 1)
    <3>1. sep = Separator /\ two = << >> BY <1>12, <2>2
    <3>2. Cat(<< >>, sep) = sep BY <1>16, CatLaws
    <3> QED BY <2>2, <3>1, <3>2
  <2> QED BY <2>1, <2>2
<1> HIDE DEF x, y, one, two, sep, A
<1>18. /\ Cat(Cat(x, A), y) \in Texts
       /\ Cat(Cat(Cat(Cat(one, x), A), Cat(y, two)), sep)
            = Cat(one, Cat(Cat(Cat(x, A), y), Cat(two, sep)))
  BY <1>4, <1>8, <1>9, <1>16, Regroup
<1>19. Entry(v, J) = Cat(one, Cat(Core(w, K), Cat(two, sep))) BY <1>13, <1>14, <1>18
<1>20. Core(w, K) \in Texts BY <1>13, <1>18
<1>21. Entry(w, K) = Cat(Core(w, K), IF q = m - 1 THEN << >> ELSE Separator)
  BY <1>13, <1>15
<1>22. Entry(v, J) =
         Cat(IF i = 0 /\ q = 0 THEN <<LeftBracket>> ELSE << >>,
             Cat(Core(w, K), IF i = s - 1 /\ q = m - 1 THEN <<RightBracket>> ELSE Separator))
  BY <1>11, <1>17, <1>19
<1> QED BY <1>20, <1>21, <1>22, Zenon DEF w, J, q, m, s, n
-----------------------------------------------------------------------------
\* What separates and closes is text.
LEMMA TokensAreText ==
  /\ << >> \in Texts /\ <<LeftBracket>> \in Texts /\ <<RightBracket>> \in Texts
  /\ Separator \in Texts
<1>1. LeftBracket \in Int /\ RightBracket \in Int /\ Comma \in Int /\ Space \in Int
  BY DEF LeftBracket, RightBracket, Comma, Space
<1> QED BY <1>1 DEF Separator, Texts

\* Each element makes a text.
LEMMA EntryType ==
  ASSUME NEW v \in Views, NEW J \in Indices(v)
  PROVE  Entry(v, J) \in Texts
<1>1. Ndim(v) \in Nat BY ViewType
<1>2. CASE Ndim(v) = 0
  <2>1. Address(v, << >>) \in Int /\ Entry(v, J) = <<Address(v, << >>)>>
    BY <1>2, ScalarEntry
  <2> QED BY <2>1 DEF Texts
<1>3. CASE Ndim(v) # 0
  <2> DEFINE i == J[1]
             w == Subview(v, i)
  <2>1. i \in 0 .. v.shape[1] - 1 BY <1>1, <1>3, IndexIsJoined
  <2>2. PICK K \in Indices(w) : J = Joined(i, K, Ndim(v)) BY <1>1, <1>3, IndexIsJoined
  <2> DEFINE a == IF i = 0 /\ Position(w, K) = 0 THEN <<LeftBracket>> ELSE << >>
             b == IF i = v.shape[1] - 1 /\ Position(w, K) = Cardinality(Indices(w)) - 1
                  THEN <<RightBracket>> ELSE Separator
             c == Core(w, K)
  <2>3. c \in Texts /\ Entry(v, J) = Cat(a, Cat(c, b))
    BY <1>1, <1>3, <2>1, <2>2, JoinedEntry
  <2>4. a \in Texts /\ b \in Texts BY TokensAreText
  <2> HIDE DEF a, b, c
  <2> QED BY <2>3, <2>4, CatLaws
<1> QED BY <1>2, <1>3

\* Texts one behind the other, as far as each one.
LEMMA Flattens ==
  ASSUME NEW n \in Nat, n > 0, NEW seqs \in [1 .. n -> Texts]
  PROVE  \E F \in [0 .. n -> Texts] :
           /\ F[0] = << >> /\ FlattenSeq(seqs) = F[n]
           /\ \A i \in 1 .. n : F[i] = Cat(F[i - 1], seqs[i])
<1> DEFINE step == [i \in 1 .. n |-> [y \in Texts |-> Cat(y, seqs[i])]]
           body(f) == [i \in 1 .. n |-> IF i = 1 THEN seqs[i] ELSE Cat(f[i - 1], seqs[i])]
           flatten == CHOOSE f : f = body(f)
<1>1. Len(seqs) = n OBVIOUS
<1>2. FlattenSeq(seqs) = flatten[n]
  <2>1. FlattenSeq(seqs) =
          (CHOOSE f : f = [i \in 1 .. n |-> IF i = 1 THEN seqs[i] ELSE f[i - 1] \o seqs[i]])[n]
    BY <1>1 DEF FlattenSeq
  <2> QED BY <2>1, Zenon DEF Cat
<1>3. step \in [1 .. n -> [Texts -> Texts]] BY CatLaws
<1>4. PICK g \in [0 .. n -> Texts] : Loops(g, n, << >>, step)
  <2>1. << >> \in Texts BY CatLaws
  <2> HIDE DEF step
  <2> QED BY <1>3, <2>1, Recursion
<1>5. g[0] = << >> /\ \A i \in 1 .. n : g[i] = Cat(g[i - 1], seqs[i])
  <2>1. ASSUME NEW i \in 1 .. n PROVE g[i] = Cat(g[i - 1], seqs[i])
    <3>1. i - 1 \in 0 .. n /\ g[i - 1] \in Texts OBVIOUS
    <3>2. g[i] = step[i][g[i - 1]]
      <4> HIDE DEF step
      <4> QED BY <1>4 DEF Loops
    <3> QED BY <3>1, <3>2
  <2> QED BY <1>4, <2>1 DEF Loops
<1>6. g[1] = seqs[1]
  <2>1. 1 \in 1 .. n /\ 1 - 1 = 0 /\ seqs[1] \in Texts OBVIOUS
  <2>2. Cat(<< >>, seqs[1]) = seqs[1] BY <2>1, CatLaws
  <2> QED BY <1>5, <2>1, <2>2
<1> DEFINE h == [i \in 1 .. n |-> g[i]]
<1>7. h = body(h)
  <2>1. \A i \in 1 .. n : i # 1 => i - 1 \in 1 .. n OBVIOUS
  <2>2. ASSUME NEW i \in 1 .. n
        PROVE  h[i] = IF i = 1 THEN seqs[i] ELSE Cat(h[i - 1], seqs[i])
    <3>1. CASE i = 1 BY <1>6, <3>1
    <3>2. CASE i # 1
      <4>1. h[i] = g[i] /\ h[i - 1] = g[i - 1] BY <2>1, <3>2
      <4> QED BY <1>5, <3>2, <4>1
    <3> QED BY <3>1, <3>2
  <2> HIDE DEF h
  <2>3. h = [i \in 1 .. n |-> h[i]] BY DEF h
  <2> QED BY <2>2, <2>3
<1>8. flatten = body(flatten)
  <2>1. \E f : f = body(f)
    <3> HIDE DEF body, h
    <3> QED BY <1>7
  <2> HIDE DEF body
  <2> QED BY <2>1
<1> HIDE DEF flatten
<1>9. \A i \in 1 .. n : flatten[i] = IF i = 1 THEN seqs[i] ELSE Cat(flatten[i - 1], seqs[i])
  BY <1>8
<1> DEFINE P == {i \in Int : i \in 1 .. n => flatten[i] = g[i]}
<1>10. 1 \in P BY <1>6, <1>9
<1>11. ASSUME NEW i \in 2 .. n, i - 1 \in P PROVE i \in P
  <2>1. i \in 1 .. n /\ i - 1 \in 1 .. n /\ i # 1 OBVIOUS
  <2>2. flatten[i - 1] = g[i - 1] BY <1>11, <2>1
  <2>3. flatten[i] = Cat(flatten[i - 1], seqs[i]) BY <1>9, <2>1
  <2>4. flatten[i] = g[i] BY <1>5, <2>1, <2>2, <2>3
  <2> QED BY <2>1, <2>4
<1>12. flatten[n] = g[n]
  <2> HIDE DEF P
  <2>1. 1 \in Int /\ n \in Int /\ \A i \in 1 + 1 .. n : i - 1 \in P => i \in P BY <1>11
  <2>2. 1 .. n \subseteq P BY <1>10, <2>1, Induction
  <2>3. n \in 1 .. n OBVIOUS
  <2> QED BY <2>2, <2>3 DEF P
<1> QED BY <1>2, <1>5, <1>12

\* The text of a view, as far as each element.
IsText(F, v) ==
  /\ F \in [0 .. Cardinality(Indices(v)) -> Texts]
  /\ F[0] = << >> /\ Text(v) = F[Cardinality(Indices(v))]
  /\ \A J \in Indices(v) : F[Position(v, J) + 1] = Cat(F[Position(v, J)], Entry(v, J))
LEMMA TextLoop ==
  ASSUME NEW v \in Views, Indices(v) # {}
  PROVE  Cardinality(Indices(v)) > 0 /\ \E F : IsText(F, v)
<1> DEFINE S == Indices(v)
           N == Cardinality(S)
           order == InOrder(v)
           seqs == [p \in 1 .. N |-> Entry(v, order[p])]
<1>1. IsFiniteSet(S) /\ N \in Nat BY IndicesCounted
<1>2. N > 0
  <2>1. N # 0 BY <1>1, FS_EmptySet
  <2> QED BY <1>1, <2>1
<1>3. DOMAIN order = 1 .. N BY DEF InOrder
<1>4. ASSUME NEW p \in 1 .. N PROVE order[p] \in S /\ Position(v, order[p]) = p - 1
  <2>1. order[p] = CHOOSE J \in S : Position(v, J) = p - 1 BY DEF InOrder
  <2>2. p - 1 \in 0 .. N - 1 BY <1>1
  <2> HIDE DEF order, N
  <2>3. \E J \in S : Position(v, J) = p - 1 BY <2>2, PositionAll DEF N
  <2> HIDE DEF S
  <2> QED BY <2>1, <2>3
<1> HIDE DEF order
<1>5. seqs \in [1 .. N -> Texts]
  <2>1. \A p \in 1 .. N : Entry(v, order[p]) \in Texts BY <1>4, EntryType
  <2> QED BY <2>1
<1>6. Text(v) = FlattenSeq(seqs) BY <1>3 DEF Text, order
<1> HIDE DEF N
<1>7. PICK F \in [0 .. N -> Texts] :
        /\ F[0] = << >> /\ FlattenSeq(seqs) = F[N]
        /\ \A p \in 1 .. N : F[p] = Cat(F[p - 1], seqs[p])
  <2> HIDE DEF seqs
  <2> QED BY <1>1, <1>2, <1>5, Flattens
<1>8. ASSUME NEW J \in S PROVE F[Position(v, J) + 1] = Cat(F[Position(v, J)], Entry(v, J))
  <2> DEFINE p == Position(v, J) + 1
  <2>1. Position(v, J) \in 0 .. N - 1 BY PositionType DEF N
  <2>2. p \in 1 .. N /\ p - 1 = Position(v, J) BY <1>1, <2>1
  <2>3. order[p] = J
    <3>1. order[p] \in S /\ Position(v, order[p]) = Position(v, J) BY <1>4, <2>2
    <3> QED BY <3>1, PositionOnce
  <2>4. seqs[p] = Entry(v, J) BY <2>2, <2>3
  <2> HIDE DEF seqs, p
  <2>5. F[p] = Cat(F[p - 1], seqs[p]) BY <1>7, <2>2
  <2> QED BY <2>2, <2>4, <2>5 DEF p
<1> HIDE DEF seqs
<1> QED BY <1>2, <1>6, <1>7, <1>8 DEF IsText, N, S
-----------------------------------------------------------------------------
\* A row is printed in the view as alone, between what comes before its first
\* element and after its last one.
Row(F, G, core, m, base, first, end, t) ==
  /\ m \in Nat /\ m > 0 /\ base \in Nat
  /\ G \in [0 .. m -> Texts] /\ core \in [0 .. m - 1 -> Texts]
  /\ first \in Texts /\ end \in Texts /\ t \in Texts
  /\ \A q \in 0 .. m - 1 : F[base + q] \in Texts
  /\ G[0] = << >> /\ Cat(F[base], first) = t
  /\ \A q \in 0 .. m - 1 :
       G[q + 1] = Cat(G[q], Cat(core[q], IF q = m - 1 THEN << >> ELSE Separator))
  /\ \A q \in 0 .. m - 1 :
       F[base + q + 1] =
         Cat(F[base + q], Cat(IF q = 0 THEN first ELSE << >>,
                              Cat(core[q], IF q = m - 1 THEN end ELSE Separator)))
LEMMA RowText ==
  ASSUME NEW F, NEW G, NEW core, NEW m, NEW base, NEW first, NEW end, NEW t,
         Row(F, G, core, m, base, first, end, t)
  PROVE  F[base + m] = Cat(Cat(t, G[m]), end)
<1>0. /\ m \in Nat /\ m > 0 /\ base \in Nat
      /\ G \in [0 .. m -> Texts] /\ core \in [0 .. m - 1 -> Texts]
      /\ first \in Texts /\ end \in Texts /\ t \in Texts
      /\ \A q \in 0 .. m - 1 : F[base + q] \in Texts
      /\ G[0] = << >> /\ Cat(F[base], first) = t
      /\ \A q \in 0 .. m - 1 :
           G[q + 1] = Cat(G[q], Cat(core[q], IF q = m - 1 THEN << >> ELSE Separator))
      /\ \A q \in 0 .. m - 1 :
           F[base + q + 1] =
             Cat(F[base + q], Cat(IF q = 0 THEN first ELSE << >>,
                                  Cat(core[q], IF q = m - 1 THEN end ELSE Separator)))
  BY DEF Row
<1> USE <1>0
<1> DEFINE lead(q) == IF q = 0 THEN first ELSE << >>
           P == {q \in Int : q \in 0 .. m - 1 => Cat(F[base + q], lead(q)) = Cat(t, G[q])}
<1>1. << >> \in Texts /\ Separator \in Texts BY TokensAreText
<1>2. \A q : lead(q) \in Texts BY <1>1
<1>3. 0 \in P
  <2>1. Cat(t, << >>) = t BY CatLaws
  <2>2. base + 0 = base OBVIOUS
  <2> QED BY <2>1, <2>2
<1>4. ASSUME NEW q \in 1 .. m - 1, q - 1 \in P PROVE q \in P
  <2>1. q - 1 \in 0 .. m - 1 /\ q - 1 # m - 1 /\ (q - 1) + 1 = q /\ q \in 0 .. m - 1
        /\ base + (q - 1) + 1 = base + q /\ q # 0 /\ q \in 0 .. m /\ q - 1 \in 0 .. m
    OBVIOUS
  <2> DEFINE f == F[base + (q - 1)]
             l == lead(q - 1)
             g == G[q - 1]
             c == core[q - 1]
  <2>2. f \in Texts /\ g \in Texts /\ c \in Texts /\ l \in Texts BY <1>2, <2>1
  <2>3. Cat(f, l) = Cat(t, g) BY <1>4, <2>1
  <2>4. G[q] = Cat(g, Cat(c, Separator)) BY <2>1
  <2>5. F[base + q] = Cat(f, Cat(l, Cat(c, Separator)))
    <3>1. F[base + (q - 1) + 1] =
            Cat(F[base + (q - 1)], Cat(IF q - 1 = 0 THEN first ELSE << >>,
                                 Cat(core[q - 1], IF q - 1 = m - 1 THEN end ELSE Separator)))
      BY <2>1
    <3> QED BY <2>1, <3>1
  <2> HIDE DEF f, l, g, c
  <2>6. F[base + q] = Cat(t, G[q])
    <3> DEFINE x == Cat(c, Separator)
    <3>1. x \in Texts BY <1>1, <2>2, CatLaws
    <3> HIDE DEF x
    <3>2. Cat(f, Cat(l, x)) = Cat(Cat(f, l), x) BY <2>2, <3>1, CatLaws
    <3>3. Cat(t, Cat(g, x)) = Cat(Cat(t, g), x) BY <2>2, <3>1, CatLaws
    <3> QED BY <2>3, <2>4, <2>5, <3>2, <3>3 DEF x
  <2>7. F[base + q] \in Texts BY <2>1
  <2>8. Cat(F[base + q], << >>) = F[base + q] BY <2>7, CatLaws
  <2>9. lead(q) = << >> BY <2>1
  <2> QED BY <2>6, <2>8, <2>9
<1>5. m - 1 \in P
  <2> DEFINE k == m - 1
  <2>1. 0 \in Int /\ k \in Int /\ \A q \in 0 + 1 .. k : q - 1 \in P => q \in P
    <3> HIDE DEF P
    <3> QED BY <1>4
  <2>2. k \in 0 .. k OBVIOUS
  <2> HIDE DEF P, k
  <2>3. 0 .. k \subseteq P BY <1>3, <2>1, Induction
  <2>4. k \in P BY <2>2, <2>3
  <2> QED BY <2>4 DEF k
<1> DEFINE q == m - 1
           f == F[base + q]
           l == lead(q)
           g == G[q]
           c == core[q]
<1>6. q \in 0 .. m - 1 /\ q + 1 = m /\ base + q + 1 = base + m /\ q \in 0 .. m OBVIOUS
<1>7. f \in Texts /\ g \in Texts /\ c \in Texts /\ l \in Texts
  <2> HIDE DEF q
  <2> QED BY <1>2, <1>6
<1>8. Cat(f, l) = Cat(t, g)
  <2>1. q \in P BY <1>5
  <2> HIDE DEF q
  <2> QED BY <1>6, <2>1
<1>9. G[m] = Cat(g, Cat(c, << >>)) BY <1>6
<1>10. F[base + m] = Cat(f, Cat(l, Cat(c, end)))
  <2>1. F[base + q + 1] = Cat(F[base + q], Cat(IF q = 0 THEN first ELSE << >>,
                                               Cat(core[q], IF q = m - 1 THEN end ELSE Separator)))
    BY <1>6
  <2> QED BY <1>6, <2>1
<1> HIDE DEF f, l, g, c, q
<1>11. Cat(c, << >>) = c BY <1>7, CatLaws
<1>12. Cat(f, Cat(l, Cat(c, end))) = Cat(Cat(t, Cat(g, c)), end)
  <2> DEFINE x == Cat(c, end)
             y == Cat(g, c)
  <2>1. x \in Texts /\ y \in Texts BY <1>7, CatLaws
  <2>2. Cat(g, x) = Cat(y, end) BY <1>7, CatLaws
  <2> HIDE DEF x, y
  <2>3. Cat(f, Cat(l, x)) = Cat(Cat(f, l), x) BY <1>7, <2>1, CatLaws
  <2>4. Cat(t, Cat(g, x)) = Cat(Cat(t, g), x) BY <1>7, <2>1, CatLaws
  <2>5. Cat(t, Cat(y, end)) = Cat(Cat(t, y), end) BY <2>1, CatLaws
  <2> QED BY <1>8, <2>2, <2>3, <2>4, <2>5 DEF x, y
<1> QED BY <1>9, <1>10, <1>11, <1>12

\* What has been printed of a view after a row.
LEMMA RowOfView ==
  ASSUME NEW v \in Views, Ndim(v) > 0, NEW i \in 0 .. v.shape[1] - 1, NEW F, IsText(F, v),
         Indices(Subview(v, i)) # {}, NEW m, m = Cardinality(Indices(Subview(v, i))),
         NEW t \in Texts, Cat(F[i * m], IF i = 0 THEN <<LeftBracket>> ELSE << >>) = t
  PROVE  /\ Text(Subview(v, i)) \in Texts
         /\ F[i * m + m] = Cat(Cat(t, Text(Subview(v, i))),
                               IF i = v.shape[1] - 1 THEN <<RightBracket>> ELSE Separator)
<1> DEFINE n == Ndim(v)
           w == Subview(v, i)
           s == v.shape[1]
           N == Cardinality(Indices(v))
           K(q) == CHOOSE K \in Indices(w) : Position(w, K) = q
           core == [q \in 0 .. m - 1 |-> Core(w, K(q))]
           first == IF i = 0 THEN <<LeftBracket>> ELSE << >>
           end == IF i = s - 1 THEN <<RightBracket>> ELSE Separator
<1>1. n \in Nat /\ s \in Nat /\ i \in Nat /\ i < s /\ i \in Int
  <2>1. 1 \in 1 .. Ndim(v) BY ViewType
  <2>2. n \in Nat /\ s \in Nat BY <2>1, ViewType
  <2> QED BY <2>2
<1>2. w \in Views BY <1>1, SubviewType
<1>3. m \in Nat /\ m > 0 /\ \E G : IsText(G, w)
  <2> HIDE DEF w
  <2>1. Cardinality(Indices(w)) \in Nat BY <1>2, IndicesCounted
  <2>2. Cardinality(Indices(w)) > 0 /\ \E G : IsText(G, w) BY <1>2, TextLoop DEF w
  <2> QED BY <2>1, <2>2 DEF w
<1>4. PICK G : IsText(G, w) BY <1>3
<1>5. /\ G \in [0 .. m -> Texts] /\ G[0] = << >> /\ Text(w) = G[m]
      /\ \A L \in Indices(w) : G[Position(w, L) + 1] = Cat(G[Position(w, L)], Entry(w, L))
  BY <1>4 DEF IsText
<1>6. /\ F \in [0 .. N -> Texts]
      /\ \A J \in Indices(v) : F[Position(v, J) + 1] = Cat(F[Position(v, J)], Entry(v, J))
  BY DEF IsText
<1>7. N = s * m
  <2>1. Cardinality(Indices(v)) = v.shape[1] * Cardinality(Indices(Subview(v, 0)))
    BY PositionSplits
  <2>2. Indices(Subview(v, 0)) = Indices(w) BY SubviewsAlike
  <2> QED BY <2>1, <2>2
<1>8. ASSUME NEW q \in 0 .. m - 1
      PROVE  /\ K(q) \in Indices(w) /\ Position(w, K(q)) = q
             /\ Joined(i, K(q), n) \in Indices(v)
             /\ Position(v, Joined(i, K(q), n)) = i * m + q
  <2>1. \E L \in Indices(w) : Position(w, L) = q BY <1>2, PositionAll
  <2> DEFINE L == K(q)
  <2>2. L \in Indices(w) /\ Position(w, L) = q
    <3> HIDE DEF w
    <3> QED BY <2>1
  <2> HIDE DEF L
  <2>3. Joined(i, L, n) \in Indices(v) BY <2>2, JoinedIs
  <2>4. Position(v, Joined(i, L, n)) = i * Cardinality(Indices(Subview(v, 0))) + Position(w, L)
    BY <2>2, PositionSplits
  <2>5. Cardinality(Indices(Subview(v, 0))) = m BY SubviewsAlike
  <2> QED BY <2>2, <2>3, <2>4, <2>5 DEF L
<1> HIDE DEF K
<1>9. ASSUME NEW q \in 0 .. m - 1
      PROVE  /\ core[q] \in Texts
             /\ Entry(w, K(q)) = Cat(core[q], IF q = m - 1 THEN << >> ELSE Separator)
             /\ Entry(v, Joined(i, K(q), n)) =
                  Cat(IF q = 0 THEN first ELSE << >>,
                      Cat(core[q], IF q = m - 1 THEN end ELSE Separator))
  <2> DEFINE L == K(q)
             c == Core(w, L)
  <2>1. L \in Indices(w) /\ Position(w, L) = q BY <1>8
  <2>2. core[q] = c OBVIOUS
  <2> HIDE DEF L, core
  <2>3. /\ c \in Texts
        /\ Entry(w, L) = Cat(c, IF q = m - 1 THEN << >> ELSE Separator)
        /\ Entry(v, Joined(i, L, n)) =
             Cat(IF i = 0 /\ q = 0 THEN <<LeftBracket>> ELSE << >>,
                 Cat(c, IF i = s - 1 /\ q = m - 1 THEN <<RightBracket>> ELSE Separator))
    BY <2>1, JoinedEntry
  <2>4. (IF i = 0 /\ q = 0 THEN <<LeftBracket>> ELSE << >>) = IF q = 0 THEN first ELSE << >>
    OBVIOUS
  <2>5. (IF i = s - 1 /\ q = m - 1 THEN <<RightBracket>> ELSE Separator)
        = IF q = m - 1 THEN end ELSE Separator
    OBVIOUS
  <2> HIDE DEF c
  <2> QED BY <2>2, <2>3, <2>4, <2>5 DEF L
<1>10. core \in [0 .. m - 1 -> Texts]
  <2>1. core = [q \in 0 .. m - 1 |-> core[q]] OBVIOUS
  <2> HIDE DEF core
  <2> QED BY <1>9, <2>1
<1>11. first \in Texts /\ end \in Texts BY TokensAreText
<1> DEFINE base == i * m
<1>12. base \in Nat BY <1>1, <1>3
<1>13. \A q \in 0 .. m - 1 : base + q \in 0 .. N
  <2> TAKE q \in 0 .. m - 1
  <2> HIDE DEF s
  <2>1. (s - 1 - i) * m >= 0 BY <1>1, <1>3
  <2>2. (s - 1 - i) * m = s * m - m - i * m BY <1>1, <1>3
  <2> DEFINE y == s * m
             z == (s - 1 - i) * m
  <2>3. y \in Int /\ z \in Int BY <1>1, <1>3
  <2>4. z >= 0 /\ z = y - m - base /\ N = y BY <1>7, <2>1, <2>2
  <2> HIDE DEF base, y, z, N
  <2> QED BY <1>3, <1>12, <2>3, <2>4
<1> HIDE DEF w, s, n, core, first, end, N
<1>14. \A q \in 0 .. m - 1 : F[base + q] \in Texts BY <1>6, <1>13
<1>15. \A q \in 0 .. m - 1 :
         G[q + 1] = Cat(G[q], Cat(core[q], IF q = m - 1 THEN << >> ELSE Separator))
  <2> TAKE q \in 0 .. m - 1
  <2>1. G[q + 1] = Cat(G[q], Entry(w, K(q))) BY <1>5, <1>8
  <2> QED BY <1>9, <2>1
<1>16. \A q \in 0 .. m - 1 :
         F[base + q + 1] =
           Cat(F[base + q], Cat(IF q = 0 THEN first ELSE << >>,
                                Cat(core[q], IF q = m - 1 THEN end ELSE Separator)))
  <2> TAKE q \in 0 .. m - 1
  <2> DEFINE J == Joined(i, K(q), n)
  <2>1. J \in Indices(v) /\ Position(v, J) = base + q BY <1>8
  <2> HIDE DEF J
  <2>2. F[base + q + 1] = Cat(F[base + q], Entry(v, J)) BY <1>6, <2>1
  <2> QED BY <1>9, <2>2 DEF J
<1>17. Cat(F[base], first) = t BY DEF first
<1> HIDE DEF base, K
<1>18. F[base + m] = Cat(Cat(t, G[m]), end)
  <2>1. Row(F, G, core, m, base, first, end, t)
    BY <1>3, <1>5, <1>10, <1>11, <1>12, <1>14, <1>15, <1>16, <1>17 DEF Row
  <2> QED BY <2>1, RowText
<1>19. m \in 0 .. m BY <1>3
<1> QED BY <1>5, <1>18, <1>19 DEF base, w, s, end
-----------------------------------------------------------------------------
\* What the loop over the rows has printed after each of them.
IsPrinted(f, s, row) ==
  /\ f \in [0 .. s -> Texts] /\ f[0] = <<LeftBracket>>
  /\ \A i \in 1 .. s : f[i] = Cat(Cat(f[i - 1], row[i - 1]), Separator)
LEMMA PrintedLoop ==
  ASSUME NEW s \in Nat, NEW row \in [0 .. s - 1 -> Texts]
  PROVE  \E f : /\ IsPrinted(f, s, row)
                /\ Printed(s, row) =
                     IF row[0] \in {Aborts, Undefined} THEN row[0] ELSE Closed(f[s])
<1> DEFINE step == [i \in 1 .. s |-> [y \in Texts |-> Cat(Cat(y, row[i - 1]), Separator)]]
           body(f) == [i \in 0 .. s |-> IF i = 0 THEN <<LeftBracket>>
                                        ELSE Cat(Cat(f[i - 1], row[i - 1]), Separator)]
           text == CHOOSE f : f = body(f)
<1>1. Printed(s, row) = IF row[0] \in {Aborts, Undefined} THEN row[0] ELSE Closed(text[s])
  <2>1. Printed(s, row) =
          IF row[0] \in {Aborts, Undefined} THEN row[0]
          ELSE Closed((CHOOSE f : f = [i \in 0 .. s |->
                         IF i = 0 THEN <<LeftBracket>>
                         ELSE f[i - 1] \o row[i - 1] \o <<Comma, Space>>])[s])
    BY Zenon DEF Printed
  <2> QED BY <2>1, Zenon DEF Cat, Separator
<1>2. \A i \in 1 .. s : i - 1 \in 0 .. s - 1 /\ i - 1 \in 0 .. s /\ i # 0 /\ row[i - 1] \in Texts
  <2> TAKE i \in 1 .. s
  <2>1. i - 1 \in 0 .. s - 1 /\ i - 1 \in 0 .. s /\ i # 0 OBVIOUS
  <2> QED BY <2>1
<1>3. step \in [1 .. s -> [Texts -> Texts]]
  <2> SUFFICES ASSUME NEW i \in 1 .. s, NEW y \in Texts
               PROVE  Cat(Cat(y, row[i - 1]), Separator) \in Texts
    OBVIOUS
  <2> QED BY <1>2, TokensAreText, CatLaws
<1>4. PICK g \in [0 .. s -> Texts] : Loops(g, s, <<LeftBracket>>, step)
  <2>1. <<LeftBracket>> \in Texts BY TokensAreText
  <2> HIDE DEF step
  <2> QED BY <1>3, <2>1, Recursion
<1>5. IsPrinted(g, s, row)
  <2>1. ASSUME NEW i \in 1 .. s PROVE g[i] = Cat(Cat(g[i - 1], row[i - 1]), Separator)
    <3>1. g[i - 1] \in Texts BY <1>2
    <3>2. g[i] = step[i][g[i - 1]]
      <4> HIDE DEF step
      <4> QED BY <1>4 DEF Loops
    <3> QED BY <3>1, <3>2
  <2>2. g[0] = <<LeftBracket>> BY <1>4 DEF Loops
  <2> QED BY <2>1, <2>2 DEF IsPrinted
<1>6. g = body(g)
  <2>1. ASSUME NEW i \in 0 .. s
        PROVE  g[i] = IF i = 0 THEN <<LeftBracket>> ELSE Cat(Cat(g[i - 1], row[i - 1]), Separator)
    <3>1. i # 0 => i \in 1 .. s OBVIOUS
    <3> QED BY <1>5, <3>1 DEF IsPrinted
  <2>2. g = [i \in 0 .. s |-> g[i]] OBVIOUS
  <2> QED BY <2>1, <2>2
<1>7. text = body(text)
  <2>1. \E f : f = body(f)
    <3> HIDE DEF body
    <3> QED BY <1>6
  <2> HIDE DEF body
  <2> QED BY <2>1
<1> HIDE DEF text
<1>8. \A i \in 0 .. s :
        text[i] = IF i = 0 THEN <<LeftBracket>> ELSE Cat(Cat(text[i - 1], row[i - 1]), Separator)
  BY <1>7
<1> DEFINE P == {i \in Int : i \in 0 .. s => text[i] = g[i]}
<1>9. 0 \in P
  <2>1. 0 \in 0 .. s OBVIOUS
  <2>2. text[0] = <<LeftBracket>> BY <1>8, <2>1
  <2>3. g[0] = <<LeftBracket>> BY <1>5 DEF IsPrinted
  <2> QED BY <2>2, <2>3
<1>10. ASSUME NEW i \in 1 .. s, i - 1 \in P PROVE i \in P
  <2>1. text[i - 1] = g[i - 1] BY <1>2, <1>10
  <2>2. i \in 0 .. s /\ i # 0 /\ i \in Int OBVIOUS
  <2>3. text[i] = Cat(Cat(text[i - 1], row[i - 1]), Separator) BY <1>8, <2>2
  <2>4. g[i] = Cat(Cat(g[i - 1], row[i - 1]), Separator) BY <1>5 DEF IsPrinted
  <2> QED BY <2>1, <2>2, <2>3, <2>4
<1>11. text[s] = g[s]
  <2> HIDE DEF P
  <2>1. 0 \in Int /\ s \in Int /\ \A i \in 0 + 1 .. s : i - 1 \in P => i \in P BY <1>10
  <2>2. 0 .. s \subseteq P BY <1>9, <2>1, Induction
  <2>3. s \in 0 .. s OBVIOUS
  <2> QED BY <2>2, <2>3 DEF P
<1> QED BY <1>1, <1>5, <1>11

\* The last separator becomes the bracket.
LEMMA ClosedIs ==
  ASSUME NEW x \in Texts
  PROVE  Closed(Cat(x, Separator)) = Cat(x, <<RightBracket>>)
<1> DEFINE y == x \o Separator
           n == Len(x)
           z == SubSeq(y, 1, Len(y) - 2)
<1>1. x \in Seq(Int) /\ Separator \in Seq(Int) /\ RightBracket \in Int
  <2>1. RightBracket \in Int BY DEF RightBracket
  <2> QED BY <2>1, TokensAreText DEF Texts
<1>2. n \in Nat BY <1>1, LenProperties
<1>3. Len(Separator) = 2 BY DEF Separator
<1>4. /\ y \in Seq(Int) /\ Len(y) = n + 2
      /\ \A i \in 1 .. n + 2 : y[i] = IF i <= n THEN x[i] ELSE Separator[i - n]
  <2>1. /\ y \in Seq(Int) /\ Len(y) = n + Len(Separator)
        /\ \A i \in 1 .. n + Len(Separator) : y[i] = IF i <= n THEN x[i] ELSE Separator[i - n]
    BY <1>1, ConcatProperties
  <2> QED BY <1>3, <2>1
<1> HIDE DEF y, n
<1>5. Len(y) - 2 = n /\ n \in Int BY <1>2, <1>4
<1>6. \A i \in 1 .. n : y[i] = x[i] /\ x[i] \in Int
  <2>1. \A i \in 1 .. n : i \in 1 .. n + 2 /\ i <= n BY <1>2
  <2> QED BY <1>1, <1>4, <2>1 DEF n
<1>7. /\ z \in Seq(Int) /\ Len(z) = IF 1 <= n THEN n - 1 + 1 ELSE 0
      /\ \A i \in 1 .. n - 1 + 1 : z[i] = y[1 + i - 1]
  <2>1. \A i \in 1 .. n : y[i] \in Int BY <1>6
  <2>2. 1 \in Int OBVIOUS
  <2>3. z = SubSeq(y, 1, n) BY <1>5
  <2> HIDE DEF z
  <2> QED BY <1>5, <2>1, <2>2, <2>3, SubSeqProperties
<1> HIDE DEF z
<1>8. z = x
  <2>1. Len(z) = Len(x) BY <1>2, <1>7 DEF n
  <2>2. \A i \in 1 .. n : i \in 1 .. n - 1 + 1 /\ 1 + i - 1 = i BY <1>2
  <2>3. \A i \in 1 .. n : z[i] = x[i] BY <1>6, <1>7, <2>2
  <2>4. \A i \in 1 .. Len(z) : z[i] = x[i] BY <2>1, <2>3 DEF n
  <2> QED BY <1>1, <1>7, <2>1, <2>4, SeqEqual
<1>9. Closed(y) = Append(x, RightBracket) BY <1>8 DEF Closed, z
<1>10. Append(x, RightBracket) = x \o <<RightBracket>> BY <1>1, AppendIsConcat
<1> QED BY <1>9, <1>10, Zenon DEF Cat, y
-----------------------------------------------------------------------------
\* The texts of the rows, closed, are the text of the view.
LEMMA RowsMakeText ==
  ASSUME NEW v \in Views, Ndim(v) > 0, Indices(v) # {}, NEW f, NEW row,
         \A i \in 0 .. v.shape[1] - 1 : row[i] = Text(Subview(v, i)),
         IsPrinted(f, v.shape[1], row)
  PROVE  /\ v.shape[1] > 0
         /\ \A i \in 0 .. v.shape[1] - 1 : row[i] \in Texts /\ Indices(Subview(v, i)) # {}
         /\ Closed(f[v.shape[1]]) = Text(v)
<1> DEFINE s == v.shape[1]
           m == Cardinality(Indices(Subview(v, 0)))
<1>1. s \in Nat
  <2>1. 1 \in 1 .. Ndim(v) BY ViewType
  <2> QED BY <2>1, ViewType
<1>2. PICK J \in Indices(v) : TRUE OBVIOUS
<1>3. s > 0
  <2>1. J[1] \in 0 .. s - 1 BY IndexIsJoined
  <2> HIDE DEF s
  <2> QED BY <1>1, <2>1
<1>4. Indices(Subview(v, 0)) # {}
  <2>1. \E K \in Indices(Subview(v, J[1])) : J = Joined(J[1], K, Ndim(v)) BY IndexIsJoined
  <2>2. Indices(Subview(v, J[1])) = Indices(Subview(v, 0)) BY SubviewsAlike
  <2> QED BY <2>1, <2>2
<1>5. \A i : Indices(Subview(v, i)) # {} /\ Cardinality(Indices(Subview(v, i))) = m
  BY <1>4, SubviewsAlike
<1>6. m \in Nat
  <2>1. 0 \in Int OBVIOUS
  <2>2. Subview(v, 0) \in Views BY <2>1, SubviewType
  <2> QED BY <2>2, IndicesCounted
<1>7. Cardinality(Indices(v)) = s * m BY PositionSplits
<1>8. PICK F : IsText(F, v) BY TextLoop
<1>9. F[0] = << >> /\ Text(v) = F[s * m] BY <1>7, <1>8 DEF IsText
<1>10. /\ f \in [0 .. s -> Texts] /\ f[0] = <<LeftBracket>>
       /\ \A i \in 1 .. s : f[i] = Cat(Cat(f[i - 1], row[i - 1]), Separator)
  BY DEF IsPrinted
<1> DEFINE lead(i) == IF i = 0 THEN <<LeftBracket>> ELSE << >>
           last(i) == IF i = s - 1 THEN <<RightBracket>> ELSE Separator
<1>11. ASSUME NEW i \in 0 .. s - 1, Cat(F[i * m], lead(i)) = f[i]
       PROVE  row[i] \in Texts /\ F[i * m + m] = Cat(Cat(f[i], row[i]), last(i))
  <2> DEFINE t == f[i]
             r == Text(Subview(v, i))
  <2>1. t \in Texts BY <1>1, <1>10
  <2>2. row[i] = r OBVIOUS
  <2>3. Cat(F[i * m], IF i = 0 THEN <<LeftBracket>> ELSE << >>) = t BY <1>11
  <2>4. Indices(Subview(v, i)) # {} /\ m = Cardinality(Indices(Subview(v, i))) BY <1>5
  <2>5. i \in 0 .. v.shape[1] - 1 OBVIOUS
  <2> HIDE DEF t, m
  <2>6. r \in Texts /\ F[i * m + m] = Cat(Cat(t, r), last(i))
    BY <1>8, <2>1, <2>3, <2>4, <2>5, RowOfView
  <2> QED BY <2>2, <2>6 DEF t
<1> HIDE DEF s, m
<1> DEFINE P == {i \in Int : i \in 0 .. s - 1 => Cat(F[i * m], lead(i)) = f[i]}
<1>12. 0 \in P
  <2>1. 0 * m = 0 BY <1>6
  <2>2. Cat(<< >>, <<LeftBracket>>) = <<LeftBracket>> BY TokensAreText, CatLaws
  <2> QED BY <1>9, <1>10, <2>1, <2>2
<1>13. ASSUME NEW i \in 1 .. s - 1, i - 1 \in P PROVE i \in P
  <2> DEFINE j == i - 1
  <2>1. j \in 0 .. s - 1 /\ j # s - 1 /\ i \in 1 .. s /\ i \in 0 .. s /\ i # 0 BY <1>1
  <2>2. j * m + m = i * m BY <1>6
  <2>3. Cat(F[j * m], lead(j)) = f[j] BY <1>13, <2>1
  <2>4. f[i] = Cat(Cat(f[j], row[j]), Separator) BY <1>10, <2>1
  <2>5. last(j) = Separator BY <2>1
  <2> HIDE DEF j
  <2>6. F[j * m + m] = Cat(Cat(f[j], row[j]), last(j)) BY <1>11, <2>1, <2>3
  <2>7. F[i * m] = f[i] BY <2>2, <2>4, <2>5, <2>6
  <2>8. f[i] \in Texts BY <1>10, <2>1
  <2>9. Cat(f[i], << >>) = f[i] BY <2>8, CatLaws
  <2>10. lead(i) = << >> BY <2>1
  <2> QED BY <2>7, <2>9, <2>10
<1>14. \A i \in 0 .. s - 1 : Cat(F[i * m], lead(i)) = f[i]
  <2> DEFINE k == s - 1
  <2>1. 0 \in Int /\ k \in Int /\ \A i \in 0 + 1 .. k : i - 1 \in P => i \in P
    <3> HIDE DEF P
    <3> QED BY <1>1, <1>13
  <2> HIDE DEF P, k
  <2>2. 0 .. k \subseteq P BY <1>12, <2>1, Induction
  <2> QED BY <2>2 DEF P, k
<1>15. \A i \in 0 .. s - 1 : row[i] \in Texts BY <1>11, <1>14
<1>16. Closed(f[s]) = Text(v)
  <2> DEFINE j == s - 1
             x == Cat(f[j], row[j])
  <2>1. j \in 0 .. s - 1 /\ j \in 0 .. s /\ s \in 1 .. s BY <1>1, <1>3
  <2>2. j * m + m = s * m BY <1>1, <1>6
  <2>3. last(j) = <<RightBracket>> OBVIOUS
  <2>4. f[s] = Cat(x, Separator) BY <1>10, <2>1
  <2> HIDE DEF j
  <2>5. F[j * m + m] = Cat(x, last(j)) BY <1>11, <1>14, <2>1
  <2>6. f[j] \in Texts /\ row[j] \in Texts BY <1>10, <1>15, <2>1
  <2>7. x \in Texts BY <2>6, CatLaws
  <2> HIDE DEF x
  <2>8. Closed(Cat(x, Separator)) = Cat(x, <<RightBracket>>) BY <2>7, ClosedIs
  <2> QED BY <1>9, <2>2, <2>3, <2>4, <2>5, <2>8
<1> QED BY <1>3, <1>5, <1>15, <1>16 DEF s
-----------------------------------------------------------------------------
\* The list of the types that are dispatched over is a sequence of types.
NumberTypes ==
  {"float32", "float64", "int8", "int16", "int32", "int64", "uint8", "uint16", "uint32", "uint64"}
LEMMA PrintedTypesType == PrintedTypes \in Seq(NumberTypes)
<1>1. ASSUME NEW s \in Seq(NumberTypes), NEW t \in Seq(NumberTypes)
      PROVE  s \o t \in Seq(NumberTypes)
  BY <1>1, ConcatProperties
<1>2. /\ FloatTypes \in Seq(NumberTypes) /\ IntTypes \in Seq(NumberTypes)
      /\ UIntTypes \in Seq(NumberTypes)
  <2> DEFINE S == NumberTypes
  <2>1. "float32" \in S /\ "float64" \in S BY DEF NumberTypes
  <2>2. "int8" \in S /\ "int16" \in S /\ "int32" \in S /\ "int64" \in S BY DEF NumberTypes
  <2>3. "uint8" \in S /\ "uint16" \in S /\ "uint32" \in S /\ "uint64" \in S BY DEF NumberTypes
  <2> HIDE DEF S
  <2>4. <<"float32", "float64">> \in Seq(S) BY <2>1
  <2>5. <<"int8", "int16", "int32", "int64">> \in Seq(S) BY <2>2
  <2>6. <<"uint8", "uint16", "uint32", "uint64">> \in Seq(S) BY <2>3
  <2> QED BY <2>4, <2>5, <2>6, Zenon DEF FloatTypes, IntTypes, UIntTypes, S
<1>3. AllIntTypes \in Seq(NumberTypes)
  BY <1>1, <1>2 DEF AllIntTypes
<1> QED BY <1>1, <1>2, <1>3 DEF PrintedTypes

\* What is expected to be printed of a view.
Expected(v) ==
  IF Indices(v) = {} THEN Undefined
  ELSE IF v.dtype \notin ToSet(PrintedTypes) THEN Aborts
  ELSE Text(v)

\* It is an element's address where there are no dimensions.
LEMMA ScalarIs ==
  ASSUME NEW v \in Views, Ndim(v) = 0
  PROVE  Scalar(v) = Expected(v)
<1> DEFINE a == <<Address(v, << >>)>>
           d == v.dtype
<1>1. Cardinality(Indices(v)) = 1 /\ Indices(v) # {}
  <2>1. PICK c : Counts(c, v) /\ Cardinality(Indices(v)) = c[0] BY CountsLoop
  <2>2. Cardinality(Indices(v)) = 1 BY <2>1 DEF Counts
  <2> QED BY <2>2, FS_EmptySet
<1>2. PICK J \in Indices(v) : TRUE BY <1>1
<1>3. a \in Texts /\ Entry(v, J) = a
  <2>1. Address(v, << >>) \in Int /\ Entry(v, J) = a BY ScalarEntry
  <2> QED BY <2>1 DEF Texts
<1>4. Text(v) = a
  <2>1. PICK F : IsText(F, v) BY <1>1, TextLoop
  <2>2. Position(v, J) = 0
    <3>1. Position(v, J) \in 0 .. 1 - 1 BY <1>1, PositionType
    <3> QED BY <3>1
  <2> HIDE DEF a
  <2>3. F[0] = << >> /\ Text(v) = F[1] /\ F[0 + 1] = Cat(F[0], a)
    <3>1. F[Position(v, J) + 1] = Cat(F[Position(v, J)], Entry(v, J)) BY <2>1 DEF IsText
    <3> QED BY <1>1, <1>3, <2>1, <2>2, <3>1 DEF IsText
  <2>4. Cat(<< >>, a) = a BY <1>3, CatLaws
  <2> QED BY <2>3, <2>4
<1>5. DispatchFunc(d, PrintedTypes, ToSet(PrintedTypes)) =
        IF d \in ToSet(PrintedTypes) THEN d ELSE NoMatch
  <2> DEFINE T == ToSet(PrintedTypes)
             values == PrintedTypes
  <2>1. values \in Seq(NumberTypes) BY PrintedTypesType
  <2> HIDE DEF d, T, values
  <2>2. DispatchFunc(d, values, T) = IF d \in ToSet(values) \cap T THEN d ELSE NoMatch
    BY <2>1, DispatchIs
  <2>3. T = ToSet(values) BY DEF T, values
  <2> QED BY <2>2, <2>3 DEF values
<1>6. Scalar(v) = IF d \in ToSet(PrintedTypes) THEN a ELSE Aborts
  <2>1. NoMatch \notin ToSet(PrintedTypes) BY PrintingAssumption
  <2>2. Scalar(v) = IF DispatchFunc(d, PrintedTypes, ToSet(PrintedTypes)) = NoMatch
                    THEN Aborts ELSE a
    BY DEF Scalar
  <2> QED BY <1>5, <2>1, <2>2
<1> HIDE DEF a, d
<1> QED BY <1>1, <1>4, <1>6 DEF Expected, d

\* A view is printed as expected if its rows are.
LEMMA RowsExpected ==
  ASSUME NEW v \in Views, Ndim(v) > 0,
         \A i \in 0 .. v.shape[1] - 1 :
           ToStringHelper[Subview(v, i)] = Expected(Subview(v, i))
  PROVE  ToStringHelper[v] = Expected(v)
<1> DEFINE s == v.shape[1]
           row == [i \in 0 .. s - 1 |-> ToStringHelper[Subview(v, i)]]
<1>1. s \in Nat
  <2>1. 1 \in 1 .. Ndim(v) BY ViewType
  <2> QED BY <2>1, ViewType
<1>2. ToStringHelper[v] = IF s = 0 THEN Undefined ELSE Printed(s, row)
  <2>1. ToStringHelper[v] = Prints(ToStringHelper, v) BY PrintsFromRows
  <2>2. Ndim(v) # 0 BY ViewType
  <2> QED BY <2>1, <2>2 DEF Prints
<1>3. \A i \in 0 .. s - 1 : row[i] = Expected(Subview(v, i)) OBVIOUS
<1>4. row[0] \in {Aborts, Undefined} => Printed(s, row) = row[0] BY Zenon DEF Printed
<1>5. \A i \in 0 .. s - 1 : Subview(v, i).dtype = v.dtype
  <2> TAKE i \in 0 .. s - 1
  <2>1. i \in Int BY <1>1
  <2> QED BY <2>1, SubviewType
<1>6. s # 0 => 0 \in 0 .. s - 1 BY <1>1
<1> HIDE DEF row
<1>7. CASE Indices(v) = {}
  <2>1. Expected(v) = Undefined BY <1>7 DEF Expected
  <2>2. CASE s = 0 BY <1>2, <2>1, <2>2
  <2>3. CASE s # 0
    <3>1. Indices(Subview(v, 0)) = {}
      <4> SUFFICES ASSUME NEW K \in Indices(Subview(v, 0)) PROVE FALSE OBVIOUS
      <4>1. Joined(0, K, Ndim(v)) \in Indices(v) BY <1>6, <2>3, JoinedIs
      <4> QED BY <1>7, <4>1
    <3>2. Expected(Subview(v, 0)) = Undefined BY <3>1 DEF Expected
    <3>3. row[0] = Undefined BY <1>3, <1>6, <2>3, <3>2
    <3> QED BY <1>2, <1>4, <2>1, <2>3, <3>3
  <2> QED BY <2>2, <2>3
<1>8. CASE Indices(v) # {}
  <2>1. s > 0 /\ \A i \in 0 .. s - 1 : Indices(Subview(v, i)) # {}
    <3>1. PICK J \in Indices(v) : TRUE BY <1>8
    <3>2. /\ J[1] \in 0 .. s - 1
          /\ \E K \in Indices(Subview(v, J[1])) : J = Joined(J[1], K, Ndim(v))
      BY IndexIsJoined
    <3>3. \A i : Indices(Subview(v, i)) = Indices(Subview(v, J[1])) BY SubviewsAlike
    <3> HIDE DEF s
    <3>4. s > 0 BY <1>1, <3>2
    <3> QED BY <3>2, <3>3, <3>4
  <2>2. 0 \in 0 .. s - 1 /\ s # 0 BY <1>6, <2>1
  <2>3. CASE v.dtype \notin ToSet(PrintedTypes)
    <3>1. Expected(v) = Aborts BY <1>8, <2>3 DEF Expected
    <3>2. Expected(Subview(v, 0)) = Aborts BY <1>5, <2>1, <2>2, <2>3 DEF Expected
    <3>3. row[0] = Aborts BY <1>3, <2>2, <3>2
    <3> QED BY <1>2, <1>4, <2>2, <3>1, <3>3
  <2>4. CASE v.dtype \in ToSet(PrintedTypes)
    <3>1. Expected(v) = Text(v) BY <1>8, <2>4 DEF Expected
    <3>2. \A i \in 0 .. s - 1 : row[i] = Text(Subview(v, i))
      BY <1>3, <1>5, <2>1, <2>4 DEF Expected
    <3>3. row \in [0 .. s - 1 -> Texts]
      <4>1. \A i \in 0 .. s - 1 : row[i] \in Texts
        <5> SUFFICES ASSUME NEW i \in 0 .. s - 1 PROVE Text(Subview(v, i)) \in Texts
          BY <3>2
        <5> DEFINE w == Subview(v, i)
        <5>1. i \in Int /\ Indices(w) # {} BY <1>1, <2>1
        <5>2. w \in Views BY <5>1, SubviewType
        <5> HIDE DEF w
        <5>3. PICK F : IsText(F, w) BY <5>1, <5>2, TextLoop
        <5>4. Cardinality(Indices(w)) \in Nat BY <5>2, IndicesCounted
        <5> QED BY <5>3, <5>4 DEF IsText, w
      <4>2. row = [i \in 0 .. s - 1 |-> row[i]] BY DEF row
      <4> QED BY <4>1, <4>2
    <3>4. PICK f : /\ IsPrinted(f, s, row)
                   /\ Printed(s, row) =
                        IF row[0] \in {Aborts, Undefined} THEN row[0] ELSE Closed(f[s])
      BY <1>1, <3>3, PrintedLoop
    <3>5. row[0] \notin {Aborts, Undefined}
      <4>1. row[0] \in Texts BY <2>2, <3>3
      <4> QED BY <4>1, PrintingAssumption DEF Texts
    <3>6. Closed(f[s]) = Text(v) BY <1>8, <3>2, <3>4, RowsMakeText
    <3> QED BY <1>2, <2>2, <3>1, <3>4, <3>5, <3>6
  <2> QED BY <2>3, <2>4
<1> QED BY <1>7, <1>8

\* Every view is printed as expected.
LEMMA PrintsExpected == \A v \in Views : ToStringHelper[v] = Expected(v)
<1> DEFINE P == {n \in Int : \A v \in Views : Ndim(v) = n => ToStringHelper[v] = Expected(v)}
<1>1. 0 \in P
  <2> SUFFICES ASSUME NEW v \in Views, Ndim(v) = 0 PROVE ToStringHelper[v] = Expected(v)
    OBVIOUS
  <2>1. ToStringHelper[v] = Prints(ToStringHelper, v) BY PrintsFromRows
  <2>2. Prints(ToStringHelper, v) = Scalar(v) BY DEF Prints
  <2> QED BY <2>1, <2>2, ScalarIs
<1>2. ASSUME NEW n \in Nat, n > 0, n - 1 \in P PROVE n \in P
  <2> SUFFICES ASSUME NEW v \in Views, Ndim(v) = n PROVE ToStringHelper[v] = Expected(v)
    OBVIOUS
  <2>1. ASSUME NEW i \in 0 .. v.shape[1] - 1
        PROVE  ToStringHelper[Subview(v, i)] = Expected(Subview(v, i))
    <3>1. i \in Int
      <4>1. 1 \in 1 .. Ndim(v) BY <1>2
      <4> QED BY <4>1, ViewType
    <3>2. Subview(v, i) \in Views /\ Ndim(Subview(v, i)) = n - 1 BY <1>2, <3>1, SubviewType
    <3> QED BY <1>2, <3>2
  <2> HIDE DEF P
  <2> QED BY <1>2, <2>1, RowsExpected
<1> HIDE DEF P
<1>3. ASSUME NEW n \in Nat PROVE n \in P
  <2>1. 0 \in Int /\ n \in Int OBVIOUS
  <2>2. \A d \in 0 + 1 .. n : d - 1 \in P => d \in P
    <3> TAKE d \in 0 + 1 .. n
    <3>1. d \in Nat /\ d > 0 OBVIOUS
    <3> QED BY <1>2, <3>1
  <2>3. 0 .. n \subseteq P BY <1>1, <2>1, <2>2, Induction
  <2> QED BY <2>3
<1>4. ASSUME NEW v \in Views PROVE ToStringHelper[v] = Expected(v)
  <2>1. Ndim(v) \in P BY <1>3, ViewType
  <2> QED BY <2>1 DEF P
<1> QED BY <1>4

\* Whatever it was derived from, a view prints its elements, each once, in
\* row-major order, in the brackets of their rows: what the recursion over the
\* rows concatenates and closes is what the elements make one behind the other.
\* Of a data type that is not dispatched over, whichever it is, a view with
\* elements aborts the program (src/tensor_view.cc:110-132).
THEOREM PrintsInOrder == Spec => []PrintsRows
<1>1. ViewOK => PrintsRows BY PrintsExpected DEF ViewOK, PrintsRows, Expected
<1> QED BY <1>1, ViewTypes, PTL
-----------------------------------------------------------------------------
\* The core types share no state: a program that uses them all behaves, for
\* each of them, as one that uses only it (src/tensor_view.h,
\* src/common/cast.h, src/dispatcher.h).
THEOREM TypesIndependent == CoreSpec => Spec /\ ValueSpec /\ CallSpec
<1>1. CoreInit => Init /\ ValueInit /\ CallInit BY DEF CoreInit
<1>2. [CoreNext]_allVars => [Next]_vars /\ [ValueNext]_value /\ [CallNext]_call
  BY DEF CoreNext, allVars, vars
<1> QED BY <1>1, <1>2, PTL DEF CoreSpec, Spec, ValueSpec, CallSpec

\* What holds of a view, a number or a dispatch alone holds of it in such a
\* program.
THEOREM CoreInvariants ==
  CoreSpec => /\ [](/\ InsideAllocation /\ ContiguousIsBlock /\ DefaultStaysContiguous
                    /\ BroadcastRepeats /\ PrintsRows /\ DispatchesByValue)
              /\ DerivedElements /\ RoundsToNearest /\ WidensExactly
BY TypesIndependent, StaysInside, ContiguousIsOneBlock, DefaultsStayContiguous,
   BroadcastsRepeat, PrintsInOrder, DispatchCorrect, SelectsElements,
   ConversionsRound, WideningIsExact, PTL
=============================================================================
