---------------------- MODULE ShapeStridesStorageProofs ----------------------
(***************************************************************************)
(* Proofs about ShapeStridesStorage for any vectors, storages, blocks,     *)
(* values and capacities.                                                  *)
(*                                                                         *)
(* OneStorageOwner is not inductive: that no block is freed twice rests on *)
(* what heap_storage looks like whenever the sizes choose it, and on       *)
(* vectors having their blocks exactly when their capacity says so.        *)
(* StorageInv says both, and that blocks hold what sizes count.  Each step *)
(* is about few owners, and StepKeepsInv is what all of them have in       *)
(* common: only blocks of those owners, or free ones, change hands.        *)
(***************************************************************************)
EXTENDS ShapeStridesStorage, SequenceTheorems, NaturalsInduction,
        WellFoundedInduction, TLAPS

Owners == Vectors \cup Storages
Pointers == (Blocks \cup {None}) \X Nat

Types ==
  /\ live \subseteq Vectors /\ built \subseteq Storages
  /\ obj \in [Objects -> [size : Nat, capacity : Nat, heap : Blocks \cup {None}]]
  /\ alloc \in [Blocks -> Nat]
  /\ cells \in [Vectors \cup Blocks -> Seq(Values)]
  /\ sizes \in [Storages -> [shape : Nat, strides : Nat]]
  /\ inlined \in [Storages -> [shape : Seq(Values), strides : Seq(Values)]]
  /\ heap \in [Storages -> [allocation : Blocks \cup {None}, shape : Pointers,
                            strides : Pointers, shapeCapacity : Nat,
                            stridesCapacity : Nat]]

\* A vector has a block exactly when its capacity says so, of that capacity,
\* and its elements are there.
VectorSound(v) ==
  /\ obj[v].size <= obj[v].capacity /\ InlineCapacity <= obj[v].capacity
  /\ IsHeap(v) <=> obj[v].heap # None
  /\ IsHeap(v) => alloc[obj[v].heap] = obj[v].capacity
  /\ obj[v].size <= Len(cells[Data(v)])
  /\ v \notin live => ~IsHeap(v)

\* One block for the shape and, behind it, the strides.
Combined(t) ==
  \E b \in Blocks :
    /\ heap[t] = HeapStorage(b, <<b, 0>>, <<b, sizes[t].shape>>, 0, 0)
    /\ alloc[b] # 0
    /\ sizes[t].shape + sizes[t].strides <= Len(cells[b])

\* Two blocks of the capacities that are kept with them.
Split(t) ==
  \E b, d \in Blocks :
    /\ b # d
    /\ heap[t] = HeapStorage(None, <<b, 0>>, <<d, 0>>, alloc[b], alloc[d])
    /\ alloc[b] # 0 /\ alloc[d] # 0
    /\ sizes[t].shape <= Len(cells[b]) /\ sizes[t].strides <= Len(cells[d])

StorageSound(t) ==
  /\ t \notin built => IsInline(t)
  /\ IsInline(t) => /\ heap[t] = NoHeap
                    /\ sizes[t].shape <= Len(inlined[t].shape)
                    /\ sizes[t].strides <= Len(inlined[t].strides)
  /\ ~IsInline(t) => Combined(t) \/ Split(t)

\* The allocated blocks are those that somebody owns, and nobody else does.
Owned ==
  /\ \A o, p \in Owners : o # p => BlocksOf(o) \cap BlocksOf(p) = {}
  /\ \A b \in Blocks : alloc[b] # 0 <=> \E o \in Owners : b \in BlocksOf(o)

StorageInv ==
  /\ Types
  /\ \A v \in Vectors : VectorSound(v)
  /\ \A t \in Storages : StorageSound(t)
  /\ Owned

-----------------------------------------------------------------------------
\* Default strides.

\* A set of natural numbers that is not empty has a least element.
LEMMA LeastNatural ==
  ASSUME NEW S, S \subseteq Nat, S # {}
  PROVE  \E i \in S : \A j \in S : i <= j
<1>1. PICK i \in S : \A j \in S : ~(<<j, i>> \in OpToRel(<, Nat))
  BY NatLessThanWellFounded, WFMin
<1>2. \A j \in S : ~(j < i)
  BY <1>1 DEF OpToRel
<1> QED
  BY <1>2, SMT

\* A stride times a dimension is a stride again, in its width.
LEMMA ProductType ==
  ASSUME NEW a \in Values, NEW b \in Values
  PROVE  (a * b) % Modulus \in Values /\ 1 \in Values
<1>1. Modulus \in Nat /\ Modulus > 1 /\ Values = 0 .. Modulus - 1
  BY StorageAssumption
<1>2. a * b \in Nat
  BY <1>1
<1>3. \A c \in Nat : c % Modulus \in 0 .. Modulus - 1
  BY <1>1
<1> QED BY <1>1, <1>2, <1>3

\* The recursion of FillDefaultStrides is from the last dimension to the
\* first, and gives every dimension a stride.
Strided(s, k, g) ==
  \A i \in Len(s) - k + 1 .. Len(s) :
    g[i] = IF i = Len(s) THEN 1 ELSE (g[i + 1] * s[i + 1]) % Modulus
LEMMA DefaultStridesType ==
  ASSUME NEW s \in Seq(Values)
  PROVE  /\ DefaultStrides(s) \in Seq(Values) /\ Len(DefaultStrides(s)) = Len(s)
         /\ Strided(s, Len(s), DefaultStrides(s))
<1> DEFINE n == Len(s)
           Last(k) == n - k + 1 .. n
           Undone == {k \in 0 .. n : ~\E g \in [Last(k) -> Values] : Strided(s, k, g)}
<1>1. n \in Nat /\ \A i \in 1 .. n : s[i] \in Values
  BY LenProperties, ElementOfSeq
<1>2. \E g \in [Last(0) -> Values] : Strided(s, 0, g)
  <2>1. Last(0) = {} BY <1>1
  <2>2. [i \in {} |-> 1] \in [Last(0) -> Values] BY <2>1
  <2> QED BY <2>1, <2>2 DEF Strided
<1>3. ASSUME NEW k \in 1 .. n, NEW g \in [Last(k - 1) -> Values], Strided(s, k - 1, g)
      PROVE  \E h \in [Last(k) -> Values] : Strided(s, k, h)
  <2> DEFINE first == n - k + 1
             new == IF first = n THEN 1 ELSE (g[first + 1] * s[first + 1]) % Modulus
             h == [i \in Last(k) |-> IF i = first THEN new ELSE g[i]]
  <2>1. k \in Nat /\ first \in 1 .. n /\ Last(k) = {first} \cup Last(k - 1)
        /\ first \notin Last(k - 1)
    BY <1>1
  <2>2. new \in Values
    <3>1. CASE first = n
      BY <3>1, StorageAssumption
    <3>2. CASE first # n
      <4>1. first + 1 \in Last(k - 1) /\ first + 1 \in 1 .. n
        BY <1>1, <2>1, <3>2
      <4>2. g[first + 1] \in Values /\ s[first + 1] \in Values
        BY <1>1, <4>1
      <4> HIDE DEF first
      <4> QED BY <4>2, <3>2, ProductType
    <3> QED BY <3>1, <3>2
  <2> HIDE DEF new
  <2>3. h \in [Last(k) -> Values]
    BY <2>1, <2>2
  <2>4. \A i \in Last(k) : h[i] = IF i = n THEN 1 ELSE (h[i + 1] * s[i + 1]) % Modulus
    <3> TAKE i \in Last(k)
    <3>1. CASE i = first
      <4>1. h[i] = new BY <3>1
      <4>2. i # n => i + 1 \in Last(k) /\ i + 1 # first
        BY <1>1, <2>1, <3>1
      <4>3. i # n => h[i + 1] = g[first + 1]
        BY <4>2, <3>1
      <4> QED BY <4>1, <4>3, <3>1 DEF new
    <3>2. CASE i # first
      <4>1. i \in Last(k - 1) BY <2>1, <3>2
      <4>2. h[i] = g[i] BY <3>2
      <4>3. i # n => i + 1 \in Last(k) /\ i + 1 # first
        BY <1>1, <2>1, <3>2
      <4>4. i # n => h[i + 1] = g[i + 1]
        BY <4>3
      <4>5. g[i] = IF i = n THEN 1 ELSE (g[i + 1] * s[i + 1]) % Modulus
        BY <4>1, <1>3 DEF Strided
      <4> QED BY <4>2, <4>4, <4>5
    <3> QED BY <3>1, <3>2
  <2> HIDE DEF h
  <2> QED BY <2>3, <2>4 DEF Strided
<1>4. /\ Undone \subseteq Nat
      /\ \A k \in Nat : k \in Undone <=>
           k \in 0 .. n /\ ~\E g \in [Last(k) -> Values] : Strided(s, k, g)
  BY <1>1
<1> HIDE DEF Undone
<1>5. Undone = {}
  <2> SUFFICES ASSUME Undone # {} PROVE FALSE
    OBVIOUS
  <2>1. PICK k \in Undone : \A j \in Undone : k <= j
    BY <1>4, LeastNatural
  <2>2. k \in 1 .. n
    BY <1>1, <1>2, <1>4, <2>1
  <2>3. k - 1 \in 0 .. n /\ k - 1 \notin Undone
    BY <1>1, <1>4, <2>1, <2>2
  <2> QED BY <1>3, <1>4, <2>1, <2>2, <2>3
<1>6. PICK g \in [1 .. n -> Values] : Strided(s, n, g)
  <2>1. n \in 0 .. n /\ Last(n) = 1 .. n BY <1>1
  <2> QED BY <1>1, <1>4, <1>5, <2>1
<1>7. \A i \in 1 .. n : g[i] = IF i = n THEN 1 ELSE (g[i + 1] * s[i + 1]) % Modulus
  BY <1>1, <1>6 DEF Strided
<1>8. g = [i \in 1 .. n |-> IF i = n THEN 1 ELSE (g[i + 1] * s[i + 1]) % Modulus]
  BY <1>6, <1>7
<1> DEFINE body(f) == [i \in 1 .. n |-> IF i = n THEN 1 ELSE (f[i + 1] * s[i + 1]) % Modulus]
           strides == CHOOSE f : f = body(f)
<1>9. DefaultStrides(s) = strides
  BY DEF DefaultStrides
<1>10. strides = body(strides)
  <2>1. \E f : f = body(f) BY <1>8
  <2> HIDE DEF body
  <2> QED BY <2>1
<1>11. DOMAIN strides = 1 .. n
       /\ \A i \in 1 .. n : strides[i] = IF i = n THEN 1 ELSE (strides[i + 1] * s[i + 1]) % Modulus
  <2> HIDE DEF strides
  <2>1. strides = [i \in 1 .. n |-> IF i = n THEN 1 ELSE (strides[i + 1] * s[i + 1]) % Modulus]
    BY <1>10
  <2> QED BY <2>1
<1> HIDE DEF strides
<1>12. \A i \in 1 .. n : strides[i] \in Values
  <2> DEFINE wrong == {k \in 0 .. n - 1 : strides[n - k] \notin Values}
  <2>1. wrong \subseteq Nat /\ \A k \in Nat : k \in wrong <=> k \in 0 .. n - 1 /\ strides[n - k] \notin Values
    BY <1>1
  <2> HIDE DEF wrong
  <2>2. ASSUME wrong # {} PROVE FALSE
    <3>1. PICK k \in wrong : \A j \in wrong : k <= j
      BY <2>1, <2>2, LeastNatural
    <3>2. k \in 0 .. n - 1 /\ n - k \in 1 .. n /\ strides[n - k] \notin Values
      BY <1>1, <2>1
    <3>3. CASE k = 0
      <4>1. n - k = n BY <3>3, <1>1
      <4>2. strides[n - k] = 1 BY <3>2, <4>1, <1>11
      <4> QED BY <4>2, <3>2, StorageAssumption
    <3>4. CASE k # 0
      <4>1. /\ k - 1 \in 0 .. n - 1 /\ n - (k - 1) = n - k + 1
            /\ n - k # n /\ n - k + 1 \in 1 .. n
        BY <3>2, <3>4, <1>1
      <4>2. k - 1 \notin wrong
        BY <3>1, <3>2, <2>1
      <4>3. strides[n - k + 1] \in Values
        BY <4>1, <4>2, <2>1
      <4>4. s[n - k + 1] \in Values
        BY <4>1, <1>1
      <4>5. strides[n - k] = (strides[n - k + 1] * s[n - k + 1]) % Modulus
        BY <1>11, <3>2, <4>1
      <4> QED BY <3>2, <4>3, <4>4, <4>5, ProductType
    <3> QED BY <3>3, <3>4
  <2>3. \A i \in 1 .. n : n - i \in Nat /\ n - i \in 0 .. n - 1 /\ n - (n - i) = i
    BY <1>1
  <2> QED BY <2>1, <2>2, <2>3
<1>13. strides \in [1 .. n -> Values]
  <2>1. strides = [i \in 1 .. n |-> strides[i]]
    BY <1>10, <1>11
  <2> QED BY <2>1, <1>12
<1>14. Strided(s, n, strides)
  <2>1. n - n + 1 .. n = 1 .. n BY <1>1
  <2> QED BY <1>11, <2>1 DEF Strided
<1> QED BY <1>1, <1>9, <1>13, <1>14, SeqDef, LenProperties

\* Induction over the first n natural numbers.
LEMMA Induction ==
  ASSUME NEW n \in Nat, NEW P, 0 \in P, \A k \in 1 .. n : k - 1 \in P => k \in P
  PROVE  0 .. n \subseteq P
<1> DEFINE wrong == {k \in 0 .. n : k \notin P}
<1>1. CASE wrong # {}
  <2>1. wrong \subseteq Nat OBVIOUS
  <2>2. PICK k \in wrong : \A j \in wrong : k <= j
    BY <1>1, <2>1, LeastNatural
  <2>3. k \in 1 .. n /\ k \notin P OBVIOUS
  <2>4. k - 1 \in 0 .. n /\ k - 1 \notin wrong BY <2>2, <2>3
  <2> QED BY <2>3, <2>4
<1> QED BY <1>1

\* A loop that starts at x and takes step[k] in round k.
Loops(f, n, x, step) ==
  f[0] = x /\ \A k \in 1 .. n : f[k] = step[k][f[k - 1]]
LEMMA Recursion ==
  ASSUME NEW n \in Nat, NEW S, NEW x \in S, NEW step \in [1 .. n -> [S -> S]]
  PROVE  \E f \in [0 .. n -> S] : Loops(f, n, x, step)
<1> DEFINE Done == {k \in 0 .. n : \E f \in [0 .. k -> S] : Loops(f, k, x, step)}
<1>1. 0 \in Done
  <2>1. [k \in 0 .. 0 |-> x] \in [0 .. 0 -> S] OBVIOUS
  <2>2. Loops([k \in 0 .. 0 |-> x], 0, x, step) BY DEF Loops
  <2> QED BY <2>1, <2>2
<1>2. ASSUME NEW k \in 1 .. n, k - 1 \in Done PROVE k \in Done
  <2>1. PICK f \in [0 .. k - 1 -> S] : Loops(f, k - 1, x, step) BY <1>2
  <2> DEFINE g == [d \in 0 .. k |-> IF d = k THEN step[k][f[k - 1]] ELSE f[d]]
  <2>2. k - 1 \in 0 .. k - 1 /\ \A d \in 0 .. k : d # k => d \in 0 .. k - 1
    OBVIOUS
  <2>3. step[k][f[k - 1]] \in S BY <2>2
  <2>4. g \in [0 .. k -> S] BY <2>2, <2>3
  <2>5. Loops(g, k, x, step)
    <3>1. g[0] = x BY <2>1, <2>2 DEF Loops
    <3>2. ASSUME NEW d \in 1 .. k PROVE g[d] = step[d][g[d - 1]]
      <4>1. d \in 0 .. k /\ d - 1 \in 0 .. k /\ d - 1 # k OBVIOUS
      <4>2. CASE d = k BY <4>1, <4>2
      <4>3. CASE d # k
        <5>1. d \in 1 .. k - 1 BY <4>3
        <5>2. f[d] = step[d][f[d - 1]] BY <2>1, <5>1 DEF Loops
        <5> QED BY <4>1, <4>3, <5>2
      <4> QED BY <4>2, <4>3
    <3> QED BY <3>1, <3>2 DEF Loops
  <2> HIDE DEF g
  <2> QED BY <2>4, <2>5
<1> HIDE DEF Done
<1>3. 0 .. n \subseteq Done
  <2>1. \A k \in 1 .. n : k - 1 \in Done => k \in Done BY <1>2
  <2> QED BY <1>1, <2>1, Induction
<1>4. n \in Done BY <1>3
<1> QED BY <1>4 DEF Done

\* Numbers a multiple of the width apart have one residue.
LEMMA SameResidue ==
  ASSUME NEW a \in Nat, NEW b \in Nat, NEW k \in Int, a = b + k * Modulus
  PROVE  a % Modulus = b % Modulus
<1>1. Modulus \in Int /\ Modulus > 0 BY StorageAssumption
<1> DEFINE r == a % Modulus
           s == b % Modulus
           x == a \div Modulus
           y == b \div Modulus
<1>2. /\ r \in 0 .. Modulus - 1 /\ x \in Int /\ a = r + x * Modulus
      /\ s \in 0 .. Modulus - 1 /\ y \in Int /\ b = s + y * Modulus
  BY <1>1, Z3
<1> HIDE DEF r, s, x, y
<1>3. PICK l \in Int : l = k + y - x BY <1>2
<1>4. r = s + l * Modulus
  <2>1. l * Modulus = k * Modulus + y * Modulus - x * Modulus BY <1>1, <1>2, <1>3
  <2>2. k * Modulus \in Int /\ y * Modulus \in Int /\ x * Modulus \in Int /\ l * Modulus \in Int
    BY <1>1, <1>2
  <2> QED BY <1>1, <1>2, <2>1, <2>2
<1>5. l * Modulus < Modulus /\ l * Modulus > -Modulus /\ l * Modulus \in Int
  BY <1>1, <1>2, <1>4
<1>6. (l >= 1 => l * Modulus >= Modulus) /\ (l <= -1 => l * Modulus <= -Modulus)
  BY <1>1
<1>7. l = 0 BY <1>1, <1>5, <1>6
<1> QED BY <1>1, <1>2, <1>4, <1>7 DEF r, s

\* A number that fits the width is its residue.
LEMMA SmallResidue ==
  ASSUME NEW a \in 0 .. Modulus - 1
  PROVE  a % Modulus = a
<1>1. Modulus \in Int /\ Modulus > 0 BY StorageAssumption
<1> DEFINE r == a % Modulus
           x == a \div Modulus
<1>2. r \in 0 .. Modulus - 1 /\ x \in Int /\ a = r + x * Modulus
  BY <1>1, Z3
<1> HIDE DEF r, x
<1>3. (x >= 1 => x * Modulus >= Modulus) /\ (x <= -1 => x * Modulus <= -Modulus)
      /\ x * Modulus \in Int
  BY <1>1, <1>2
<1>4. x = 0 BY <1>1, <1>2, <1>3
<1> QED BY <1>1, <1>2, <1>4 DEF r

\* Three factors in another order.
LEMMA Factors ==
  ASSUME NEW a \in Nat, NEW b \in Nat, NEW c \in Nat
  PROVE  b * c \in Nat /\ a * (b * c) = (a * c) * b
OBVIOUS

\* A factor may be taken in its width before or after multiplying.
LEMMA ResidueProduct ==
  ASSUME NEW a \in Nat, NEW b \in Nat
  PROVE  (a * (b % Modulus)) % Modulus = (a * b) % Modulus
<1>1. Modulus \in Int /\ Modulus > 0 BY StorageAssumption
<1> DEFINE r == b % Modulus
<1>2. r \in Nat /\ \E k \in Int : b = r + k * Modulus
  <2>1. r \in 0 .. Modulus - 1 /\ b \div Modulus \in Int /\ b = r + (b \div Modulus) * Modulus
    BY <1>1, Z3
  <2> QED BY <2>1
<1> HIDE DEF r
<1>3. PICK k \in Int : b = r + k * Modulus BY <1>2
<1>4. a * k \in Int /\ a * b \in Nat /\ a * r \in Nat BY <1>2
<1>5. a * b = a * r + (a * k) * Modulus
  <2>1. a * (r + k * Modulus) = a * r + (a * k) * Modulus BY <1>1, <1>2
  <2> QED BY <1>3, <2>1
<1>6. (a * b) % Modulus = (a * r) % Modulus BY <1>4, <1>5, SameResidue
<1> QED BY <1>6 DEF r

\* What Behind multiplies, and that it does.
Multiplied(f, s, i) ==
  /\ f \in [0 .. Len(s) - i -> Nat] /\ f[0] = 1
  /\ \A k \in 1 .. Len(s) - i : f[k] = f[k - 1] * s[i + k]
LEMMA BehindLoop ==
  ASSUME NEW s \in Seq(Values), NEW i \in 1 .. Len(s)
  PROVE  \E f : Multiplied(f, s, i) /\ Behind(s, i) = f[Len(s) - i] % Modulus
<1> DEFINE n == Len(s) - i
           step == [k \in 1 .. n |-> [y \in Nat |-> y * s[i + k]]]
           body(f) == [k \in 0 .. n |-> IF k = 0 THEN 1 ELSE f[k - 1] * s[i + k]]
           product == CHOOSE f : f = body(f)
<1>1. n \in Nat /\ \A k \in 1 .. n, y \in Nat : y * s[i + k] \in Nat
  <2>1. Len(s) \in Nat /\ \A d \in 1 .. Len(s) : s[d] \in Nat
    BY LenProperties, ElementOfSeq, StorageAssumption
  <2>2. \A k \in 1 .. n : i + k \in 1 .. Len(s) BY <2>1
  <2> QED BY <2>1, <2>2
<1>2. Behind(s, i) = product[n] % Modulus BY DEF Behind
<1> HIDE DEF n
<1>3. step \in [1 .. n -> [Nat -> Nat]] BY <1>1
<1>4. PICK g \in [0 .. n -> Nat] : Loops(g, n, 1, step)
  <2>1. 1 \in Nat OBVIOUS
  <2> HIDE DEF step
  <2> QED BY <1>1, <1>3, <2>1, Recursion
<1>5. g = body(g)
  <2>1. \A k \in 1 .. n : g[k] = g[k - 1] * s[i + k]
    <3> TAKE k \in 1 .. n
    <3>1. k - 1 \in 0 .. n /\ g[k - 1] \in Nat BY <1>1, <1>4
    <3> QED BY <1>4, <3>1 DEF Loops
  <2>2. \A k \in 0 .. n : k # 0 => k \in 1 .. n BY <1>1
  <2>3. \A k \in 0 .. n : g[k] = body(g)[k] BY <1>4, <2>1, <2>2 DEF Loops
  <2> QED BY <1>4, <2>3
<1>6. product = body(product)
  <2>1. \E f : f = body(f) BY <1>5
  <2> HIDE DEF body
  <2> QED BY <2>1
<1> HIDE DEF product
<1>7. \A k \in 0 .. n : product[k] = IF k = 0 THEN 1 ELSE product[k - 1] * s[i + k]
  BY <1>6
<1>8. product[0] = 1 /\ \A k \in 1 .. n : product[k] = product[k - 1] * s[i + k]
  BY <1>1, <1>7
<1>9. \A k \in 0 .. n : product[k] \in Nat
  <2> DEFINE P == {k \in Nat : product[k] \in Nat}
  <2>1. 0 \in P BY <1>8
  <2>2. ASSUME NEW k \in 1 .. n, k - 1 \in P PROVE k \in P
    <3>1. product[k - 1] \in Nat BY <2>2
    <3>2. product[k - 1] * s[i + k] \in Nat BY <1>1, <3>1
    <3>3. product[k] \in Nat BY <1>8, <3>2
    <3> QED BY <1>1, <3>3
  <2> HIDE DEF P
  <2>3. 0 .. n \subseteq P BY <1>1, <2>1, <2>2, Induction
  <2> QED BY <2>3 DEF P
<1>10. product \in [0 .. n -> Nat] BY <1>6, <1>9
<1> QED BY <1>2, <1>8, <1>10 DEF Multiplied, n

\* FillDefaultStrides multiplies from the last dimension and in the width of a
\* stride; the number of elements behind a dimension is what comes out.  The
\* product of the first dimensions behind i with the stride there is the same
\* wherever it stops, up to the width.
LEMMA DefaultStridesRowMajor ==
  ASSUME NEW s \in Seq(Values)
  PROVE  RowMajor(s, DefaultStrides(s))
<1> DEFINE n == Len(s)
           r == DefaultStrides(s)
<1>1. /\ n \in Nat /\ Len(r) = n /\ Modulus \in Int /\ Modulus > 0
      /\ \A d \in 1 .. n : s[d] \in Nat /\ r[d] \in 0 .. Modulus - 1
  <2>1. n \in Nat /\ \A d \in 1 .. n : s[d] \in Nat
    BY LenProperties, ElementOfSeq, StorageAssumption
  <2>2. r \in Seq(Values) /\ Len(r) = n BY DefaultStridesType
  <2> HIDE DEF r
  <2>3. \A d \in 1 .. n : r[d] \in Values BY <2>2, ElementOfSeq
  <2> QED BY <2>1, <2>2, <2>3, StorageAssumption
<1>2. \A d \in 1 .. n : r[d] = IF d = n THEN 1 ELSE (r[d + 1] * s[d + 1]) % Modulus
  <2>1. n - n + 1 .. n = 1 .. n BY <1>1
  <2> QED BY <2>1, DefaultStridesType DEF Strided
<1> HIDE DEF r
<1>3. ASSUME NEW i \in 1 .. n PROVE r[i] = Behind(s, i)
  <2>1. PICK f : Multiplied(f, s, i) /\ Behind(s, i) = f[n - i] % Modulus
    BY BehindLoop
  <2> DEFINE m == n - i
             P == {k \in Nat : k \in 0 .. m => (f[k] * r[i + k]) % Modulus = r[i]}
  <2>2. m \in Nat /\ \A k \in 0 .. m : i + k \in 1 .. n BY <1>1
  <2>3. 0 \in P
    <3>1. f[0] * r[i + 0] = r[i] BY <1>1, <2>1 DEF Multiplied
    <3>2. r[i] % Modulus = r[i] BY <1>1, SmallResidue
    <3> QED BY <3>1, <3>2
  <2>4. ASSUME NEW k \in 1 .. m, k - 1 \in P PROVE k \in P
    <3> DEFINE a == f[k - 1]
               d == i + k
    <3>1. /\ k \in Nat /\ k - 1 \in 0 .. m /\ k - 1 \in Nat /\ d \in 1 .. n
          /\ i + (k - 1) \in 1 .. n /\ i + (k - 1) # n /\ i + (k - 1) + 1 = d
      BY <1>1, <2>2
    <3>2. a \in Nat /\ f[k] = a * s[d] BY <2>1, <3>1 DEF Multiplied
    <3>3. r[i + (k - 1)] = (r[d] * s[d]) % Modulus BY <1>2, <3>1
    <3>4. (a * r[i + (k - 1)]) % Modulus = r[i] BY <2>4, <3>1
    <3>5. r[d] \in Nat /\ s[d] \in Nat BY <1>1, <3>1
    <3> HIDE DEF a, d
    <3>6. r[d] * s[d] \in Nat /\ a * (r[d] * s[d]) = (a * s[d]) * r[d]
      BY <3>2, <3>5, Factors
    <3>7. (a * (r[d] * s[d])) % Modulus = r[i]
      <4> DEFINE c == r[d] * s[d]
      <4>1. c \in Nat /\ (a * (c % Modulus)) % Modulus = r[i] BY <3>3, <3>4, <3>6
      <4> HIDE DEF c
      <4>2. (a * (c % Modulus)) % Modulus = (a * c) % Modulus
        BY <3>2, <4>1, ResidueProduct
      <4> QED BY <4>1, <4>2 DEF c
    <3>8. (f[k] * r[d]) % Modulus = r[i] BY <3>2, <3>6, <3>7
    <3> QED BY <3>1, <3>8 DEF d
  <2>5. (f[m] * r[i + m]) % Modulus = r[i]
    <3> HIDE DEF P
    <3>1. 0 .. m \subseteq P BY <2>2, <2>3, <2>4, Induction
    <3>2. m \in P /\ m \in 0 .. m BY <2>2, <3>1
    <3> QED BY <3>2 DEF P
  <2>6. i + m = n /\ r[n] = 1 BY <1>1, <1>2
  <2>7. f[m] \in Nat BY <2>1, <2>2 DEF Multiplied
  <2>8. f[m] * r[i + m] = f[m] BY <2>6, <2>7
  <2> QED BY <2>1, <2>5, <2>8
<1> QED BY <1>1, <1>3 DEF RowMajor, r
-----------------------------------------------------------------------------
\* What vectors and storages hold.

\* The elements of a vector are a sequence of as many as its size.
LEMMA ElementsType ==
  ASSUME StorageInv, NEW v \in Vectors
  PROVE  Elements(v) \in Seq(Values) /\ Len(Elements(v)) = obj[v].size
<1>1. Data(v) \in Vectors \cup Blocks
  BY DEF StorageInv, Types, VectorSound, Data, Objects
<1>2. cells[Data(v)] \in Seq(Values) /\ obj[v].size \in Nat
      /\ obj[v].size <= Len(cells[Data(v)])
  BY <1>1 DEF StorageInv, Types, VectorSound, Objects
<1>3. \A i \in 1 .. obj[v].size : cells[Data(v)][i] \in Values
  BY <1>2, ElementOfSeq, LenProperties
<1> QED BY <1>2, <1>3, SubSeqProperties DEF Elements

\* What a pointer and a size show is a sequence of that size, if the block
\* holds as much.
LEMMA FromType ==
  ASSUME NEW b \in Blocks, NEW i \in Nat, NEW n \in Nat,
         cells[b] \in Seq(Values), i + n <= Len(cells[b])
  PROVE  From(<<b, i>>, n) \in Seq(Values) /\ Len(From(<<b, i>>, n)) = n
<1>1. \A j \in i + 1 .. i + n : cells[b][j] \in Values
  BY ElementOfSeq, LenProperties
<1>2. i + 1 \in Nat /\ i + n \in Nat
  OBVIOUS
<1>3. /\ SubSeq(cells[b], i + 1, i + n) \in Seq(Values)
      /\ Len(SubSeq(cells[b], i + 1, i + n)) =
           IF i + 1 <= i + n THEN (i + n) - (i + 1) + 1 ELSE 0
  BY <1>1, <1>2, SubSeqProperties
<1> QED BY <1>3 DEF From

\* Both views of a storage are sequences of as many elements as it counts.
LEMMA ViewsType ==
  ASSUME StorageInv, NEW t \in Storages
  PROVE  /\ Shape(t) \in Seq(Values) /\ Len(Shape(t)) = sizes[t].shape
         /\ Strides(t) \in Seq(Values) /\ Len(Strides(t)) = sizes[t].strides
<1>1. sizes[t].shape \in Nat /\ sizes[t].strides \in Nat
  BY DEF StorageInv, Types
<1>2. CASE IsInline(t)
  <2>1. /\ inlined[t].shape \in Seq(Values) /\ inlined[t].strides \in Seq(Values)
        /\ sizes[t].shape <= Len(inlined[t].shape)
        /\ sizes[t].strides <= Len(inlined[t].strides)
    BY <1>2 DEF StorageInv, Types, StorageSound
  <2>2. /\ \A i \in 1 .. sizes[t].shape : inlined[t].shape[i] \in Values
        /\ \A i \in 1 .. sizes[t].strides : inlined[t].strides[i] \in Values
    BY <1>1, <2>1, ElementOfSeq, LenProperties
  <2> QED BY <1>1, <1>2, <2>1, <2>2, SubSeqProperties DEF Shape, Strides
<1>3. CASE ~IsInline(t) /\ Combined(t)
  <2>1. PICK b \in Blocks :
          /\ heap[t] = HeapStorage(b, <<b, 0>>, <<b, sizes[t].shape>>, 0, 0)
          /\ sizes[t].shape + sizes[t].strides <= Len(cells[b])
    BY <1>3 DEF Combined
  <2>2. cells[b] \in Seq(Values) /\ Len(cells[b]) \in Nat
    BY LenProperties DEF StorageInv, Types
  <2>3. heap[t].shape = <<b, 0>> /\ heap[t].strides = <<b, sizes[t].shape>>
    BY <2>1 DEF HeapStorage
  <2>4. 0 + sizes[t].shape <= Len(cells[b])
    BY <1>1, <2>1, <2>2
  <2>5. /\ Shape(t) = From(<<b, 0>>, sizes[t].shape)
        /\ Strides(t) = From(<<b, sizes[t].shape>>, sizes[t].strides)
    BY <1>3, <2>3 DEF Shape, Strides
  <2>6. /\ From(<<b, 0>>, sizes[t].shape) \in Seq(Values)
        /\ Len(From(<<b, 0>>, sizes[t].shape)) = sizes[t].shape
    BY <1>1, <2>2, <2>4, FromType
  <2>7. /\ From(<<b, sizes[t].shape>>, sizes[t].strides) \in Seq(Values)
        /\ Len(From(<<b, sizes[t].shape>>, sizes[t].strides)) = sizes[t].strides
    BY <1>1, <2>1, <2>2, FromType
  <2> QED BY <2>5, <2>6, <2>7
<1>4. CASE ~IsInline(t) /\ Split(t)
  <2>1. PICK b, d \in Blocks :
          /\ heap[t] = HeapStorage(None, <<b, 0>>, <<d, 0>>, alloc[b], alloc[d])
          /\ sizes[t].shape <= Len(cells[b]) /\ sizes[t].strides <= Len(cells[d])
    BY <1>4 DEF Split
  <2>2. cells[b] \in Seq(Values) /\ cells[d] \in Seq(Values)
    BY DEF StorageInv, Types
  <2>3. heap[t].shape = <<b, 0>> /\ heap[t].strides = <<d, 0>>
    BY <2>1 DEF HeapStorage
  <2>4. 0 + sizes[t].shape <= Len(cells[b]) /\ 0 + sizes[t].strides <= Len(cells[d])
    BY <1>1, <2>1
  <2>5. /\ Shape(t) = From(<<b, 0>>, sizes[t].shape)
        /\ Strides(t) = From(<<d, 0>>, sizes[t].strides)
    BY <1>4, <2>3 DEF Shape, Strides
  <2>6. /\ From(<<b, 0>>, sizes[t].shape) \in Seq(Values)
        /\ Len(From(<<b, 0>>, sizes[t].shape)) = sizes[t].shape
    BY <1>1, <2>2, <2>4, FromType
  <2>7. /\ From(<<d, 0>>, sizes[t].strides) \in Seq(Values)
        /\ Len(From(<<d, 0>>, sizes[t].strides)) = sizes[t].strides
    BY <1>1, <2>2, <2>4, FromType
  <2> QED BY <2>5, <2>6, <2>7
<1> QED BY <1>2, <1>3, <1>4 DEF StorageInv, StorageSound

\* Which blocks each owner has.
LEMMA BlocksOfVector ==
  ASSUME NEW v \in Vectors
  PROVE  BlocksOf(v) = {obj[v].heap} \ {None}
BY StorageAssumption DEF BlocksOf, Objects

\* A storage frees nothing while inline, one block when combined, two when split.
LEMMA BlocksOfStorage ==
  ASSUME NEW t \in Storages
  PROVE  /\ BlocksOf(t) = Freeable(t)
         /\ IsInline(t) => Freeable(t) = {}
         /\ \A b \in Blocks : \A p, q, c, e :
              ~IsInline(t) /\ heap[t] = HeapStorage(b, p, q, c, e) => Freeable(t) = {b}
         /\ \A b, d \in Blocks : \A i, j, c, e :
              ~IsInline(t) /\ heap[t] = HeapStorage(None, <<b, i>>, <<d, j>>, c, e)
                => Freeable(t) = {b, d}
<1>1. None \notin Blocks BY SmallVectorAssumption
<1> QED BY <1>1 DEF BlocksOf, Freeable, IsCombined, HeapStorage

\* Blocks that are owned are allocated.
LEMMA OwnedAllocated ==
  ASSUME StorageInv, NEW o \in Owners, NEW b \in BlocksOf(o)
  PROVE  b \in Blocks /\ alloc[b] # 0
<1>1. CASE o \in Vectors
  BY <1>1, BlocksOfVector DEF StorageInv, Types, Owned, Objects, Owners
<1>2. CASE o \in Storages
  <2>1. ~IsInline(o) BY <1>2, BlocksOfStorage
  <2>2. CASE Combined(o)
    BY <1>2, <2>1, <2>2, BlocksOfStorage DEF Combined
  <2>3. CASE Split(o)
    BY <1>2, <2>1, <2>3, BlocksOfStorage DEF Split
  <2> QED BY <1>2, <2>1, <2>2, <2>3 DEF StorageInv, StorageSound
<1> QED BY <1>1, <1>2 DEF Owners
-----------------------------------------------------------------------------
\* Steps, by the owners they are about.

\* An owner that a step is not about is sound after it as before, and has the
\* same blocks.
LEMMA VectorFrame ==
  ASSUME StorageInv, NEW v \in Vectors, obj'[v] = obj[v], cells'[v] = cells[v],
         v \notin live' => v \notin live,
         \A b \in BlocksOf(v) : alloc'[b] = alloc[b] /\ cells'[b] = cells[b]
  PROVE  VectorSound(v)' /\ BlocksOf(v)' = BlocksOf(v)
<1>1. BlocksOf(v) = {obj[v].heap} \ {None} /\ BlocksOf(v)' = {obj'[v].heap} \ {None}
  BY StorageAssumption DEF BlocksOf, Objects
<1>2. VectorSound(v) BY DEF StorageInv
<1>3. IsHeap(v)' <=> IsHeap(v) BY DEF IsHeap
<1>4. IsHeap(v) => alloc'[obj[v].heap] = alloc[obj[v].heap]
                   /\ cells'[obj[v].heap] = cells[obj[v].heap]
  BY <1>1, <1>2 DEF VectorSound
<1>5. Data(v)' = Data(v) /\ cells'[Data(v)] = cells[Data(v)]
  BY <1>3, <1>4 DEF Data
<1> QED BY <1>1, <1>2, <1>3, <1>4, <1>5 DEF VectorSound

\* The same for a storage.
LEMMA StorageFrame ==
  ASSUME StorageInv, NEW t \in Storages, sizes'[t] = sizes[t],
         inlined'[t] = inlined[t], heap'[t] = heap[t],
         t \notin built' => t \notin built,
         \A b \in BlocksOf(t) : alloc'[b] = alloc[b] /\ cells'[b] = cells[b]
  PROVE  StorageSound(t)' /\ BlocksOf(t)' = BlocksOf(t)
<1>1. IsInline(t)' <=> IsInline(t) BY DEF IsInline, Fits
<1>2. StorageSound(t) BY DEF StorageInv
<1>3. BlocksOf(t)' = BlocksOf(t)
  BY <1>1 DEF BlocksOf, Freeable, IsCombined
<1>4. ASSUME ~IsInline(t), Combined(t) PROVE Combined(t)'
  <2>1. PICK b \in Blocks :
          /\ heap[t] = HeapStorage(b, <<b, 0>>, <<b, sizes[t].shape>>, 0, 0)
          /\ alloc[b] # 0
          /\ sizes[t].shape + sizes[t].strides <= Len(cells[b])
    BY <1>4 DEF Combined
  <2>2. b \in BlocksOf(t) BY <1>4, <2>1, BlocksOfStorage
  <2> QED BY <2>1, <2>2 DEF Combined
<1>5. ASSUME ~IsInline(t), Split(t) PROVE Split(t)'
  <2>1. PICK b \in Blocks, d \in Blocks :
          /\ b # d
          /\ heap[t] = HeapStorage(None, <<b, 0>>, <<d, 0>>, alloc[b], alloc[d])
          /\ alloc[b] # 0 /\ alloc[d] # 0
          /\ sizes[t].shape <= Len(cells[b]) /\ sizes[t].strides <= Len(cells[d])
    BY <1>5 DEF Split
  <2>2. b \in BlocksOf(t) /\ d \in BlocksOf(t) BY <1>5, <2>1, BlocksOfStorage
  <2> QED BY <2>1, <2>2 DEF Split
<1> QED BY <1>1, <1>2, <1>3, <1>4, <1>5 DEF StorageSound

\* What a step keeps of a storage: what it shows, in blocks that are allocated.
Viewed(t) == Allocated(t)' /\ Shape(t)' = Shape(t) /\ Strides(t)' = Strides(t)
\* What a storage shows is kept with its blocks.
LEMMA ViewsFrame ==
  ASSUME StorageInv, NEW t \in Storages, sizes'[t] = sizes[t],
         inlined'[t] = inlined[t], heap'[t] = heap[t],
         \A b \in BlocksOf(t) : alloc'[b] = alloc[b] /\ cells'[b] = cells[b]
  PROVE  Viewed(t)
<1>1. IsInline(t)' <=> IsInline(t) BY DEF IsInline, Fits
<1>2. StorageSound(t) BY DEF StorageInv
<1>3. Freeable(t)' = Freeable(t)
  BY <1>1 DEF Freeable, IsCombined
<1>4. \A b \in Freeable(t) : alloc[b] # 0
  BY BlocksOfStorage, OwnedAllocated DEF Owners
<1>5. Allocated(t)' BY <1>3, <1>4, BlocksOfStorage DEF Allocated
<1>6. CASE IsInline(t)
  BY <1>1, <1>5, <1>6 DEF Viewed, Shape, Strides
<1>7. CASE ~IsInline(t) /\ Combined(t)
  <2>1. PICK b \in Blocks :
          heap[t] = HeapStorage(b, <<b, 0>>, <<b, sizes[t].shape>>, 0, 0)
    BY <1>7 DEF Combined
  <2>2. cells'[b] = cells[b] BY <1>7, <2>1, BlocksOfStorage
  <2>3. heap[t].shape[1] = b /\ heap[t].strides[1] = b BY <2>1 DEF HeapStorage
  <2> QED BY <1>1, <1>5, <1>7, <2>2, <2>3 DEF Viewed, Shape, Strides, From
<1>8. CASE ~IsInline(t) /\ Split(t)
  <2>1. PICK b \in Blocks, d \in Blocks :
          heap[t] = HeapStorage(None, <<b, 0>>, <<d, 0>>, alloc[b], alloc[d])
    BY <1>8 DEF Split
  <2>2. cells'[b] = cells[b] /\ cells'[d] = cells[d] BY <1>8, <2>1, BlocksOfStorage
  <2>3. heap[t].shape[1] = b /\ heap[t].strides[1] = d BY <2>1 DEF HeapStorage
  <2> QED BY <1>1, <1>5, <1>8, <2>2, <2>3 DEF Viewed, Shape, Strides, From
<1> QED BY <1>2, <1>6, <1>7, <1>8 DEF StorageSound

\* A step about the owners C: the others are as they were, ...
OthersKept(C) ==
  /\ \A v \in Vectors \ C :
       obj'[v] = obj[v] /\ cells'[v] = cells[v] /\ (v \notin live' => v \notin live)
  /\ \A t \in Storages \ C :
       /\ sizes'[t] = sizes[t] /\ inlined'[t] = inlined[t] /\ heap'[t] = heap[t]
       /\ t \notin built' => t \notin built
  /\ \A b \in Blocks : alloc'[b] # alloc[b] \/ cells'[b] # cells[b] =>
       alloc[b] = 0 \/ \E o \in C : b \in BlocksOf(o)

\* ... those of C are sound after it, ...
LeftSound(C) ==
  /\ \A v \in Vectors \cap C : VectorSound(v)'
  /\ \A t \in Storages \cap C : StorageSound(t)'

\* ... and have blocks that were theirs or free and that no two of them share;
\* exactly those of their blocks that none of them keeps are freed.
BlocksHanded(C) ==
  /\ \A o, p \in C : o # p => BlocksOf(o)' \cap BlocksOf(p)' = {}
  /\ \A o \in C : \A b \in BlocksOf(o)' :
       b \in Blocks /\ (alloc[b] = 0 \/ \E p \in C : b \in BlocksOf(p))
  /\ \A b \in Blocks : alloc'[b] # 0 <=>
       \/ \E o \in C : b \in BlocksOf(o)'
       \/ alloc[b] # 0 /\ ~\E o \in C : b \in BlocksOf(o)

\* Such a step keeps the invariant, and the views of all other storages.
LEMMA StepKeepsInv ==
  ASSUME StorageInv, Types', NEW C \in SUBSET Owners,
         OthersKept(C), LeftSound(C), BlocksHanded(C)
  PROVE  StorageInv' /\ \A t \in Storages \ C : Viewed(t)
<1>1. /\ \A o, p \in Owners : o # p => BlocksOf(o) \cap BlocksOf(p) = {}
      /\ \A b \in Blocks : alloc[b] # 0 <=> \E o \in Owners : b \in BlocksOf(o)
  BY DEF StorageInv, Owned
<1>2. ASSUME NEW o \in Owners \ C, NEW b \in BlocksOf(o)
      PROVE  /\ b \in Blocks /\ alloc[b] # 0 /\ ~\E p \in C : b \in BlocksOf(p)
             /\ alloc'[b] = alloc[b] /\ cells'[b] = cells[b]
  <2>1. b \in Blocks /\ alloc[b] # 0 BY OwnedAllocated
  <2>2. ~\E p \in C : b \in BlocksOf(p) BY <1>1
  <2> QED BY <2>1, <2>2 DEF OthersKept
<1>3. \A v \in Vectors \ C : VectorSound(v)' /\ BlocksOf(v)' = BlocksOf(v)
  <2> TAKE v \in Vectors \ C
  <2>1. v \in Owners \ C BY DEF Owners
  <2>2. \A b \in BlocksOf(v) : alloc'[b] = alloc[b] /\ cells'[b] = cells[b]
    BY <1>2, <2>1
  <2> QED BY <2>2, VectorFrame DEF OthersKept
<1>4. \A t \in Storages \ C : StorageSound(t)' /\ BlocksOf(t)' = BlocksOf(t)
  <2> TAKE t \in Storages \ C
  <2>1. t \in Owners \ C BY DEF Owners
  <2>2. \A b \in BlocksOf(t) : alloc'[b] = alloc[b] /\ cells'[b] = cells[b]
    BY <1>2, <2>1
  <2> QED BY <2>2, StorageFrame DEF OthersKept
<1>5. \A o \in Owners \ C : BlocksOf(o)' = BlocksOf(o)
  BY <1>3, <1>4 DEF Owners
<1>6. ASSUME NEW o \in Owners, NEW p \in Owners, o # p,
             NEW b \in BlocksOf(o)', b \in BlocksOf(p)'
      PROVE  FALSE
  <2>1. CASE o \in C /\ p \in C
    BY <1>6, <2>1 DEF BlocksHanded
  <2>2. CASE o \notin C /\ p \notin C
    BY <1>1, <1>5, <1>6, <2>2
  <2>3. ASSUME NEW q \in C, NEW r \in Owners \ C, b \in BlocksOf(q)', b \in BlocksOf(r)'
        PROVE  FALSE
    <3>1. b \in BlocksOf(r) BY <1>5, <2>3
    <3>2. alloc[b] # 0 /\ ~\E x \in C : b \in BlocksOf(x) BY <1>2, <3>1
    <3> QED BY <2>3, <3>2 DEF BlocksHanded
  <2> QED BY <1>6, <2>1, <2>2, <2>3
<1>7. ASSUME NEW b \in Blocks
      PROVE  alloc'[b] # 0 <=> \E o \in Owners : b \in BlocksOf(o)'
  <2>1. alloc[b] # 0 /\ (~\E o \in C : b \in BlocksOf(o)) <=>
        \E o \in Owners \ C : b \in BlocksOf(o)
    BY <1>1, <1>2
  <2>2. (\E o \in Owners \ C : b \in BlocksOf(o)) <=>
        \E o \in Owners \ C : b \in BlocksOf(o)'
    BY <1>5
  <2> QED BY <2>1, <2>2 DEF BlocksHanded
<1>8. Owned' BY <1>6, <1>7 DEF Owned, Owners
<1>9. \A t \in Storages \ C : Viewed(t)
  <2> TAKE t \in Storages \ C
  <2>1. t \in Owners \ C BY DEF Owners
  <2>2. \A b \in BlocksOf(t) : alloc'[b] = alloc[b] /\ cells'[b] = cells[b]
    BY <1>2, <2>1
  <2> QED BY <2>2, ViewsFrame DEF OthersKept
<1> QED BY <1>3, <1>4, <1>8, <1>9 DEF StorageInv, LeftSound
\* What a step of the storages or of the vectors does for those that stay built.
ViewsKept ==
  \A t \in built \cap built' :
    \/ Viewed(t)
    \/ /\ sizes'[t] = Sizes(0, 0)
       /\ \E u \in built' \ built : Shape(u)' = Shape(t) /\ Strides(u)' = Strides(t)

\* So do its views, when no storage of C stays built.
LEMMA StepKeepsViews ==
  ASSUME StorageInv, Types', NEW C \in SUBSET Owners,
         OthersKept(C), LeftSound(C), BlocksHanded(C),
         \A t \in C : t \notin built \/ t \notin built'
  PROVE  StorageInv' /\ ViewsKept
<1>1. StorageInv' /\ \A t \in Storages \ C : Viewed(t) BY StepKeepsInv
<1>2. built \subseteq Storages BY DEF StorageInv, Types
<1> QED BY <1>1, <1>2 DEF ViewsKept

\* How an owner comes out of a step: a vector inline or with a block, and a
\* storage in each of its three layouts.
LEMMA InlineVector ==
  ASSUME NEW v \in Vectors, NEW n \in Nat, n <= InlineCapacity,
         obj'[v] = Inline(n), n <= Len(cells'[v])
  PROVE  VectorSound(v)' /\ BlocksOf(v)' = {}
<1>1. InlineCapacity \in Nat BY SmallVectorAssumption
<1>2. ~IsHeap(v)' BY <1>1 DEF IsHeap, Inline
<1>3. Data(v)' = v BY <1>2 DEF Data
<1>4. VectorSound(v)' BY <1>1, <1>2, <1>3 DEF VectorSound, Inline
<1> QED BY <1>4, StorageAssumption DEF BlocksOf, Objects, Inline

\* ... in a block of more than the inline capacity, ...
LEMMA HeapVector ==
  ASSUME NEW v \in Vectors, NEW b \in Blocks, NEW n \in Nat, NEW c \in Nat,
         n <= c, c > InlineCapacity, obj'[v] = OnHeap(b, n, c),
         alloc'[b] = c, n <= Len(cells'[b]), v \in live'
  PROVE  VectorSound(v)' /\ BlocksOf(v)' = {b}
<1>1. InlineCapacity \in Nat /\ b # None BY SmallVectorAssumption
<1>2. IsHeap(v)' BY DEF IsHeap, OnHeap
<1>3. Data(v)' = b BY <1>2 DEF Data, OnHeap
<1>4. VectorSound(v)' BY <1>1, <1>2, <1>3 DEF VectorSound, OnHeap
<1> QED BY <1>1, <1>4, StorageAssumption DEF BlocksOf, Objects, OnHeap

\* A storage that is inline, ...
LEMMA InlineStorage ==
  ASSUME NEW t \in Storages, NEW n \in Nat, NEW m \in Nat, Fits(n, m),
         sizes'[t] = Sizes(n, m), heap'[t] = NoHeap,
         n <= Len(inlined'[t].shape), m <= Len(inlined'[t].strides)
  PROVE  StorageSound(t)' /\ BlocksOf(t)' = {}
<1>1. IsInline(t)' BY DEF IsInline, Sizes
<1>2. StorageSound(t)' BY <1>1 DEF StorageSound, Sizes
<1> QED BY <1>1, <1>2 DEF BlocksOf, Freeable

\* ... in one combined block, ...
LEMMA CombinedStorage ==
  ASSUME NEW t \in Storages, t \in built', NEW n \in Nat, NEW m \in Nat, ~Fits(n, m),
         NEW b \in Blocks, sizes'[t] = Sizes(n, m),
         heap'[t] = HeapStorage(b, <<b, 0>>, <<b, n>>, 0, 0),
         alloc'[b] # 0, n + m <= Len(cells'[b])
  PROVE  StorageSound(t)' /\ BlocksOf(t)' = {b}
<1>1. ~IsInline(t)' BY DEF IsInline, Sizes
<1>2. Combined(t)' BY DEF Combined, Sizes
<1>3. b # None BY SmallVectorAssumption
<1>4. StorageSound(t)' BY <1>1, <1>2 DEF StorageSound
<1>5. BlocksOf(t)' = {b}
  BY <1>1, <1>3 DEF BlocksOf, Freeable, IsCombined, HeapStorage
<1> QED BY <1>4, <1>5

\* ... or split over two blocks.
LEMMA SplitStorage ==
  ASSUME NEW t \in Storages, t \in built', NEW n \in Nat, NEW m \in Nat, ~Fits(n, m),
         NEW b \in Blocks, NEW d \in Blocks, b # d, sizes'[t] = Sizes(n, m),
         heap'[t] = HeapStorage(None, <<b, 0>>, <<d, 0>>, alloc'[b], alloc'[d]),
         alloc'[b] # 0, alloc'[d] # 0, n <= Len(cells'[b]), m <= Len(cells'[d])
  PROVE  StorageSound(t)' /\ BlocksOf(t)' = {b, d}
<1>1. ~IsInline(t)' BY DEF IsInline, Sizes
<1>2. Split(t)' BY DEF Split, Sizes
<1>3. StorageSound(t)' BY <1>1, <1>2 DEF StorageSound
<1>4. BlocksOf(t)' = {b, d}
  BY <1>1 DEF BlocksOf, Freeable, IsCombined, HeapStorage
<1> QED BY <1>3, <1>4

\* A storage that is not built has nothing.
LEMMA NotBuilt ==
  ASSUME StorageInv, NEW t \in Storages, t \notin built
  PROVE  IsInline(t) /\ heap[t] = NoHeap /\ BlocksOf(t) = {}
<1>1. IsInline(t) /\ heap[t] = NoHeap BY DEF StorageInv, StorageSound
<1> QED BY <1>1, BlocksOfStorage

\* Ranges written inline or into one new block.
LEMMA InitializeStep ==
  ASSUME StorageInv, NEW t \in Storages, NEW b \in Blocks,
         NEW s \in Seq(Values), NEW r \in Seq(Values),
         InitializeRanges(t, b, s, r)
  PROVE  StorageInv' /\ ViewsKept
<1>1. /\ t \notin built /\ built' = built \cup {t}
      /\ sizes' = [sizes EXCEPT ![t] = Sizes(Len(s), Len(r))]
      /\ UNCHANGED <<live, obj>>
  BY DEF InitializeRanges, Begin, Initialize
<1>2. Len(s) \in Nat /\ Len(r) \in Nat BY LenProperties
<1>3. t \in Owners /\ Vectors \cap {t} = {} /\ Storages \cap {t} = {t}
  BY StorageAssumption DEF Owners, Objects
<1>4. IsInline(t) /\ heap[t] = NoHeap /\ BlocksOf(t) = {}
  BY <1>1, NotBuilt
<1>5. /\ sizes'[t] = Sizes(Len(s), Len(r))
      /\ \A u \in Storages \ {t} : sizes'[u] = sizes[u]
      /\ sizes' \in [Storages -> [shape : Nat, strides : Nat]]
  BY <1>1, <1>2 DEF StorageInv, Types, Sizes
<1>6. CASE Fits(Len(s), Len(r))
  <2>1. /\ inlined' = [inlined EXCEPT ![t] = Metadata(s, r)]
        /\ UNCHANGED <<heap, alloc, cells>>
    BY <1>6 DEF InitializeRanges, Initialize
  <2>2. /\ inlined'[t] = Metadata(s, r)
        /\ \A u \in Storages \ {t} : inlined'[u] = inlined[u]
        /\ inlined' \in [Storages -> [shape : Seq(Values), strides : Seq(Values)]]
    BY <2>1 DEF StorageInv, Types, Metadata
  <2>3. Types' BY <1>1, <1>5, <2>1, <2>2 DEF StorageInv, Types
  <2>4. StorageSound(t)' /\ BlocksOf(t)' = {}
    BY <1>2, <1>4, <1>5, <1>6, <2>1, <2>2, InlineStorage DEF Metadata
  <2>5. OthersKept({t})
    BY <1>1, <1>3, <1>5, <2>1, <2>2 DEF OthersKept
  <2>6. LeftSound({t}) BY <1>3, <2>4 DEF LeftSound
  <2>7. BlocksHanded({t}) BY <1>4, <2>1, <2>4 DEF BlocksHanded
  <2> QED BY <1>1, <1>3, <2>3, <2>5, <2>6, <2>7, StepKeepsViews
<1>7. CASE ~Fits(Len(s), Len(r))
  <2>1. /\ alloc[b] = 0
        /\ heap' = [heap EXCEPT ![t] = HeapStorage(b, <<b, 0>>, <<b, Len(s)>>, 0, 0)]
        /\ alloc' = [alloc EXCEPT ![b] = Len(s) + Len(r)]
        /\ cells' = [cells EXCEPT ![b] = s \o r]
        /\ inlined' = [inlined EXCEPT ![t] = NoMetadata]
    BY <1>7 DEF InitializeRanges, Initialize
  <2>2. s \o r \in Seq(Values) /\ Len(s \o r) = Len(s) + Len(r)
    BY ConcatProperties
  <2>3. Len(s) + Len(r) \in Nat /\ Len(s) + Len(r) # 0
    BY <1>2, <1>7, SmallVectorAssumption DEF Fits
  <2>4. /\ alloc' \in [Blocks -> Nat] /\ alloc'[b] = Len(s) + Len(r)
        /\ \A x \in Blocks \ {b} : alloc'[x] = alloc[x]
    BY <2>1, <2>3 DEF StorageInv, Types
  <2>5. /\ cells' \in [Vectors \cup Blocks -> Seq(Values)] /\ cells'[b] = s \o r
        /\ \A x \in (Vectors \cup Blocks) \ {b} : cells'[x] = cells[x]
    BY <2>1, <2>2 DEF StorageInv, Types
  <2>6. /\ heap'[t] = HeapStorage(b, <<b, 0>>, <<b, Len(s)>>, 0, 0)
        /\ \A u \in Storages \ {t} : heap'[u] = heap[u]
        /\ heap' \in [Storages -> [allocation : Blocks \cup {None}, shape : Pointers,
                            strides : Pointers, shapeCapacity : Nat,
                            stridesCapacity : Nat]]
    BY <1>2, <2>1 DEF StorageInv, Types, HeapStorage, Pointers
  <2>7. /\ \A u \in Storages \ {t} : inlined'[u] = inlined[u]
        /\ inlined' \in [Storages -> [shape : Seq(Values), strides : Seq(Values)]]
    BY <2>1, EmptySeq DEF StorageInv, Types, NoMetadata, Metadata
  <2>8. Types' BY <1>1, <1>5, <2>4, <2>5, <2>6, <2>7 DEF StorageInv, Types
  <2>9. StorageSound(t)' /\ BlocksOf(t)' = {b}
    BY <1>1, <1>2, <1>5, <1>7, <2>2, <2>3, <2>4, <2>5, <2>6, CombinedStorage
  <2>10. \A v \in Vectors : cells'[v] = cells[v]
    BY <2>5, SmallVectorAssumption
  <2>11. OthersKept({t})
    BY <1>1, <1>3, <1>5, <2>1, <2>4, <2>5, <2>6, <2>7, <2>10 DEF OthersKept
  <2>12. LeftSound({t}) BY <1>3, <2>9 DEF LeftSound
  <2>13. BlocksHanded({t})
    BY <1>4, <2>1, <2>3, <2>4, <2>9 DEF BlocksHanded
  <2> QED BY <1>1, <1>3, <2>8, <2>11, <2>12, <2>13, StepKeepsViews
<1> QED BY <1>6, <1>7
\* A vector on the heap has one block, of its capacity, with its elements.
LEMMA HeapProperties ==
  ASSUME StorageInv, NEW v \in Vectors
  PROVE  /\ obj[v].size \in Nat /\ obj[v].capacity \in Nat
         /\ obj[v].size <= obj[v].capacity
         /\ ~IsHeap(v) => BlocksOf(v) = {}
         /\ IsHeap(v) => /\ obj[v].heap \in Blocks /\ BlocksOf(v) = {obj[v].heap}
                         /\ alloc[obj[v].heap] = obj[v].capacity
                         /\ obj[v].capacity # 0
                         /\ obj[v].size <= Len(cells[obj[v].heap])
                         /\ Data(v) = obj[v].heap
                         /\ v \in live
         /\ obj[v].size > InlineCapacity => IsHeap(v)
<1>1. VectorSound(v) /\ obj[v] \in [size : Nat, capacity : Nat, heap : Blocks \cup {None}]
  BY DEF StorageInv, Types, Objects
<1>2. None \notin Blocks /\ InlineCapacity \in Nat BY SmallVectorAssumption
<1> QED BY <1>1, <1>2, BlocksOfVector DEF VectorSound, IsHeap, Data

\* The blocks b and d, taken from the vectors `gone` or new, become those of t,
\* with room for n dimensions and m strides.
BlocksTaken(gone, n, m, b, d) ==
  /\ obj' = [o \in Objects |-> IF o \in gone THEN Inline(0) ELSE obj[o]]
  /\ \A x \in {b, d} : alloc[x] = 0 \/ \E v \in gone : x \in BlocksOf(v)
  /\ \A v \in gone : BlocksOf(v) \subseteq {b, d}
  /\ alloc' \in [Blocks -> Nat] /\ cells' \in [Vectors \cup Blocks -> Seq(Values)]
  /\ alloc'[b] # 0 /\ alloc'[d] # 0
  /\ n <= Len(cells'[b]) /\ m <= Len(cells'[d])
  /\ \A x \in Blocks \ {b, d} : alloc'[x] = alloc[x] /\ cells'[x] = cells[x]
  /\ \A v \in Vectors : cells'[v] = cells[v]

\* A storage that takes such blocks keeps the invariant and all other views.
LEMMA SplitStep ==
  ASSUME StorageInv, NEW t \in Storages, Begin(t), NEW gone \in SUBSET Vectors,
         NEW n \in Nat, NEW m \in Nat, ~Fits(n, m),
         NEW b \in Blocks, NEW d \in Blocks, b # d, live' = live,
         ActivateSplit(t, n, m, b, alloc'[b], d, alloc'[d]),
         BlocksTaken(gone, n, m, b, d)
  PROVE  StorageInv' /\ ViewsKept
<1> DEFINE C == {t} \cup gone
<1>1. /\ t \notin built /\ built' = built \cup {t} /\ t \in built'
      /\ sizes' = [sizes EXCEPT ![t] = Sizes(n, m)]
      /\ heap' = [heap EXCEPT ![t] =
           HeapStorage(None, <<b, 0>>, <<d, 0>>, alloc'[b], alloc'[d])]
      /\ inlined' = [inlined EXCEPT ![t] = NoMetadata]
  BY DEF Begin, ActivateSplit
<1>2. /\ t \in Owners /\ C \in SUBSET Owners /\ Vectors \cap C = gone
      /\ Storages \cap C = {t}
  BY StorageAssumption DEF Owners, Objects
<1>3. BlocksOf(t) = {} BY <1>1, NotBuilt
<1>4. /\ sizes'[t] = Sizes(n, m) /\ \A u \in Storages \ {t} : sizes'[u] = sizes[u]
      /\ sizes' \in [Storages -> [shape : Nat, strides : Nat]]
  BY <1>1 DEF StorageInv, Types, Sizes
<1>5. /\ heap'[t] = HeapStorage(None, <<b, 0>>, <<d, 0>>, alloc'[b], alloc'[d])
      /\ \A u \in Storages \ {t} : heap'[u] = heap[u]
      /\ heap' \in [Storages -> [allocation : Blocks \cup {None}, shape : Pointers,
                            strides : Pointers, shapeCapacity : Nat,
                            stridesCapacity : Nat]]
  BY <1>1 DEF BlocksTaken, StorageInv, Types, HeapStorage, Pointers
<1>6. /\ \A u \in Storages \ {t} : inlined'[u] = inlined[u]
      /\ inlined' \in [Storages -> [shape : Seq(Values), strides : Seq(Values)]]
  BY <1>1, EmptySeq DEF StorageInv, Types, NoMetadata, Metadata
<1>7. /\ \A v \in Vectors \ gone : obj'[v] = obj[v]
      /\ \A v \in gone : obj'[v] = Inline(0)
      /\ obj' \in [Objects -> [size : Nat, capacity : Nat, heap : Blocks \cup {None}]]
  BY SmallVectorAssumption DEF BlocksTaken, StorageInv, Types, Inline, Objects
<1>8. Types' BY <1>1, <1>4, <1>5, <1>6, <1>7 DEF BlocksTaken, StorageInv, Types
<1>9. StorageSound(t)' /\ BlocksOf(t)' = {b, d}
  BY <1>1, <1>4, <1>5, SplitStorage DEF BlocksTaken
<1>10. ASSUME NEW v \in gone PROVE VectorSound(v)' /\ BlocksOf(v)' = {}
  <2>1. v \in Vectors /\ obj'[v] = Inline(0) BY <1>7
  <2>2. cells'[v] \in Seq(Values) BY <2>1 DEF BlocksTaken
  <2>3. 0 <= Len(cells'[v]) /\ 0 \in Nat /\ 0 <= InlineCapacity
    BY <2>2, LenProperties, SmallVectorAssumption
  <2> QED BY <2>1, <2>3, InlineVector
<1>11. OthersKept(C)
  <2>1. \A v \in Vectors \ C : /\ obj'[v] = obj[v] /\ cells'[v] = cells[v]
                               /\ v \notin live' => v \notin live
    BY <1>7 DEF BlocksTaken
  <2>2. \A u \in Storages \ C :
          /\ sizes'[u] = sizes[u] /\ inlined'[u] = inlined[u] /\ heap'[u] = heap[u]
          /\ u \notin built' => u \notin built
    BY <1>1, <1>4, <1>5, <1>6
  <2>3. \A x \in Blocks : alloc'[x] # alloc[x] \/ cells'[x] # cells[x] =>
          alloc[x] = 0 \/ \E o \in C : x \in BlocksOf(o)
    BY DEF BlocksTaken
  <2> HIDE DEF C
  <2> QED BY <2>1, <2>2, <2>3 DEF OthersKept
<1>12. LeftSound(C) BY <1>2, <1>9, <1>10 DEF LeftSound
<1>13. BlocksHanded(C)
  <2>1. \A o \in C : o = t \/ o \in gone OBVIOUS
  <2>2. \A o, p \in C : o # p => BlocksOf(o)' \cap BlocksOf(p)' = {}
    BY <1>9, <1>10, <2>1
  <2>3. \A o \in C : \A x \in BlocksOf(o)' :
          x \in Blocks /\ (alloc[x] = 0 \/ \E p \in C : x \in BlocksOf(p))
    BY <1>9, <1>10, <2>1 DEF BlocksTaken
  <2>4. ASSUME NEW x \in Blocks
        PROVE  alloc'[x] # 0 <=>
                 \/ \E o \in C : x \in BlocksOf(o)'
                 \/ alloc[x] # 0 /\ ~\E o \in C : x \in BlocksOf(o)
    <3>1. CASE x \in {b, d}
      BY <1>9, <3>1 DEF BlocksTaken
    <3>2. CASE x \notin {b, d}
      <4>1. \A o \in C : x \notin BlocksOf(o)
        BY <1>3, <3>2 DEF BlocksTaken
      <4>2. \A o \in C : x \notin BlocksOf(o)'
        BY <1>9, <1>10, <2>1, <3>2
      <4> QED BY <3>2, <4>1, <4>2 DEF BlocksTaken
    <3> QED BY <3>1, <3>2
  <2> QED BY <2>2, <2>3, <2>4 DEF BlocksHanded
<1>14. \A x \in C : x \notin built \/ x \notin built'
  BY <1>1, StorageAssumption DEF StorageInv, Types, Objects
<1> HIDE DEF C
<1> QED BY <1>2, <1>8, <1>11, <1>12, <1>13, <1>14, StepKeepsViews

\* Both vectors moved in.
LEMMA OwnedStep ==
  ASSUME StorageInv, NEW t \in Storages, NEW v \in Vectors, NEW w \in Vectors,
         NEW b \in Blocks, InitializeOwned(t, v, w, b)
  PROVE  StorageInv' /\ ViewsKept
<1>1. CASE ~Takes(v, w)
  <2>1. InitializeRanges(t, b, Elements(v), Elements(w))
    BY <1>1 DEF InitializeOwned
  <2> QED BY <2>1, ElementsType, InitializeStep
<1>2. CASE Takes(v, w)
  <2>1. /\ v # w /\ Begin(t)
        /\ ActivateSplit(t, obj[v].size, obj[w].size,
             obj[v].heap, obj[v].capacity, obj[w].heap, obj[w].capacity)
        /\ obj' = [obj EXCEPT ![v] = Inline(0), ![w] = Inline(0)]
        /\ UNCHANGED <<live, alloc, cells>>
    BY <1>2 DEF InitializeOwned, Released
  <2>2. ~Fits(obj[v].size, obj[w].size) /\ IsHeap(v) /\ IsHeap(w)
    BY <1>2 DEF Takes
  <2> DEFINE x == obj[v].heap
             y == obj[w].heap
  <2>3. /\ x \in Blocks /\ BlocksOf(v) = {x} /\ alloc[x] = obj[v].capacity
        /\ alloc[x] # 0 /\ obj[v].size <= Len(cells[x]) /\ obj[v].size \in Nat
        /\ y \in Blocks /\ BlocksOf(w) = {y} /\ alloc[y] = obj[w].capacity
        /\ alloc[y] # 0 /\ obj[w].size <= Len(cells[y]) /\ obj[w].size \in Nat
    BY <2>2, HeapProperties
  <2>4. x # y
    BY <2>1, <2>3 DEF StorageInv, Owned, Owners
  <2>5. obj' = [o \in Objects |-> IF o \in {v, w} THEN Inline(0) ELSE obj[o]]
    BY <2>1 DEF StorageInv, Types, Objects
  <2>6. ActivateSplit(t, obj[v].size, obj[w].size, x, alloc'[x], y, alloc'[y])
    BY <2>1, <2>3
  <2>7. alloc \in [Blocks -> Nat] /\ cells \in [Vectors \cup Blocks -> Seq(Values)]
    BY DEF StorageInv, Types
  <2> HIDE DEF x, y
  <2>8. BlocksTaken({v, w}, obj[v].size, obj[w].size, x, y)
    BY <2>1, <2>3, <2>5, <2>7 DEF BlocksTaken
  <2>9. {v, w} \in SUBSET Vectors OBVIOUS
  <2> QED BY <2>1, <2>2, <2>3, <2>4, <2>6, <2>8, <2>9, SplitStep
<1> QED BY <1>1, <1>2

\* One vector moved in, and a copy of another sequence s of n elements beside
\* it in a new block of capacity c.
LEMMA BesideStep ==
  ASSUME StorageInv, NEW t \in Storages, Begin(t), NEW v \in Vectors,
         obj[v].size > InlineCapacity, NEW b \in Blocks, alloc[b] = 0,
         NEW s \in Seq(Values), Len(s) > InlineCapacity,
         NEW c \in Nat, c # 0,
         alloc' = [alloc EXCEPT ![b] = c], cells' = [cells EXCEPT ![b] = s],
         obj' = [obj EXCEPT ![v] = Inline(0)], live' = live,
         \/ ActivateSplit(t, obj[v].size, Len(s),
              obj[v].heap, obj[v].capacity, b, c)
         \/ ActivateSplit(t, Len(s), obj[v].size,
              b, c, obj[v].heap, obj[v].capacity)
  PROVE  StorageInv' /\ ViewsKept
<1> DEFINE x == obj[v].heap
<1>1. /\ x \in Blocks /\ BlocksOf(v) = {x} /\ alloc[x] = obj[v].capacity
      /\ alloc[x] # 0 /\ obj[v].size <= Len(cells[x]) /\ obj[v].size \in Nat
  BY HeapProperties
<1> HIDE DEF x
<1>2. x # b BY <1>1
<1>3. alloc \in [Blocks -> Nat] /\ cells \in [Vectors \cup Blocks -> Seq(Values)]
      /\ Len(s) \in Nat /\ InlineCapacity \in Nat
  BY LenProperties, SmallVectorAssumption DEF StorageInv, Types
<1>4. obj' = [o \in Objects |-> IF o \in {v} THEN Inline(0) ELSE obj[o]]
  BY DEF StorageInv, Types, Objects
<1>5. /\ alloc' \in [Blocks -> Nat] /\ alloc'[b] = c /\ alloc'[x] = alloc[x]
      /\ cells' \in [Vectors \cup Blocks -> Seq(Values)]
      /\ cells'[b] = s /\ cells'[x] = cells[x]
      /\ \A z \in Blocks \ {b} : alloc'[z] = alloc[z] /\ cells'[z] = cells[z]
  BY <1>1, <1>2, <1>3
<1>6. \A z \in Vectors : cells'[z] = cells[z]
  BY <1>3, SmallVectorAssumption
<1>7. ~Fits(obj[v].size, Len(s)) /\ ~Fits(Len(s), obj[v].size)
  BY <1>1, <1>3 DEF Fits
<1>8. {v} \in SUBSET Vectors /\ Len(s) <= Len(cells'[b]) /\ obj[v].size <= Len(cells'[x])
  BY <1>1, <1>3, <1>5
<1>9. CASE ActivateSplit(t, obj[v].size, Len(s), x, alloc'[x], b, alloc'[b])
  <2>1. BlocksTaken({v}, obj[v].size, Len(s), x, b)
    BY <1>1, <1>4, <1>5, <1>6, <1>8 DEF BlocksTaken
  <2> QED BY <1>1, <1>2, <1>3, <1>7, <1>8, <1>9, <2>1, SplitStep
<1>10. CASE ActivateSplit(t, Len(s), obj[v].size, b, alloc'[b], x, alloc'[x])
  <2>1. BlocksTaken({v}, Len(s), obj[v].size, b, x)
    BY <1>1, <1>4, <1>5, <1>6, <1>8 DEF BlocksTaken
  <2> QED BY <1>1, <1>2, <1>3, <1>7, <1>8, <1>10, <2>1, SplitStep
<1> QED BY <1>1, <1>5, <1>9, <1>10 DEF x
\* The layout of one vector moved in: its block, and b in the place of the
\* other.
LEMMA SplitOfMixed ==
  ASSUME NEW t, NEW v, NEW w, NEW m \in {v, w}, NEW b,
         InitializeMixed(t, v, w, m, b), TakesOne(v, w)
  PROVE  LET o == Other(v, w, m)
         IN  /\ v # w
             /\ m = v => ActivateSplit(t, obj[m].size, obj[o].size,
                           obj[m].heap, obj[m].capacity, b, obj[o].capacity)
             /\ m = w => ActivateSplit(t, obj[o].size, obj[m].size,
                           b, obj[o].capacity, obj[m].heap, obj[m].capacity)
<1>1. /\ v # w
      /\ ActivateSplit(t, obj[v].size, obj[w].size,
           BlockOf(v, m, b), obj[v].capacity, BlockOf(w, m, b), obj[w].capacity)
  BY DEF InitializeMixed
<1>2. CASE m = v
  BY <1>1, <1>2 DEF BlockOf, Other
<1>3. CASE m = w
  BY <1>1, <1>3 DEF BlockOf, Other
<1> QED BY <1>1, <1>2, <1>3

\* One vector moved in, the other copied; or both copied, when one fits inline.
LEMMA MixedStep ==
  ASSUME StorageInv, NEW t \in Storages, NEW v \in Vectors, NEW w \in Vectors,
         NEW m \in {v, w}, NEW b \in Blocks, InitializeMixed(t, v, w, m, b)
  PROVE  StorageInv' /\ ViewsKept
<1>1. CASE ~TakesOne(v, w)
  <2>1. InitializeRanges(t, b, Elements(v), Elements(w))
    BY <1>1 DEF InitializeMixed
  <2> QED BY <2>1, ElementsType, InitializeStep
<1>2. CASE TakesOne(v, w)
  <2> DEFINE o == Other(v, w, m)
             s == Elements(o)
             c == obj[o].capacity
  <2>1. /\ m \in Vectors /\ o \in Vectors
        /\ obj[m].size > InlineCapacity /\ obj[o].size > InlineCapacity
    BY <1>2 DEF TakesOne, Other
  <2>2. s \in Seq(Values) /\ Len(s) = obj[o].size BY <2>1, ElementsType
  <2>3. c \in Nat /\ c # 0 BY <2>1, HeapProperties
  <2>4. /\ Begin(t) /\ alloc[b] = 0
        /\ alloc' = [alloc EXCEPT ![b] = c] /\ cells' = [cells EXCEPT ![b] = s]
        /\ obj' = [obj EXCEPT ![m] = Inline(0)] /\ live' = live
    BY <1>2 DEF InitializeMixed, Released, Grants
  <2>5. \/ ActivateSplit(t, obj[m].size, Len(s),
             obj[m].heap, obj[m].capacity, b, c)
        \/ ActivateSplit(t, Len(s), obj[m].size,
             b, c, obj[m].heap, obj[m].capacity)
    BY <1>2, <2>2, SplitOfMixed
  <2> HIDE DEF o, s, c
  <2> QED BY <2>1, <2>2, <2>3, <2>4, <2>5, BesideStep
<1> QED BY <1>1, <1>2

\* A shape moved in, with its default strides.
LEMMA DefaultStep ==
  ASSUME StorageInv, NEW t \in Storages, NEW v \in Vectors, NEW b \in Blocks,
         MoveDefaultStrides(t, v, b)
  PROVE  StorageInv' /\ ViewsKept
<1> DEFINE s == Elements(v)
           r == DefaultStrides(s)
           c == obj[v].size
<1>1. s \in Seq(Values) /\ Len(s) = c BY ElementsType
<1>2. r \in Seq(Values) /\ Len(r) = c BY <1>1, DefaultStridesType
<1>3. c \in Nat /\ InlineCapacity \in Nat BY HeapProperties, SmallVectorAssumption
<1>4. CASE c <= InlineCapacity
  <2>1. InitializeRanges(t, b, s, r)
    BY <1>3, <1>4 DEF MoveDefaultStrides, InitializeDefaultStrides
  <2> HIDE DEF s, r
  <2> QED BY <1>1, <1>2, <2>1, InitializeStep
<1>5. CASE c > InlineCapacity
  <2>1. /\ Begin(t) /\ alloc[b] = 0
        /\ alloc' = [alloc EXCEPT ![b] = c] /\ cells' = [cells EXCEPT ![b] = r]
        /\ obj' = [obj EXCEPT ![v] = Inline(0)] /\ live' = live
        /\ ActivateSplit(t, c, c, obj[v].heap, obj[v].capacity, b, c)
    BY <1>3, <1>5 DEF MoveDefaultStrides, Released, Grants
  <2>2. c # 0 BY <1>3, <1>5
  <2> HIDE DEF s, r
  <2> QED BY <1>2, <1>3, <1>5, <2>1, <2>2, BesideStep
<1> QED BY <1>3, <1>4, <1>5

\* A sequence cut at its own length is the sequence.
LEMMA SubSeqWhole ==
  ASSUME NEW s \in Seq(Values)
  PROVE  SubSeq(s, 1, Len(s)) = s
<1>1. Len(s) \in Nat /\ \A i \in 1 .. Len(s) : s[i] \in Values
  BY LenProperties, ElementOfSeq
<1>2. /\ SubSeq(s, 1, Len(s)) \in Seq(Values)
      /\ Len(SubSeq(s, 1, Len(s))) = Len(s)
      /\ \A i \in 1 .. Len(s) : SubSeq(s, 1, Len(s))[i] = s[i]
  BY <1>1, SubSeqProperties
<1> QED BY <1>2, SeqEqual

\* The views of a storage that was moved are those of the new one.
LEMMA Moved ==
  ASSUME StorageInv, NEW t \in Storages, NEW u \in Storages,
         t \notin built, built' = built \cup {t}, sizes'[u] = Sizes(0, 0),
         \A x \in Storages \ {t, u} : Viewed(x),
         Shape(t)' = Shape(u), Strides(t)' = Strides(u)
  PROVE  ViewsKept
BY DEF ViewsKept, StorageInv, Types

\* A storage moved: what t has now, u had.
LEMMA MoveStep ==
  ASSUME StorageInv, NEW t \in Storages, NEW u \in Storages, MoveStorage(t, u)
  PROVE  StorageInv' /\ ViewsKept /\ Shows(t, Shape(u), Strides(u))
<1> DEFINE C == {t, u}
<1>1. /\ u \in built /\ t \notin built /\ built' = built \cup {t} /\ t # u
      /\ sizes' = [sizes EXCEPT ![t] = sizes[u], ![u] = Sizes(0, 0)]
      /\ UNCHANGED vars
  BY DEF MoveStorage, Begin
<1>2. /\ C \in SUBSET Owners /\ Vectors \cap C = {} /\ Storages \cap C = C
  BY StorageAssumption DEF Owners, Objects
<1>3. IsInline(t) /\ heap[t] = NoHeap /\ BlocksOf(t) = {} BY <1>1, NotBuilt
<1>4. /\ sizes'[t] = sizes[u] /\ sizes'[u] = Sizes(0, 0)
      /\ \A x \in Storages \ C : sizes'[x] = sizes[x]
      /\ sizes' \in [Storages -> [shape : Nat, strides : Nat]]
      /\ sizes[u] = Sizes(sizes[u].shape, sizes[u].strides)
      /\ sizes[u].shape \in Nat /\ sizes[u].strides \in Nat
  BY <1>1 DEF StorageInv, Types, Sizes
<1>5. StorageSound(u) BY DEF StorageInv
<1>6. UNCHANGED <<live, obj, alloc, cells>> BY <1>1 DEF vars
<1>7. Fits(0, 0) /\ 0 \in Nat BY SmallVectorAssumption DEF Fits
<1>8. CASE IsInline(u)
  <2>1. /\ inlined' = [inlined EXCEPT ![t] = Metadata(Shape(u), Strides(u))]
        /\ heap' = heap
    BY <1>8 DEF MoveStorage
  <2>2. /\ Shape(u) \in Seq(Values) /\ Len(Shape(u)) = sizes[u].shape
        /\ Strides(u) \in Seq(Values) /\ Len(Strides(u)) = sizes[u].strides
    BY ViewsType
  <2>3. /\ inlined'[t] = Metadata(Shape(u), Strides(u))
        /\ \A x \in Storages \ {t} : inlined'[x] = inlined[x]
        /\ inlined' \in [Storages -> [shape : Seq(Values), strides : Seq(Values)]]
    BY <2>1, <2>2 DEF StorageInv, Types, Metadata
  <2>4. Types' BY <1>1, <1>4, <1>6, <2>1, <2>3 DEF StorageInv, Types
  <2>5. heap[u] = NoHeap /\ BlocksOf(u) = {}
    BY <1>5, <1>8, BlocksOfStorage DEF StorageSound
  <2>6. StorageSound(t)' /\ BlocksOf(t)' = {}
    <3>1. Fits(sizes[u].shape, sizes[u].strides) BY <1>8 DEF IsInline
    <3>2. sizes[u].shape <= Len(inlined'[t].shape) /\ sizes[u].strides <= Len(inlined'[t].strides)
      BY <1>4, <2>2, <2>3 DEF Metadata
    <3> QED BY <1>3, <1>4, <2>1, <3>1, <3>2, InlineStorage
  <2>7. StorageSound(u)' /\ BlocksOf(u)' = {}
    <3>1. 0 <= Len(inlined'[u].shape) /\ 0 <= Len(inlined'[u].strides)
      BY <2>3, LenProperties
    <3> QED BY <1>4, <1>7, <2>1, <2>5, <3>1, InlineStorage
  <2>8. OthersKept(C)
    BY <1>1, <1>4, <1>6, <2>1, <2>3 DEF OthersKept
  <2>9. LeftSound(C) BY <1>2, <2>6, <2>7 DEF LeftSound
  <2>10. BlocksHanded(C)
    BY <1>3, <1>6, <2>5, <2>6, <2>7 DEF BlocksHanded
  <2>11. StorageInv' /\ \A x \in Storages \ C : Viewed(x)
    <3> HIDE DEF C
    <3> QED BY <1>2, <2>4, <2>8, <2>9, <2>10, StepKeepsInv
  <2>12. Shape(t)' = Shape(u) /\ Strides(t)' = Strides(u)
    <3>1. IsInline(t)' BY <1>4, <1>8 DEF IsInline
    <3>2. /\ SubSeq(Shape(u), 1, Len(Shape(u))) = Shape(u)
          /\ SubSeq(Strides(u), 1, Len(Strides(u))) = Strides(u)
      BY <2>2, SubSeqWhole
    <3> QED BY <1>4, <2>2, <2>3, <3>1, <3>2 DEF Shape, Strides, Metadata
  <2> QED BY <1>1, <1>4, <2>11, <2>12, Moved DEF Shows
<1>9. CASE ~IsInline(u)
  <2>1. /\ heap' = [heap EXCEPT ![t] = heap[u], ![u] = NoHeap]
        /\ inlined' = [inlined EXCEPT ![t] = NoMetadata]
    BY <1>9 DEF MoveStorage
  <2>2. /\ heap'[t] = heap[u] /\ heap'[u] = NoHeap
        /\ \A x \in Storages \ C : heap'[x] = heap[x]
        /\ heap' \in [Storages -> [allocation : Blocks \cup {None}, shape : Pointers,
                            strides : Pointers, shapeCapacity : Nat,
                            stridesCapacity : Nat]]
    BY <1>1, <2>1 DEF StorageInv, Types, HeapStorage, NoHeap, Pointers
  <2>3. /\ \A x \in Storages \ {t} : inlined'[x] = inlined[x]
        /\ inlined' \in [Storages -> [shape : Seq(Values), strides : Seq(Values)]]
    BY <2>1, EmptySeq DEF StorageInv, Types, NoMetadata, Metadata
  <2>4. Types' BY <1>1, <1>4, <1>6, <2>2, <2>3 DEF StorageInv, Types
  <2>5. ~Fits(sizes[u].shape, sizes[u].strides) BY <1>9 DEF IsInline
  <2>6. StorageSound(t)' /\ BlocksOf(t)' = BlocksOf(u)
    <3>1. CASE Combined(u)
      <4>1. PICK b \in Blocks :
              /\ heap[u] = HeapStorage(b, <<b, 0>>, <<b, sizes[u].shape>>, 0, 0)
              /\ alloc[b] # 0
              /\ sizes[u].shape + sizes[u].strides <= Len(cells[b])
        BY <3>1 DEF Combined
      <4>2. BlocksOf(u) = {b} BY <1>9, <4>1, BlocksOfStorage
      <4> QED BY <1>1, <1>4, <1>6, <2>2, <2>5, <4>1, <4>2, CombinedStorage
    <3>2. CASE Split(u)
      <4>1. PICK b \in Blocks, d \in Blocks :
              /\ b # d
              /\ heap[u] = HeapStorage(None, <<b, 0>>, <<d, 0>>, alloc[b], alloc[d])
              /\ alloc[b] # 0 /\ alloc[d] # 0
              /\ sizes[u].shape <= Len(cells[b]) /\ sizes[u].strides <= Len(cells[d])
        BY <3>2 DEF Split
      <4>2. BlocksOf(u) = {b, d} BY <1>9, <4>1, BlocksOfStorage
      <4> QED BY <1>1, <1>4, <1>6, <2>2, <2>5, <4>1, <4>2, SplitStorage
    <3> QED BY <1>5, <1>9, <3>1, <3>2 DEF StorageSound
  <2>7. StorageSound(u)' /\ BlocksOf(u)' = {}
    <3>1. 0 <= Len(inlined'[u].shape) /\ 0 <= Len(inlined'[u].strides)
      BY <2>3, LenProperties
    <3> QED BY <1>4, <1>7, <2>2, <3>1, InlineStorage
  <2>8. OthersKept(C)
    BY <1>1, <1>4, <1>6, <2>2, <2>3 DEF OthersKept
  <2>9. LeftSound(C) BY <1>2, <2>6, <2>7 DEF LeftSound
  <2>10. \A b \in BlocksOf(u) : b \in Blocks /\ alloc[b] # 0
    BY OwnedAllocated DEF Owners
  <2>11. BlocksHanded(C)
    BY <1>1, <1>3, <1>6, <2>6, <2>7, <2>10 DEF BlocksHanded
  <2>12. StorageInv' /\ \A x \in Storages \ C : Viewed(x)
    <3> HIDE DEF C
    <3> QED BY <1>2, <2>4, <2>8, <2>9, <2>11, StepKeepsInv
  <2>13. Shape(t)' = Shape(u) /\ Strides(t)' = Strides(u)
    <3>1. ~IsInline(t)' BY <1>4, <1>9 DEF IsInline
    <3> QED BY <1>4, <1>6, <1>9, <2>2, <3>1 DEF Shape, Strides, From
  <2> QED BY <1>1, <1>4, <2>12, <2>13, Moved DEF Shows
<1> QED BY <1>8, <1>9

\* A storage destroyed: what it has is freed.
LEMMA DestroyStep ==
  ASSUME StorageInv, NEW t \in Storages, DestroyStorage(t)
  PROVE  StorageInv' /\ ViewsKept
<1>1. /\ built' = built \ {t} /\ UNCHANGED <<live, obj>>
      /\ alloc' = [b \in Blocks |-> IF b \in Freeable(t) THEN 0 ELSE alloc[b]]
      /\ cells' = [p \in Vectors \cup Blocks |->
                     IF p \in Freeable(t) THEN << >> ELSE cells[p]]
      /\ sizes' = [sizes EXCEPT ![t] = Sizes(0, 0)]
      /\ inlined' = [inlined EXCEPT ![t] = NoMetadata]
      /\ heap' = [heap EXCEPT ![t] = NoHeap]
  BY DEF DestroyStorage
<1>2. t \in Owners /\ {t} \in SUBSET Owners /\ Vectors \cap {t} = {} /\ Storages \cap {t} = {t}
  BY StorageAssumption DEF Owners, Objects
<1>3. BlocksOf(t) = Freeable(t) BY BlocksOfStorage
<1>4. \A b \in BlocksOf(t) : b \in Blocks /\ alloc[b] # 0 BY <1>2, OwnedAllocated
<1>5. Fits(0, 0) /\ 0 \in Nat BY SmallVectorAssumption DEF Fits
<1>6. /\ alloc' \in [Blocks -> Nat]
      /\ cells' \in [Vectors \cup Blocks -> Seq(Values)]
  BY <1>1, EmptySeq DEF StorageInv, Types
<1>7. /\ sizes'[t] = Sizes(0, 0) /\ inlined'[t] = NoMetadata /\ heap'[t] = NoHeap
      /\ \A u \in Storages \ {t} :
           sizes'[u] = sizes[u] /\ inlined'[u] = inlined[u] /\ heap'[u] = heap[u]
  BY <1>1 DEF StorageInv, Types
<1>8. Types'
  <2>1. sizes' \in [Storages -> [shape : Nat, strides : Nat]]
    BY <1>1 DEF StorageInv, Types, Sizes
  <2>2. inlined' \in [Storages -> [shape : Seq(Values), strides : Seq(Values)]]
    BY <1>1, EmptySeq DEF StorageInv, Types, NoMetadata, Metadata
  <2>3. heap' \in [Storages -> [allocation : Blocks \cup {None}, shape : Pointers,
                            strides : Pointers, shapeCapacity : Nat,
                            stridesCapacity : Nat]]
    BY <1>1 DEF StorageInv, Types, HeapStorage, NoHeap, Pointers
  <2> QED BY <1>1, <1>6, <2>1, <2>2, <2>3 DEF StorageInv, Types
<1>9. StorageSound(t)' /\ BlocksOf(t)' = {}
  <2>1. 0 <= Len(inlined'[t].shape) /\ 0 <= Len(inlined'[t].strides)
    BY <1>7, EmptySeq DEF NoMetadata, Metadata
  <2> QED BY <1>5, <1>7, <2>1, InlineStorage
<1>10. \A v \in Vectors : cells'[v] = cells[v]
  BY <1>1, <1>3, <1>4, SmallVectorAssumption DEF StorageInv, Types
<1>11. \A b \in Blocks :
         /\ alloc'[b] = IF b \in BlocksOf(t) THEN 0 ELSE alloc[b]
         /\ b \notin BlocksOf(t) => cells'[b] = cells[b]
  BY <1>1, <1>3
<1>12. OthersKept({t})
  BY <1>1, <1>7, <1>10, <1>11 DEF OthersKept
<1>13. LeftSound({t}) BY <1>2, <1>9 DEF LeftSound
<1>14. BlocksHanded({t}) BY <1>9, <1>11 DEF BlocksHanded
<1> QED BY <1>1, <1>2, <1>8, <1>12, <1>13, <1>14, StepKeepsViews
\* The steps of a vector, by what becomes of its block: it keeps it, ...
LEMMA VectorOnly ==
  ASSUME StorageInv, NEW v \in Vectors, UNCHANGED storageVars, Types', VectorSound(v)',
         \A w \in Vectors \ {v} :
           obj'[w] = obj[w] /\ cells'[w] = cells[w] /\ (w \notin live' => w \notin live),
         \A b \in Blocks : alloc'[b] # alloc[b] \/ cells'[b] # cells[b] =>
           alloc[b] = 0 \/ b \in BlocksOf(v),
         \A b \in BlocksOf(v)' : b \in Blocks /\ (alloc[b] = 0 \/ b \in BlocksOf(v)),
         \A b \in Blocks : alloc'[b] # 0 <=>
           b \in BlocksOf(v)' \/ (alloc[b] # 0 /\ b \notin BlocksOf(v))
  PROVE  StorageInv' /\ ViewsKept
<1>1. {v} \in SUBSET Owners /\ Vectors \cap {v} = {v} /\ Storages \cap {v} = {}
  BY StorageAssumption DEF Owners, Objects
<1>2. OthersKept({v}) BY DEF OthersKept, storageVars
<1>3. LeftSound({v}) BY <1>1 DEF LeftSound
<1>4. BlocksHanded({v}) BY DEF BlocksHanded
<1>5. v \notin built BY StorageAssumption DEF StorageInv, Types, Objects
<1> QED BY <1>1, <1>2, <1>3, <1>4, <1>5, StepKeepsViews

\* ... gives it up for a new one, ...
LEMMA ReplaceStep ==
  ASSUME StorageInv, NEW v \in Vectors, NEW b \in Blocks, NEW s \in Seq(Values),
         NEW c \in Nat, c > InlineCapacity, Len(s) <= c,
         ReplaceWithHeap(v, b, s, c), UNCHANGED storageVars,
         live' \subseteq Vectors, live \subseteq live', v \in live'
  PROVE  StorageInv' /\ ViewsKept
<1>1. /\ alloc[b] = 0 /\ obj' = [obj EXCEPT ![v] = OnHeap(b, Len(s), c)]
      /\ alloc' = [Freed(v) EXCEPT ![b] = c]
      /\ cells' = [Vacated(v) EXCEPT ![b] = s]
  BY DEF ReplaceWithHeap, Grants
<1>2. Len(s) \in Nat /\ c # 0 BY LenProperties, SmallVectorAssumption
<1>3. v \in Objects /\ v \notin Blocks BY SmallVectorAssumption DEF Objects
<1>4. /\ obj'[v] = OnHeap(b, Len(s), c) /\ \A w \in Vectors \ {v} : obj'[w] = obj[w]
      /\ obj' \in [Objects -> [size : Nat, capacity : Nat, heap : Blocks \cup {None}]]
  BY <1>1, <1>2, <1>3 DEF StorageInv, Types, OnHeap, Objects
<1>5. /\ Freed(v) \in [Blocks -> Nat]
      /\ \A x \in Blocks : Freed(v)[x] = IF x \in BlocksOf(v) THEN 0 ELSE alloc[x]
  <2>1. alloc \in [Blocks -> Nat] BY DEF StorageInv, Types
  <2> QED BY <2>1, HeapProperties DEF Freed
<1>6. /\ alloc' \in [Blocks -> Nat] /\ alloc'[b] = c
      /\ \A x \in Blocks \ {b} : alloc'[x] = IF x \in BlocksOf(v) THEN 0 ELSE alloc[x]
  BY <1>1, <1>5
<1>7. Data(v) = v \/ (BlocksOf(v) = {Data(v)} /\ Data(v) \in Blocks)
  BY HeapProperties DEF Data
<1>8. /\ cells' \in [Vectors \cup Blocks -> Seq(Values)] /\ cells'[b] = s
      /\ \A x \in (Vectors \cup Blocks) \ {b, Data(v)} : cells'[x] = cells[x]
  BY <1>1, EmptySeq DEF StorageInv, Types, Vacated
<1>9. Types' BY <1>4, <1>6, <1>8 DEF StorageInv, Types, storageVars
<1>10. VectorSound(v)' /\ BlocksOf(v)' = {b}
  <2>1. Len(s) <= Len(cells'[b]) BY <1>2, <1>8
  <2>2. obj'[v] = OnHeap(b, Len(s), c) /\ alloc'[b] = c BY <1>4, <1>6
  <2> QED BY <1>2, <2>1, <2>2, HeapVector
<1>11. \A w \in Vectors \ {v} : cells'[w] = cells[w]
  BY <1>7, <1>8, SmallVectorAssumption
<1>12. \A x \in Blocks : alloc'[x] # alloc[x] \/ cells'[x] # cells[x] =>
         alloc[x] = 0 \/ x \in BlocksOf(v)
  BY <1>1, <1>3, <1>6, <1>7, <1>8
<1>13. b \notin BlocksOf(v) BY <1>1, HeapProperties
<1> QED
  BY <1>1, <1>2, <1>4, <1>6, <1>9, <1>10, <1>11, <1>12, <1>13, VectorOnly

\* ... or has none.
LEMMA VectorSteps ==
  ASSUME StorageInv, VectorStep
  PROVE  StorageInv' /\ ViewsKept
<1>1. PICK v \in Vectors :
        \/ Destroy(v) \/ Clear(v)
        \/ \E b \in Blocks :
             \/ \E s \in Ranges : Construct(v, b, s)
             \/ \E c \in 0 .. MaxCapacity : Reserve(v, b, c)
  BY DEF VectorStep
<1>2. UNCHANGED storageVars BY DEF VectorStep
<1>3. v \in Objects /\ v \notin Blocks /\ InlineCapacity \in Nat
  BY SmallVectorAssumption DEF Objects
<1>4. obj[v] \in [size : Nat, capacity : Nat, heap : Blocks \cup {None}]
      /\ VectorSound(v)
  BY <1>3 DEF StorageInv, Types
<1>5. CASE Destroy(v)
  <2>1. /\ live' = live \ {v} /\ obj' = [obj EXCEPT ![v] = Inline(0)]
        /\ alloc' = Freed(v) /\ cells' = [Vacated(v) EXCEPT ![v] = << >>]
    BY <1>5 DEF Destroy
  <2>2. /\ obj'[v] = Inline(0) /\ \A w \in Vectors \ {v} : obj'[w] = obj[w]
        /\ obj' \in [Objects -> [size : Nat, capacity : Nat, heap : Blocks \cup {None}]]
    BY <1>3, <2>1 DEF StorageInv, Types, Inline, Objects
  <2>3. /\ alloc' \in [Blocks -> Nat]
        /\ \A x \in Blocks : alloc'[x] = IF x \in BlocksOf(v) THEN 0 ELSE alloc[x]
    <3>1. alloc \in [Blocks -> Nat] BY DEF StorageInv, Types
    <3> QED BY <2>1, <3>1, HeapProperties DEF Freed
  <2>4. Data(v) = v \/ (BlocksOf(v) = {Data(v)} /\ Data(v) \in Blocks)
    BY HeapProperties DEF Data
  <2>5. /\ cells' \in [Vectors \cup Blocks -> Seq(Values)] /\ cells'[v] = << >>
        /\ \A x \in (Vectors \cup Blocks) \ {v, Data(v)} : cells'[x] = cells[x]
    BY <2>1, EmptySeq DEF StorageInv, Types, Vacated
  <2>6. Types' BY <1>2, <2>1, <2>2, <2>3, <2>5 DEF StorageInv, Types, storageVars
  <2>7. VectorSound(v)' /\ BlocksOf(v)' = {}
    <3>1. 0 <= Len(cells'[v]) /\ 0 \in Nat /\ 0 <= InlineCapacity
      BY <1>3, <2>5, EmptySeq
    <3> QED BY <2>2, <3>1, InlineVector
  <2>8. \A w \in Vectors \ {v} : cells'[w] = cells[w]
    BY <2>4, <2>5, SmallVectorAssumption
  <2>9. \A x \in Blocks : x \notin BlocksOf(v) => cells'[x] = cells[x]
    BY <1>3, <2>4, <2>5
  <2> QED
    BY <1>2, <2>1, <2>2, <2>3, <2>6, <2>7, <2>8, <2>9, VectorOnly
<1>6. CASE Clear(v)
  <2>1. obj' = [obj EXCEPT ![v].size = 0] /\ UNCHANGED <<live, alloc, cells>>
    BY <1>6 DEF Clear, SetSize
  <2>2. /\ obj'[v] = [obj[v] EXCEPT !.size = 0] /\ \A w \in Vectors \ {v} : obj'[w] = obj[w]
        /\ obj' \in [Objects -> [size : Nat, capacity : Nat, heap : Blocks \cup {None}]]
    BY <1>3, <1>4, <2>1 DEF StorageInv, Types, Objects
  <2>3. obj'[v].size = 0 /\ obj'[v].capacity = obj[v].capacity /\ obj'[v].heap = obj[v].heap
    BY <1>4, <2>2
  <2>4. BlocksOf(v) = {obj[v].heap} \ {None} /\ BlocksOf(v)' = {obj'[v].heap} \ {None}
    BY <1>3, StorageAssumption DEF BlocksOf
  <2>5. BlocksOf(v)' = BlocksOf(v) BY <2>3, <2>4
  <2>6. Types' BY <1>2, <2>1, <2>2 DEF StorageInv, Types, storageVars
  <2>7. IsHeap(v)' <=> IsHeap(v) BY <2>3 DEF IsHeap
  <2>8. Data(v)' = Data(v) BY <2>3, <2>7 DEF Data
  <2>9. obj[v].size \in Nat /\ obj[v].capacity \in Nat BY <1>4
  <2>10. 0 <= Len(cells'[Data(v)])
    <3>1. Data(v) \in Vectors \cup Blocks BY HeapProperties DEF Data
    <3>2. cells'[Data(v)] \in Seq(Values) BY <2>6, <3>1 DEF Types
    <3> QED BY <3>2, LenProperties
  <2>11. VectorSound(v)'
    BY <1>4, <2>1, <2>3, <2>7, <2>8, <2>9, <2>10 DEF VectorSound
  <2>12. \A b \in BlocksOf(v) : b \in Blocks /\ alloc[b] # 0
    BY OwnedAllocated DEF Owners
  <2> QED BY <1>2, <2>1, <2>2, <2>5, <2>6, <2>11, <2>12, VectorOnly
<1>7. ASSUME NEW b \in Blocks, NEW s \in Ranges, Construct(v, b, s)
      PROVE  StorageInv' /\ ViewsKept
  <2>1. v \notin live /\ live' = live \cup {v} BY <1>7 DEF Construct
  <2>2. s \in Seq(Values) /\ Len(s) \in Nat BY LenProperties, SmallVectorAssumption
  <2>3. live' \subseteq Vectors /\ live \subseteq live' /\ v \in live'
    BY <2>1 DEF StorageInv, Types
  <2>4. BlocksOf(v) = {} /\ ~IsHeap(v) BY <2>1, HeapProperties
  <2>5. CASE Len(s) <= InlineCapacity
    <3>1. /\ obj' = [obj EXCEPT ![v] = Inline(Len(s))]
          /\ cells' = [cells EXCEPT ![v] = s] /\ alloc' = alloc
      BY <1>7, <1>3, <2>2, <2>5 DEF Construct
    <3>2. /\ obj'[v] = Inline(Len(s)) /\ \A w \in Vectors \ {v} : obj'[w] = obj[w]
          /\ obj' \in [Objects -> [size : Nat, capacity : Nat, heap : Blocks \cup {None}]]
      BY <1>3, <2>2, <3>1 DEF StorageInv, Types, Inline, Objects
    <3>3. /\ cells' \in [Vectors \cup Blocks -> Seq(Values)] /\ cells'[v] = s
          /\ \A x \in (Vectors \cup Blocks) \ {v} : cells'[x] = cells[x]
      BY <2>2, <3>1 DEF StorageInv, Types
    <3>4. Types' BY <1>2, <2>3, <3>1, <3>2, <3>3 DEF StorageInv, Types, storageVars
    <3>5. VectorSound(v)' /\ BlocksOf(v)' = {}
      <4> DEFINE n == Len(s)
      <4>1. n \in Nat /\ n <= InlineCapacity /\ n <= Len(cells'[v])
            /\ obj'[v] = Inline(n)
        BY <2>2, <2>5, <3>2, <3>3, SmallVectorAssumption
      <4> HIDE DEF n
      <4> QED BY <4>1, InlineVector
    <3>6. \A x \in Blocks : cells'[x] = cells[x] BY <1>3, <3>3
    <3> QED
      BY <1>2, <2>1, <2>4, <3>1, <3>2, <3>3, <3>4, <3>5, <3>6, VectorOnly
  <2>6. CASE Len(s) > InlineCapacity
    <3>1. ReplaceWithHeap(v, b, s, Len(s)) BY <1>3, <1>7, <2>2, <2>6 DEF Construct
    <3> QED BY <1>2, <2>2, <2>3, <2>6, <3>1, ReplaceStep
  <2> QED BY <1>3, <2>2, <2>5, <2>6
<1>8. ASSUME NEW b \in Blocks, NEW c \in 0 .. MaxCapacity, Reserve(v, b, c)
      PROVE  StorageInv' /\ ViewsKept
  <2>1. /\ v \in live /\ c > obj[v].capacity /\ live' = live
        /\ ReplaceWithHeap(v, b, Elements(v), c)
    BY <1>8 DEF Reserve
  <2>2. Elements(v) \in Seq(Values) /\ Len(Elements(v)) = obj[v].size BY ElementsType
  <2>3. c \in Nat /\ c > InlineCapacity /\ Len(Elements(v)) <= c
    BY <1>3, <1>4, <2>1, <2>2, SmallVectorAssumption DEF VectorSound
  <2>4. live' \subseteq Vectors BY <2>1 DEF StorageInv, Types
  <2> QED BY <1>2, <2>1, <2>2, <2>3, <2>4, ReplaceStep
<1> QED BY <1>1, <1>5, <1>6, <1>7, <1>8
-----------------------------------------------------------------------------
\* The invariant of the specification.

\* Nothing is built at first, and nothing is allocated.
LEMMA StorageInitInv == StorageInit => StorageInv
<1> SUFFICES ASSUME StorageInit PROVE StorageInv
  OBVIOUS
<1>1. /\ live = {} /\ built = {} /\ alloc = [b \in Blocks |-> 0]
      /\ obj = [o \in Objects |-> IF o \in Vectors THEN Inline(0) ELSE NoAllocation]
      /\ cells = [p \in Vectors \cup Blocks |-> << >>]
      /\ sizes = [t \in Storages |-> Sizes(0, 0)]
      /\ inlined = [t \in Storages |-> NoMetadata]
      /\ heap = [t \in Storages |-> NoHeap]
  BY DEF StorageInit, Init
<1>2. InlineCapacity \in Nat BY SmallVectorAssumption
<1>3. Types
  <2>1. obj \in [Objects -> [size : Nat, capacity : Nat, heap : Blocks \cup {None}]]
    BY <1>1, <1>2 DEF Inline, NoAllocation
  <2>2. /\ alloc \in [Blocks -> Nat]
        /\ cells \in [Vectors \cup Blocks -> Seq(Values)]
        /\ sizes \in [Storages -> [shape : Nat, strides : Nat]]
        /\ inlined \in [Storages -> [shape : Seq(Values), strides : Seq(Values)]]
    BY <1>1, EmptySeq DEF Sizes, NoMetadata, Metadata
  <2>3. heap \in [Storages -> [allocation : Blocks \cup {None}, shape : Pointers,
                            strides : Pointers, shapeCapacity : Nat,
                            stridesCapacity : Nat]]
    BY <1>1 DEF NoHeap, HeapStorage, Pointers
  <2> QED BY <1>1, <2>1, <2>2, <2>3 DEF Types
<1>4. ASSUME NEW v \in Vectors PROVE VectorSound(v) /\ BlocksOf(v) = {}
  <2>1. obj[v] = Inline(0) /\ cells[v] = << >> BY <1>1 DEF Objects
  <2>2. ~IsHeap(v) BY <1>2, <2>1 DEF IsHeap, Inline
  <2>3. Data(v) = v BY <2>2 DEF Data
  <2>4. VectorSound(v) BY <1>2, <2>1, <2>2, <2>3, EmptySeq DEF VectorSound, Inline
  <2> QED BY <2>1, <2>4, BlocksOfVector DEF Inline
<1>5. ASSUME NEW t \in Storages PROVE StorageSound(t) /\ BlocksOf(t) = {}
  <2>1. IsInline(t) BY <1>1, <1>2 DEF IsInline, Fits, Sizes
  <2>2. StorageSound(t)
    BY <1>1, <2>1, EmptySeq DEF StorageSound, Sizes, NoMetadata, Metadata
  <2> QED BY <2>1, <2>2, BlocksOfStorage
<1>6. Owned BY <1>1, <1>4, <1>5 DEF Owned, Owners
<1> QED BY <1>3, <1>4, <1>5, <1>6 DEF StorageInv

\* Every step keeps the invariant, and the views that it should keep.
LEMMA StorageNextInv == StorageInv /\ [StorageNext]_allVars => StorageInv' /\ ViewsKept
<1> SUFFICES ASSUME StorageInv, [StorageNext]_allVars PROVE StorageInv' /\ ViewsKept
  OBVIOUS
<1>1. CASE UNCHANGED allVars
  <2>1. UNCHANGED <<live, obj, alloc, cells, built, sizes, inlined, heap>>
    BY <1>1 DEF allVars, vars, storageVars
  <2> DEFINE none == {}
  <2>2. none \in SUBSET Owners OBVIOUS
  <2>3. Types' BY <2>1 DEF StorageInv, Types
  <2>4. OthersKept(none) BY <2>1 DEF OthersKept
  <2>5. LeftSound(none) BY DEF LeftSound
  <2>6. BlocksHanded(none) BY <2>1 DEF BlocksHanded
  <2>7. \A t \in none : t \notin built \/ t \notin built' OBVIOUS
  <2> HIDE DEF none
  <2> QED BY <2>2, <2>3, <2>4, <2>5, <2>6, <2>7, StepKeepsViews
<1>2. CASE VectorStep
  BY <1>2, VectorSteps
<1>3. ASSUME NEW t \in Storages, DestroyStorage(t) PROVE StorageInv' /\ ViewsKept
  BY <1>3, DestroyStep
<1>4. ASSUME NEW t \in Storages, NEW u \in Storages, MoveStorage(t, u) PROVE StorageInv' /\ ViewsKept
  BY <1>4, MoveStep
<1>5. ASSUME NEW t \in Storages, NEW b \in Blocks, NEW u \in Storages,
             CopyStorage(t, u, b)
      PROVE  StorageInv' /\ ViewsKept
  <2>1. InitializeRanges(t, b, Shape(u), Strides(u)) BY <1>5 DEF CopyStorage
  <2> QED BY <2>1, ViewsType, InitializeStep
<1>6. ASSUME NEW t \in Storages, NEW b \in Blocks, NEW s \in Ranges, NEW r \in Ranges,
             InitializeRanges(t, b, s, r)
      PROVE  StorageInv' /\ ViewsKept
  <2>1. s \in Seq(Values) /\ r \in Seq(Values) BY SmallVectorAssumption
  <2> QED BY <1>6, <2>1, InitializeStep
<1>7. ASSUME NEW t \in Storages, NEW b \in Blocks, NEW s \in Ranges,
             InitializeDefaultStrides(t, b, s)
      PROVE  StorageInv' /\ ViewsKept
  <2>1. s \in Seq(Values) BY SmallVectorAssumption
  <2>2. DefaultStrides(s) \in Seq(Values) BY <2>1, DefaultStridesType
  <2>3. InitializeRanges(t, b, s, DefaultStrides(s))
    BY <1>7 DEF InitializeDefaultStrides
  <2> QED BY <2>1, <2>2, <2>3, InitializeStep
<1>8. ASSUME NEW t \in Storages, NEW b \in Blocks, NEW v \in Vectors,
             MoveDefaultStrides(t, v, b)
      PROVE  StorageInv' /\ ViewsKept
  BY <1>8, DefaultStep
<1>9. ASSUME NEW t \in Storages, NEW b \in Blocks, NEW v \in Vectors, NEW w \in Vectors,
             InitializeOwned(t, v, w, b) \/ \E m \in {v, w} : InitializeMixed(t, v, w, m, b)
      PROVE  StorageInv' /\ ViewsKept
  BY <1>9, OwnedStep, MixedStep
<1> QED
  BY <1>1, <1>2, <1>3, <1>4, <1>5, <1>6, <1>7, <1>8, <1>9 DEF StorageNext

\* The invariant holds in every behaviour.
THEOREM StorageInvHolds == StorageSpec => []StorageInv
BY StorageInitInv, StorageNextInv, PTL DEF StorageSpec

\* Sizes, pointers, blocks and contents keep their types, the default strides
\* among them, which FillDefaultStrides computes in the width of a stride.
THEOREM StorageTypes == StorageSpec => []StorageTypeOK
<1>1. StorageInv => StorageTypeOK
  <2> SUFFICES ASSUME StorageInv PROVE StorageTypeOK
    OBVIOUS
  <2>1. ASSUME NEW t \in Storages
        PROVE  /\ heap[t].allocation \in Blocks \cup {None}
               /\ heap[t].shape[1] \in Blocks \cup {None}
               /\ heap[t].strides[1] \in Blocks \cup {None}
    BY DEF StorageInv, Types, Pointers
  <2> QED BY <2>1 DEF StorageInv, Types, StorageTypeOK
<1> QED BY <1>1, StorageInvHolds, PTL

\* Every allocated block has one owner, which frees it, whatever the order of
\* constructions, moves and destructions: nothing leaks, no double free.
THEOREM BlocksOwnedOnce == StorageSpec => []OneStorageOwner
<1>1. StorageInv => OneStorageOwner
  <2> SUFFICES ASSUME StorageInv PROVE OneStorageOwner
    OBVIOUS
  <2>1. ASSUME NEW t \in Storages PROVE IsInline(t) <=> heap[t] = NoHeap
    <3>1. None \notin Blocks BY SmallVectorAssumption
    <3>2. Combined(t) => heap[t] # NoHeap
      BY <3>1 DEF Combined, HeapStorage, NoHeap
    <3>3. Split(t) => heap[t] # NoHeap
      BY <3>1 DEF Split, HeapStorage, NoHeap
    <3> QED BY <3>2, <3>3 DEF StorageInv, StorageSound
  <2>2. ASSUME NEW b \in Blocks
        PROVE  LET owners == {o \in Vectors \cup built : b \in BlocksOf(o)}
               IN  IF alloc[b] = 0 THEN owners = {} ELSE \E o \in owners : owners = {o}
    <3> DEFINE owners == {o \in Vectors \cup built : b \in BlocksOf(o)}
    <3>1. built \subseteq Storages BY DEF StorageInv, Types
    <3>2. \A o \in Owners : b \in BlocksOf(o) => o \in owners
      BY NotBuilt DEF Owners
    <3>3. \A o \in owners : o \in Owners /\ b \in BlocksOf(o)
      BY <3>1 DEF Owners
    <3> HIDE DEF owners
    <3>4. ASSUME alloc[b] = 0 PROVE owners = {}
      BY <3>3, <3>4 DEF StorageInv, Owned
    <3>5. ASSUME alloc[b] # 0 PROVE \E o \in owners : owners = {o}
      <4>1. PICK o \in Owners : b \in BlocksOf(o) BY <3>5 DEF StorageInv, Owned
      <4>2. \A p \in owners : p = o BY <3>3, <4>1 DEF StorageInv, Owned
      <4> QED BY <3>2, <4>1, <4>2
    <3>6. IF alloc[b] = 0 THEN owners = {} ELSE \E o \in owners : owners = {o}
      BY <3>4, <3>5
    <3> QED BY <3>6 DEF owners
  <2> QED BY <2>1, <2>2 DEF OneStorageOwner
<1> QED BY <1>1, StorageInvHolds, PTL

\* deallocate is told what was allocated, for the blocks of moved-in vectors
\* as for those made beside them.
THEOREM CapacitiesAreKept == StorageSpec => []CapacitiesKept
<1>1. StorageInv => CapacitiesKept
  <2> SUFFICES ASSUME StorageInv, NEW t \in built, ~IsInline(t), ~IsCombined(t)
               PROVE  /\ alloc[heap[t].shape[1]] = heap[t].shapeCapacity
                      /\ alloc[heap[t].strides[1]] = heap[t].stridesCapacity
    BY DEF CapacitiesKept
  <2>1. t \in Storages BY DEF StorageInv, Types
  <2>2. None \notin Blocks BY SmallVectorAssumption
  <2>3. ~Combined(t)
    <3>1. heap[t].allocation = None BY DEF IsCombined
    <3>2. \A b \in Blocks : heap[t] # HeapStorage(b, <<b, 0>>, <<b, sizes[t].shape>>, 0, 0)
      BY <2>2, <3>1 DEF HeapStorage
    <3> QED BY <3>2 DEF Combined
  <2>4. Split(t) BY <2>1, <2>3 DEF StorageInv, StorageSound
  <2> QED BY <2>4 DEF Split, HeapStorage
<1> QED BY <1>1, StorageInvHolds, PTL

\* The views of a storage stay what they are until it is destroyed, or moved
\* with its views to the new storage, whatever becomes of the vectors that its
\* blocks came from.
THEOREM ViewsAreStable == StorageSpec => MetadataStable
<1>1. StorageInv /\ [StorageNext]_allVars =>
        [\A t \in built \cap built' :
           \/ Allocated(t)' /\ Shape(t)' = Shape(t) /\ Strides(t)' = Strides(t)
           \/ /\ sizes'[t] = Sizes(0, 0)
              /\ \E u \in built' \ built :
                   Shape(u)' = Shape(t) /\ Strides(u)' = Strides(t)]_allVars
  BY StorageNextInv DEF ViewsKept, Viewed
<1> QED BY <1>1, StorageInvHolds, PTL DEF StorageSpec, MetadataStable
-----------------------------------------------------------------------------
\* What a storage is built from.

\* Each part of a combined block is one of the two sequences written to it.
LEMMA CutOut ==
  ASSUME NEW s \in Seq(Values), NEW r \in Seq(Values)
  PROVE  /\ SubSeq(s \o r, 0 + 1, 0 + Len(s)) = s
         /\ SubSeq(s \o r, Len(s) + 1, Len(s) + Len(r)) = r
<1> DEFINE q == s \o r
           n == Len(s)
           m == Len(r)
           head == SubSeq(q, 1, n)
           tail == SubSeq(q, n + 1, n + m)
<1>1. /\ n \in Nat /\ m \in Nat /\ q \in Seq(Values) /\ Len(q) = n + m
      /\ \A i \in 1 .. n : q[i] = s[i]
      /\ \A i \in n + 1 .. n + m : q[i] = r[i - n]
  <2>1. /\ n \in Nat /\ m \in Nat /\ q \in Seq(Values) /\ Len(q) = n + m
        /\ \A i \in 1 .. n + m : q[i] = IF i <= n THEN s[i] ELSE r[i - n]
    BY LenProperties, ConcatProperties
  <2> HIDE DEF q, n, m
  <2> QED BY <2>1
<1>2. \A i \in 1 .. n + m : q[i] \in Values
  BY <1>1, ElementOfSeq
<1> HIDE DEF q, n, m
<1>3. head = s
  <2>1. \A i \in 1 .. n : q[i] \in Values BY <1>1, <1>2
  <2>2. head \in Seq(Values) /\ Len(head) = n /\ \A i \in 1 .. n : head[i] = q[i]
    BY <1>1, <2>1, SubSeqProperties
  <2> QED BY <1>1, <2>2, SeqEqual DEF n
<1>4. tail = r
  <2>1. \A i \in n + 1 .. n + m : q[i] \in Values BY <1>1, <1>2
  <2>2. /\ tail \in Seq(Values)
        /\ Len(tail) = IF n + 1 <= n + m THEN (n + m) - (n + 1) + 1 ELSE 0
        /\ \A i \in 1 .. (n + m) - (n + 1) + 1 : tail[i] = q[(n + 1) + i - 1]
    BY <1>1, <2>1, SubSeqProperties
  <2> HIDE DEF tail
  <2>3. Len(tail) = m BY <1>1, <2>2
  <2>4. ASSUME NEW i \in 1 .. m PROVE tail[i] = r[i]
    <3>1. i \in 1 .. (n + m) - (n + 1) + 1 /\ (n + 1) + i - 1 = n + i
          /\ n + i \in n + 1 .. n + m /\ (n + i) - n = i
      BY <1>1
    <3> QED BY <1>1, <2>2, <3>1
  <2> QED BY <2>2, <2>3, <2>4, SeqEqual DEF m
<1> QED BY <1>1, <1>3, <1>4 DEF q, n, m

\* Ranges that are written inline or into one block are shown as they are.
LEMMA InitializeShows ==
  ASSUME StorageInv, NEW t \in Storages, NEW b \in Blocks,
         NEW s \in Seq(Values), NEW r \in Seq(Values),
         InitializeRanges(t, b, s, r)
  PROVE  Shows(t, s, r)
<1>1. sizes'[t] = Sizes(Len(s), Len(r))
  BY DEF InitializeRanges, Initialize, StorageInv, Types
<1>2. CASE Fits(Len(s), Len(r))
  <2>1. inlined'[t] = Metadata(s, r)
    BY <1>2 DEF InitializeRanges, Initialize, StorageInv, Types
  <2>2. IsInline(t)' BY <1>1, <1>2 DEF IsInline, Sizes
  <2>3. Shape(t)' = SubSeq(s, 1, Len(s)) /\ Strides(t)' = SubSeq(r, 1, Len(r))
    BY <1>1, <2>1, <2>2 DEF Shape, Strides, Metadata, Sizes
  <2> QED BY <2>3, SubSeqWhole DEF Shows
<1>3. CASE ~Fits(Len(s), Len(r))
  <2>1. /\ heap'[t] = HeapStorage(b, <<b, 0>>, <<b, Len(s)>>, 0, 0)
        /\ cells'[b] = s \o r
    BY <1>3 DEF InitializeRanges, Initialize, StorageInv, Types
  <2>2. ~IsInline(t)' BY <1>1, <1>3 DEF IsInline, Sizes
  <2>3. /\ Shape(t)' = SubSeq(s \o r, 0 + 1, 0 + Len(s))
        /\ Strides(t)' = SubSeq(s \o r, Len(s) + 1, Len(s) + Len(r))
    BY <1>1, <2>1, <2>2 DEF Shape, Strides, From, HeapStorage, Sizes
  <2> QED BY <2>3, CutOut DEF Shows
<1> QED BY <1>2, <1>3

\* Two blocks are shown as far as the sizes go.
LEMMA SplitShows ==
  ASSUME StorageInv, NEW t \in Storages, NEW n \in Nat, NEW m \in Nat, ~Fits(n, m),
         NEW b, NEW c, NEW d, NEW e, ActivateSplit(t, n, m, b, c, d, e)
  PROVE  Shows(t, SubSeq(cells'[b], 1, n), SubSeq(cells'[d], 1, m))
<1>1. sizes'[t] = Sizes(n, m) /\ heap'[t] = HeapStorage(None, <<b, 0>>, <<d, 0>>, c, e)
  BY DEF ActivateSplit, StorageInv, Types
<1>2. ~IsInline(t)' BY <1>1 DEF IsInline, Sizes
<1>3. 0 + 1 = 1 /\ 0 + n = n /\ 0 + m = m OBVIOUS
<1> QED BY <1>1, <1>2, <1>3 DEF Shows, Shape, Strides, From, HeapStorage, Sizes

\* The elements of a vector on the heap are in its block, whatever a step does
\* to other blocks.
LEMMA BlockElements ==
  ASSUME StorageInv, NEW v \in Vectors, IsHeap(v),
         cells'[obj[v].heap] = cells[obj[v].heap]
  PROVE  SubSeq(cells'[obj[v].heap], 1, obj[v].size) = Elements(v)
BY HeapProperties DEF Elements

\* Two vectors moved in: their elements, in their blocks or copied.
LEMMA OwnedAsGiven ==
  ASSUME StorageInv, NEW t \in Storages, NEW v \in Vectors, NEW w \in Vectors,
         NEW b \in Blocks, InitializeOwned(t, v, w, b)
  PROVE  Shows(t, Elements(v), Elements(w))
<1>1. CASE ~Takes(v, w)
  <2>1. InitializeRanges(t, b, Elements(v), Elements(w))
    BY <1>1 DEF InitializeOwned
  <2> QED BY <2>1, ElementsType, InitializeShows
<1>2. CASE Takes(v, w)
  <2>1. /\ ActivateSplit(t, obj[v].size, obj[w].size,
             obj[v].heap, obj[v].capacity, obj[w].heap, obj[w].capacity)
        /\ cells' = cells
    BY <1>2 DEF InitializeOwned
  <2>2. /\ ~Fits(obj[v].size, obj[w].size) /\ IsHeap(v) /\ IsHeap(w)
        /\ obj[v].size \in Nat /\ obj[w].size \in Nat
    BY <1>2, HeapProperties DEF Takes
  <2>3. Shows(t, SubSeq(cells'[obj[v].heap], 1, obj[v].size),
                 SubSeq(cells'[obj[w].heap], 1, obj[w].size))
    BY <2>1, <2>2, SplitShows
  <2>4. /\ SubSeq(cells'[obj[v].heap], 1, obj[v].size) = Elements(v)
        /\ SubSeq(cells'[obj[w].heap], 1, obj[w].size) = Elements(w)
    BY <2>1, <2>2, BlockElements
  <2> QED BY <2>3, <2>4
<1> QED BY <1>1, <1>2

\* A vector whose block is taken, and s in a new block beside it.
LEMMA BesideShows ==
  ASSUME StorageInv, NEW t \in Storages, NEW v \in Vectors,
         obj[v].size > InlineCapacity, NEW b \in Blocks, alloc[b] = 0,
         NEW s \in Seq(Values), Len(s) > InlineCapacity,
         cells' = [cells EXCEPT ![b] = s], NEW c, NEW e
  PROVE  /\ ActivateSplit(t, obj[v].size, Len(s), obj[v].heap, c, b, e)
              => Shows(t, Elements(v), s)
         /\ ActivateSplit(t, Len(s), obj[v].size, b, e, obj[v].heap, c)
              => Shows(t, s, Elements(v))
<1>1. /\ IsHeap(v) /\ obj[v].heap \in Blocks /\ alloc[obj[v].heap] # 0
      /\ obj[v].size \in Nat /\ Len(s) \in Nat
  BY HeapProperties, LenProperties
<1>2. cells'[b] = s /\ cells'[obj[v].heap] = cells[obj[v].heap]
  BY <1>1 DEF StorageInv, Types
<1>3. /\ SubSeq(cells'[obj[v].heap], 1, obj[v].size) = Elements(v)
      /\ SubSeq(cells'[b], 1, Len(s)) = s
  BY <1>1, <1>2, BlockElements, SubSeqWhole
<1>4. ~Fits(obj[v].size, Len(s)) /\ ~Fits(Len(s), obj[v].size)
  BY <1>1, SmallVectorAssumption DEF Fits
<1>5. ASSUME ActivateSplit(t, obj[v].size, Len(s), obj[v].heap, c, b, e)
      PROVE  Shows(t, Elements(v), s)
  <2>1. Shows(t, SubSeq(cells'[obj[v].heap], 1, obj[v].size),
                 SubSeq(cells'[b], 1, Len(s)))
    BY <1>1, <1>4, <1>5, SplitShows
  <2> QED BY <1>3, <2>1
<1>6. ASSUME ActivateSplit(t, Len(s), obj[v].size, b, e, obj[v].heap, c)
      PROVE  Shows(t, s, Elements(v))
  <2>1. Shows(t, SubSeq(cells'[b], 1, Len(s)),
                 SubSeq(cells'[obj[v].heap], 1, obj[v].size))
    BY <1>1, <1>4, <1>6, SplitShows
  <2> QED BY <1>3, <2>1
<1> QED BY <1>5, <1>6

\* One vector moved in and one copied: the elements of both, in their places.
LEMMA MixedAsGiven ==
  ASSUME StorageInv, NEW t \in Storages, NEW v \in Vectors, NEW w \in Vectors,
         NEW m \in {v, w}, NEW b \in Blocks, InitializeMixed(t, v, w, m, b)
  PROVE  Shows(t, Elements(v), Elements(w))
<1>1. CASE ~TakesOne(v, w)
  <2>1. InitializeRanges(t, b, Elements(v), Elements(w))
    BY <1>1 DEF InitializeMixed
  <2> QED BY <2>1, ElementsType, InitializeShows
<1>2. CASE TakesOne(v, w)
  <2> DEFINE o == Other(v, w, m)
             s == Elements(o)
  <2>1. /\ m \in Vectors /\ o \in Vectors
        /\ obj[m].size > InlineCapacity /\ obj[o].size > InlineCapacity
    BY <1>2 DEF TakesOne, Other
  <2>2. s \in Seq(Values) /\ Len(s) = obj[o].size BY <2>1, ElementsType
  <2>3. alloc[b] = 0 /\ cells' = [cells EXCEPT ![b] = s]
    BY <1>2 DEF InitializeMixed, Grants
  <2>4. /\ m = v => o = w /\ ActivateSplit(t, obj[m].size, Len(s),
                               obj[m].heap, obj[m].capacity, b, obj[o].capacity)
        /\ m = w => o = v /\ ActivateSplit(t, Len(s), obj[m].size,
                               b, obj[o].capacity, obj[m].heap, obj[m].capacity)
    BY <1>2, <2>2, SplitOfMixed DEF Other
  <2> HIDE DEF o, s
  <2>5. /\ m = v => Shows(t, Elements(m), s)
        /\ m = w => Shows(t, s, Elements(m))
    BY <2>1, <2>2, <2>3, <2>4, BesideShows
  <2>6. CASE m = v
    BY <2>4, <2>5, <2>6 DEF s
  <2>7. CASE m = w
    BY <2>4, <2>5, <2>7 DEF s
  <2> QED BY <2>6, <2>7
<1> QED BY <1>1, <1>2

\* A shape moved in: its elements, and their default strides.
LEMMA DefaultAsGiven ==
  ASSUME StorageInv, NEW t \in Storages, NEW v \in Vectors, NEW b \in Blocks,
         MoveDefaultStrides(t, v, b)
  PROVE  ShowsDefault(t, Elements(v))
<1> DEFINE s == Elements(v)
           r == DefaultStrides(s)
<1>1. s \in Seq(Values) /\ Len(s) = obj[v].size BY ElementsType
<1>2. r \in Seq(Values) /\ Len(r) = obj[v].size /\ RowMajor(s, r)
  BY <1>1, DefaultStridesType, DefaultStridesRowMajor
<1>3. obj[v].size \in Nat /\ InlineCapacity \in Nat
  BY HeapProperties, SmallVectorAssumption
<1>4. Shows(t, s, r)
  <2>1. CASE obj[v].size <= InlineCapacity
    <3>1. InitializeRanges(t, b, s, r)
      BY <1>3, <2>1 DEF MoveDefaultStrides, InitializeDefaultStrides
    <3> HIDE DEF s, r
    <3> QED BY <1>1, <1>2, <3>1, InitializeShows
  <2>2. CASE obj[v].size > InlineCapacity
    <3>1. /\ alloc[b] = 0 /\ cells' = [cells EXCEPT ![b] = r]
          /\ ActivateSplit(t, obj[v].size, obj[v].size,
               obj[v].heap, obj[v].capacity, b, obj[v].size)
      BY <1>3, <2>2 DEF MoveDefaultStrides, Grants
    <3> HIDE DEF r
    <3> QED BY <1>2, <2>2, <3>1, BesideShows
  <2> QED BY <1>3, <2>1, <2>2
<1> HIDE DEF s, r
<1>5. ShowsDefault(t, s) BY <1>2, <1>4 DEF Shows, ShowsDefault
<1> QED BY <1>5 DEF s

\* A range with default strides, written inline or into one block.
LEMMA RangeDefaultAsGiven ==
  ASSUME StorageInv, NEW t \in Storages, NEW b \in Blocks, NEW s \in Ranges,
         InitializeDefaultStrides(t, b, s)
  PROVE  ShowsDefault(t, s)
<1>1. s \in Seq(Values) BY SmallVectorAssumption
<1>2. DefaultStrides(s) \in Seq(Values) /\ RowMajor(s, DefaultStrides(s))
  BY <1>1, DefaultStridesType, DefaultStridesRowMajor
<1>3. InitializeRanges(t, b, s, DefaultStrides(s))
  BY DEF InitializeDefaultStrides
<1>4. Shows(t, s, DefaultStrides(s)) BY <1>1, <1>2, <1>3, InitializeShows
<1> QED BY <1>2, <1>4 DEF Shows, ShowsDefault

\* Another storage, copied or moved.
LEMMA StorageAsGiven ==
  ASSUME StorageInv, NEW t \in Storages, NEW u \in Storages, NEW b \in Blocks,
         CopyStorage(t, u, b) \/ MoveStorage(t, u)
  PROVE  Shows(t, Shape(u), Strides(u))
<1>1. CASE CopyStorage(t, u, b)
  <2>1. InitializeRanges(t, b, Shape(u), Strides(u)) BY <1>1 DEF CopyStorage
  <2> QED BY <2>1, ViewsType, InitializeShows
<1>2. CASE MoveStorage(t, u)
  BY <1>2, MoveStep
<1> QED BY <1>1, <1>2

\* A new storage shows the arguments of the constructor that built it,
\* whichever of its three layouts it gets: ranges and vectors as they are, the
\* shape as the shape and the strides as the strides, whether they were copied
\* or their blocks taken, another storage as it was, and default strides the
\* number of elements behind each dimension, in the width of a stride.
THEOREM StoragesShowWhatIsGiven == StorageSpec => BuiltAsGiven
<1>1. StorageInv /\ [StorageNext]_allVars =>
        [\A t \in built' \ built, b \in Blocks : AsGiven(t, b)]_allVars
  <2> SUFFICES ASSUME StorageInv, [StorageNext]_allVars,
                      NEW t \in built' \ built, NEW b \in Blocks
               PROVE  AsGiven(t, b)
    OBVIOUS
  <2>1. t \in Storages
    BY StorageNextInv DEF StorageInv, Types
  <2>2. ASSUME NEW s \in Ranges, NEW r \in Ranges, InitializeRanges(t, b, s, r)
        PROVE  Shows(t, s, r)
    <3>1. s \in Seq(Values) /\ r \in Seq(Values) BY SmallVectorAssumption
    <3> QED BY <2>1, <2>2, <3>1, InitializeShows
  <2>3. \A s \in Ranges : InitializeDefaultStrides(t, b, s) => ShowsDefault(t, s)
    BY <2>1, RangeDefaultAsGiven
  <2>4. \A u \in Storages :
          CopyStorage(t, u, b) \/ MoveStorage(t, u) => Shows(t, Shape(u), Strides(u))
    BY <2>1, StorageAsGiven
  <2>5. \A v \in Vectors : MoveDefaultStrides(t, v, b) => ShowsDefault(t, Elements(v))
    BY <2>1, DefaultAsGiven
  <2>6. ASSUME NEW v \in Vectors, NEW w \in Vectors,
               \/ InitializeOwned(t, v, w, b)
               \/ \E m \in {v, w} : InitializeMixed(t, v, w, m, b)
        PROVE  Shows(t, Elements(v), Elements(w))
    BY <2>1, <2>6, OwnedAsGiven, MixedAsGiven
  <2> QED BY <2>2, <2>3, <2>4, <2>5, <2>6 DEF AsGiven
<1> QED BY <1>1, StorageInvHolds, PTL DEF StorageSpec, BuiltAsGiven
=============================================================================
