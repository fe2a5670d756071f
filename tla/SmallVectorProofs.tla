------------------------ MODULE SmallVectorProofs ------------------------
(***************************************************************************)
(* Proofs about SmallVector for any vectors, allocations, blocks, element  *)
(* values and capacities.                                                  *)
(*                                                                         *)
(* MemberAlive and OneOwner are not inductive: that a block has one owner  *)
(* is kept because no object but its owner names it, and that a vector     *)
(* switched to inline storage finds room there because what its inline     *)
(* storage holds never exceeds the inline capacity.  Inv says both, and is *)
(* what the refinement of ValueVectors needs: a step that writes one       *)
(* object's place reaches no place of another.                             *)
(***************************************************************************)
EXTENDS SmallVector, SequenceTheorems, TLAPS

\* What owns memory: a pointer exactly when heap allocated, to a block of the
\* owner's capacity that no other object names; every block has an owner.
Ownership ==
  /\ \A o \in Objects : IsHeap(o) <=> obj[o].heap # None
  /\ \A o \in Objects : IsHeap(o) => alloc[obj[o].heap] = obj[o].capacity
  /\ \A o \in Objects, p \in Objects :
       IsHeap(o) /\ obj[o].heap = obj[p].heap => o = p
  /\ \A b \in Blocks : alloc[b] # 0 => \E o \in Objects : obj[o].heap = b

\* An object with storage, and what is constructed there.
Stores(o) == IsHeap(o) \/ o \in Vectors
FilledAt(o) ==
  /\ obj[o].size <= Len(cells[Data(o)])
  /\ Len(cells[Data(o)]) <= obj[o].capacity
Filled == \A o \in Objects : Stores(o) => FilledAt(o)

Vacant ==
  /\ \A v \in Vectors : Len(cells[v]) <= InlineCapacity
  /\ \A v \in Vectors \ live : ~IsHeap(v)
  /\ \A h \in Handles : ~IsHeap(h) => obj[h] = NoAllocation

Inv == TypeOK /\ Ownership /\ Filled /\ Vacant

-----------------------------------------------------------------------------
\* Lemmas on the operators.

\* Growing always makes room: from any capacity the allocator may grant.
LEMMA GrownMore ==
  ASSUME NEW c \in InlineCapacity .. MaxCapacity
  PROVE  Grown(c) \in Nat /\ Grown(c) > c
<1> DEFINE increment == IF c \div 2 = 0 THEN 1 ELSE c \div 2
<1>1. c \in Nat /\ MaxSize \in Nat /\ c < MaxSize
  BY SmallVectorAssumption
<1>2. c \div 2 \in Nat BY <1>1
<1>3. increment \in Nat /\ increment >= 1 BY <1>2
<1> HIDE DEF increment
<1>4. IF increment > MaxSize - c THEN MaxSize \in Nat /\ MaxSize > c
      ELSE c + increment \in Nat /\ c + increment > c
  BY <1>1, <1>3
<1>5. Grown(c) = IF increment > MaxSize - c THEN MaxSize ELSE c + increment
  BY DEF Grown, increment
<1> QED BY <1>4, <1>5

\* Overwriting a prefix keeps the rest: as long as the longer of the two, and
\* it starts with what was written.
LEMMA OverProperties ==
  ASSUME NEW s \in Seq(Values), NEW t \in Seq(Values)
  PROVE  /\ Over(s, t) \in Seq(Values)
         /\ Len(Over(s, t)) = IF Len(s) <= Len(t) THEN Len(t) ELSE Len(s)
         /\ \A i \in 1 .. Len(s) : Over(s, t)[i] = s[i]
<1> DEFINE rest == SubSeq(t, Len(s) + 1, Len(t))
<1>1. Len(s) \in Nat /\ Len(t) \in Nat BY LenProperties
<1>2. \A i \in Len(s) + 1 .. Len(t) : t[i] \in Values
  BY <1>1, ElementOfSeq
<1>3. /\ rest \in Seq(Values)
      /\ Len(rest) = IF Len(s) + 1 <= Len(t) THEN Len(t) - (Len(s) + 1) + 1 ELSE 0
  BY <1>1, <1>2, SubSeqProperties
<1> HIDE DEF rest
<1>4. /\ s \o rest \in Seq(Values)
      /\ Len(s \o rest) = Len(s) + Len(rest)
      /\ \A i \in 1 .. Len(s) + Len(rest) :
           (s \o rest)[i] = IF i <= Len(s) THEN s[i] ELSE rest[i - Len(s)]
  BY <1>3, ConcatProperties
<1>5. Over(s, t) = s \o rest BY DEF Over, rest
<1>6. Len(rest) \in Nat BY <1>3, LenProperties
<1>7. \A i \in 1 .. Len(s) : (s \o rest)[i] = s[i]
  BY <1>1, <1>4, <1>6
<1> QED BY <1>1, <1>3, <1>4, <1>5, <1>7

\* The elements of an object are a sequence as long as its size.
LEMMA ElementsProperties ==
  ASSUME Inv, NEW v \in Vectors
  PROVE  /\ Data(v) \in Vectors \cup Blocks /\ cells[Data(v)] \in Seq(Values)
         /\ Elements(v) \in Seq(Values) /\ Len(Elements(v)) = obj[v].size
         /\ \A i \in 1 .. obj[v].size : Elements(v)[i] = cells[Data(v)][i]
<1>1. Data(v) \in Vectors \cup Blocks
  BY DEF Inv, TypeOK, Ownership, Data, Objects
<1>2. cells[Data(v)] \in Seq(Values) BY <1>1 DEF Inv, TypeOK
<1>3. obj[v].size \in Nat /\ obj[v].size <= Len(cells[Data(v)])
  BY DEF Inv, TypeOK, Filled, FilledAt, Stores, Objects
<1>4. \A i \in 1 .. obj[v].size : cells[Data(v)][i] \in Values
  BY <1>2, <1>3, ElementOfSeq, LenProperties
<1>5. /\ Elements(v) \in Seq(Values)
      /\ Len(Elements(v)) = IF 1 <= obj[v].size THEN obj[v].size - 1 + 1 ELSE 0
      /\ \A i \in 1 .. obj[v].size - 1 + 1 :
           Elements(v)[i] = cells[Data(v)][1 + i - 1]
  BY <1>3, <1>4, SubSeqProperties DEF Elements
<1> QED BY <1>1, <1>2, <1>3, <1>5

LEMMA PaddedProperties ==
  ASSUME Inv, NEW v \in Vectors, NEW n \in Nat
  PROVE  Padded(v, n) \in Seq(Values) /\ Len(Padded(v, n)) = n
<1>1. \A i \in 1 .. n : i <= obj[v].size => Elements(v)[i] \in Values
  <2>1. obj[v].size \in Nat BY DEF Inv, TypeOK, Objects
  <2> QED BY <2>1, ElementsProperties, ElementOfSeq
<1>2. \A i \in 1 .. n :
        (IF i <= obj[v].size THEN Elements(v)[i] ELSE Zero) \in Values
  BY <1>1, SmallVectorAssumption
<1> QED BY <1>2 DEF Padded

-----------------------------------------------------------------------------
\* What the steps do to records, blocks and places.

\* Objects with storage have places of their own.
LEMMA PlacesDiffer ==
  ASSUME Inv, NEW o \in Objects, NEW p \in Objects, o # p, Stores(o), Stores(p)
  PROVE  Data(o) # Data(p)
BY SmallVectorAssumption
   DEF Inv, TypeOK, Ownership, Stores, Data, Objects

\* A block that is not allocated is nobody's place.
LEMMA FreeIsNoPlace ==
  ASSUME Inv, NEW o \in Objects, Stores(o), NEW b \in Blocks, alloc[b] = 0
  PROVE  Data(o) # b
<1>1. CASE IsHeap(o)
  <2>1. alloc[obj[o].heap] = obj[o].capacity BY <1>1 DEF Inv, Ownership
  <2>2. obj[o].capacity # 0
    BY <1>1, SmallVectorAssumption DEF IsHeap, Inv, TypeOK, Objects
  <2> QED BY <1>1, <2>1, <2>2 DEF Data
<1>2. CASE ~IsHeap(o)
  BY <1>2, SmallVectorAssumption DEF Stores, Data, Objects
<1> QED BY <1>1, <1>2

\* Moving into a new block of enough capacity, as every growth, copy and
\* construction on the heap does.
LEMMA ReplaceKeepsInv ==
  ASSUME Inv, NEW v \in Vectors, NEW b \in Blocks, NEW s \in Seq(Values),
         NEW c \in Nat, c > InlineCapacity, Len(s) <= c,
         ReplaceWithHeap(v, b, s, c),
         live' \subseteq Vectors, live \subseteq live', v \in live'
  PROVE  Inv'
<1>1. v \in Objects /\ Stores(v) BY DEF Objects, Stores
<1>2. /\ alloc[b] = 0 /\ c <= MaxCapacity
      /\ obj' = [obj EXCEPT ![v] = OnHeap(b, Len(s), c)]
      /\ alloc' = [Freed(v) EXCEPT ![b] = c]
      /\ cells' = [Vacated(v) EXCEPT ![b] = s]
  BY DEF ReplaceWithHeap, Grants
<1>3. Data(v) \in Vectors \cup Blocks /\ Data(v) # b
  BY <1>1, <1>2, ElementsProperties, FreeIsNoPlace
<1>4. Len(s) \in Nat /\ InlineCapacity \in Nat /\ MaxCapacity \in Nat
  BY LenProperties, SmallVectorAssumption
<1>5. /\ obj'[v] = OnHeap(b, Len(s), c)
      /\ \A p \in Objects : p # v => obj'[p] = obj[p]
  BY <1>1, <1>2 DEF Inv, TypeOK
<1>6. OnHeap(b, Len(s), c) \in
        [size : 0 .. MaxCapacity, capacity : {0} \cup InlineCapacity .. MaxCapacity,
         heap : Blocks \cup {None}]
  BY <1>2, <1>4 DEF OnHeap
<1>7. Freed(v) \in [Blocks -> 0 .. MaxCapacity]
  <2>1. alloc \in [Blocks -> 0 .. MaxCapacity] /\ 0 \in 0 .. MaxCapacity
    BY <1>4 DEF Inv, TypeOK
  <2> QED BY <2>1 DEF Freed
<1>8. /\ alloc' \in [Blocks -> 0 .. MaxCapacity] /\ alloc'[b] = c
      /\ \A x \in Blocks \ {b} :
           alloc'[x] = IF IsHeap(v) /\ x = obj[v].heap THEN 0 ELSE alloc[x]
  BY <1>2, <1>4, <1>7 DEF Freed, Inv, TypeOK
<1>9. /\ cells' \in [Vectors \cup Blocks -> Seq(Values)] /\ cells'[b] = s
      /\ \A x \in (Vectors \cup Blocks) \ {b, Data(v)} : cells'[x] = cells[x]
      /\ cells'[Data(v)] = << >>
  BY <1>2, <1>3, EmptySeq DEF Vacated, Inv, TypeOK
<1>10. TypeOK'
  <2>1. \A w \in Vectors : obj'[w].capacity # 0
    BY <1>4, <1>5 DEF Inv, TypeOK, OnHeap, Objects
  <2> QED BY <1>1, <1>2, <1>6, <1>8, <1>9, <2>1 DEF Inv, TypeOK
<1>11. /\ IsHeap(v)' /\ \A p \in Objects : p # v => (IsHeap(p)' <=> IsHeap(p))
  BY <1>5 DEF IsHeap, OnHeap
<1>12. obj'[v].heap = b /\ obj'[v].capacity = c /\ obj'[v].size = Len(s)
  BY <1>5 DEF OnHeap
<1>13. \A p \in Objects : p # v => obj[p].heap # b
  <2>1. \A p \in Objects : IsHeap(p) => Data(p) = obj[p].heap BY DEF Data
  <2> QED BY <1>2, <2>1, FreeIsNoPlace, SmallVectorAssumption
          DEF Inv, Ownership, Stores
<1>14. Ownership'
  <2>1. (\A o \in Objects : IsHeap(o) <=> obj[o].heap # None)'
    <3>1. b # None BY SmallVectorAssumption
    <3>2. \A o \in Objects : IsHeap(o) <=> obj[o].heap # None
      BY DEF Inv, Ownership
    <3> QED BY <1>5, <1>11, <1>12, <3>1, <3>2
  <2>2. (\A o \in Objects : IsHeap(o) => alloc[obj[o].heap] = obj[o].capacity)'
    <3> SUFFICES ASSUME NEW o \in Objects, IsHeap(o)'
                 PROVE  alloc'[obj'[o].heap] = obj'[o].capacity
      OBVIOUS
    <3>1. CASE o = v BY <1>8, <1>12, <3>1
    <3>2. CASE o # v
      <4>1. IsHeap(o) /\ obj'[o] = obj[o] BY <1>5, <1>11, <3>2
      <4>2. obj[o].heap \in Blocks \ {b} /\ alloc[obj[o].heap] = obj[o].capacity
        BY <1>13, <3>2, <4>1 DEF Inv, TypeOK, Ownership
      <4>3. ~(IsHeap(v) /\ obj[o].heap = obj[v].heap)
        BY <1>1, <3>2, <4>1 DEF Inv, Ownership
      <4> QED BY <1>8, <4>1, <4>2, <4>3
    <3> QED BY <3>1, <3>2
  <2>3. (\A o \in Objects, p \in Objects :
           IsHeap(o) /\ obj[o].heap = obj[p].heap => o = p)'
    BY <1>5, <1>11, <1>12, <1>13 DEF Inv, Ownership
  <2>4. (\A x \in Blocks : alloc[x] # 0 => \E o \in Objects : obj[o].heap = x)'
    <3> SUFFICES ASSUME NEW x \in Blocks, alloc'[x] # 0
                 PROVE  \E o \in Objects : obj'[o].heap = x
      OBVIOUS
    <3>1. CASE x = b BY <1>1, <1>12, <3>1
    <3>2. CASE x # b
      <4>1. alloc[x] # 0 /\ ~(IsHeap(v) /\ x = obj[v].heap) BY <1>8, <3>2
      <4>2. PICK o \in Objects : obj[o].heap = x BY <4>1 DEF Inv, Ownership
      <4>3. o # v
        BY <1>1, <4>1, <4>2, SmallVectorAssumption DEF Inv, Ownership
      <4> QED BY <1>5, <4>2, <4>3
    <3> QED BY <3>1, <3>2
  <2> QED BY <2>1, <2>2, <2>3, <2>4 DEF Ownership
<1>15. Filled'
  <2> SUFFICES ASSUME NEW o \in Objects, Stores(o)' PROVE FilledAt(o)'
    BY DEF Filled
  <2>1. CASE o = v
    BY <1>9, <1>11, <1>12, <2>1, <1>4 DEF FilledAt, Data
  <2>2. CASE o # v
    <3>1. Stores(o) /\ Data(o)' = Data(o)
      BY <1>5, <1>11, <2>2 DEF Stores, Data
    <3>2. Data(o) # b /\ Data(o) # Data(v) BY <1>1, <1>2, <2>2, <3>1, FreeIsNoPlace, PlacesDiffer
    <3>3. Data(o) \in Vectors \cup Blocks
      BY <3>1 DEF Stores, Data, Inv, TypeOK, Ownership
    <3>4. cells'[Data(o)] = cells[Data(o)] BY <1>9, <3>2, <3>3
    <3> QED BY <1>5, <2>2, <3>1, <3>4 DEF FilledAt, Inv, Filled
  <2> QED BY <2>1, <2>2
<1>16. Vacant'
  <2>1. \A w \in Vectors : Len(cells'[w]) <= InlineCapacity
    <3>1. \A w \in Vectors : w # b BY SmallVectorAssumption
    <3> QED BY <1>4, <1>9, <3>1, EmptySeq DEF Inv, Vacant
  <2>2. \A w \in Vectors \ live' : ~IsHeap(w)'
    BY <1>11 DEF Inv, Vacant, Objects
  <2>3. \A h \in Handles : ~IsHeap(h)' => obj'[h] = NoAllocation
    BY <1>5, <1>11, SmallVectorAssumption DEF Inv, Vacant, Objects
  <2> QED BY <2>1, <2>2, <2>3 DEF Vacant
<1> QED BY <1>10, <1>14, <1>15, <1>16 DEF Inv

\* Giving memory up for a record r without any, r being what an empty object
\* of that kind is.
Empty(o) == IF o \in Vectors THEN Inline(0) ELSE NoAllocation

\* The blocks when o gives up its own, as vectors and allocations do it.
LEMMA FreedProperties ==
  ASSUME Inv, NEW o \in Objects
  PROVE  /\ Freed(o) \in [Blocks -> 0 .. MaxCapacity]
         /\ \A x \in Blocks :
              Freed(o)[x] = IF IsHeap(o) /\ x = obj[o].heap THEN 0 ELSE alloc[x]
<1>1. alloc \in [Blocks -> 0 .. MaxCapacity] /\ 0 \in 0 .. MaxCapacity
  BY SmallVectorAssumption DEF Inv, TypeOK
<1> QED BY <1>1 DEF Freed

\* Taking over what p owns, or leaving p out of it, with p empty afterwards:
\* blocks keep one owner.
LEMMA TakeKeepsOwnership ==
  ASSUME Inv, NEW o \in Objects, NEW p \in Objects, o # p, IsHeap(p),
         obj' = [obj EXCEPT ![o] = obj[p], ![p] = Empty(p)],
         alloc' = Freed(o)
  PROVE  Ownership'
<1>1. /\ obj'[o] = obj[p] /\ obj'[p] = Empty(p)
      /\ \A q \in Objects : q # o /\ q # p => obj'[q] = obj[q]
  BY DEF Inv, TypeOK
<1>2. Empty(p).heap = None /\ ~(Empty(p).capacity > InlineCapacity)
  BY SmallVectorAssumption DEF Empty, Inline, NoAllocation
<1>3. \A x \in Blocks :
        alloc'[x] = IF IsHeap(o) /\ x = obj[o].heap THEN 0 ELSE alloc[x]
  BY FreedProperties
<1>4. /\ IsHeap(o)' /\ ~IsHeap(p)'
      /\ \A q \in Objects : q # o /\ q # p => (IsHeap(q)' <=> IsHeap(q))
  BY <1>1, <1>2 DEF IsHeap
<1>5. (\A q \in Objects : IsHeap(q) <=> obj[q].heap # None)'
  BY <1>1, <1>2, <1>4 DEF Inv, Ownership
<1>6. (\A q \in Objects : IsHeap(q) => alloc[obj[q].heap] = obj[q].capacity)'
  <2> SUFFICES ASSUME NEW q \in Objects, IsHeap(q)'
               PROVE  alloc'[obj'[q].heap] = obj'[q].capacity
    OBVIOUS
  <2>1. PICK r \in Objects : r # o /\ IsHeap(r) /\ obj'[q] = obj[r]
    BY <1>1, <1>4
  <2>2. obj[r].heap \in Blocks /\ alloc[obj[r].heap] = obj[r].capacity
    BY <2>1 DEF Inv, TypeOK, Ownership
  <2>3. ~(IsHeap(o) /\ obj[r].heap = obj[o].heap)
    BY <2>1 DEF Inv, Ownership
  <2> QED BY <1>3, <2>1, <2>2, <2>3
<1>7. (\A q \in Objects, r \in Objects :
         IsHeap(q) /\ obj[q].heap = obj[r].heap => q = r)'
  <2> SUFFICES ASSUME NEW q \in Objects, NEW r \in Objects, IsHeap(q)',
                      obj'[q].heap = obj'[r].heap
               PROVE  q = r
    OBVIOUS
  <2>1. IsHeap(r)' BY <1>5
  <2>2. q # p /\ r # p BY <1>4, <2>1
  <2>3. \A x \in Objects, y \in Objects :
          IsHeap(x) /\ obj[x].heap = obj[y].heap => x = y
    BY DEF Inv, Ownership
  <2>4. CASE q = o /\ r # o
    <3>1. obj'[q] = obj[p] /\ obj'[r] = obj[r] BY <1>1, <2>2, <2>4
    <3> QED BY <2>2, <2>3, <3>1
  <2>5. CASE q # o /\ r = o
    <3>1. obj'[q] = obj[q] /\ obj'[r] = obj[p] BY <1>1, <2>2, <2>5
    <3> QED BY <2>2, <2>3, <3>1
  <2>6. CASE q # o /\ r # o
    <3>1. obj'[q] = obj[q] /\ obj'[r] = obj[r] /\ IsHeap(q)
      BY <1>1, <1>4, <2>2, <2>6
    <3> QED BY <2>3, <3>1
  <2> QED BY <2>4, <2>5, <2>6
<1>8. (\A x \in Blocks : alloc[x] # 0 => \E q \in Objects : obj[q].heap = x)'
  <2> SUFFICES ASSUME NEW x \in Blocks, alloc'[x] # 0
               PROVE  \E q \in Objects : obj'[q].heap = x
    OBVIOUS
  <2>1. alloc[x] # 0 /\ ~(IsHeap(o) /\ x = obj[o].heap) BY <1>3
  <2>2. PICK q \in Objects : obj[q].heap = x BY <2>1 DEF Inv, Ownership
  <2>3. q # o BY <2>1, <2>2, SmallVectorAssumption DEF Inv, Ownership
  <2> QED BY <1>1, <2>2, <2>3
<1> QED BY <1>5, <1>6, <1>7, <1>8 DEF Ownership

\* An object that ends up with nothing: its block, if any, is free, and the
\* other records keep heap and capacity.
LEMMA DropKeepsOwnership ==
  ASSUME Inv, NEW o \in Objects, alloc' = Freed(o),
         obj'[o].heap = None, ~IsHeap(o)',
         \A q \in Objects \ {o} :
           obj'[q].heap = obj[q].heap /\ obj'[q].capacity = obj[q].capacity
  PROVE  Ownership'
<1>1. \A x \in Blocks :
        alloc'[x] = IF IsHeap(o) /\ x = obj[o].heap THEN 0 ELSE alloc[x]
  BY FreedProperties
<1>2. \A q \in Objects \ {o} : IsHeap(q)' <=> IsHeap(q) BY DEF IsHeap
<1>3. (\A q \in Objects : IsHeap(q) <=> obj[q].heap # None)'
  BY <1>2 DEF Inv, Ownership
<1>4. (\A q \in Objects : IsHeap(q) => alloc[obj[q].heap] = obj[q].capacity)'
  <2> SUFFICES ASSUME NEW q \in Objects, IsHeap(q)'
               PROVE  alloc'[obj'[q].heap] = obj'[q].capacity
    OBVIOUS
  <2>1. q # o /\ IsHeap(q) BY <1>2
  <2>2. obj[q].heap \in Blocks /\ alloc[obj[q].heap] = obj[q].capacity
    BY <2>1 DEF Inv, TypeOK, Ownership
  <2>3. ~(IsHeap(o) /\ obj[q].heap = obj[o].heap)
    BY <2>1 DEF Inv, Ownership
  <2> QED BY <1>1, <2>1, <2>2, <2>3
<1>5. (\A q \in Objects, r \in Objects :
         IsHeap(q) /\ obj[q].heap = obj[r].heap => q = r)'
  <2> SUFFICES ASSUME NEW q \in Objects, NEW r \in Objects, IsHeap(q)',
                      obj'[q].heap = obj'[r].heap
               PROVE  q = r
    OBVIOUS
  <2>1. IsHeap(r)' BY <1>3
  <2>2. q # o /\ r # o /\ IsHeap(q) BY <1>2, <2>1
  <2> QED BY <2>2 DEF Inv, Ownership
<1>6. (\A x \in Blocks : alloc[x] # 0 => \E q \in Objects : obj[q].heap = x)'
  <2> SUFFICES ASSUME NEW x \in Blocks, alloc'[x] # 0
               PROVE  \E q \in Objects : obj'[q].heap = x
    OBVIOUS
  <2>1. alloc[x] # 0 /\ ~(IsHeap(o) /\ x = obj[o].heap) BY <1>1
  <2>2. PICK q \in Objects : obj[q].heap = x BY <2>1 DEF Inv, Ownership
  <2>3. q # o BY <2>1, <2>2, SmallVectorAssumption DEF Inv, Ownership
  <2> QED BY <2>2, <2>3
<1> QED BY <1>3, <1>4, <1>5, <1>6 DEF Ownership

-----------------------------------------------------------------------------
\* The steps, by what they do to storage.

Records == [size : 0 .. MaxCapacity, capacity : {0} \cup InlineCapacity .. MaxCapacity,
            heap : Blocks \cup {None}]

\* The place of an object with storage is a place of the model.
LEMMA DataType ==
  ASSUME Inv, NEW o \in Objects, Stores(o)
  PROVE  Data(o) \in Vectors \cup Blocks
BY DEF Inv, TypeOK, Ownership, Stores, Data

\* Vector v ends up inline with the first n elements of s; w, if it is another
\* vector, is inline and cleared.
LEMMA InlineKeepsInv ==
  ASSUME Inv, NEW v \in Vectors, NEW w \in Vectors, w = v \/ ~IsHeap(w),
         NEW s \in Seq(Values), NEW n \in Nat,
         n <= Len(s), Len(s) <= InlineCapacity,
         obj' = [o \in Objects |-> IF o = v THEN Inline(n)
                                   ELSE IF o = w THEN Inline(0) ELSE obj[o]],
         alloc' = Freed(v),
         cells' = [Vacated(v) EXCEPT ![v] = s],
         live' \subseteq Vectors, \A x \in Vectors \ live' : x = v \/ x \notin live
  PROVE  Inv'
<1>1. v \in Objects /\ w \in Objects /\ Stores(v) BY DEF Objects, Stores
<1>2. InlineCapacity \in Nat \ {0} /\ MaxCapacity \in Nat /\ Len(s) \in Nat
      /\ InlineCapacity <= MaxCapacity
  BY SmallVectorAssumption, LenProperties
<1>3. /\ obj'[v] = Inline(n)
      /\ \A o \in Objects : o # v =>
           obj'[o] = IF o = w THEN Inline(0) ELSE obj[o]
  BY <1>1
<1>4. /\ Inline(0) \in Records /\ Inline(n) \in Records
      /\ Inline(0).heap = None /\ Inline(n).heap = None
      /\ Inline(0).capacity = InlineCapacity /\ Inline(n).capacity = InlineCapacity
      /\ Inline(0).size = 0 /\ Inline(n).size = n
  BY <1>2 DEF Inline, Records
<1>5. ~IsHeap(v)' /\ \A o \in Objects : o # v => (IsHeap(o)' <=> IsHeap(o))
  BY <1>2, <1>3, <1>4 DEF IsHeap
<1>6. w # v => obj[w].heap = None /\ obj[w].capacity = InlineCapacity
  BY <1>1, <1>2 DEF Inv, TypeOK, Ownership, IsHeap, Objects
<1>7. \A q \in Objects \ {v} :
        obj'[q].heap = obj[q].heap /\ obj'[q].capacity = obj[q].capacity
  BY <1>3, <1>4, <1>6
<1>8. Ownership' BY <1>1, <1>3, <1>4, <1>5, <1>7, DropKeepsOwnership
<1>9. Data(v) \in Vectors \cup Blocks BY <1>1, DataType
<1>10. /\ cells' \in [Vectors \cup Blocks -> Seq(Values)] /\ cells'[v] = s
       /\ \A x \in (Vectors \cup Blocks) \ {v, Data(v)} : cells'[x] = cells[x]
       /\ v # Data(v) => cells'[Data(v)] = << >>
  BY <1>9, EmptySeq DEF Vacated, Inv, TypeOK
<1>11. TypeOK'
  <2>1. obj' \in [Objects -> Records]
    BY <1>4 DEF Inv, TypeOK, Records
  <2>2. \A x \in Vectors : obj'[x].capacity # 0
    BY <1>2, <1>3, <1>4 DEF Inv, TypeOK, Objects
  <2> QED BY <1>1, <1>10, <2>1, <2>2, FreedProperties DEF TypeOK, Records
<1>12. Filled'
  <2> SUFFICES ASSUME NEW o \in Objects, Stores(o)' PROVE FilledAt(o)'
    BY DEF Filled
  <2>1. CASE o = v BY <1>3, <1>4, <1>5, <1>10, <2>1 DEF FilledAt, Data
  <2>2. CASE o # v
    <3>1. Stores(o) /\ Data(o)' = Data(o)
      BY <1>5, <1>7, <2>2 DEF Stores, Data
    <3>2. Data(o) \in Vectors \cup Blocks /\ Data(o) # Data(v)
      BY <1>1, <2>2, <3>1, DataType, PlacesDiffer
    <3>3. Data(o) # v
      BY <2>2, SmallVectorAssumption
         DEF Data, Inv, TypeOK, Ownership, Objects
    <3>4. cells'[Data(o)] = cells[Data(o)] BY <1>10, <3>2, <3>3
    <3>5. FilledAt(o) BY <3>1 DEF Inv, Filled
    <3>6. Len(cells[Data(o)]) \in Nat BY <3>2, LenProperties DEF Inv, TypeOK
    <3>7. obj'[o].size <= Len(cells[Data(o)])
      BY <1>3, <1>4, <2>2, <3>5, <3>6 DEF FilledAt
    <3> QED BY <1>7, <2>2, <3>1, <3>4, <3>5, <3>7 DEF FilledAt
  <2> QED BY <2>1, <2>2
<1>13. Vacant'
  <2>1. \A x \in Vectors : Len(cells'[x]) <= InlineCapacity
    BY <1>2, <1>10, EmptySeq DEF Inv, Vacant
  <2>2. \A x \in Vectors \ live' : ~IsHeap(x)'
    BY <1>5 DEF Inv, Vacant, Objects
  <2>3. \A h \in Handles : ~IsHeap(h)' => obj'[h] = NoAllocation
    <3>1. \A h \in Handles : h \in Objects /\ h # v /\ h # w
      BY SmallVectorAssumption DEF Objects
    <3> QED BY <1>3, <1>5, <3>1 DEF Inv, Vacant
  <2> QED BY <2>1, <2>2, <2>3 DEF Vacant
<1> QED BY <1>8, <1>11, <1>12, <1>13 DEF Inv

\* Object o takes the block of p, and gives up what it had.
LEMMA TakeKeepsInv ==
  ASSUME Inv, NEW o \in Objects, NEW p \in Objects, o # p, IsHeap(p),
         obj' = [obj EXCEPT ![o] = obj[p], ![p] = Empty(p)],
         alloc' = Freed(o),
         cells' = IF Stores(o) THEN Vacated(o) ELSE cells,
         live' \subseteq Vectors, live \subseteq live', o \in Vectors => o \in live'
  PROVE  Inv'
<1>1. InlineCapacity \in Nat \ {0} /\ MaxCapacity \in Nat
      /\ InlineCapacity <= MaxCapacity
  BY SmallVectorAssumption
<1>2. /\ obj'[o] = obj[p] /\ obj'[p] = Empty(p)
      /\ \A q \in Objects : q # o /\ q # p => obj'[q] = obj[q]
  BY DEF Inv, TypeOK
<1>3. /\ Empty(p) \in Records /\ Empty(p).heap = None /\ Empty(p).size = 0
      /\ p \in Vectors => Empty(p).capacity = InlineCapacity
      /\ ~(Empty(p).capacity > InlineCapacity)
  BY <1>1 DEF Empty, Inline, NoAllocation, Records
<1>4. /\ IsHeap(o)' /\ ~IsHeap(p)'
      /\ \A q \in Objects : q # o /\ q # p => (IsHeap(q)' <=> IsHeap(q))
  BY <1>2, <1>3 DEF IsHeap
<1>5. Ownership' BY TakeKeepsOwnership
<1>6. Stores(o) => Data(o) \in Vectors \cup Blocks BY DataType
<1>7. /\ cells' \in [Vectors \cup Blocks -> Seq(Values)]
      /\ \A x \in Vectors \cup Blocks :
           cells'[x] = IF Stores(o) /\ x = Data(o) THEN << >> ELSE cells[x]
  BY <1>6, EmptySeq DEF Vacated, Inv, TypeOK
<1>8. TypeOK'
  <2>1. obj' \in [Objects -> Records] BY <1>3 DEF Inv, TypeOK, Records
  <2>2. \A x \in Vectors : obj'[x].capacity # 0
    <3>1. obj[p].capacity # 0 BY <1>1 DEF IsHeap, Inv, TypeOK
    <3> QED BY <1>1, <1>2, <1>3, <3>1 DEF Inv, TypeOK, Objects
  <2> QED BY <1>7, <2>1, <2>2, FreedProperties DEF TypeOK, Records
<1>9. \A q \in Objects : q # o /\ Stores(q) =>
        Data(q) \in Vectors \cup Blocks /\ cells'[Data(q)] = cells[Data(q)]
  BY <1>7, DataType, PlacesDiffer
<1>10. \A x \in Vectors : Len(cells'[x]) <= InlineCapacity /\ Len(cells'[x]) \in Nat
  BY <1>1, <1>7, EmptySeq, LenProperties DEF Inv, Vacant, TypeOK
<1>11. Filled'
  <2> SUFFICES ASSUME NEW q \in Objects, Stores(q)' PROVE FilledAt(q)'
    BY DEF Filled
  <2>1. CASE q = o
    <3>1. Stores(p) /\ FilledAt(p) BY DEF Stores, Inv, Filled
    <3>2. Data(o)' = Data(p) BY <1>2, <1>4 DEF Data
    <3> QED BY <1>2, <1>9, <2>1, <3>1, <3>2 DEF FilledAt
  <2>2. CASE q = p
    <3>1. p \in Vectors /\ Data(p)' = p BY <1>4, <2>2 DEF Stores, Data
    <3> QED BY <1>2, <1>3, <1>10, <2>2, <3>1 DEF FilledAt
  <2>3. CASE q # o /\ q # p
    <3>1. obj'[q] = obj[q] /\ (IsHeap(q)' <=> IsHeap(q)) BY <1>2, <1>4, <2>3
    <3>2. Stores(q) /\ Data(q)' = Data(q) BY <3>1 DEF Stores, Data
    <3>3. FilledAt(q) BY <3>2 DEF Inv, Filled
    <3> QED BY <1>9, <2>3, <3>1, <3>2, <3>3 DEF FilledAt
  <2> QED BY <2>1, <2>2, <2>3
<1>12. Vacant'
  <2>1. \A x \in Vectors \ live' : ~IsHeap(x)'
    BY <1>4 DEF Inv, Vacant, Objects
  <2>2. \A h \in Handles : ~IsHeap(h)' => obj'[h] = NoAllocation
    <3>1. \A h \in Handles : h \in Objects /\ h \notin Vectors
      BY SmallVectorAssumption DEF Objects
    <3> QED BY <1>2, <1>4, <3>1 DEF Inv, Vacant, Empty
  <2> QED BY <1>10, <2>1, <2>2 DEF Vacant
<1> QED BY <1>5, <1>8, <1>11, <1>12 DEF Inv

\* Only the size of v changes, and what is behind the old size.
LEMMA SizeKeepsInv ==
  ASSUME Inv, NEW v \in Vectors, NEW n \in Nat, NEW t \in Seq(Values),
         n <= Len(t), Len(t) <= obj[v].capacity,
         SetSize(v, n), cells' = [cells EXCEPT ![Data(v)] = t]
  PROVE  Inv'
<1>1. v \in Objects /\ Stores(v) /\ Data(v) \in Vectors \cup Blocks
  BY DataType DEF Objects, Stores
<1>2. InlineCapacity \in Nat \ {0} /\ MaxCapacity \in Nat /\ Len(t) \in Nat
      /\ InlineCapacity <= MaxCapacity
  BY SmallVectorAssumption, LenProperties
<1>3. obj[v] \in Records BY <1>1 DEF Inv, TypeOK, Records
<1>4. n \in 0 .. MaxCapacity BY <1>2, <1>3 DEF Records
<1>5. /\ obj' \in [Objects -> Records]
      /\ obj'[v].size = n
      /\ \A o \in Objects : o # v => obj'[o] = obj[o]
      /\ \A o \in Objects :
           obj'[o].heap = obj[o].heap /\ obj'[o].capacity = obj[o].capacity
  BY <1>1, <1>3, <1>4 DEF SetSize, Inv, TypeOK, Records
<1>6. alloc' = alloc /\ live' = live /\ v \in live BY DEF SetSize
<1>7. /\ cells' \in [Vectors \cup Blocks -> Seq(Values)] /\ cells'[Data(v)] = t
      /\ \A x \in Vectors \cup Blocks : x # Data(v) => cells'[x] = cells[x]
  BY <1>1 DEF Inv, TypeOK
<1>8. \A o \in Objects : /\ IsHeap(o)' <=> IsHeap(o)
                         /\ Stores(o)' <=> Stores(o)
                         /\ Data(o)' = Data(o)
  BY <1>5 DEF IsHeap, Stores, Data
<1>9. TypeOK' BY <1>5, <1>6, <1>7 DEF Inv, TypeOK, Records, Objects
<1>10. Ownership' BY <1>5, <1>6, <1>8 DEF Inv, Ownership
<1>11. Filled'
  <2> SUFFICES ASSUME NEW o \in Objects, Stores(o) PROVE FilledAt(o)'
    BY <1>8 DEF Filled
  <2>1. CASE o = v
    <3>1. Data(o)' = Data(v) BY <1>8, <2>1
    <3> QED BY <1>5, <1>7, <2>1, <3>1 DEF FilledAt
  <2>2. CASE o # v
    <3>1. Data(o) \in Vectors \cup Blocks /\ Data(o) # Data(v)
      BY <1>1, <2>2, DataType, PlacesDiffer
    <3>2. FilledAt(o) BY DEF Inv, Filled
    <3> QED BY <1>5, <1>7, <1>8, <2>2, <3>1, <3>2 DEF FilledAt
  <2> QED BY <2>1, <2>2
<1>12. Vacant'
  <2>1. \A w \in Vectors : Len(cells'[w]) <= InlineCapacity
    <3>1. CASE IsHeap(v)
      BY <1>7, <3>1, SmallVectorAssumption
         DEF Data, Inv, TypeOK, Ownership, Vacant, Objects
    <3>2. CASE ~IsHeap(v)
      <4>1. obj[v].capacity <= InlineCapacity
        BY <1>1, <1>2, <1>3, <3>2 DEF IsHeap, Records
      <4>2. Len(t) <= InlineCapacity
        BY <1>2, <1>3, <4>1 DEF Records
      <4> QED BY <1>7, <4>2 DEF Inv, Vacant
    <3> QED BY <3>1, <3>2
  <2>2. \A w \in Vectors \ live' : ~IsHeap(w)'
    BY <1>6, <1>8 DEF Inv, Vacant, Objects
  <2>3. \A h \in Handles : ~IsHeap(h)' => obj'[h] = NoAllocation
    <3>1. \A h \in Handles : h \in Objects /\ h # v
      BY SmallVectorAssumption DEF Objects
    <3> QED BY <1>5, <1>8, <3>1 DEF Inv, Vacant
  <2> QED BY <2>1, <2>2, <2>3 DEF Vacant
<1> QED BY <1>9, <1>10, <1>11, <1>12 DEF Inv

\* A HeapAllocation that ends up empty, all other objects as they were.
LEMMA ResetKeepsInv ==
  ASSUME Inv, NEW h \in Handles, Reset(h), UNCHANGED live,
         obj' = [obj EXCEPT ![h] = NoAllocation]
  PROVE  Inv'
<1>1. h \in Objects /\ h \notin Vectors
  BY SmallVectorAssumption DEF Objects
<1>2. InlineCapacity \in Nat \ {0} /\ MaxCapacity \in Nat
      /\ InlineCapacity <= MaxCapacity
  BY SmallVectorAssumption
<1>3. /\ NoAllocation \in Records /\ NoAllocation.heap = None
      /\ ~(NoAllocation.capacity > InlineCapacity)
  BY <1>2 DEF NoAllocation, Records
<1>4. obj'[h] = NoAllocation /\ \A o \in Objects : o # h => obj'[o] = obj[o]
  BY <1>1 DEF Inv, TypeOK
<1>5. IsHeap(h) <=> obj[h].heap # None BY <1>1 DEF Inv, Ownership
<1>6. ~IsHeap(h)' /\ \A o \in Objects : o # h => (IsHeap(o)' <=> IsHeap(o))
  BY <1>3, <1>4 DEF IsHeap
<1>7. alloc' = Freed(h) BY <1>5 DEF Reset, Freed
<1>8. Ownership' BY <1>1, <1>3, <1>4, <1>6, <1>7, DropKeepsOwnership
<1>9. /\ cells' \in [Vectors \cup Blocks -> Seq(Values)]
      /\ \A x \in Vectors \cup Blocks :
           cells'[x] = IF IsHeap(h) /\ x = Data(h) THEN << >> ELSE cells[x]
  <2>1. CASE IsHeap(h)
    BY <1>5, <2>1, EmptySeq DEF Reset, Data, Inv, TypeOK
  <2>2. CASE ~IsHeap(h)
    BY <1>5, <2>2 DEF Reset, Inv, TypeOK
  <2> QED BY <2>1, <2>2
<1>10. TypeOK'
  <2>1. obj' \in [Objects -> Records] BY <1>3 DEF Inv, TypeOK, Records
  <2>2. \A x \in Vectors : obj'[x].capacity # 0
    BY <1>1, <1>4 DEF Inv, TypeOK, Objects
  <2> QED BY <1>1, <1>7, <1>9, <2>1, <2>2, FreedProperties
          DEF Inv, TypeOK, Records
<1>11. Filled'
  <2> SUFFICES ASSUME NEW o \in Objects, Stores(o)' PROVE FilledAt(o)'
    BY DEF Filled
  <2>1. o # h BY <1>1, <1>6 DEF Stores
  <2>2. Stores(o) /\ Data(o)' = Data(o) BY <1>4, <1>6, <2>1 DEF Stores, Data
  <2>3. Data(o) \in Vectors \cup Blocks BY <2>2, DataType
  <2>4. IsHeap(h) => Data(o) # Data(h)
    BY <1>1, <2>1, <2>2, PlacesDiffer DEF Stores
  <2>5. cells'[Data(o)] = cells[Data(o)] BY <1>9, <2>3, <2>4
  <2>6. FilledAt(o) BY <2>2 DEF Inv, Filled
  <2> QED BY <1>4, <2>1, <2>2, <2>5, <2>6 DEF FilledAt
<1>12. Vacant'
  <2>1. \A w \in Vectors : Len(cells'[w]) <= InlineCapacity
    BY <1>2, <1>9, EmptySeq DEF Inv, Vacant
  <2>2. \A w \in Vectors \ live' : ~IsHeap(w)'
    BY <1>1, <1>6 DEF Inv, Vacant, Objects
  <2>3. \A g \in Handles : ~IsHeap(g)' => obj'[g] = NoAllocation
    BY <1>4, <1>6 DEF Inv, Vacant, Objects
  <2> QED BY <2>1, <2>2, <2>3 DEF Vacant
<1> QED BY <1>8, <1>10, <1>11, <1>12 DEF Inv

-----------------------------------------------------------------------------
\* AssignInline of contents that fit, as the assignments use it.
LEMMA AssignInlineKeepsInv ==
  ASSUME Inv, NEW v \in live, NEW w \in Vectors, w = v \/ ~IsHeap(w),
         NEW s \in Seq(Values), Len(s) <= InlineCapacity, AssignInline(v, s),
         obj' = [o \in Objects |-> IF o = v THEN Inline(Len(s))
                                   ELSE IF o = w THEN Inline(0) ELSE obj[o]],
         live' = live
  PROVE  Inv'
<1>1. v \in Vectors /\ live \subseteq Vectors BY DEF Inv, TypeOK
<1>2. Len(s) \in Nat /\ InlineCapacity \in Nat
  BY LenProperties, SmallVectorAssumption
<1>3. alloc' = Freed(v) BY DEF AssignInline
<1>4. CASE IsHeap(v)
  <2>1. cells' = [Vacated(v) EXCEPT ![v] = s] BY <1>4 DEF AssignInline
  <2>2. Len(s) <= Len(s) BY <1>2
  <2>3. \A x \in Vectors \ live' : x = v \/ x \notin live OBVIOUS
  <2> QED BY <1>1, <1>2, <1>3, <2>1, <2>2, <2>3, InlineKeepsInv
<1>5. CASE ~IsHeap(v)
  <2>1. cells[v] \in Seq(Values) /\ Len(cells[v]) <= InlineCapacity
    BY <1>1 DEF Inv, TypeOK, Vacant
  <2>2. /\ Over(s, cells[v]) \in Seq(Values) /\ Len(s) <= Len(Over(s, cells[v]))
        /\ Len(Over(s, cells[v])) <= InlineCapacity
    BY <1>2, <2>1, OverProperties, LenProperties
  <2>3. cells' = [Vacated(v) EXCEPT ![v] = Over(s, cells[v])]
    BY <1>5 DEF AssignInline, Vacated, Data
  <2> QED BY <1>1, <1>2, <1>3, <2>2, <2>3, InlineKeepsInv
<1> QED BY <1>4, <1>5

\* What a vector is to those that copy it.
LEMMA SourceProperties ==
  ASSUME Inv, NEW w \in Vectors
  PROVE  /\ obj[w].size \in Nat /\ obj[w].capacity \in InlineCapacity .. MaxCapacity
         /\ Elements(w) \in Seq(Values) /\ Len(Elements(w)) = obj[w].size
         /\ obj[w].size <= obj[w].capacity
         /\ IsHeap(w) => obj[w].capacity > InlineCapacity
         /\ ~IsHeap(w) => obj[w] = Inline(obj[w].size)
<1>1. obj[w] \in Records /\ obj[w].capacity # 0
  BY DEF Inv, TypeOK, Objects, Records
<1>2. InlineCapacity \in Nat /\ MaxCapacity \in Nat BY SmallVectorAssumption
<1>3. obj[w].size \in Nat /\ obj[w].capacity \in InlineCapacity .. MaxCapacity
  BY <1>1, <1>2 DEF Records
<1>4. FilledAt(w) BY DEF Inv, Filled, Stores, Objects
<1>5. Len(cells[Data(w)]) \in Nat BY ElementsProperties, LenProperties
<1>6. obj[w].size <= obj[w].capacity BY <1>2, <1>3, <1>4, <1>5 DEF FilledAt
<1>7. ~IsHeap(w) => obj[w] = Inline(obj[w].size)
  <2>1. ~IsHeap(w) => obj[w].capacity = InlineCapacity /\ obj[w].heap = None
    BY <1>2, <1>3 DEF IsHeap, Inv, Ownership, Objects
  <2> QED BY <1>1, <2>1 DEF Inline, Records
<1> QED BY <1>3, <1>6, <1>7, ElementsProperties DEF IsHeap

\* Take serves a move construction and a move assignment.
LEMMA TakeStep ==
  ASSUME Inv, NEW v \in Vectors, NEW w \in Vectors, v # w, Take(v, w),
         live' \subseteq Vectors, live \subseteq live', v \in live'
  PROVE  Inv'
<1>1. v \in Objects /\ w \in Objects /\ Stores(v) BY DEF Objects, Stores
<1>2. CASE IsHeap(w)
  <2>1. obj' = [obj EXCEPT ![v] = obj[w], ![w] = Empty(w)]
    BY DEF Take, Emptied, Empty
  <2>2. alloc' = Freed(v) /\ cells' = Vacated(v) BY <1>2 DEF Take
  <2> QED BY <1>1, <1>2, <2>1, <2>2, TakeKeepsInv
<1>3. CASE ~IsHeap(w)
  <2>1. AssignInline(v, Elements(w)) BY <1>3 DEF Take
  <2>2. /\ Elements(w) \in Seq(Values) /\ Len(Elements(w)) \in Nat
        /\ Len(Elements(w)) <= InlineCapacity /\ InlineCapacity \in Nat
        /\ obj[w] = Inline(Len(Elements(w)))
    <3>1. obj[w] = Inline(obj[w].size) BY <1>3, SourceProperties
    <3>2. obj[w].capacity = InlineCapacity BY <3>1 DEF Inline
    <3> QED BY <3>1, <3>2, SourceProperties, SmallVectorAssumption
  <2>3. obj' = [o \in Objects |-> IF o = v THEN Inline(Len(Elements(w)))
                                 ELSE IF o = w THEN Inline(0) ELSE obj[o]]
    BY <2>2 DEF Take, Emptied, Inv, TypeOK
  <2>4. CASE IsHeap(v)
    <3>1. cells' = [Vacated(v) EXCEPT ![v] = Elements(w)] /\ alloc' = Freed(v)
      BY <2>1, <2>4 DEF AssignInline
    <3>2. Len(Elements(w)) <= Len(Elements(w)) BY <2>2
    <3> QED BY <1>3, <2>2, <2>3, <3>1, <3>2, InlineKeepsInv
  <2>5. CASE ~IsHeap(v)
    <3> DEFINE t == Over(Elements(w), cells[v])
    <3>1. cells[v] \in Seq(Values) /\ Len(cells[v]) <= InlineCapacity
      BY DEF Inv, TypeOK, Vacant
    <3>2. t \in Seq(Values) /\ Len(Elements(w)) <= Len(t) /\ Len(t) <= InlineCapacity
      BY <2>2, <3>1, OverProperties, LenProperties
    <3>3. cells' = [Vacated(v) EXCEPT ![v] = t] /\ alloc' = Freed(v)
      BY <2>1, <2>5 DEF AssignInline, Vacated, Data
    <3> HIDE DEF t
    <3> QED BY <1>3, <2>2, <2>3, <3>2, <3>3, InlineKeepsInv
  <2> QED BY <2>4, <2>5
<1> QED BY <1>2, <1>3

\* A push of any value: there is room, or growing makes it.
LEMMA PushBackStep ==
  ASSUME Inv, NEW v \in Vectors, NEW b \in Blocks, NEW x \in Values,
         PushBack(v, b, x)
  PROVE  Inv'
<1> DEFINE s == Append(Elements(v), x)
<1>1. s \in Seq(Values) /\ Len(s) = obj[v].size + 1
  BY SourceProperties, AppendProperties
<1> HIDE DEF s
<1>2. CASE /\ obj[v].size < obj[v].capacity
           /\ SetSize(v, obj[v].size + 1)
           /\ cells' = [cells EXCEPT ![Data(v)] = Over(s, @)]
  <2>1. cells[Data(v)] \in Seq(Values) /\ Len(cells[Data(v)]) <= obj[v].capacity
    BY ElementsProperties DEF Inv, Filled, FilledAt, Stores, Objects
  <2>2. /\ Over(s, cells[Data(v)]) \in Seq(Values)
        /\ obj[v].size + 1 <= Len(Over(s, cells[Data(v)]))
        /\ Len(Over(s, cells[Data(v)])) <= obj[v].capacity
    BY <1>1, <1>2, <2>1, SourceProperties, OverProperties, LenProperties
  <2>3. obj[v].size + 1 \in Nat BY SourceProperties
  <2> QED BY <1>2, <2>2, <2>3, SizeKeepsInv
<1>3. CASE /\ v \in live /\ obj[v].size = obj[v].capacity
           /\ ReplaceWithHeap(v, b, s, Grown(obj[v].capacity))
           /\ UNCHANGED live
  <2>1. obj[v].capacity \in InlineCapacity .. MaxCapacity BY SourceProperties
  <2>2. Grown(obj[v].capacity) \in Nat /\ Grown(obj[v].capacity) > obj[v].capacity
    BY <2>1, GrownMore
  <2>3. InlineCapacity \in Nat /\ MaxCapacity \in Nat BY SmallVectorAssumption
  <2>4. /\ Grown(obj[v].capacity) > InlineCapacity
        /\ Len(s) <= Grown(obj[v].capacity)
    BY <1>1, <1>3, <2>1, <2>2, <2>3
  <2>5. live' \subseteq Vectors /\ live \subseteq live' /\ v \in live'
    BY <1>3 DEF Inv, TypeOK
  <2>6. ReplaceWithHeap(v, b, s, Grown(obj[v].capacity)) BY <1>3
  <2> QED BY <1>1, <2>2, <2>4, <2>5, <2>6, ReplaceKeepsInv
<1> QED BY <1>2, <1>3 DEF PushBack, s

\* A new or assigned vector of contents s, on the heap or inline.
LEMMA ContentsStep ==
  ASSUME Inv, NEW v \in Vectors, NEW b \in Blocks, NEW s \in Ranges,
         Construct(v, b, s) \/ Assign(v, b, s)
  PROVE  Inv'
<1>1. s \in Seq(Values) /\ Len(s) \in Nat /\ InlineCapacity \in Nat
  BY SmallVectorAssumption, LenProperties
<1>2. live' \subseteq Vectors /\ live \subseteq live' /\ v \in live'
  BY DEF Construct, Assign, Inv, TypeOK
<1>3. CASE Len(s) > InlineCapacity /\ ReplaceWithHeap(v, b, s, Len(s))
  BY <1>1, <1>2, <1>3, ReplaceKeepsInv
<1>4. CASE Construct(v, b, s) /\ Len(s) <= InlineCapacity
  <2>1. ~(Len(s) > InlineCapacity) BY <1>1, <1>4
  <2>2. /\ v \notin live /\ live' = live \cup {v}
        /\ obj' = [obj EXCEPT ![v] = Inline(Len(s))]
        /\ cells' = [cells EXCEPT ![v] = s]
        /\ UNCHANGED alloc
    BY <1>4, <2>1 DEF Construct
  <2>3. ~IsHeap(v) BY <2>2 DEF Inv, Vacant
  <2>4. alloc' = Freed(v) /\ cells' = [Vacated(v) EXCEPT ![v] = s]
    BY <2>2, <2>3 DEF Freed, Vacated, Data
  <2>5. obj' = [o \in Objects |-> IF o = v THEN Inline(Len(s))
                                 ELSE IF o = v THEN Inline(0) ELSE obj[o]]
    BY <2>2 DEF Inv, TypeOK
  <2>6. Len(s) <= Len(s) BY <1>1
  <2>7. \A x \in Vectors \ live' : x = v \/ x \notin live BY <2>2
  <2> QED BY <1>1, <1>2, <1>4, <2>4, <2>5, <2>6, <2>7, InlineKeepsInv
<1>5. CASE Assign(v, b, s) /\ Len(s) <= InlineCapacity
  <2>1. ~(Len(s) > InlineCapacity) BY <1>1, <1>5
  <2>2. /\ v \in live /\ live' = live
        /\ obj' = [obj EXCEPT ![v] = Inline(Len(s))]
        /\ AssignInline(v, s)
    BY <1>5, <2>1 DEF Assign
  <2>3. obj' = [o \in Objects |-> IF o = v THEN Inline(Len(s))
                                 ELSE IF o = v THEN Inline(0) ELSE obj[o]]
    BY <2>2 DEF Inv, TypeOK
  <2> QED BY <1>1, <1>5, <2>2, <2>3, AssignInlineKeepsInv
<1> QED BY <1>3, <1>4, <1>5 DEF Construct, Assign

\* A copy, into a new vector or over another one.
LEMMA CopyStep ==
  ASSUME Inv, NEW v \in Vectors, NEW w \in Vectors, NEW b \in Blocks,
         CopyConstruct(v, w, b) \/ CopyAssign(v, w, b)
  PROVE  Inv'
<1> DEFINE s == Elements(w)
<1>1. /\ s \in Seq(Values) /\ Len(s) = obj[w].size /\ obj[w].size \in Nat
      /\ obj[w].capacity \in Nat /\ obj[w].size <= obj[w].capacity
      /\ IsHeap(w) => obj[w].capacity > InlineCapacity
      /\ ~IsHeap(w) => obj[w] = Inline(obj[w].size)
  BY SourceProperties, SmallVectorAssumption
<1>2. live' \subseteq Vectors /\ live \subseteq live' /\ v \in live'
  BY DEF CopyConstruct, CopyAssign, Inv, TypeOK
<1> HIDE DEF s
<1>3. CASE IsHeap(w)
  <2>1. ReplaceWithHeap(v, b, s, obj[w].capacity)
    BY <1>3 DEF CopyConstruct, CopyAssign, s
  <2> QED BY <1>1, <1>2, <1>3, <2>1, ReplaceKeepsInv
<1>4. CASE ~IsHeap(w)
  <2>1. Len(s) <= InlineCapacity
    <3>1. obj[w].capacity = InlineCapacity BY <1>1, <1>4 DEF Inline
    <3> QED BY <1>1, <3>1
  <2>2. obj' = [o \in Objects |-> IF o = v THEN Inline(Len(s))
                                 ELSE IF o = v THEN Inline(0) ELSE obj[o]]
    BY <1>1, <1>4 DEF CopyConstruct, CopyAssign, Inv, TypeOK
  <2>3. CASE CopyConstruct(v, w, b)
    <3>1. /\ v \notin live /\ live' = live \cup {v}
          /\ cells' = [cells EXCEPT ![v] = s] /\ UNCHANGED alloc
      BY <1>4, <2>3 DEF CopyConstruct, s
    <3>2. ~IsHeap(v) BY <3>1 DEF Inv, Vacant
    <3>3. alloc' = Freed(v) /\ cells' = [Vacated(v) EXCEPT ![v] = s]
      BY <3>1, <3>2 DEF Freed, Vacated, Data
    <3>4. Len(s) <= Len(s) /\ Len(s) \in Nat BY <1>1
    <3>5. \A x \in Vectors \ live' : x = v \/ x \notin live BY <3>1
    <3> QED BY <1>1, <1>2, <2>1, <2>2, <3>3, <3>4, <3>5, InlineKeepsInv
  <2>4. CASE CopyAssign(v, w, b)
    <3>1. v \in live /\ live' = live /\ AssignInline(v, s)
      BY <1>4, <2>4 DEF CopyAssign, s
    <3> QED BY <1>1, <2>1, <2>2, <3>1, AssignInlineKeepsInv
  <2> QED BY <2>3, <2>4
<1> QED BY <1>3, <1>4

\* A size that fits, or does not.
LEMMA ResizeStep ==
  ASSUME Inv, NEW v \in Vectors, NEW b \in Blocks, NEW n \in 0 .. MaxCapacity,
         Resize(v, b, n)
  PROVE  Inv'
<1>1. /\ n \in Nat /\ obj[v].size \in Nat /\ obj[v].capacity \in Nat
      /\ InlineCapacity \in Nat /\ InlineCapacity <= obj[v].capacity
      /\ obj[v].size <= obj[v].capacity
  BY SourceProperties, SmallVectorAssumption
<1>2. /\ cells[Data(v)] \in Seq(Values) /\ obj[v].size <= Len(cells[Data(v)])
      /\ Len(cells[Data(v)]) <= obj[v].capacity /\ Len(cells[Data(v)]) \in Nat
  BY ElementsProperties, LenProperties DEF Inv, Filled, FilledAt, Stores, Objects
<1>3. Padded(v, n) \in Seq(Values) /\ Len(Padded(v, n)) = n
  BY <1>1, PaddedProperties
<1>4. CASE n <= obj[v].size /\ SetSize(v, n) /\ UNCHANGED cells
  <2>1. cells' = [cells EXCEPT ![Data(v)] = cells[Data(v)]]
    BY <1>4 DEF Inv, TypeOK
  <2>2. n <= Len(cells[Data(v)]) BY <1>1, <1>2, <1>4
  <2> QED BY <1>1, <1>2, <1>4, <2>1, <2>2, SizeKeepsInv
<1>5. CASE /\ obj[v].size < n /\ n <= obj[v].capacity /\ SetSize(v, n)
           /\ cells' = [cells EXCEPT ![Data(v)] = Over(Padded(v, n), @)]
  <2>1. /\ Over(Padded(v, n), cells[Data(v)]) \in Seq(Values)
        /\ n <= Len(Over(Padded(v, n), cells[Data(v)]))
        /\ Len(Over(Padded(v, n), cells[Data(v)])) <= obj[v].capacity
    BY <1>1, <1>2, <1>3, <1>5, OverProperties
  <2> QED BY <1>1, <1>5, <2>1, SizeKeepsInv
<1>6. CASE /\ v \in live /\ n > obj[v].capacity
           /\ ReplaceWithHeap(v, b, Padded(v, n), n) /\ UNCHANGED live
  <2>1. n > InlineCapacity /\ Len(Padded(v, n)) <= n BY <1>1, <1>3, <1>6
  <2>2. live' \subseteq Vectors /\ live \subseteq live' /\ v \in live'
    BY <1>6 DEF Inv, TypeOK
  <2>3. ReplaceWithHeap(v, b, Padded(v, n), n) BY <1>6
  <2> QED BY <1>1, <1>3, <2>1, <2>2, <2>3, ReplaceKeepsInv
<1> QED BY <1>4, <1>5, <1>6 DEF Resize

\* The block of a vector, or of an allocation, goes to an allocation.
LEMMA AllocationStep ==
  ASSUME Inv, NEW h \in Handles,
         \/ \E v \in Vectors : ReleaseHeap(v, h)
         \/ \E g \in Handles : MoveAllocation(g, h)
         \/ DestroyAllocation(h)
  PROVE  Inv'
<1>1. h \in Objects /\ h \notin Vectors /\ live \subseteq Vectors
  BY SmallVectorAssumption DEF Objects, Inv, TypeOK
<1>2. CASE DestroyAllocation(h)
  BY <1>2, ResetKeepsInv DEF DestroyAllocation
<1>3. ASSUME NEW v \in Vectors, ReleaseHeap(v, h) PROVE Inv'
  <2>1. v \in Objects /\ v # h /\ IsHeap(v) BY <1>1, <1>3 DEF Objects, ReleaseHeap
  <2>2. obj' = [obj EXCEPT ![h] = obj[v], ![v] = Empty(v)]
    BY <1>1, <1>3, <2>1 DEF ReleaseHeap, Empty, Inv, TypeOK
  <2>3. ~IsHeap(h) /\ ~Stores(h)
    BY <1>1, <1>3, SmallVectorAssumption
       DEF ReleaseHeap, IsHeap, Stores, NoAllocation
  <2>4. alloc' = Freed(h) /\ cells' = IF Stores(h) THEN Vacated(h) ELSE cells
    BY <1>3, <2>3 DEF ReleaseHeap, Freed
  <2>5. live' = live BY <1>3 DEF ReleaseHeap
  <2> QED BY <1>1, <2>1, <2>2, <2>4, <2>5, TakeKeepsInv
<1>4. ASSUME NEW g \in Handles, MoveAllocation(g, h) PROVE Inv'
  <2>1. g \in Objects /\ g \notin Vectors /\ g # h
    BY <1>4, SmallVectorAssumption DEF Objects, MoveAllocation
  <2>2. /\ obj' = [obj EXCEPT ![g] = obj[h], ![h] = NoAllocation]
        /\ Reset(g) /\ live' = live
    BY <1>4 DEF MoveAllocation
  <2>3. CASE IsHeap(h)
    <3>1. IsHeap(g) <=> obj[g].heap # None BY <2>1 DEF Inv, Ownership
    <3>2. alloc' = Freed(g) BY <2>2, <3>1 DEF Reset, Freed
    <3>3. cells' = IF Stores(g) THEN Vacated(g) ELSE cells
      BY <2>1, <2>2, <3>1 DEF Reset, Stores, Vacated, Data
    <3>4. obj' = [obj EXCEPT ![g] = obj[h], ![h] = Empty(h)]
      BY <1>1, <2>2 DEF Empty
    <3> QED BY <1>1, <2>1, <2>2, <2>3, <3>2, <3>3, <3>4, TakeKeepsInv
  <2>4. CASE ~IsHeap(h)
    <3>1. obj[h] = NoAllocation BY <2>4 DEF Inv, Vacant
    <3>2. obj' = [obj EXCEPT ![g] = NoAllocation]
      BY <1>1, <2>2, <3>1 DEF Inv, TypeOK
    <3> QED BY <2>2, <3>2, ResetKeepsInv
  <2> QED BY <2>3, <2>4
<1> QED BY <1>2, <1>3, <1>4

LEMMA InitInv == Init => Inv
<1> SUFFICES ASSUME Init PROVE Inv
  OBVIOUS
<1>1. InlineCapacity \in Nat \ {0} /\ MaxCapacity \in Nat
      /\ InlineCapacity <= MaxCapacity
  BY SmallVectorAssumption
<1>2. Inline(0) \in Records /\ NoAllocation \in Records
  BY <1>1 DEF Inline, NoAllocation, Records
<1>3. \A o \in Objects : obj[o].heap = None /\ obj[o].size = 0 /\ ~IsHeap(o)
  BY <1>1 DEF Init, Inline, NoAllocation, IsHeap
<1>4. TypeOK
  <2>1. obj \in [Objects -> Records] BY <1>2 DEF Init
  <2>2. \A v \in Vectors : obj[v].capacity # 0 BY <1>1 DEF Init, Objects, Inline
  <2>3. alloc \in [Blocks -> 0 .. MaxCapacity] BY <1>1 DEF Init
  <2>4. cells \in [Vectors \cup Blocks -> Seq(Values)] BY EmptySeq DEF Init
  <2> QED BY <2>1, <2>2, <2>3, <2>4 DEF Init, TypeOK, Records
<1>5. Ownership BY <1>3 DEF Init, Ownership
<1>6. Filled
  <2>1. \A o \in Objects : Stores(o) => o \in Vectors /\ Data(o) = o
    BY <1>3 DEF Stores, Data
  <2>2. \A v \in Vectors : cells[v] = << >> /\ obj[v].capacity = InlineCapacity
    BY DEF Init, Objects, Inline
  <2> QED BY <1>1, <1>3, <2>1, <2>2, EmptySeq DEF Filled, FilledAt
<1>7. Vacant
  <2>1. \A v \in Vectors : Len(cells[v]) <= InlineCapacity
    BY <1>1, EmptySeq DEF Init
  <2>2. \A h \in Handles : obj[h] = NoAllocation
    BY SmallVectorAssumption DEF Init, Objects
  <2> QED BY <1>3, <2>1, <2>2 DEF Vacant, Objects
<1> QED BY <1>4, <1>5, <1>6, <1>7 DEF Inv

LEMMA NextInv == Inv /\ [Next]_vars => Inv'
<1> SUFFICES ASSUME Inv, [Next]_vars PROVE Inv'
  OBVIOUS
<1>1. CASE UNCHANGED vars
  BY <1>1 DEF vars, Inv, TypeOK, Ownership, Filled, FilledAt, Vacant, Stores,
              IsHeap, Data
<1>2. ASSUME NEW v \in Vectors, Destroy(v) PROVE Inv'
  <2>1. /\ live' = live \ {v} /\ obj' = [obj EXCEPT ![v] = Inline(0)]
        /\ alloc' = Freed(v) /\ cells' = [Vacated(v) EXCEPT ![v] = << >>]
    BY <1>2 DEF Destroy
  <2>2. obj' = [o \in Objects |-> IF o = v THEN Inline(0)
                                 ELSE IF o = v THEN Inline(0) ELSE obj[o]]
    BY <2>1 DEF Inv, TypeOK
  <2>3. << >> \in Seq(Values) /\ Len(<< >>) = 0 BY EmptySeq
  <2>4. live' \subseteq Vectors /\ \A x \in Vectors \ live' : x = v \/ x \notin live
    BY <2>1 DEF Inv, TypeOK
  <2>5. 0 <= Len(<< >>) /\ Len(<< >>) <= InlineCapacity
    BY <2>3, SmallVectorAssumption
  <2> QED BY <2>1, <2>2, <2>3, <2>4, <2>5, InlineKeepsInv
<1>3. ASSUME NEW v \in Vectors, Clear(v) PROVE Inv'
  <2>1. SetSize(v, 0) /\ cells' = [cells EXCEPT ![Data(v)] = cells[Data(v)]]
    BY <1>3 DEF Clear, Inv, TypeOK
  <2>2. /\ cells[Data(v)] \in Seq(Values) /\ 0 <= Len(cells[Data(v)])
        /\ Len(cells[Data(v)]) <= obj[v].capacity
    BY ElementsProperties, LenProperties
       DEF Inv, Filled, FilledAt, Stores, Objects
  <2> QED BY <2>1, <2>2, SizeKeepsInv
<1>4. ASSUME NEW v \in Vectors, NEW w \in Vectors,
             MoveConstruct(v, w) \/ MoveAssign(v, w)
      PROVE  Inv'
  <2>1. v # w /\ Take(v, w) /\ live' \subseteq Vectors /\ live \subseteq live' /\ v \in live'
    BY <1>4 DEF MoveConstruct, MoveAssign, Inv, TypeOK
  <2> QED BY <2>1, TakeStep
<1>5. ASSUME NEW v \in Vectors, NEW h \in Handles, ReleaseHeap(v, h) PROVE Inv'
  BY <1>5, AllocationStep
<1>6. ASSUME NEW v \in Vectors, NEW b \in Blocks, NEW s \in Ranges,
             Construct(v, b, s) \/ Assign(v, b, s)
      PROVE  Inv'
  BY <1>6, ContentsStep
<1>7. ASSUME NEW v \in Vectors, NEW b \in Blocks, NEW w \in Vectors,
             CopyConstruct(v, w, b) \/ CopyAssign(v, w, b)
      PROVE  Inv'
  BY <1>7, CopyStep
<1>8. ASSUME NEW v \in Vectors, NEW b \in Blocks, NEW n \in 0 .. MaxCapacity,
             Reserve(v, b, n)
      PROVE  Inv'
  <2>1. /\ n \in Nat /\ obj[v].capacity \in Nat /\ InlineCapacity \in Nat
        /\ InlineCapacity <= obj[v].capacity /\ obj[v].size \in Nat
        /\ Elements(v) \in Seq(Values) /\ Len(Elements(v)) <= obj[v].capacity
    BY SourceProperties, SmallVectorAssumption
  <2>2. n > InlineCapacity /\ Len(Elements(v)) <= n
    BY <1>8, <2>1, LenProperties DEF Reserve
  <2>3. live' \subseteq Vectors /\ live \subseteq live' /\ v \in live'
    BY <1>8 DEF Reserve, Inv, TypeOK
  <2> QED BY <1>8, <2>1, <2>2, <2>3, ReplaceKeepsInv DEF Reserve
<1>9. ASSUME NEW v \in Vectors, NEW b \in Blocks, NEW n \in 0 .. MaxCapacity,
             Resize(v, b, n)
      PROVE  Inv'
  BY <1>9, ResizeStep
<1>10. ASSUME NEW v \in Vectors, NEW b \in Blocks, NEW x \in Values,
              PushBack(v, b, x)
       PROVE  Inv'
  BY <1>10, PushBackStep
<1>11. ASSUME NEW v \in Vectors, NEW b \in Blocks, NEW i \in 1 .. MaxCapacity,
              PushBackOwn(v, b, i)
       PROVE  Inv'
  <2>1. i \in 1 .. obj[v].size
    BY <1>11, SourceProperties, SmallVectorAssumption DEF PushBackOwn
  <2>2. Referenced(v, i) \in Values
    BY <2>1, SourceProperties, ElementOfSeq DEF Referenced
  <2> QED BY <1>11, <2>2, PushBackStep DEF PushBackOwn
<1>12. ASSUME NEW h \in Handles,
              DestroyAllocation(h) \/ \E g \in Handles : MoveAllocation(g, h)
       PROVE  Inv'
  BY <1>12, AllocationStep
<1> QED BY <1>1, <1>2, <1>3, <1>4, <1>5, <1>6, <1>7, <1>8, <1>9, <1>10, <1>11,
           <1>12 DEF Next

\* The inductive invariant holds in every state, for all vectors, blocks and
\* capacities.
THEOREM InvHolds == Spec => []Inv
BY InitInv, NextInv, PTL DEF Spec

-----------------------------------------------------------------------------
\* Types, with every size within what the allocator grants.
THEOREM TypeCorrect == Spec => []TypeOK
<1>1. Inv => TypeOK BY DEF Inv
<1> QED BY <1>1, InvHolds, PTL

\* capacity_ names the alive member of the union, allocations have the
\* capacity that their owners deallocate, and no element lies outside them.
THEOREM MembersAlive == Spec => []MemberAlive
<1>1. Inv => MemberAlive
  BY DEF Inv, MemberAlive, Ownership, Filled, FilledAt, Stores
<1> QED BY <1>1, InvHolds, PTL

\* No double free and no leak, whatever users do with vectors and
\* allocations.
THEOREM EveryBlockOwnedOnce == Spec => []OneOwner
<1>1. Inv => OneOwner
  <2> SUFFICES ASSUME Inv, NEW b \in Blocks
               PROVE  LET owners == {o \in Objects : obj[o].heap = b}
                      IN  IF alloc[b] = 0 THEN owners = {}
                          ELSE \E o \in owners : owners = {o}
    BY DEF OneOwner
  <2>1. b # None BY SmallVectorAssumption
  <2>2. \A o \in Objects : obj[o].heap = b => IsHeap(o) BY <2>1 DEF Inv, Ownership
  <2>3. CASE alloc[b] = 0
    <3>1. \A o \in Objects : obj[o].heap = b => FALSE
      BY <2>2, <2>3, FreeIsNoPlace DEF Stores, Data
    <3> QED BY <2>3, <3>1
  <2>4. CASE alloc[b] # 0
    <3>1. PICK o \in Objects : obj[o].heap = b BY <2>4 DEF Inv, Ownership
    <3>2. \A p \in Objects : obj[p].heap = b => p = o
      BY <2>2, <3>1 DEF Inv, Ownership
    <3> QED BY <2>4, <3>1, <3>2
  <2> QED BY <2>3, <2>4
<1> QED BY <1>1, InvHolds, PTL

\* One step that appends element i of v.
LEMMA PushBackOwnStep ==
  ASSUME Inv, NEW v \in Vectors, NEW b \in Blocks, NEW i \in 1 .. MaxCapacity,
         PushBackOwn(v, b, i)
  PROVE  Elements(v)' = Append(Elements(v), Elements(v)[i])
<1> DEFINE s == Append(Elements(v), Elements(v)[i])
<1>1. v \in Objects /\ Stores(v) BY DEF Objects, Stores
<1>2. i \in 1 .. obj[v].size
  BY SourceProperties, SmallVectorAssumption DEF PushBackOwn
<1>3. Elements(v)[i] \in Values BY <1>2, SourceProperties, ElementOfSeq
<1>4. s \in Seq(Values) /\ Len(s) = obj[v].size + 1 /\ obj[v].size \in Nat
  BY <1>3, SourceProperties, AppendProperties
<1>5. PushBack(v, b, Elements(v)[i]) BY DEF PushBackOwn, Referenced
<1>6. /\ obj'[v].size = Len(s) /\ cells'[Data(v)'] \in Seq(Values)
      /\ Len(s) <= Len(cells'[Data(v)'])
      /\ \A j \in 1 .. Len(s) : cells'[Data(v)'][j] = s[j]
  <2>1. CASE /\ SetSize(v, obj[v].size + 1)
             /\ cells' = [cells EXCEPT ![Data(v)] = Over(s, @)]
    <3>1. cells[Data(v)] \in Seq(Values) /\ Data(v) \in Vectors \cup Blocks
      BY ElementsProperties
    <3>2. cells'[Data(v)] = Over(s, cells[Data(v)])
      BY <2>1, <3>1 DEF Inv, TypeOK
    <3>3. obj'[v].size = Len(s) /\ obj'[v].heap = obj[v].heap
          /\ obj'[v].capacity = obj[v].capacity
      BY <1>1, <1>4, <2>1 DEF SetSize, Inv, TypeOK
    <3>4. Data(v)' = Data(v) BY <3>3 DEF Data, IsHeap
    <3> HIDE DEF s
    <3> QED BY <1>4, <3>1, <3>2, <3>3, <3>4, OverProperties, LenProperties
  <2>2. CASE ReplaceWithHeap(v, b, s, Grown(obj[v].capacity))
    <3>1. /\ obj' = [obj EXCEPT ![v] = OnHeap(b, Len(s), Grown(obj[v].capacity))]
          /\ cells' = [Vacated(v) EXCEPT ![b] = s]
      BY <2>2 DEF ReplaceWithHeap
    <3>2. /\ obj[v].capacity \in InlineCapacity .. MaxCapacity
          /\ InlineCapacity \in Nat /\ MaxCapacity \in Nat
      BY SourceProperties, SmallVectorAssumption
    <3>3. Grown(obj[v].capacity) > InlineCapacity
      BY <3>2, GrownMore
    <3>4. obj'[v] = OnHeap(b, Len(s), Grown(obj[v].capacity))
      BY <1>1, <3>1 DEF Inv, TypeOK
    <3>5. obj'[v].size = Len(s) /\ Data(v)' = b
      BY <3>3, <3>4 DEF OnHeap, Data, IsHeap
    <3>6. cells'[b] = s
      BY <3>1, EmptySeq DEF Vacated, Inv, TypeOK
    <3> HIDE DEF s
    <3> QED BY <1>4, <3>5, <3>6
  <2> QED BY <1>5, <2>1, <2>2 DEF PushBack
<1> HIDE DEF s
<1>7. \A j \in 1 .. Len(s) : cells'[Data(v)'][j] \in Values
  BY <1>4, <1>6, ElementOfSeq
<1>8. /\ SubSeq(cells'[Data(v)'], 1, Len(s)) \in Seq(Values)
      /\ Len(SubSeq(cells'[Data(v)'], 1, Len(s))) = Len(s)
      /\ \A j \in 1 .. Len(s) :
           SubSeq(cells'[Data(v)'], 1, Len(s))[j] = cells'[Data(v)'][1 + j - 1]
  BY <1>4, <1>7, SubSeqProperties
<1>9. \A j \in 1 .. Len(s) : SubSeq(cells'[Data(v)'], 1, Len(s))[j] = s[j]
  BY <1>6, <1>8
<1>10. SubSeq(cells'[Data(v)'], 1, Len(s)) = s
  BY <1>4, <1>8, <1>9, SeqEqual
<1>11. Elements(v)' = SubSeq(cells'[Data(v)'], 1, Len(s))
  BY <1>6 DEF Elements
<1> QED BY <1>10, <1>11 DEF s

\* Appending an own element appends its value, whether or not the vector
\* moves to a bigger block on the way.
THEOREM PushBackOwnElement == Spec => PushBackKeepsArgument
<1>1. Inv /\ [Next]_vars =>
        [\A v \in Vectors, b \in Blocks, i \in 1 .. MaxCapacity :
           PushBackOwn(v, b, i) =>
             Elements(v)' = Append(Elements(v), Elements(v)[i])]_vars
  BY PushBackOwnStep
<1> QED BY <1>1, InvHolds, PTL DEF Spec, PushBackKeepsArgument

-----------------------------------------------------------------------------
\* The elements of every object, as the abstract ValueVectors has them.

Contents(o) == IF o \in Vectors THEN Elements(o) ELSE Handed(o)
Contained == [o \in Objects |-> IF o \in Vectors THEN Elements(o) ELSE Handed(o)]

\* A sequence that starts with s.
LEMMA PrefixIs ==
  ASSUME NEW s \in Seq(Values), NEW t \in Seq(Values), Len(s) <= Len(t),
         \A i \in 1 .. Len(s) : t[i] = s[i]
  PROVE  SubSeq(t, 1, Len(s)) = s
<1>1. Len(s) \in Nat BY LenProperties
<1>2. \A j \in 1 .. Len(s) : t[j] \in Values BY ElementOfSeq
<1>3. /\ SubSeq(t, 1, Len(s)) \in Seq(Values)
      /\ Len(SubSeq(t, 1, Len(s))) = IF 1 <= Len(s) THEN Len(s) - 1 + 1 ELSE 0
      /\ \A j \in 1 .. Len(s) - 1 + 1 : SubSeq(t, 1, Len(s))[j] = t[1 + j - 1]
  BY <1>1, <1>2, SubSeqProperties
<1>4. Len(SubSeq(t, 1, Len(s))) = Len(s) BY <1>1, <1>3
<1>5. \A j \in 1 .. Len(s) : SubSeq(t, 1, Len(s))[j] = s[j] BY <1>1, <1>3
<1> QED BY <1>3, <1>4, <1>5, SeqEqual

\* What an object with storage contains begins at its place; an allocation
\* without any is empty.
LEMMA ContentsStored ==
  ASSUME Inv, NEW o \in Objects
  PROVE  /\ Contents(o) = IF Stores(o) THEN SubSeq(cells[Data(o)], 1, obj[o].size)
                          ELSE << >>
         /\ Stores(o) => /\ Data(o) \in Vectors \cup Blocks
                         /\ cells[Data(o)] \in Seq(Values)
                         /\ obj[o].size \in Nat
                         /\ obj[o].size <= Len(cells[Data(o)])
<1>1. CASE Stores(o)
  <2>1. Data(o) \in Vectors \cup Blocks BY <1>1, DataType
  <2>2. cells[Data(o)] \in Seq(Values) /\ obj[o].size \in Nat
    BY <2>1 DEF Inv, TypeOK
  <2>3. FilledAt(o) BY <1>1 DEF Inv, Filled
  <2>4. o \notin Vectors => IsHeap(o) /\ obj[o].heap # None
    BY <1>1 DEF Stores, Inv, Ownership
  <2>5. Contents(o) = SubSeq(cells[Data(o)], 1, obj[o].size)
    BY <2>4 DEF Contents, Elements, Handed, Data
  <2> QED BY <1>1, <2>1, <2>2, <2>3, <2>5 DEF FilledAt
<1>2. CASE ~Stores(o)
  <2>1. o \notin Vectors /\ obj[o].heap = None
    BY <1>2 DEF Stores, Inv, Ownership
  <2> QED BY <1>2, <2>1 DEF Contents, Handed
<1> QED BY <1>1, <1>2

\* Contents after a step: an object whose place begins with s contains s, and
\* one that keeps its record and its place keeps its contents.
LEMMA ContentsWritten ==
  ASSUME Inv', NEW o \in Objects, NEW s \in Seq(Values), Stores(o)',
         obj'[o].size = Len(s), \A i \in 1 .. Len(s) : cells'[Data(o)'][i] = s[i]
  PROVE  Contents(o)' = s
<1>1. /\ Contents(o)' = SubSeq(cells'[Data(o)'], 1, obj'[o].size)
      /\ cells'[Data(o)'] \in Seq(Values) /\ obj'[o].size <= Len(cells'[Data(o)'])
  <2>1. (/\ Contents(o) = IF Stores(o) THEN SubSeq(cells[Data(o)], 1, obj[o].size)
                          ELSE << >>
         /\ Stores(o) => /\ Data(o) \in Vectors \cup Blocks
                         /\ cells[Data(o)] \in Seq(Values)
                         /\ obj[o].size \in Nat
                         /\ obj[o].size <= Len(cells[Data(o)]))'
    BY ContentsStored, PTL
  <2> QED BY <2>1
<1> QED BY <1>1, PrefixIs

LEMMA ContentsStay ==
  ASSUME Inv, Inv', NEW o \in Objects, obj'[o] = obj[o],
         Stores(o) => cells'[Data(o)] = cells[Data(o)]
  PROVE  Contents(o)' = Contents(o)
<1>1. (Stores(o)' <=> Stores(o)) /\ Data(o)' = Data(o)
  BY DEF Stores, IsHeap, Data
<1>2. (Contents(o) = IF Stores(o) THEN SubSeq(cells[Data(o)], 1, obj[o].size)
                     ELSE << >>)'
  BY ContentsStored, PTL
<1> QED BY <1>1, <1>2, ContentsStored

LEMMA ContentsEmptied ==
  ASSUME Inv', NEW o \in Objects, Stores(o)', obj'[o].size = 0
  PROVE  Contents(o)' = << >>
<1>1. << >> \in Seq(Values) /\ Len(<< >>) = 0 BY EmptySeq
<1>2. \A i \in 1 .. Len(<< >>) : FALSE BY <1>1
<1> QED BY <1>1, <1>2, ContentsWritten

\* In a step v gets contents s, w nothing unless it is v, and no other object
\* is seen to change.
Becomes(v, s, w) ==
  \A o \in Objects :
    Contents(o)' = IF o = v THEN s ELSE IF o = w THEN << >> ELSE Contents(o)

\* Into a new block.
LEMMA ReplaceContents ==
  ASSUME Inv, Inv', NEW v \in Vectors, NEW b \in Blocks, NEW s \in Seq(Values),
         NEW c \in Nat, c > InlineCapacity, ReplaceWithHeap(v, b, s, c)
  PROVE  Becomes(v, s, v)
<1>1. v \in Objects /\ Stores(v) BY DEF Objects, Stores
<1>2. /\ alloc[b] = 0 /\ obj' = [obj EXCEPT ![v] = OnHeap(b, Len(s), c)]
      /\ cells' = [Vacated(v) EXCEPT ![b] = s]
  BY DEF ReplaceWithHeap, Grants
<1>3. /\ obj'[v] = OnHeap(b, Len(s), c)
      /\ \A o \in Objects : o # v => obj'[o] = obj[o]
  BY <1>1, <1>2 DEF Inv, TypeOK
<1>4. /\ cells'[b] = s
      /\ \A x \in (Vectors \cup Blocks) \ {b, Data(v)} : cells'[x] = cells[x]
  BY <1>2 DEF Vacated, Inv, TypeOK
<1>5. Contents(v)' = s
  <2>1. Stores(v)' /\ Data(v)' = b /\ obj'[v].size = Len(s)
    BY <1>3 DEF Stores, Data, IsHeap, OnHeap
  <2> QED BY <1>1, <1>4, <2>1, ContentsWritten
<1>6. ASSUME NEW o \in Objects, o # v PROVE Contents(o)' = Contents(o)
  <2>1. Stores(o) => Data(o) \in (Vectors \cup Blocks) \ {b, Data(v)}
    BY <1>1, <1>2, <1>6, DataType, FreeIsNoPlace, PlacesDiffer
  <2> QED BY <1>3, <1>4, <1>6, <2>1, ContentsStay
<1> QED BY <1>5, <1>6 DEF Becomes

\* Into the inline storage of v, from another vector w or from elsewhere.
LEMMA InlineContents ==
  ASSUME Inv, Inv', NEW v \in Vectors, NEW w \in Vectors,
         NEW s \in Seq(Values), NEW t \in Seq(Values), Len(s) <= Len(t),
         \A i \in 1 .. Len(s) : t[i] = s[i],
         obj' = [o \in Objects |-> IF o = v THEN Inline(Len(s))
                                   ELSE IF o = w THEN Inline(0) ELSE obj[o]],
         cells' = [Vacated(v) EXCEPT ![v] = t]
  PROVE  Becomes(v, s, w)
<1>1. v \in Objects /\ w \in Objects /\ Stores(v) BY DEF Objects, Stores
<1>2. /\ obj'[v] = Inline(Len(s))
      /\ w # v => obj'[w] = Inline(0)
      /\ \A o \in Objects : o # v /\ o # w => obj'[o] = obj[o]
  BY <1>1
<1>3. /\ cells'[v] = t
      /\ \A x \in (Vectors \cup Blocks) \ {v, Data(v)} : cells'[x] = cells[x]
  BY DEF Vacated, Inv, TypeOK
<1>4. /\ Stores(v)' /\ Data(v)' = v /\ obj'[v].size = Len(s)
      /\ w # v => Stores(w)' /\ obj'[w].size = 0
  <2>1. ~(InlineCapacity > InlineCapacity) BY SmallVectorAssumption
  <2>2. obj'[v].capacity = InlineCapacity BY <1>2 DEF Inline
  <2> QED BY <1>2, <2>1, <2>2 DEF Stores, Data, IsHeap, Inline
<1>5. Contents(v)' = s BY <1>1, <1>3, <1>4, ContentsWritten
<1>6. w # v => Contents(w)' = << >> BY <1>1, <1>4, ContentsEmptied
<1>7. ASSUME NEW o \in Objects, o # v, o # w PROVE Contents(o)' = Contents(o)
  <2>1. Stores(o) => Data(o) \in Vectors \cup Blocks /\ Data(o) # Data(v)
    BY <1>1, <1>7, DataType, PlacesDiffer
  <2>2. Stores(o) => Data(o) # v
    BY <1>7, SmallVectorAssumption DEF Stores, Data, Inv, TypeOK, Ownership, Objects
  <2> QED BY <1>2, <1>3, <1>7, <2>1, <2>2, ContentsStay
<1> QED BY <1>5, <1>6, <1>7 DEF Becomes

LEMMA AssignInlineContents ==
  ASSUME Inv, Inv', NEW v \in Vectors, NEW w \in Vectors, NEW s \in Seq(Values),
         AssignInline(v, s),
         obj' = [o \in Objects |-> IF o = v THEN Inline(Len(s))
                                   ELSE IF o = w THEN Inline(0) ELSE obj[o]]
  PROVE  Becomes(v, s, w)
<1>1. CASE IsHeap(v)
  <2>1. cells' = [Vacated(v) EXCEPT ![v] = s] BY <1>1 DEF AssignInline
  <2>2. Len(s) <= Len(s) BY LenProperties
  <2> QED BY <2>1, <2>2, InlineContents
<1>2. CASE ~IsHeap(v)
  <2> DEFINE t == Over(s, cells[v])
  <2>1. cells[v] \in Seq(Values) BY DEF Inv, TypeOK
  <2>2. /\ t \in Seq(Values) /\ Len(s) <= Len(t)
        /\ \A i \in 1 .. Len(s) : t[i] = s[i]
    BY <2>1, OverProperties, LenProperties
  <2>3. cells' = [Vacated(v) EXCEPT ![v] = t]
    BY <1>2 DEF AssignInline, Vacated, Data
  <2> HIDE DEF t
  <2> QED BY <2>2, <2>3, InlineContents
<1> QED BY <1>1, <1>2

\* Object o has the block that was p's.
LEMMA TakeContents ==
  ASSUME Inv, Inv', NEW o \in Objects, NEW p \in Objects, o # p, IsHeap(p),
         obj' = [obj EXCEPT ![o] = obj[p], ![p] = Empty(p)],
         cells' = IF Stores(o) THEN Vacated(o) ELSE cells
  PROVE  Becomes(o, Contents(p), p)
<1>1. /\ obj'[o] = obj[p] /\ obj'[p] = Empty(p)
      /\ \A q \in Objects : q # o /\ q # p => obj'[q] = obj[q]
  BY DEF Inv, TypeOK
<1>2. \A q \in Objects : q # o /\ Stores(q) => cells'[Data(q)] = cells[Data(q)]
  <2>1. \A q \in Objects : q # o /\ Stores(q) =>
          /\ Data(q) \in Vectors \cup Blocks
          /\ Stores(o) => Data(q) # Data(o)
    BY DataType, PlacesDiffer
  <2> QED BY <2>1 DEF Vacated, Inv, TypeOK
<1>3. Contents(o)' = Contents(p)
  <2>1. Stores(p) BY DEF Stores
  <2>2. /\ Contents(p) = SubSeq(cells[Data(p)], 1, obj[p].size)
        /\ Data(p) = obj[p].heap /\ obj[p].heap # None
    BY <2>1, ContentsStored DEF Data, Inv, Ownership
  <2>3. Data(o)' = Data(p) /\ IsHeap(o)' /\ obj'[o].heap # None
    BY <1>1, <2>2 DEF Data, IsHeap
  <2>4. cells'[Data(p)] = cells[Data(p)] BY <1>2, <2>1
  <2>5. Contents(o)' = SubSeq(cells'[Data(o)'], 1, obj'[o].size)
    BY <2>3 DEF Contents, Elements, Handed, Data
  <2> QED BY <1>1, <2>2, <2>3, <2>4, <2>5
<1>4. Contents(p)' = << >>
  <2>1. CASE p \in Vectors
    <3>1. Empty(p) = Inline(0) BY <2>1 DEF Empty
    <3>2. Stores(p)' /\ obj'[p].size = 0
      BY <1>1, <2>1, <3>1 DEF Stores, Inline
    <3> QED BY <3>2, ContentsEmptied
  <2>2. CASE p \notin Vectors
    BY <1>1, <2>2 DEF Empty, NoAllocation, Contents, Handed
  <2> QED BY <2>1, <2>2
<1>5. \A q \in Objects : q # o /\ q # p => Contents(q)' = Contents(q)
  BY <1>1, <1>2, ContentsStay
<1> QED BY <1>3, <1>4, <1>5 DEF Becomes

\* A vector stays where it is, and a HeapAllocation is reset.
LEMMA SizeContents ==
  ASSUME Inv, Inv', NEW v \in Vectors, NEW s \in Seq(Values), NEW t \in Seq(Values),
         Len(s) <= Len(t), \A i \in 1 .. Len(s) : t[i] = s[i],
         SetSize(v, Len(s)), cells' = [cells EXCEPT ![Data(v)] = t]
  PROVE  Becomes(v, s, v)
<1>1. v \in Objects /\ Stores(v) /\ Data(v) \in Vectors \cup Blocks
  BY DataType DEF Objects, Stores
<1>2. /\ obj'[v].size = Len(s)
      /\ obj'[v].heap = obj[v].heap /\ obj'[v].capacity = obj[v].capacity
      /\ \A o \in Objects : o # v => obj'[o] = obj[o]
  BY <1>1 DEF SetSize, Inv, TypeOK
<1>3. /\ cells'[Data(v)] = t
      /\ \A x \in (Vectors \cup Blocks) \ {Data(v)} : cells'[x] = cells[x]
  BY <1>1 DEF Inv, TypeOK
<1>4. Contents(v)' = s
  <2>1. Stores(v)' /\ Data(v)' = Data(v) BY <1>2 DEF Stores, IsHeap, Data
  <2> QED BY <1>1, <1>2, <1>3, <2>1, ContentsWritten
<1>5. ASSUME NEW o \in Objects, o # v PROVE Contents(o)' = Contents(o)
  <2>1. Stores(o) => Data(o) \in (Vectors \cup Blocks) \ {Data(v)}
    BY <1>1, <1>5, DataType, PlacesDiffer
  <2> QED BY <1>2, <1>3, <1>5, <2>1, ContentsStay
<1> QED BY <1>4, <1>5 DEF Becomes

LEMMA ResetContents ==
  ASSUME Inv, Inv', NEW h \in Handles, Reset(h),
         obj' = [obj EXCEPT ![h] = NoAllocation]
  PROVE  Becomes(h, << >>, h)
<1>1. h \in Objects /\ h \notin Vectors
  BY SmallVectorAssumption DEF Objects
<1>2. obj'[h] = NoAllocation /\ \A o \in Objects : o # h => obj'[o] = obj[o]
  BY <1>1 DEF Inv, TypeOK
<1>3. Contents(h)' = << >>
  BY <1>1, <1>2 DEF Contents, Handed, NoAllocation
<1>4. ASSUME NEW o \in Objects, o # h PROVE Contents(o)' = Contents(o)
  <2>1. IsHeap(h) <=> obj[h].heap # None BY <1>1 DEF Inv, Ownership
  <2>2. Stores(o) => Data(o) \in Vectors \cup Blocks BY DataType
  <2>3. Stores(o) /\ IsHeap(h) => Data(o) # obj[h].heap
    BY <1>1, <1>4, PlacesDiffer DEF Stores, Data
  <2>4. Stores(o) => cells'[Data(o)] = cells[Data(o)]
    BY <2>1, <2>2, <2>3 DEF Reset, Inv, TypeOK
  <2> QED BY <1>2, <1>4, <2>4, ContentsStay
<1> QED BY <1>3, <1>4 DEF Becomes

\* The value function after such a step.
LEMMA ValuesAfter ==
  ASSUME Inv, NEW v \in Objects, NEW w \in Objects, NEW s, Becomes(v, s, w)
  PROVE  /\ v = w => Contained' = [Contained EXCEPT ![v] = s]
         /\ v # w => Contained' = [Contained EXCEPT ![v] = s, ![w] = << >>]
<1>1. Contained = [o \in Objects |-> Contents(o)] BY DEF Contained, Contents
<1>2. Contained' = [o \in Objects |-> Contents(o)'] BY DEF Contained, Contents
<1> QED BY <1>1, <1>2 DEF Becomes

\* A shorter or a longer vector, in place or in a new block.
LEMMA ShrinkContents ==
  ASSUME Inv, Inv', NEW v \in Vectors, NEW n \in Nat, n <= obj[v].size,
         SetSize(v, n), UNCHANGED cells
  PROVE  Becomes(v, Padded(v, n), v)
<1>1. Padded(v, n) \in Seq(Values) /\ Len(Padded(v, n)) = n
  BY PaddedProperties
<1>2. /\ cells[Data(v)] \in Seq(Values) /\ obj[v].size \in Nat
      /\ obj[v].size <= Len(cells[Data(v)])
      /\ \A i \in 1 .. obj[v].size : Elements(v)[i] = cells[Data(v)][i]
  BY ElementsProperties, ContentsStored DEF Stores, Objects
<1>3. n <= Len(cells[Data(v)]) BY <1>2, LenProperties
<1>4. \A i \in 1 .. n : cells[Data(v)][i] = Padded(v, n)[i]
  BY <1>2 DEF Padded
<1>5. cells' = [cells EXCEPT ![Data(v)] = cells[Data(v)]]
  BY DEF Inv, TypeOK
<1> QED BY <1>1, <1>2, <1>3, <1>4, <1>5, SizeContents

LEMMA WriteContents ==
  ASSUME Inv, Inv', NEW v \in Vectors, NEW s \in Seq(Values),
         SetSize(v, Len(s)), cells' = [cells EXCEPT ![Data(v)] = Over(s, @)]
  PROVE  Becomes(v, s, v)
<1> DEFINE t == Over(s, cells[Data(v)])
<1>1. cells[Data(v)] \in Seq(Values) BY ElementsProperties
<1>2. t \in Seq(Values) /\ Len(s) <= Len(t) /\ \A i \in 1 .. Len(s) : t[i] = s[i]
  BY <1>1, OverProperties, LenProperties
<1>3. cells' = [cells EXCEPT ![Data(v)] = t] OBVIOUS
<1> HIDE DEF t
<1> QED BY <1>2, <1>3, SizeContents

LEMMA ResizeContents ==
  ASSUME Inv, Inv', NEW v \in Vectors, NEW b \in Blocks, NEW n \in 0 .. MaxCapacity,
         Resize(v, b, n)
  PROVE  Becomes(v, Padded(v, n), v) /\ v \in live /\ live' = live
<1>1. n \in Nat /\ obj[v].capacity \in Nat /\ InlineCapacity \in Nat
      /\ InlineCapacity <= obj[v].capacity
  BY SourceProperties, SmallVectorAssumption
<1>2. Padded(v, n) \in Seq(Values) /\ Len(Padded(v, n)) = n
  BY <1>1, PaddedProperties
<1>3. CASE n <= obj[v].size /\ SetSize(v, n) /\ UNCHANGED cells
  BY <1>1, <1>3, ShrinkContents DEF SetSize
<1>4. CASE SetSize(v, n) /\ cells' = [cells EXCEPT ![Data(v)] = Over(Padded(v, n), @)]
  <2>1. Becomes(v, Padded(v, n), v) BY <1>2, <1>4, WriteContents
  <2> QED BY <1>4, <2>1 DEF SetSize
<1>5. CASE /\ v \in live /\ n > obj[v].capacity
           /\ ReplaceWithHeap(v, b, Padded(v, n), n) /\ UNCHANGED live
  <2>1. n > InlineCapacity BY <1>1, <1>5
  <2> QED BY <1>1, <1>2, <1>5, <2>1, ReplaceContents
<1> QED BY <1>3, <1>4, <1>5 DEF Resize

LEMMA PushContents ==
  ASSUME Inv, Inv', NEW v \in Vectors, NEW b \in Blocks, NEW x \in Values,
         PushBack(v, b, x)
  PROVE  Becomes(v, Append(Elements(v), x), v) /\ v \in live /\ live' = live
<1> DEFINE s == Append(Elements(v), x)
<1>1. s \in Seq(Values) /\ Len(s) = obj[v].size + 1
  BY SourceProperties, AppendProperties
<1> HIDE DEF s
<1>2. CASE /\ SetSize(v, obj[v].size + 1)
           /\ cells' = [cells EXCEPT ![Data(v)] = Over(s, @)]
  <2>1. SetSize(v, Len(s)) BY <1>1, <1>2
  <2>2. Becomes(v, s, v) BY <1>1, <1>2, <2>1, WriteContents
  <2> QED BY <1>2, <2>2 DEF SetSize, s
<1>3. CASE /\ v \in live /\ ReplaceWithHeap(v, b, s, Grown(obj[v].capacity))
           /\ UNCHANGED live
  <2>1. /\ obj[v].capacity \in InlineCapacity .. MaxCapacity
        /\ InlineCapacity \in Nat /\ MaxCapacity \in Nat
    BY SourceProperties, SmallVectorAssumption
  <2>2. Grown(obj[v].capacity) \in Nat /\ Grown(obj[v].capacity) > InlineCapacity
    BY <2>1, GrownMore
  <2> QED BY <1>1, <1>3, <2>2, ReplaceContents DEF s
<1> QED BY <1>2, <1>3 DEF PushBack, s

\* Contents of a range, of another vector, and of one that is moved from.
LEMMA RangeContents ==
  ASSUME Inv, Inv', NEW v \in Vectors, NEW b \in Blocks, NEW s \in Ranges,
         Construct(v, b, s) \/ Assign(v, b, s)
  PROVE  Becomes(v, s, v)
<1>1. s \in Seq(Values) /\ Len(s) \in Nat /\ InlineCapacity \in Nat
  BY SmallVectorAssumption, LenProperties
<1>2. CASE Len(s) > InlineCapacity /\ ReplaceWithHeap(v, b, s, Len(s))
  BY <1>1, <1>2, ReplaceContents
<1>3. CASE obj' = [obj EXCEPT ![v] = Inline(Len(s))]
  <2>1. obj' = [o \in Objects |-> IF o = v THEN Inline(Len(s))
                                 ELSE IF o = v THEN Inline(0) ELSE obj[o]]
    BY <1>3 DEF Inv, TypeOK
  <2>2. CASE AssignInline(v, s) BY <1>1, <2>1, <2>2, AssignInlineContents
  <2>3. CASE v \notin live /\ cells' = [cells EXCEPT ![v] = s]
    <3>1. cells' = [Vacated(v) EXCEPT ![v] = s]
      BY <2>3 DEF Vacated, Data, Inv, Vacant
    <3>2. Len(s) <= Len(s) BY <1>1
    <3> QED BY <1>1, <2>1, <3>1, <3>2, InlineContents
  <2>4. ~(Len(s) > InlineCapacity /\ ReplaceWithHeap(v, b, s, Len(s)))
        => AssignInline(v, s) \/ (v \notin live /\ cells' = [cells EXCEPT ![v] = s])
    BY DEF Construct, Assign
  <2> QED BY <1>2, <2>2, <2>3, <2>4
<1> QED BY <1>2, <1>3 DEF Construct, Assign

LEMMA CopyContents ==
  ASSUME Inv, Inv', NEW v \in Vectors, NEW w \in Vectors, NEW b \in Blocks,
         CopyConstruct(v, w, b) \/ CopyAssign(v, w, b)
  PROVE  Becomes(v, Elements(w), v)
<1> DEFINE s == Elements(w)
<1>1. /\ s \in Seq(Values) /\ Len(s) = obj[w].size /\ Len(s) <= Len(s)
      /\ obj[w].capacity \in Nat
      /\ IsHeap(w) => obj[w].capacity > InlineCapacity
  BY SourceProperties, SmallVectorAssumption
<1> HIDE DEF s
<1>2. CASE IsHeap(w)
  <2>1. ReplaceWithHeap(v, b, s, obj[w].capacity)
    BY <1>2 DEF CopyConstruct, CopyAssign, s
  <2> QED BY <1>1, <1>2, <2>1, ReplaceContents DEF s
<1>3. CASE ~IsHeap(w)
  <2>1. obj' = [o \in Objects |-> IF o = v THEN Inline(Len(s))
                                 ELSE IF o = v THEN Inline(0) ELSE obj[o]]
    BY <1>1, <1>3 DEF CopyConstruct, CopyAssign, Inv, TypeOK
  <2>2. CASE CopyAssign(v, w, b)
    <3>1. AssignInline(v, s) BY <1>3, <2>2 DEF CopyAssign, s
    <3> QED BY <1>1, <2>1, <3>1, AssignInlineContents DEF s
  <2>3. CASE CopyConstruct(v, w, b)
    <3>1. v \notin live /\ cells' = [cells EXCEPT ![v] = s]
      BY <1>3, <2>3 DEF CopyConstruct, s
    <3>2. cells' = [Vacated(v) EXCEPT ![v] = s]
      BY <3>1 DEF Vacated, Data, Inv, Vacant
    <3> QED BY <1>1, <2>1, <3>2, InlineContents DEF s
  <2> QED BY <2>2, <2>3
<1> QED BY <1>2, <1>3

LEMMA MoveContents ==
  ASSUME Inv, Inv', NEW v \in Vectors, NEW w \in Vectors, v # w, Take(v, w)
  PROVE  Becomes(v, Elements(w), w)
<1>1. v \in Objects /\ w \in Objects /\ Stores(v) BY DEF Objects, Stores
<1>2. CASE IsHeap(w)
  <2>1. /\ obj' = [obj EXCEPT ![v] = obj[w], ![w] = Empty(w)]
        /\ cells' = Vacated(v)
    BY <1>2 DEF Take, Emptied, Empty
  <2>2. Becomes(v, Contents(w), w) BY <1>1, <1>2, <2>1, TakeContents
  <2> QED BY <2>2 DEF Contents
<1>3. CASE ~IsHeap(w)
  <2>1. AssignInline(v, Elements(w)) BY <1>3 DEF Take
  <2>2. /\ Elements(w) \in Seq(Values)
        /\ obj[w] = Inline(Len(Elements(w)))
    BY <1>3, SourceProperties
  <2>3. obj' = [o \in Objects |-> IF o = v THEN Inline(Len(Elements(w)))
                                 ELSE IF o = w THEN Inline(0) ELSE obj[o]]
    BY <2>2 DEF Take, Emptied, Inv, TypeOK
  <2> QED BY <2>1, <2>2, <2>3, AssignInlineContents
<1> QED BY <1>2, <1>3

\* Every step is the step of the abstract vectors that its name says, or, when
\* it only reserves room, none at all.
LEMMA StepImplements ==
  ASSUME Inv, Inv', Next
  PROVE  [Abstract!Next]_(Abstract!vars)
<1> USE DEF Abstract!Set
<1>1. ASSUME NEW v \in Vectors, NEW s, Becomes(v, s, v)
      PROVE  Contained' = [Contained EXCEPT ![v] = s]
  BY <1>1, ValuesAfter DEF Objects
<1>2. \A v \in Vectors : v \in Objects /\ Contained[v] = Elements(v)
                         /\ Len(Elements(v)) = obj[v].size
  BY ElementsProperties DEF Contained, Objects
<1>3. ASSUME NEW v \in Vectors, Destroy(v) PROVE Abstract!Next
  <2>1. /\ v \in live /\ live' = live \ {v}
        /\ obj' = [obj EXCEPT ![v] = Inline(0)]
        /\ cells' = [Vacated(v) EXCEPT ![v] = << >>]
    BY <1>3 DEF Destroy
  <2>2. << >> \in Seq(Values) /\ Len(<< >>) = 0 BY EmptySeq
  <2>3. obj' = [o \in Objects |-> IF o = v THEN Inline(Len(<< >>))
                                 ELSE IF o = v THEN Inline(0) ELSE obj[o]]
    <3>1. Inline(Len(<< >>)) = Inline(0) BY <2>2
    <3> QED BY <2>1, <3>1 DEF Inv, TypeOK
  <2>4. Len(<< >>) <= Len(<< >>) BY <2>2
  <2>5. Becomes(v, << >>, v) BY <2>1, <2>2, <2>3, <2>4, InlineContents
  <2>6. Abstract!End(v) BY <1>1, <2>1, <2>5 DEF Abstract!End, Contained
  <2> QED BY <2>6 DEF Abstract!Next
<1>4. ASSUME NEW v \in Vectors, NEW n \in 0 .. MaxCapacity, v \in live,
             live' = live, Becomes(v, Padded(v, n), v)
      PROVE  Abstract!Next
  <2>1. Padded(v, n) =
          [i \in 1 .. n |-> IF i <= Len(Contained[v]) THEN Contained[v][i] ELSE Zero]
    BY <1>2 DEF Padded
  <2>2. Contained' = [Contained EXCEPT ![v] = Padded(v, n)] BY <1>1, <1>4
  <2>3. Abstract!Resize(v, n)
    BY <1>4, <2>1, <2>2 DEF Abstract!Resize, Contained
  <2> QED BY <2>3 DEF Abstract!Next
<1>5. ASSUME NEW v \in Vectors, Clear(v) PROVE Abstract!Next
  <2>1. 0 \in Nat /\ 0 <= obj[v].size /\ 0 \in 0 .. MaxCapacity
    BY SourceProperties, SmallVectorAssumption
  <2>2. SetSize(v, 0) /\ UNCHANGED cells BY <1>5 DEF Clear
  <2>3. Becomes(v, Padded(v, 0), v) BY <2>1, <2>2, ShrinkContents
  <2>4. v \in live /\ live' = live BY <2>2 DEF SetSize
  <2> QED BY <1>4, <2>1, <2>3, <2>4
<1>6. ASSUME NEW v \in Vectors, NEW w \in Vectors,
             MoveConstruct(v, w) \/ MoveAssign(v, w)
      PROVE  Abstract!Next
  <2>1. v # w /\ Take(v, w) BY <1>6 DEF MoveConstruct, MoveAssign
  <2>2. Becomes(v, Contained[w], w) BY <1>2, <2>1, MoveContents
  <2>3. Contained' = [Contained EXCEPT ![v] = Contained[w], ![w] = << >>]
    BY <1>2, <2>1, <2>2, ValuesAfter
  <2>4. CASE MoveConstruct(v, w)
    <3>1. Abstract!BeginMoved(v, w)
      BY <2>3, <2>4 DEF MoveConstruct, Abstract!BeginMoved, Contained
    <3> QED BY <3>1 DEF Abstract!Next
  <2>5. CASE MoveAssign(v, w)
    <3>1. Abstract!Move(v, w)
      BY <2>3, <2>5 DEF MoveAssign, Abstract!Move, Contained
    <3> QED BY <3>1 DEF Abstract!Next
  <2> QED BY <1>6, <2>4, <2>5
<1>7. ASSUME NEW v \in Vectors, NEW b \in Blocks, NEW s \in Ranges,
             Construct(v, b, s) \/ Assign(v, b, s)
      PROVE  Abstract!Next
  <2>1. Contained' = [Contained EXCEPT ![v] = s] BY <1>1, <1>7, RangeContents
  <2>2. Abstract!Begin(v, s) \/ Abstract!Assign(v, s)
    BY <1>7, <2>1
       DEF Construct, Assign, Abstract!Begin, Abstract!Assign, Contained
  <2> QED BY <2>2 DEF Abstract!Next
<1>8. ASSUME NEW v \in Vectors, NEW w \in Vectors, NEW b \in Blocks,
             CopyConstruct(v, w, b) \/ CopyAssign(v, w, b)
      PROVE  Abstract!Next
  <2>1. Contained' = [Contained EXCEPT ![v] = Contained[w]]
    BY <1>1, <1>2, <1>8, CopyContents
  <2>2. Abstract!BeginCopied(v, w) \/ Abstract!Copy(v, w)
    BY <1>8, <2>1
       DEF CopyConstruct, CopyAssign, Abstract!BeginCopied, Abstract!Begin,
           Abstract!Copy, Contained
  <2> QED BY <2>2 DEF Abstract!Next
<1>9. ASSUME NEW v \in Vectors, NEW b \in Blocks, NEW n \in 0 .. MaxCapacity,
             Reserve(v, b, n)
      PROVE  UNCHANGED Abstract!vars
  <2>1. /\ n \in Nat /\ n > InlineCapacity /\ Elements(v) \in Seq(Values)
    BY <1>9, SourceProperties, SmallVectorAssumption DEF Reserve
  <2>2. Becomes(v, Elements(v), v)
    BY <1>9, <2>1, ReplaceContents DEF Reserve
  <2>3. Contained' = Contained BY <1>1, <1>2, <2>2 DEF Contained
  <2> QED BY <1>9, <2>3 DEF Reserve, Abstract!vars, Contained
<1>10. ASSUME NEW v \in Vectors, NEW b \in Blocks, NEW n \in 0 .. MaxCapacity,
              Resize(v, b, n)
       PROVE  Abstract!Next
  BY <1>4, <1>10, ResizeContents
<1>11. ASSUME NEW v \in Vectors, NEW b \in Blocks, NEW x \in Values,
              PushBack(v, b, x)
       PROVE  Abstract!Next
  <2>1. Contained' = [Contained EXCEPT ![v] = Append(Contained[v], x)]
        /\ v \in live /\ live' = live
    BY <1>1, <1>2, <1>11, PushContents
  <2>2. Abstract!Push(v, x) BY <2>1 DEF Abstract!Push, Contained
  <2> QED BY <2>2 DEF Abstract!Next
<1>12. ASSUME NEW v \in Vectors, NEW b \in Blocks, NEW i \in 1 .. MaxCapacity,
              PushBackOwn(v, b, i)
       PROVE  Abstract!Next
  <2>1. i \in 1 .. obj[v].size
    BY <1>12, SourceProperties, SmallVectorAssumption DEF PushBackOwn
  <2>2. Referenced(v, i) \in Values
    BY <2>1, SourceProperties, ElementOfSeq DEF Referenced
  <2> QED BY <1>11, <1>12, <2>2 DEF PushBackOwn
<1>13. ASSUME NEW o \in Objects, NEW h \in Handles, o # h, IsHeap(o),
              o \in live \/ o \in Handles,
              obj' = [obj EXCEPT ![h] = obj[o], ![o] = Empty(o)],
              cells' = IF Stores(h) THEN Vacated(h) ELSE cells, live' = live
       PROVE  Abstract!Next
  <2>1. h \in Objects /\ Contained[o] = Contents(o)
    BY DEF Objects, Contained, Contents
  <2>2. Becomes(h, Contained[o], o) BY <1>13, <2>1, TakeContents
  <2>3. Contained' = [Contained EXCEPT ![h] = Contained[o], ![o] = << >>]
    BY <1>13, <2>1, <2>2, ValuesAfter
  <2>4. Abstract!HandOver(o, h)
    BY <1>13, <2>3 DEF Abstract!HandOver, Contained
  <2> QED BY <2>4 DEF Abstract!Next, Objects
<1>14. ASSUME NEW h \in Handles, Reset(h), UNCHANGED live,
              obj' = [obj EXCEPT ![h] = NoAllocation]
       PROVE  Abstract!Next
  <2>1. h \in Objects BY DEF Objects
  <2>2. Contained' = [Contained EXCEPT ![h] = << >>]
    BY <1>14, <2>1, ResetContents, ValuesAfter
  <2>3. Abstract!Drop(h) BY <1>14, <2>2 DEF Abstract!Drop, Contained
  <2> QED BY <2>3 DEF Abstract!Next
<1>15. ASSUME NEW v \in Vectors, NEW h \in Handles, ReleaseHeap(v, h)
       PROVE  Abstract!Next
  <2>1. v \in Objects /\ h \in Objects /\ v # h /\ IsHeap(v) /\ v \in live
        /\ live' = live /\ cells' = cells
    BY <1>15, SmallVectorAssumption DEF Objects, ReleaseHeap
  <2>2. obj' = [obj EXCEPT ![h] = obj[v], ![v] = Empty(v)]
    BY <1>15, <2>1 DEF ReleaseHeap, Empty, Inv, TypeOK
  <2>3. ~Stores(h)
    BY <1>15, SmallVectorAssumption
       DEF ReleaseHeap, IsHeap, Stores, NoAllocation
  <2> QED BY <1>13, <2>1, <2>2, <2>3
<1>16. ASSUME NEW g \in Handles, NEW h \in Handles, MoveAllocation(g, h)
       PROVE  Abstract!Next
  <2>1. /\ g \in Objects /\ g \notin Vectors /\ g # h
        /\ h \in Objects /\ h \notin Vectors
    BY <1>16, SmallVectorAssumption DEF Objects, MoveAllocation
  <2>2. /\ obj' = [obj EXCEPT ![g] = obj[h], ![h] = NoAllocation]
        /\ Reset(g) /\ live' = live
    BY <1>16 DEF MoveAllocation
  <2>3. CASE IsHeap(h)
    <3>1. IsHeap(g) <=> obj[g].heap # None BY <2>1 DEF Inv, Ownership
    <3>2. cells' = IF Stores(g) THEN Vacated(g) ELSE cells
      BY <2>1, <2>2, <3>1 DEF Reset, Stores, Vacated, Data
    <3>3. obj' = [obj EXCEPT ![g] = obj[h], ![h] = Empty(h)]
      BY <2>1, <2>2 DEF Empty
    <3> QED BY <1>13, <2>1, <2>2, <2>3, <3>2, <3>3
  <2>4. CASE ~IsHeap(h)
    <3>1. obj[h] = NoAllocation BY <2>4 DEF Inv, Vacant
    <3>2. obj' = [obj EXCEPT ![g] = NoAllocation]
      BY <2>1, <2>2, <3>1 DEF Inv, TypeOK
    <3> QED BY <1>14, <2>2, <3>2
  <2> QED BY <2>3, <2>4
<1>17. ASSUME NEW h \in Handles, DestroyAllocation(h) PROVE Abstract!Next
  BY <1>14, <1>17 DEF DestroyAllocation
<1> QED BY <1>3, <1>5, <1>6, <1>7, <1>8, <1>9, <1>10, <1>11, <1>12, <1>15, <1>16,
           <1>17 DEF Next

\* SmallVector implements the abstract vectors: whatever a vector does with
\* its storage, its elements change only as the operation on it says, those of
\* the other vectors and allocations never.
THEOREM ImplementsValues == Spec => ImplementsValueVectors
<1>1. Init => Abstract!Init
  <2> SUFFICES ASSUME Init PROVE Abstract!Init
    OBVIOUS
  <2>1. Inv BY InitInv
  <2>2. \A o \in Objects : Contents(o) = << >>
    <3> SUFFICES ASSUME NEW o \in Objects PROVE Contents(o) = << >>
      OBVIOUS
    <3>1. CASE o \in Vectors
      <4>1. Len(Elements(o)) = 0 /\ Elements(o) \in Seq(Values)
        BY <2>1, <3>1, ElementsProperties DEF Init, Inline
      <4> QED BY <3>1, <4>1, EmptySeq DEF Contents
    <3>2. CASE o \notin Vectors
      BY <3>2 DEF Init, NoAllocation, Contents, Handed
    <3> QED BY <3>1, <3>2
  <2> QED BY <2>2 DEF Init, Abstract!Init, Contents, Objects
<1>2. Inv /\ Inv' /\ [Next]_vars => [Abstract!Next]_(Abstract!vars)
  <2> SUFFICES ASSUME Inv, Inv', [Next]_vars
               PROVE  [Abstract!Next]_(Abstract!vars)
    OBVIOUS
  <2>1. CASE Next BY <2>1, StepImplements
  <2>2. CASE UNCHANGED vars
    <3>1. UNCHANGED Contained
      BY <2>2 DEF vars, Contained, Elements, Handed, Data, IsHeap
    <3> QED BY <2>2, <3>1 DEF vars, Abstract!vars, Contained
  <2> QED BY <2>1, <2>2
<1> QED BY <1>1, <1>2, InvHolds, PTL DEF Spec, ImplementsValueVectors, Abstract!Spec
=============================================================================
