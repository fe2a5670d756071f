---------------------------- MODULE SmallVector ----------------------------
(***************************************************************************)
(* SmallVector (src/common/small_vector.h): a vector that keeps up to      *)
(* InlineCapacity elements in itself and more of them in a heap block.     *)
(* It stores size_, capacity_ and a union; capacity_ alone says which      *)
(* member of the union is alive.  ReleaseHeap hands the block over to a    *)
(* HeapAllocation, which owns it from then on.                             *)
(*                                                                         *)
(* Elements are kept by place: in the vector itself or in a block.  Those  *)
(* past size_ stay there until they are overwritten or the place is given  *)
(* up.  Every operation allocates before it changes anything, so one that  *)
(* throws bad_alloc has no step.                                           *)
(***************************************************************************)
EXTENDS Naturals, Sequences

CONSTANTS
  Vectors, Handles,  \* SmallVectors and HeapAllocations
  Blocks, None,
  Values, Zero,      \* the element type, and T{}
  Ranges,            \* what callers construct and assign vectors from
  InlineCapacity,
  MaxSize,           \* std::allocator<T>::max_size()
  MaxCapacity        \* bound: the most elements the allocator has room for

\* No allocator grants max_size() elements: that is half the address space.
ASSUME SmallVectorAssumption ==
  /\ None \notin Blocks
  /\ Vectors \cap Handles = {} /\ (Vectors \cup Handles) \cap Blocks = {}
  /\ Zero \in Values /\ Ranges \subseteq Seq(Values)
  /\ InlineCapacity \in Nat \ {0} /\ MaxSize \in Nat /\ MaxCapacity \in Nat
  /\ InlineCapacity <= MaxCapacity /\ MaxCapacity < MaxSize

VARIABLES
  live,       \* vectors between construction and destruction
  obj,        \* size_, capacity_ and heap pointer of a vector or allocation
  alloc,      \* elements that the allocator gave each block, 0 when free
  cells       \* elements constructed at each place

vars == <<live, obj, alloc, cells>>

Objects == Vectors \cup Handles

\* size_ and capacity_ of a vector with n elements in itself or in block b,
\* and of an empty HeapAllocation.
Inline(n) == [size |-> n, capacity |-> InlineCapacity, heap |-> None]
OnHeap(b, n, c) == [size |-> n, capacity |-> c, heap |-> b]
NoAllocation == [size |-> 0, capacity |-> 0, heap |-> None]

Init ==
  /\ live = {}
  /\ obj = [o \in Objects |-> IF o \in Vectors THEN Inline(0) ELSE NoAllocation]
  /\ alloc = [b \in Blocks |-> 0]
  /\ cells = [p \in Vectors \cup Blocks |-> << >>]

-----------------------------------------------------------------------------
IsHeap(v) == obj[v].capacity > InlineCapacity
Data(v) == IF IsHeap(v) THEN obj[v].heap ELSE v
Elements(v) == SubSeq(cells[Data(v)], 1, obj[v].size)

\* The allocator gives a free block of c elements, or nothing at all.
Grants(b, c) == alloc[b] = 0 /\ c <= MaxCapacity

\* s written over the first elements of what is there already.
Over(s, there) == s \o SubSeq(there, Len(s) + 1, Len(there))

\* v gives up its block, or its inline storage, and all that was in it.
FreedNever(v) == alloc
Freed(v) == IF IsHeap(v) THEN [alloc EXCEPT ![obj[v].heap] = 0] ELSE alloc
Vacated(v) == [cells EXCEPT ![Data(v)] = << >>]

\* AssignInline: a heap vector is switched to inline storage first.
AssignInline(v, s) ==
  /\ alloc' = Freed(v)
  /\ cells' = IF IsHeap(v) THEN [Vacated(v) EXCEPT ![v] = s]
              ELSE [cells EXCEPT ![v] = Over(s, cells[v])]

\* ReplaceWithHeap, Reallocate: a new block of c elements is filled with s,
\* and only then does v give up the old one.
ReplaceWithHeap(v, b, s, c) ==
  /\ Grants(b, c)
  /\ obj' = [obj EXCEPT ![v] = OnHeap(b, Len(s), c)]
  /\ alloc' = [Freed(v) EXCEPT ![b] = c]
  /\ cells' = [Vacated(v) EXCEPT ![b] = s]

\* GrowForAppend: half as much again, at least one more, at most max_size().
GrownByHalf(c) == IF c \div 2 > MaxSize - c THEN MaxSize ELSE c + c \div 2
Grown(c) ==
  LET increment == IF c \div 2 = 0 THEN 1 ELSE c \div 2
  IN  IF increment > MaxSize - c THEN MaxSize ELSE c + increment

-----------------------------------------------------------------------------
\* A count, a filled count or a forward range is in the vector if it fits,
\* else in a block of exactly that many elements.  An input range is appended
\* to a replacement that is moved in, by the steps that do that.
Construct(v, b, s) ==
  /\ v \notin live
  /\ live' = live \cup {v}
  /\ \/ /\ Len(s) <= InlineCapacity
        /\ obj' = [obj EXCEPT ![v] = Inline(Len(s))]
        /\ cells' = [cells EXCEPT ![v] = s]
        /\ UNCHANGED alloc
     \/ Len(s) > InlineCapacity /\ ReplaceWithHeap(v, b, s, Len(s))

\* A copy of a heap vector has its capacity, filled or not.
CopyConstruct(v, w, b) ==
  /\ v \notin live /\ w \in live
  /\ live' = live \cup {v}
  /\ \/ /\ ~IsHeap(w)
        /\ obj' = [obj EXCEPT ![v] = Inline(obj[w].size)]
        /\ cells' = [cells EXCEPT ![v] = Elements(w)]
        /\ UNCHANGED alloc
     \/ IsHeap(w) /\ ReplaceWithHeap(v, b, Elements(w), obj[w].capacity)

\* v takes what w has: its block as it is, or a copy of its inline elements.
\* The source is an inline vector of no elements either way.
Emptied(w) == Inline(0)
Take(v, w) ==
  /\ obj' = [obj EXCEPT ![v] = obj[w], ![w] = Emptied(w)]
  /\ \/ /\ IsHeap(w)
        /\ alloc' = Freed(v)
        /\ cells' = Vacated(v)
     \/ ~IsHeap(w) /\ AssignInline(v, Elements(w))

MoveConstruct(v, w) ==
  /\ v \notin live /\ w \in live
  /\ live' = live \cup {v}
  /\ Take(v, w)

Destroy(v) ==
  /\ v \in live
  /\ live' = live \ {v}
  /\ obj' = [obj EXCEPT ![v] = Inline(0)]
  /\ alloc' = Freed(v)
  /\ cells' = [Vacated(v) EXCEPT ![v] = << >>]

-----------------------------------------------------------------------------
\* Assignments; a vector assigned to itself stays as it is.
CopyAssign(v, w, b) ==
  /\ v \in live /\ w \in live /\ v # w
  /\ \/ /\ ~IsHeap(w)
        /\ obj' = [obj EXCEPT ![v] = Inline(obj[w].size)]
        /\ AssignInline(v, Elements(w))
     \/ IsHeap(w) /\ ReplaceWithHeap(v, b, Elements(w), obj[w].capacity)
  /\ UNCHANGED live

MoveAssign(v, w) ==
  /\ v \in live /\ w \in live /\ v # w
  /\ Take(v, w)
  /\ UNCHANGED live

\* assign: constructs a replacement and moves it in.
Assign(v, b, s) ==
  /\ v \in live
  /\ \/ /\ Len(s) <= InlineCapacity
        /\ obj' = [obj EXCEPT ![v] = Inline(Len(s))]
        /\ AssignInline(v, s)
     \/ Len(s) > InlineCapacity /\ ReplaceWithHeap(v, b, s, Len(s))
  /\ UNCHANGED live

-----------------------------------------------------------------------------
\* Operations on the elements.
SetSize(v, n) ==
  /\ v \in live
  /\ obj' = [obj EXCEPT ![v].size = n]
  /\ UNCHANGED <<live, alloc>>

Clear(v) == SetSize(v, 0) /\ UNCHANGED cells

Reserve(v, b, c) ==
  /\ v \in live /\ c > obj[v].capacity
  /\ ReplaceWithHeap(v, b, Elements(v), c)
  /\ UNCHANGED live

\* The elements, and T{} in each place up to n.
PaddedStale(v, n) ==
  LET there == cells[Data(v)]
  IN  [i \in 1 .. n |-> IF i <= Len(there) THEN there[i] ELSE Zero]
Padded(v, n) ==
  [i \in 1 .. n |-> IF i <= obj[v].size THEN Elements(v)[i] ELSE Zero]

Resize(v, b, n) ==
  \/ n <= obj[v].size /\ SetSize(v, n) /\ UNCHANGED cells
  \/ /\ obj[v].size < n /\ n <= obj[v].capacity
     /\ SetSize(v, n)
     /\ cells' = [cells EXCEPT ![Data(v)] = Over(Padded(v, n), @)]
  \/ /\ v \in live /\ n > obj[v].capacity
     /\ ReplaceWithHeap(v, b, Padded(v, n), n)
     /\ UNCHANGED live

\* A full vector grows first, then the element is constructed behind the
\* others.
PushBack(v, b, x) ==
  \/ /\ obj[v].size < obj[v].capacity
     /\ SetSize(v, obj[v].size + 1)
     /\ cells' = [cells EXCEPT ![Data(v)] = Over(Append(Elements(v), x), @)]
  \/ /\ v \in live /\ obj[v].size = obj[v].capacity
     /\ ReplaceWithHeap(v, b, Append(Elements(v), x), Grown(obj[v].capacity))
     /\ UNCHANGED live

\* push_back of a vector's own element: growing gives up the place that the
\* reference names, so the element is saved before.
ReferencedLate(v, i) ==
  IF obj[v].size = obj[v].capacity THEN Zero ELSE Elements(v)[i]
Referenced(v, i) == Elements(v)[i]

PushBackOwn(v, b, i) == i <= obj[v].size /\ PushBack(v, b, Referenced(v, i))

-----------------------------------------------------------------------------
\* HeapAllocation.  ReleaseHeap of an inline vector returns an empty one and
\* leaves the vector alone.
ReleaseHeap(v, h) ==
  /\ v \in live /\ IsHeap(v) /\ obj[h] = NoAllocation
  /\ obj' = [obj EXCEPT ![v] = Inline(0), ![h] = obj[v]]
  /\ UNCHANGED <<live, alloc, cells>>

\* Reset, and the move that resets its target first.
Reset(h) ==
  LET b == obj[h].heap
  IN  /\ alloc' = IF b = None THEN alloc ELSE [alloc EXCEPT ![b] = 0]
      /\ cells' = IF b = None THEN cells ELSE [cells EXCEPT ![b] = << >>]

MoveAllocation(g, h) ==
  /\ g # h
  /\ obj' = [obj EXCEPT ![g] = obj[h], ![h] = NoAllocation]
  /\ Reset(g)
  /\ UNCHANGED live

DestroyAllocation(h) ==
  /\ obj' = [obj EXCEPT ![h] = NoAllocation]
  /\ Reset(h)
  /\ UNCHANGED live

Next ==
  \/ \E v \in Vectors :
       \/ Destroy(v) \/ Clear(v)
       \/ \E w \in Vectors : MoveConstruct(v, w) \/ MoveAssign(v, w)
       \/ \E h \in Handles : ReleaseHeap(v, h)
       \/ \E b \in Blocks :
            \/ \E s \in Ranges : Construct(v, b, s) \/ Assign(v, b, s)
            \/ \E w \in Vectors : CopyConstruct(v, w, b) \/ CopyAssign(v, w, b)
            \/ \E n \in 0 .. MaxCapacity : Reserve(v, b, n) \/ Resize(v, b, n)
            \/ \E x \in Values : PushBack(v, b, x)
            \/ \E i \in 1 .. MaxCapacity : PushBackOwn(v, b, i)
  \/ \E h \in Handles :
       DestroyAllocation(h) \/ \E g \in Handles : MoveAllocation(g, h)

Spec == Init /\ [][Next]_vars

-----------------------------------------------------------------------------
TypeOK ==
  /\ live \subseteq Vectors
  /\ obj \in [Objects -> [size : 0 .. MaxCapacity,
                          capacity : {0} \cup InlineCapacity .. MaxCapacity,
                          heap : Blocks \cup {None}]]
  /\ \A v \in Vectors : obj[v].capacity # 0
  /\ alloc \in [Blocks -> 0 .. MaxCapacity]
  /\ cells \in [Vectors \cup Blocks -> Seq(Values)]

\* The alive member of the union is the one that capacity_ says: a pointer
\* exactly when the capacity is more than inline, and then to a block of that
\* capacity, as deallocate needs; every element below size_ has been
\* constructed there, and none behind the capacity (growth from the smallest
\* capacities, moved-from and switched vectors:
\* src/common/small_vector.h:322, 485-537).
MemberAlive ==
  /\ \A o \in Objects : IsHeap(o) <=> obj[o].heap # None
  /\ \A o \in Objects : IsHeap(o) => alloc[obj[o].heap] = obj[o].capacity
  /\ \A o \in Objects :
       IsHeap(o) \/ o \in Vectors =>
         /\ obj[o].size <= Len(cells[Data(o)])
         /\ Len(cells[Data(o)]) <= obj[o].capacity

\* Nothing is freed twice and nothing leaks: every block that is allocated
\* belongs to exactly one vector or HeapAllocation, over every sequence of
\* copies, moves, assignments, growth and release.
OneOwner ==
  \A b \in Blocks :
    LET owners == {o \in Objects : obj[o].heap = b}
    IN  IF alloc[b] = 0 THEN owners = {}
        ELSE \E o \in owners : owners = {o}

\* push_back of an element of the vector itself appends the value that the
\* element had, also when the vector gives up its storage on the way
\* (src/common/small_vector.h:272-282).
PushBackKeepsArgument ==
  [][\A v \in Vectors, b \in Blocks, i \in 1 .. MaxCapacity :
       PushBackOwn(v, b, i) => Elements(v)' = Append(Elements(v), Elements(v)[i])]_vars

\* What users see of it is the abstract ValueVectors: no operation changes
\* the elements of another vector, stale elements never come back, and a
\* moved-from vector is empty.
Handed(h) ==
  LET b == obj[h].heap
  IN  IF b = None THEN << >> ELSE SubSeq(cells[b], 1, obj[h].size)

Abstract == INSTANCE ValueVectors
  WITH value <- [o \in Objects |-> IF o \in Vectors THEN Elements(o) ELSE Handed(o)]
ImplementsValueVectors == Abstract!Spec
=============================================================================
