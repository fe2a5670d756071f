------------------------ MODULE ShapeStridesStorage ------------------------
(***************************************************************************)
(* ShapeStridesStorage (src/common/shape_strides_storage.h): the shape and *)
(* the strides of a TensorView.  Both are inline when both fit; otherwise  *)
(* both are on the heap, in one combined block, or split over the blocks   *)
(* of two SmallVectors that were moved in.  The sizes alone say whether    *)
(* the heap member of the union is alive, and its allocation whether the   *)
(* heap is combined.  A storage is never assigned to.                      *)
(*                                                                         *)
(* It is composed with the SmallVectors that it is built from.  Vectors of *)
(* shapes and of strides are of one type here, and a combined block counts *)
(* elements; the sizes of the two element types only matter to the byte    *)
(* arithmetic of CombinedAllocation, which is not modelled.                *)
(***************************************************************************)
EXTENDS SmallVector

CONSTANTS
  Storages,
  Modulus     \* 2^w for the width of Stride: values are 0 .. Modulus - 1

ASSUME StorageAssumption ==
  /\ Storages \cap Objects = {} /\ Storages \cap Blocks = {}
  /\ Modulus \in Nat \ {0, 1} /\ Values = 0 .. Modulus - 1

VARIABLES
  built,      \* storages between construction and destruction
  sizes,      \* shape_size_ and strides_size_
  inlined,    \* elements written to the two inline arrays
  heap        \* heap_storage, or NoHeap while inline_storage is alive

storageVars == <<built, sizes, inlined, heap>>
allVars == <<vars, storageVars>>

\* A pointer to elements: a block and how many elements come before.
HeapStorage(allocation, shape, strides, shapeCapacity, stridesCapacity) ==
  [allocation |-> allocation, shape |-> shape, strides |-> strides,
   shapeCapacity |-> shapeCapacity, stridesCapacity |-> stridesCapacity]
NoHeap == HeapStorage(None, <<None, 0>>, <<None, 0>>, 0, 0)
Sizes(n, m) == [shape |-> n, strides |-> m]
Metadata(s, r) == [shape |-> s, strides |-> r]
NoMetadata == Metadata(<< >>, << >>)

StorageInit ==
  /\ Init
  /\ built = {}
  /\ sizes = [t \in Storages |-> Sizes(0, 0)]
  /\ inlined = [t \in Storages |-> NoMetadata]
  /\ heap = [t \in Storages |-> NoHeap]

-----------------------------------------------------------------------------
Fits(n, m) == n <= InlineCapacity /\ m <= InlineCapacity
IsInline(t) == Fits(sizes[t].shape, sizes[t].strides)
IsCombined(t) == ~IsInline(t) /\ heap[t].allocation # None

\* shape() and strides().
From(pointer, n) == SubSeq(cells[pointer[1]], pointer[2] + 1, pointer[2] + n)
Shape(t) == IF IsInline(t) THEN SubSeq(inlined[t].shape, 1, sizes[t].shape)
            ELSE From(heap[t].shape, sizes[t].shape)
Strides(t) == IF IsInline(t) THEN SubSeq(inlined[t].strides, 1, sizes[t].strides)
              ELSE From(heap[t].strides, sizes[t].strides)

\* FillDefaultStrides, in the width of a stride.
DefaultStridesOwn(s) ==
  LET strides[i \in 1 .. Len(s)] ==
        IF i = Len(s) THEN 1 ELSE (strides[i + 1] * s[i]) % Modulus
  IN  strides
DefaultStrides(s) ==
  LET strides[i \in 1 .. Len(s)] ==
        IF i = Len(s) THEN 1 ELSE (strides[i + 1] * s[i + 1]) % Modulus
  IN  strides

\* Initialize: s and r are written inline, or into one new block.
Initialize(t, b, s, r) ==
  /\ sizes' = [sizes EXCEPT ![t] = Sizes(Len(s), Len(r))]
  /\ \/ /\ Fits(Len(s), Len(r))
        /\ inlined' = [inlined EXCEPT ![t] = Metadata(s, r)]
        /\ UNCHANGED <<heap, alloc, cells>>
     \/ /\ ~Fits(Len(s), Len(r)) /\ alloc[b] = 0
        /\ heap' = [heap EXCEPT
             ![t] = HeapStorage(b, <<b, 0>>, <<b, Len(s)>>, 0, 0)]
        /\ alloc' = [alloc EXCEPT ![b] = Len(s) + Len(r)]
        /\ cells' = [cells EXCEPT ![b] = s \o r]
        /\ inlined' = [inlined EXCEPT ![t] = NoMetadata]

\* ActivateSplit of block b with capacity c for the shape, d with e for the
\* strides.
ActivateSplitSwapped(t, n, m, b, c, d, e) ==
  /\ sizes' = [sizes EXCEPT ![t] = Sizes(n, m)]
  /\ heap' = [heap EXCEPT ![t] = HeapStorage(None, <<d, 0>>, <<b, 0>>, e, c)]
  /\ inlined' = [inlined EXCEPT ![t] = NoMetadata]
ActivateSplitSizes(t, n, m, b, c, d, e) ==
  /\ sizes' = [sizes EXCEPT ![t] = Sizes(n, m)]
  /\ heap' = [heap EXCEPT ![t] = HeapStorage(None, <<b, 0>>, <<d, 0>>, n, m)]
  /\ inlined' = [inlined EXCEPT ![t] = NoMetadata]
ActivateSplit(t, n, m, b, c, d, e) ==
  /\ sizes' = [sizes EXCEPT ![t] = Sizes(n, m)]
  /\ heap' = [heap EXCEPT ![t] = HeapStorage(None, <<b, 0>>, <<d, 0>>, c, e)]
  /\ inlined' = [inlined EXCEPT ![t] = NoMetadata]

Begin(t) == t \notin built /\ built' = built \cup {t}

-----------------------------------------------------------------------------
\* Constructors.

\* From ranges, which may be vectors, or as a copy of another storage; an
\* input range is a vector first, which is then moved in.
InitializeRanges(t, b, s, r) ==
  Begin(t) /\ Initialize(t, b, s, r) /\ UNCHANGED <<live, obj>>

CopyStorage(t, u, b) == u \in built /\ InitializeRanges(t, b, Shape(u), Strides(u))

\* Both vectors moved in: their blocks are taken when both have one and the
\* sizes do not fit inline; else they are copied and stay as they are.
Takes(v, w) == ~Fits(obj[v].size, obj[w].size) /\ IsHeap(v) /\ IsHeap(w)
ReleasedNot(v) == obj[v]
Released(v) == Inline(0)

InitializeOwned(t, v, w, b) ==
  /\ {v, w} \subseteq live /\ v # w
  /\ \/ ~Takes(v, w) /\ InitializeRanges(t, b, Elements(v), Elements(w))
     \/ /\ Takes(v, w) /\ Begin(t)
        /\ ActivateSplit(t, obj[v].size, obj[w].size,
             obj[v].heap, obj[v].capacity, obj[w].heap, obj[w].capacity)
        /\ obj' = [obj EXCEPT ![v] = Released(v), ![w] = Released(w)]
        /\ UNCHANGED <<live, alloc, cells>>

\* The vectors v of a shape and w of strides, of which m is moved in and the
\* other copied: when neither fits inline the block of m is taken, beside one
\* of the same capacity as the other has.
TakesOne(v, w) == obj[v].size > InlineCapacity /\ obj[w].size > InlineCapacity
Other(v, w, m) == IF m = v THEN w ELSE v
BlockOf(o, m, b) == IF o = m THEN obj[o].heap ELSE b

InitializeMixed(t, v, w, m, b) ==
  /\ {v, w} \subseteq live /\ v # w /\ m \in {v, w}
  /\ \/ ~TakesOne(v, w) /\ InitializeRanges(t, b, Elements(v), Elements(w))
     \/ /\ TakesOne(v, w) /\ Begin(t) /\ Grants(b, obj[Other(v, w, m)].capacity)
        /\ alloc' = [alloc EXCEPT ![b] = obj[Other(v, w, m)].capacity]
        /\ cells' = [cells EXCEPT ![b] = Elements(Other(v, w, m))]
        /\ obj' = [obj EXCEPT ![m] = Released(m)]
        /\ ActivateSplit(t, obj[v].size, obj[w].size,
             BlockOf(v, m, b), obj[v].capacity, BlockOf(w, m, b), obj[w].capacity)
        /\ UNCHANGED live

\* Default strides of a range, and of a vector moved in: the strides get a
\* block of their own when the shape does not fit inline.
InitializeDefaultStrides(t, b, s) ==
  InitializeRanges(t, b, s, DefaultStrides(s))

MoveDefaultStrides(t, v, b) ==
  /\ v \in live
  /\ \/ /\ obj[v].size <= InlineCapacity
        /\ InitializeDefaultStrides(t, b, Elements(v))
     \/ /\ obj[v].size > InlineCapacity /\ Begin(t) /\ Grants(b, obj[v].size)
        /\ alloc' = [alloc EXCEPT ![b] = obj[v].size]
        /\ cells' = [cells EXCEPT ![b] = DefaultStrides(Elements(v))]
        /\ obj' = [obj EXCEPT ![v] = Released(v)]
        /\ ActivateSplit(t, obj[v].size, obj[v].size,
             obj[v].heap, obj[v].capacity, b, obj[v].size)
        /\ UNCHANGED live

\* MoveConstructFrom: the source is left inline and empty.
MoveStorage(t, u) ==
  /\ u \in built /\ Begin(t)
  /\ sizes' = [sizes EXCEPT ![t] = sizes[u], ![u] = Sizes(0, 0)]
  /\ \/ /\ IsInline(u)
        /\ inlined' = [inlined EXCEPT ![t] = Metadata(Shape(u), Strides(u))]
        /\ UNCHANGED heap
     \/ /\ ~IsInline(u)
        /\ heap' = [heap EXCEPT ![t] = heap[u], ![u] = NoHeap]
        /\ inlined' = [inlined EXCEPT ![t] = NoMetadata]
  /\ UNCHANGED vars

\* ReleaseStorage.
FreeableShape(t) ==
  IF IsInline(t) THEN {}
  ELSE IF IsCombined(t) THEN {heap[t].allocation} ELSE {heap[t].shape[1]}
Freeable(t) ==
  IF IsInline(t) THEN {}
  ELSE IF IsCombined(t) THEN {heap[t].allocation}
  ELSE {heap[t].shape[1], heap[t].strides[1]}

DestroyStorage(t) ==
  /\ t \in built
  /\ built' = built \ {t}
  /\ alloc' = [b \in Blocks |-> IF b \in Freeable(t) THEN 0 ELSE alloc[b]]
  /\ cells' = [p \in Vectors \cup Blocks |->
                 IF p \in Freeable(t) THEN << >> ELSE cells[p]]
  /\ sizes' = [sizes EXCEPT ![t] = Sizes(0, 0)]
  /\ inlined' = [inlined EXCEPT ![t] = NoMetadata]
  /\ heap' = [heap EXCEPT ![t] = NoHeap]
  /\ UNCHANGED <<live, obj>>

\* The steps of a vector that reach each size, capacity and contents that it
\* may be moved in with, and end it; SmallVector has them all.
VectorStep ==
  /\ \E v \in Vectors :
       \/ Destroy(v) \/ Clear(v)
       \/ \E b \in Blocks :
            \/ \E s \in Ranges : Construct(v, b, s)
            \/ \E c \in 0 .. MaxCapacity : Reserve(v, b, c)
  /\ UNCHANGED storageVars

StorageNext ==
  \/ VectorStep
  \/ \E t \in Storages :
       \/ DestroyStorage(t)
       \/ \E u \in Storages : MoveStorage(t, u)
       \/ \E b \in Blocks :
            \/ \E u \in Storages : CopyStorage(t, u, b)
            \/ \E s, r \in Ranges : InitializeRanges(t, b, s, r)
            \/ \E s \in Ranges : InitializeDefaultStrides(t, b, s)
            \/ \E v \in Vectors : MoveDefaultStrides(t, v, b)
            \/ \E v, w \in Vectors :
                 \/ InitializeOwned(t, v, w, b)
                 \/ \E m \in {v, w} : InitializeMixed(t, v, w, m, b)

StorageSpec == StorageInit /\ [][StorageNext]_allVars

-----------------------------------------------------------------------------
\* Each variable keeps its type; sizes fit what the block holds.
StorageTypeOK ==
  /\ built \subseteq Storages
  /\ sizes \in [Storages -> [shape : Nat, strides : Nat]]
  /\ inlined \in [Storages -> [shape : Seq(Values), strides : Seq(Values)]]
  /\ \A t \in Storages :
       /\ heap[t].allocation \in Blocks \cup {None}
       /\ heap[t].shape[1] \in Blocks \cup {None}
       /\ heap[t].strides[1] \in Blocks \cup {None}
  /\ alloc \in [Blocks -> Nat]
  /\ cells \in [Vectors \cup Blocks -> Seq(Values)]

\* Every block that is allocated belongs to one vector, or to one storage that
\* frees all it has: the sizes of a storage choose the member of the union
\* that was constructed last, so that nothing leaks and nothing is freed
\* twice after a move, a release into a storage, or an early return to
\* copying (src/common/shape_strides_storage.h:238-244, 311-358, 427-483).
BlocksOf(o) ==
  IF o \in Storages THEN Freeable(o) ELSE {obj[o].heap} \ {None}
OneStorageOwner ==
  /\ \A t \in Storages :
       IsInline(t) <=> heap[t] = NoHeap
  /\ \A b \in Blocks :
       LET owners == {o \in Vectors \cup built : b \in BlocksOf(o)}
       IN  IF alloc[b] = 0 THEN owners = {} ELSE \E o \in owners : owners = {o}

\* deallocate is told the number of elements that was allocated: the capacity
\* of the vector that a block came from, never the size taken from it.
CapacitiesKept ==
  \A t \in built :
    ~IsInline(t) /\ ~IsCombined(t) =>
      /\ alloc[heap[t].shape[1]] = heap[t].shapeCapacity
      /\ alloc[heap[t].strides[1]] = heap[t].stridesCapacity

\* The views of a storage stay what they are from its construction until it is
\* moved from or destroyed, whatever becomes of the vectors it took blocks
\* from; a move hands both over to the new storage and leaves the old empty.
Allocated(t) == \A b \in Freeable(t) : alloc[b] # 0
MetadataStable ==
  [][\A t \in built \cap built' :
       \/ Allocated(t)' /\ Shape(t)' = Shape(t) /\ Strides(t)' = Strides(t)
       \/ /\ sizes'[t] = Sizes(0, 0)
          /\ \E u \in built' \ built :
               Shape(u)' = Shape(t) /\ Strides(u)' = Strides(t)]_allVars

\* A new storage shows the arguments of the constructor that built it, by
\* whichever way they came to its memory and in whichever of the layouts:
\* ranges and vectors as they are, the shape as the shape and the strides as
\* the strides, another storage as it was, and default strides such that each
\* is the product of the dimensions behind it, in the width of a stride
\* (src/common/shape_strides_storage.h:61-103).
Behind(s, i) ==
  LET product[k \in 0 .. Len(s) - i] ==
        IF k = 0 THEN 1 ELSE product[k - 1] * s[i + k]
  IN  product[Len(s) - i] % Modulus
RowMajor(s, r) ==
  Len(r) = Len(s) /\ \A i \in 1 .. Len(s) : r[i] = Behind(s, i)

Shows(t, s, r) == Shape(t)' = s /\ Strides(t)' = r
ShowsDefault(t, s) == Shape(t)' = s /\ RowMajor(s, Strides(t)')

AsGiven(t, b) ==
  /\ \A s, r \in Ranges : InitializeRanges(t, b, s, r) => Shows(t, s, r)
  /\ \A s \in Ranges : InitializeDefaultStrides(t, b, s) => ShowsDefault(t, s)
  /\ \A u \in Storages :
       CopyStorage(t, u, b) \/ MoveStorage(t, u) => Shows(t, Shape(u), Strides(u))
  /\ \A v \in Vectors : MoveDefaultStrides(t, v, b) => ShowsDefault(t, Elements(v))
  /\ \A v, w \in Vectors :
       \/ InitializeOwned(t, v, w, b)
       \/ \E m \in {v, w} : InitializeMixed(t, v, w, m, b)
       => Shows(t, Elements(v), Elements(w))
BuiltAsGiven ==
  [][\A t \in built' \ built, b \in Blocks : AsGiven(t, b)]_allVars
=============================================================================
