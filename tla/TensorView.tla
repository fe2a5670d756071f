---------------------------- MODULE TensorView ----------------------------
(***************************************************************************)
(* TensorView (src/tensor_view.h, src/tensor_view.cc): a pointer, a shape  *)
(* and strides that describe elements of somebody else's memory.           *)
(*                                                                         *)
(* A program constructs a view, derives further ones from it by indexing   *)
(* and transposition, and asks what they look like.  Derived views own     *)
(* copies of the metadata (module ShapeStridesStorage), so that one view   *)
(* at a time is enough.  Pointers are numbers of bytes below Modulus and   *)
(* are computed in that width; dimensions are counted from 0 as in the     *)
(* code.                                                                   *)
(***************************************************************************)
EXTENDS Integers, Sequences, FiniteSets

CONSTANTS
  Pointers,      \* where callers let views begin
  DataTypes,
  SizeOf,        \* kDataTypeToSize
  Shapes,        \* shapes of views with default strides
  Stridings,     \* shape and strides of views that are given both
  Modulus,       \* 2^w for the width of a pointer, a size and a stride
  None

\* One stride for each dimension.
Views ==
  {v \in [data : 0 .. Modulus - 1, shape : Seq(Nat), strides : Seq(Int), dtype : DataTypes] :
     Len(v.strides) = Len(v.shape)}

ASSUME TensorViewAssumption ==
  /\ Modulus \in Nat \ {0, 1} /\ Pointers \subseteq 0 .. Modulus - 1
  /\ SizeOf \in [DataTypes -> Nat \ {0}]
  /\ Shapes \subseteq Seq(Nat)
  /\ Stridings \subseteq [shape : Seq(Nat), strides : Seq(Int)]
  /\ \A s \in Stridings : Len(s.shape) = Len(s.strides)

VARIABLES
  view,     \* the view that the program has, or None
  extent,   \* history: the elements of the view it constructed
  origin    \* history: strides are "default", "given" or "transposed", or
            \* dimensions were "cut" off by a transposition

vars == <<view, extent, origin>>

Init == view = None /\ extent = {} /\ origin = "default"

-----------------------------------------------------------------------------
\* The elements of a view, as its pointer, shape and strides define them.
Ndim(v) == Len(v.shape)

Indices(v) ==
  {J \in [1 .. Ndim(v) -> UNION {0 .. v.shape[d] - 1 : d \in 1 .. Ndim(v)}] :
     \A d \in 1 .. Ndim(v) : J[d] < v.shape[d]}

Address(v, J) ==
  LET offset[d \in 0 .. Ndim(v)] ==
        IF d = 0 THEN 0 ELSE offset[d - 1] + J[d] * v.strides[d]
  IN  (v.data + offset[Ndim(v)] * SizeOf[v.dtype]) % Modulus

Elements(v) == {Address(v, J) : J \in Indices(v)}

-----------------------------------------------------------------------------
\* Accessors: a negative index counts from the end.
EffectiveIndexRaw(index, size) == index
EffectiveIndex(index, size) == IF index < 0 THEN index + size ELSE index

Size(v, index) == v.shape[EffectiveIndex(index, Ndim(v)) + 1]
Stride(v, index) == v.strides[EffectiveIndex(index, Ndim(v)) + 1]

Numel(v) ==
  LET result[d \in 0 .. Ndim(v)] ==
        IF d = 0 THEN 1 ELSE (result[d - 1] * v.shape[d]) % Modulus
  IN  result[Ndim(v)]

\* Each stride is what the dimension behind it takes; sizes and strides are
\* compared without sign.
Nested(v, i) ==
  /\ ~(Size(v, i) = 1 /\ Stride(v, i) = 0)
  /\ (Stride(v, i) - Size(v, i + 1) * Stride(v, i + 1)) % Modulus = 0

MergeableShort(v, start, end) == \A i \in start .. end - 2 : Nested(v, i)
MergeableOwnSize(v, start, end) ==
  \A i \in start .. end - 1 : Stride(v, i) = Size(v, i) * Stride(v, i + 1)
IsMergeable(v, start, end) ==
  start = end \/ \A i \in start .. end - 1 : Nested(v, i)

IsContiguous(v) ==
  \/ Ndim(v) = 0
  \/ IsMergeable(v, 0, Ndim(v) - 1) /\ Stride(v, Ndim(v) - 1) = 1

\* any_of visits each size with a counter of its own into both sequences,
\* which is advanced only when the size it stands at is not 1.
HasBroadcastAny(v) == \E d \in 1 .. Ndim(v) : v.strides[d] = 0
HasBroadcastDim(v) ==
  LET at[visit \in 0 .. Ndim(v)] ==
        IF visit = 0 THEN 1
        ELSE IF v.shape[at[visit - 1]] # 1 THEN at[visit - 1] + 1
        ELSE at[visit - 1]
  IN  \E visit \in 0 .. Ndim(v) - 1 :
        v.shape[at[visit]] # 1 /\ v.strides[at[visit]] = 0

-----------------------------------------------------------------------------
\* A product in the width of a stride, which has a sign.
Wrapped(x) == ((x + (Modulus \div 2)) % Modulus) - (Modulus \div 2)

DefaultStrides(shape) ==
  LET strides[d \in 1 .. Len(shape)] ==
        IF d = Len(shape) THEN 1 ELSE Wrapped(strides[d + 1] * shape[d + 1])
  IN  strides

Begin(v) == view = None /\ view' = v /\ extent' = Elements(v)

Construct(data, shape, dtype) ==
  /\ Begin([data |-> data, shape |-> shape, strides |-> DefaultStrides(shape),
            dtype |-> dtype])
  /\ origin' = "default"

ConstructStrided(data, s, dtype) ==
  /\ Begin([data |-> data, shape |-> s.shape, strides |-> s.strides,
            dtype |-> dtype])
  /\ origin' = "given"

\* operator[]: drops the leading dimension.  The product of the index with
\* the size of an element is unsigned, and wraps around where it is negative.
OffsetUnscaled(v, index) ==
  (EffectiveIndex(index, v.shape[1]) * v.strides[1]) % Modulus
Offset(v, index) ==
  (EffectiveIndex(index, v.shape[1]) * v.strides[1] * SizeOf[v.dtype]) % Modulus

\* What a caller may index with: the code does not check.
CallableIndices ==
  IF view = None \/ Ndim(view) = 0 THEN {}
  ELSE -view.shape[1] .. view.shape[1] - 1

RemainingStrides(v) == Tail(v.strides)

\* The view that operator[] returns.
Subview(v, index) ==
  [v EXCEPT !.data = (@ + Offset(v, index)) % Modulus,
            !.shape = Tail(@),
            !.strides = RemainingStrides(v)]

Index(index) ==
  /\ index \in CallableIndices
  /\ view' = Subview(view, index)
  /\ UNCHANGED <<extent, origin>>

\* T: the first two dimensions in reverse order, without the others.
SwappedShape(v) == <<v.shape[2], v.shape[1]>>
SwappedStridesKept(v) == <<v.strides[1], v.strides[2]>>
SwappedStrides(v) == <<v.strides[2], v.strides[1]>>

Transpose ==
  /\ view # None /\ Ndim(view) >= 2
  /\ view' = [view EXCEPT !.shape = SwappedShape(view),
                          !.strides = SwappedStrides(view)]
  /\ origin' = IF Ndim(view) > 2 \/ origin = "cut" THEN "cut" ELSE "transposed"
  /\ UNCHANGED extent

Destroy == view # None /\ view' = None /\ extent' = {} /\ origin' = "default"

Next ==
  \/ \E data \in Pointers, dtype \in DataTypes :
       \/ \E shape \in Shapes : Construct(data, shape, dtype)
       \/ \E s \in Stridings : ConstructStrided(data, s, dtype)
  \/ \E index \in CallableIndices : Index(index)
  \/ Transpose
  \/ Destroy

Spec == Init /\ [][Next]_vars

-----------------------------------------------------------------------------
\* However a view was derived, with indices from either end and strides of
\* either sign, it reaches no element that the first view did not have
\* (src/tensor_view.cc:18-29, 67-76).  Transposing more than two dimensions is
\* excluded: it turns a view that is empty in a third one into one that is not.
InsideAllocation ==
  view # None /\ origin # "cut" => Elements(view) \subseteq extent

\* operator[] selects the elements behind one index, -1 the last one; T swaps
\* the first two indices and stays at 0 in the others
\* (src/tensor_view.cc:18-29, 67-76; src/tensor_view.h:249-251).
Behind(v, i) == {J \in Indices(v) : J[1] = i}
DerivedElements ==
  [][/\ \A index \in CallableIndices : Index(index) =>
          LET rest == Behind(view, index % view.shape[1])
          IN  /\ Indices(view') = {Tail(J) : J \in rest}
              /\ \A J \in rest : Address(view', Tail(J)) = Address(view, J)
     /\ Transpose =>
          \A K \in Indices(view') :
            Address(view', K) =
              Address(view, [d \in 1 .. Ndim(view) |->
                               IF d <= 2 THEN K[3 - d] ELSE 0])]_vars

\* What IsContiguous promises to a caller that copies numel() elements from
\* data(): they are there one after another, in row-major order, as many as
\* numel() can count (src/tensor_view.cc:94-104, 134-150;
\* src/tensor_view.h:228-238).
Position(v, J) ==
  LET before[d \in 0 .. Ndim(v)] ==
        IF d = 0 THEN 0 ELSE before[d - 1] * v.shape[d] + J[d]
  IN  before[Ndim(v)]
ContiguousIsBlock ==
  view # None /\ IsContiguous(view) =>
    /\ Numel(view) = Cardinality(Indices(view)) % Modulus
    /\ \A J \in Indices(view) :
         Address(view, J) = (view.data + Position(view, J) * SizeOf[view.dtype]) % Modulus

\* A view with default strides is contiguous, and so is what indexing makes
\* of it (src/tensor_view.cc:134-150; tests/test_core.cc:218-220), unless it
\* has no elements.
DefaultStaysContiguous ==
  view # None /\ origin = "default" /\ Numel(view) # 0 => IsContiguous(view)

\* HasBroadcastDim only answers yes of a view with elements when two of its
\* elements are in one place (src/tensor_view.cc:84-92).  It may answer no of
\* such a view: behind a dimension of 1 it looks no further.
BroadcastRepeats ==
  view # None /\ HasBroadcastDim(view) =>
    Cardinality(Elements(view)) < Cardinality(Indices(view)) \/ Indices(view) = {}
=============================================================================
