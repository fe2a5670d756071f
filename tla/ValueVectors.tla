---------------------------- MODULE ValueVectors ----------------------------
(***************************************************************************)
(* What a SmallVector promises its users: a value of its own, a sequence   *)
(* of elements, that only operations on it change, whatever it does with   *)
(* its storage (src/common/small_vector.h).  A HeapAllocation has the      *)
(* value of the vector that released it.                                   *)
(***************************************************************************)
EXTENDS Naturals, Sequences

CONSTANTS Vectors, Handles, Values, Zero, Ranges, MaxCapacity

VARIABLES live, value

vars == <<live, value>>

Init == live = {} /\ value = [o \in Vectors \cup Handles |-> << >>]

Begin(v, s) ==
  /\ v \notin live
  /\ live' = live \cup {v}
  /\ value' = [value EXCEPT ![v] = s]

BeginCopied(v, w) == w \in live /\ Begin(v, value[w])

BeginMoved(v, w) ==
  /\ v \notin live /\ w \in live
  /\ live' = live \cup {v}
  /\ value' = [value EXCEPT ![v] = value[w], ![w] = << >>]

End(v) ==
  /\ v \in live
  /\ live' = live \ {v}
  /\ value' = [value EXCEPT ![v] = << >>]

Set(v, s) ==
  /\ v \in live
  /\ value' = [value EXCEPT ![v] = s]
  /\ UNCHANGED live

\* Assignment of a range, of another vector, or of nothing at all.
Assign(v, s) == Set(v, s)
Copy(v, w) == w \in live /\ Set(v, value[w])

Move(v, w) ==
  /\ v # w /\ {v, w} \subseteq live
  /\ value' = [value EXCEPT ![v] = value[w], ![w] = << >>]
  /\ UNCHANGED live

Push(v, x) == Set(v, Append(value[v], x))

Resize(v, n) ==
  Set(v, [i \in 1 .. n |-> IF i <= Len(value[v]) THEN value[v][i] ELSE Zero])

\* The elements leave the vector, or the allocation, for another allocation.
HandOver(o, h) ==
  /\ o # h /\ (o \in live \/ o \in Handles)
  /\ value' = [value EXCEPT ![h] = value[o], ![o] = << >>]
  /\ UNCHANGED live

Drop(h) == value' = [value EXCEPT ![h] = << >>] /\ UNCHANGED live

Next ==
  \/ \E v \in Vectors :
       \/ End(v)
       \/ \E s \in Ranges : Begin(v, s) \/ Assign(v, s)
       \/ \E w \in Vectors : BeginCopied(v, w) \/ BeginMoved(v, w)
       \/ \E w \in Vectors : Copy(v, w) \/ Move(v, w)
       \/ \E x \in Values : Push(v, x)
       \/ \E n \in 0 .. MaxCapacity : Resize(v, n)
  \/ \E h \in Handles :
       Drop(h) \/ \E o \in Vectors \cup Handles : HandOver(o, h)

Spec == Init /\ [][Next]_vars
=============================================================================
