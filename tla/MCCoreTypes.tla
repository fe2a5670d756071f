---------------------------- MODULE MCCoreTypes ----------------------------
(* Views of every shape of up to three dimensions of at most two, and two  *)
(* shapes whose strides wrap around, with default strides; every shape of  *)
(* up to two dimensions with strides of both signs; floats of 11 bits with *)
(* Float16 and BFloat16 of 6 and 7; and dispatches over lists with         *)
(* repeated, missing and all alternatives, with a key that is an           *)
(* alternative only when it is truncated.                                  *)
EXTENDS CoreTypes

MCSizeOf == [t \in DataTypes |-> IF t = "float16" THEN 2 ELSE 1]
MCShapes == BoundedSeq(0 .. 3, 2) \cup [1 .. 3 -> 0 .. 2] \cup {<<1, 9, 8>>, <<2, 8, 8>>}
MCStridings ==
  {s \in [shape : BoundedSeq(0 .. 3, 2), strides : BoundedSeq({-3, 0, 1, 3}, 2)] :
     Len(s.shape) = Len(s.strides)}
MCLists == {<< >>, <<3>>, <<0, 1>>, <<1, 1, 2>>, <<2, 0, 3, 1>>}
=============================================================================
