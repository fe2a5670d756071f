----------------------------- MODULE CoreTypes -----------------------------
(***************************************************************************)
(* The core types together: a program that has a view, converts a number   *)
(* or dispatches on values, and what TensorView::ToString                  *)
(* (src/tensor_view.cc) prints of the view by indexing it and dispatching  *)
(* on its data type.                                                       *)
(*                                                                         *)
(* A text is a sequence of tokens: an element is the address where it was  *)
(* read, the others are characters.                                        *)
(***************************************************************************)
EXTENDS TensorView, FloatConversions, Dispatcher

CONSTANTS Aborts, Undefined   \* what printing comes to if not to a text

allVars == <<vars, value, call>>

-----------------------------------------------------------------------------
LeftBracket == -1
RightBracket == -2
Comma == -3
Space == -4

FloatTypes == <<"float32", "float64">>
IntTypes == <<"int8", "int16", "int32", "int64">>
UIntTypes == <<"uint8", "uint16", "uint32", "uint64">>
AllIntTypes == IntTypes \o UIntTypes
PrintedTypes == FloatTypes \o AllIntTypes

ASSUME PrintingAssumption ==
  /\ NoMatch \notin ToSet(PrintedTypes)
  /\ Aborts \notin Seq(Int) /\ Undefined \notin Seq(Int)

\* One element: std::to_string of what the pointer points to, as its type.
Scalar(v) ==
  IF DispatchFunc(v.dtype, PrintedTypes, ToSet(PrintedTypes)) = NoMatch THEN Aborts
  ELSE <<Address(v, << >>)>>

\* What the last ", " becomes.  A text without one was "[" and is empty when
\* its back is written.
ClosedLate(text) == Append(SubSeq(text, 1, Len(text) - 1), RightBracket)
Closed(text) == Append(SubSeq(text, 1, Len(text) - 2), RightBracket)

ToStringHelper[v \in Views] ==
  IF Ndim(v) = 0 THEN Scalar(v)
  ELSE IF v.shape[1] = 0 THEN Undefined
  ELSE LET row[i \in 0 .. v.shape[1] - 1] == ToStringHelper[Subview(v, i)]
           text[i \in 0 .. v.shape[1]] ==
             IF i = 0 THEN <<LeftBracket>>
             ELSE text[i - 1] \o row[i - 1] \o <<Comma, Space>>
       IN  IF row[0] \in {Aborts, Undefined} THEN row[0]
           ELSE Closed(text[v.shape[1]])

-----------------------------------------------------------------------------
CoreInit == Init /\ ValueInit /\ CallInit

\* The types share no state.  Bound: the program uses one at a time.
CoreNext ==
  \/ Next /\ value = NoValue /\ call = NoCall /\ UNCHANGED <<value, call>>
  \/ ValueNext /\ view = None /\ call = NoCall /\ UNCHANGED <<vars, call>>
  \/ CallNext /\ view = None /\ value = NoValue /\ UNCHANGED <<vars, value>>

CoreSpec == CoreInit /\ [][CoreNext]_allVars

-----------------------------------------------------------------------------
\* Reference for what is printed: the elements in row-major order, each
\* behind the brackets of the rows that it begins and before those of the
\* rows that it ends.
InOrder(v) ==
  [p \in 1 .. Cardinality(Indices(v)) |->
     CHOOSE J \in Indices(v) : Position(v, J) = p - 1]
Begins(v, J) == {d \in 1 .. Ndim(v) : \A e \in d .. Ndim(v) : J[e] = 0}
Ends(v, J) == {d \in 1 .. Ndim(v) : \A e \in d .. Ndim(v) : J[e] = v.shape[e] - 1}
Brackets(bracket, rows) == [r \in 1 .. Cardinality(rows) |-> bracket]
Entry(v, J) ==
  Brackets(LeftBracket, Begins(v, J)) \o <<Address(v, J)>> \o Brackets(RightBracket, Ends(v, J))
    \o IF Ends(v, J) = 1 .. Ndim(v) THEN << >> ELSE <<Comma, Space>>
Text(v) == FlattenSeq([p \in DOMAIN InOrder(v) |-> Entry(v, InOrder(v)[p])])

\* Whatever it was derived from, a view prints its elements, each once, in
\* row-major order, in the brackets of their rows.  Every type that is not
\* dispatched over, the reduced floats and bool, aborts instead, from however
\* deep a row, and what an empty view prints is undefined
\* (src/tensor_view.cc:110-132).
PrintsRows ==
  view # None =>
    ToStringHelper[view] =
      IF Indices(view) = {} THEN Undefined
      ELSE IF view.dtype \notin ToSet(PrintedTypes) THEN Aborts
      ELSE Text(view)
=============================================================================
