---------------------------- MODULE Dispatcher ----------------------------
(***************************************************************************)
(* DispatchFunc (src/dispatcher.h, src/common/traits.h): turns values that *)
(* are known at run time into alternatives that were listed at compile     *)
(* time, and calls the functor with the alternative.                       *)
(*                                                                         *)
(* With one list, the alternatives are those the functor can be called     *)
(* with.  With several lists, one dimension is resolved after the other;   *)
(* the adapters in between can be called with everything.                  *)
(***************************************************************************)
EXTENDS Integers, Sequences, SequencesExt

CONSTANTS
  Keys,          \* run-time keys, of 64 bits
  KeyModulus,    \* 2^w for the width of an alternative's type
  Lists,         \* lists of alternatives that programs dispatch over
  MaxDimensions, \* bound: dimensions of a dispatch
  NoCall, NoMatch

ASSUME DispatcherAssumption ==
  /\ KeyModulus \in Nat \ {0} /\ MaxDimensions \in Nat
  /\ Keys \subseteq Nat
  /\ Lists \subseteq Seq(0 .. KeyModulus - 1)
  /\ NoMatch \notin 0 .. KeyModulus - 1

VARIABLE
  call           \* the dispatch that is running or has ended, or NoCall

CallInit == call = NoCall

-----------------------------------------------------------------------------
\* Filter: the alternatives in their order, each once, without those that the
\* functor cannot be called with.
Filter(values, invocable) ==
  LET filtered[i \in 0 .. Len(values)] ==
        IF i = 0 THEN << >>
        ELSE IF values[i] \in invocable \ ToSet(filtered[i - 1])
        THEN Append(filtered[i - 1], values[i])
        ELSE filtered[i - 1]
  IN  filtered[Len(values)]

\* The fold expression tries the tail from left to right, the head last.
TriesTailOnly(list) == Tail(list)
Tries(list) == Append(Tail(list), Head(list))

\* The alternative that the functor is called with, if any.
DispatchFuncImpl(value, list) ==
  LET tries == Tries(list)
      matches == {i \in 1 .. Len(tries) : tries[i] = value}
  IN  IF matches = {} THEN NoMatch
      ELSE tries[CHOOSE i \in matches : \A j \in matches : i <= j]

DispatchFunc(value, values, invocable) ==
  LET list == Filter(values, invocable)
  IN  IF list = << >> THEN NoMatch ELSE DispatchFuncImpl(value, list)

\* Multi-dispatch converts each key to the type of its list's alternatives.
ToEnum(key) == key % KeyModulus

-----------------------------------------------------------------------------
Call(keys, lists, invocable) ==
  [keys |-> keys, lists |-> lists, invocable |-> invocable,
   items |-> << >>, status |-> "resolving"]

\* A single dispatch (its value has the type of the alternatives), or a
\* multi-dispatch, whose dimensions have alternatives.
BeginSingle(value, values, invocable) ==
  call = NoCall /\ call' = Call(<<value>>, <<values>>, invocable)

BeginMulti(keys, lists) ==
  /\ call = NoCall
  /\ \A d \in DOMAIN lists : lists[d] # << >>
  /\ call' = Call(keys, lists, 0 .. KeyModulus - 1)

\* values.at(index), the number of items resolved so far, may throw.
Resolves == call # NoCall /\ call.status = "resolving" /\ Len(call.items) < Len(call.lists)
Dimension == Len(call.items) + 1
Match == DispatchFunc(ToEnum(call.keys[Dimension]), call.lists[Dimension], call.invocable)

Resolve ==
  /\ Resolves /\ Dimension <= Len(call.keys)
  /\ call' = IF Match = NoMatch THEN [call EXCEPT !.status = "aborted"]
             ELSE [call EXCEPT !.items = Append(@, Match)]

Throw ==
  /\ Resolves /\ Dimension > Len(call.keys)
  /\ call' = [call EXCEPT !.status = "thrown"]

\* All dimensions are resolved: the functor is called.
Invoke ==
  /\ call # NoCall /\ call.status = "resolving" /\ ~Resolves
  /\ call' = [call EXCEPT !.status = "called"]

\* The next call, after an abort that of another program.
Return == call # NoCall /\ call.status # "resolving" /\ call' = NoCall

CallNext ==
  \/ \E values \in Lists, value \in 0 .. KeyModulus - 1,
        invocable \in SUBSET (0 .. KeyModulus - 1) :
       BeginSingle(value, values, invocable)
  \/ \E lists \in BoundedSeq(Lists, MaxDimensions), keys \in BoundedSeq(Keys, MaxDimensions) :
       BeginMulti(keys, lists)
  \/ Resolve \/ Throw \/ Invoke \/ Return

CallSpec == CallInit /\ [][CallNext]_call

-----------------------------------------------------------------------------
\* What a dimension may be resolved to: its key, as the alternatives' type
\* holds it, if the functor can be called with it.
Answers(d) ==
  {ToEnum(call.keys[d])} \cap ToSet(call.lists[d]) \cap call.invocable

\* The functor is called once, with the alternatives that equal the keys, one
\* for each dimension; the program aborts at the first key that is not an
\* alternative, and throws only at the first dimension without a key, when
\* all before it were resolved (dispatcher.h:22-75, 163-187; traits.h:147-156).
DispatchesByValue ==
  call # NoCall =>
    LET n == Len(call.items)
    IN  /\ \A d \in 1 .. n : Answers(d) = {call.items[d]}
        /\ call.status = "called"  => n = Len(call.lists)
        /\ call.status = "aborted" => Answers(n + 1) = {}
        /\ call.status = "thrown"  => n = Len(call.keys) /\ n < Len(call.lists)
=============================================================================
