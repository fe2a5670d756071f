--------------------------- MODULE MCSmallVector ---------------------------
\* SmallVector on small instances: the places are interchangeable, as are the
\* vectors and the allocations.
EXTENDS SmallVector, TLC

CONSTANTS zero, one

\* A few on both sides of the inline capacity that no resize of another yields.
RangesOfOnes == {<< >>, <<one>>, <<one, one, one>>}

Interchangeable ==
  Permutations(Vectors) \cup Permutations(Handles) \cup Permutations(Blocks)
=============================================================================
