----------------------- MODULE MCShapeStridesStorage -----------------------
\* Storages built from vectors and from ranges on both sides of the inline
\* capacity. Two ranges are longer than it and of different lengths, so that in
\* every layout a shape and strides that change places are seen.
EXTENDS ShapeStridesStorage, TLC

MCRanges == {<<3>>, <<2, 3, 2>>, <<0, 1>>}
MCValues == 0 .. Modulus - 1
Interchangeable ==
  Permutations(Vectors) \cup Permutations(Storages) \cup Permutations(Blocks)
=============================================================================
