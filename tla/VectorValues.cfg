CONSTANTS
  Vectors = {v1, v2}
  Handles = {h1, h2}
  Blocks = {b1, b2}
  None = None
  zero = zero
  one = one
  Zero = zero
  Ranges <- RangesOfOnes
  Values = {zero, one}
  InlineCapacity = 1
  MaxSize = 5
  MaxCapacity = 3
SPECIFICATION Spec
SYMMETRY Interchangeable
INVARIANTS
  MemberAlive
  OneOwner
PROPERTIES
  PushBackKeepsArgument
  ImplementsValueVectors
