CONSTANTS
  Pointers = {24}
  DataTypes = {"int8", "float16", "bool"}
  SizeOf <- MCSizeOf
  Shapes <- MCShapes
  Stridings <- MCStridings
  Modulus = 128
  None = None
  E32 = 4
  M32 = 6
  E16 = 3
  M16 = 2
  MB = 2
  NoValue = NoValue
  Keys = {0, 1, 3, 5}
  KeyModulus = 4
  Lists <- MCLists
  MaxDimensions = 2
  NoCall = NoCall
  NoMatch = NoMatch
  Aborts = Aborts
  Undefined = Undefined
SPECIFICATION CoreSpec
INVARIANTS
  InsideAllocation
  ContiguousIsBlock
  DefaultStaysContiguous
  BroadcastRepeats
  PrintsRows
  DispatchesByValue
PROPERTIES
  DerivedElements
  RoundsToNearest
  WidensExactly
