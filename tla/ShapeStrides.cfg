CONSTANTS
  Vectors = {v1, v2}
  Handles = {}
  Storages = {t1, t2}
  Blocks = {b1, b2, b3, b4}
  None = None
  Modulus = 4
  Zero = 0
  Values <- MCValues
  Ranges <- MCRanges
  InlineCapacity = 1
  MaxSize = 6
  MaxCapacity = 3
SPECIFICATION StorageSpec
SYMMETRY Interchangeable
INVARIANTS
  OneStorageOwner
  CapacitiesKept
PROPERTIES
  MetadataStable
  BuiltAsGiven
