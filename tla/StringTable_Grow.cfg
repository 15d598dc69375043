SPECIFICATION FairSpec
CONSTANTS
  s1 = s1
  s2 = s2
  s3 = s3
  s4 = s4
  Strings <- FourStrings
  Hashes <- ThreeHashes
  Bytes <- Sizes
  PoolSize = 48
  Dims = {2}
INVARIANTS
  OneEntryEach
  PoolsDisjoint
PROPERTIES
  InternSpec
  EveryCallReturns
