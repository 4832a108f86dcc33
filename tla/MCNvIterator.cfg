\* Two iterators over a list of at most three pairs of one name.
SPECIFICATION FairSpec
CONSTANTS
  k = k
  v = v
  Keys = {k}
  CaseFold <- MCCaseFold
  Scalars = {v}
  ItemErrno <- MCItemErrno
  NulKeys = {}
  NulScalars = {}
  ScalarsOf <- MCScalarsOf
  UsedTypes <- MCTypes
  FlagChoices <- MCFlags
  MaxPairs = 3
  MaxItems = 1
  Iterators = {i1, i2}
  Unborn = Unborn
  Dangling = Dangling
INVARIANTS
  IteratorsOK
  PassInOrder
  CurrentIsShown
  EqualIteratorsAgree
PROPERTIES
  LoopEnds
