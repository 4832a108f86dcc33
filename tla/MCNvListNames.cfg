\* Two names that differ in case only, under every choice of flags.
SPECIFICATION Spec
CONSTANTS
  k = k
  K = K
  nulKey = nulKey
  v = v
  nulStr = nulStr
  badList = badList
  Keys <- MCKeysNaming
  CaseFold <- MCCaseFold
  Scalars <- MCScalars
  ItemErrno <- MCItemErrno
  NulKeys = {}
  NulScalars = {nulStr}
  ScalarsOf <- NamingScalarsOf
  UsedTypes <- NamingTypes
  FlagChoices <- AllFlags
  MaxPairs = 3
  MaxItems = 2
INVARIANTS
  UniqueNames
PROPERTIES
  RefinesNvDict
\* The process may abort.
CHECK_DEADLOCK FALSE
