\* nvxx.3 555-569: exists_* may be called on a list in the error state.
SPECIFICATION Spec
CONSTANTS
  k = k
  K = K
  nulKey = nulKey
  v = v
  nulStr = nulStr
  badList = badList
  Keys <- MCKeys
  CaseFold <- MCCaseFold
  Scalars <- MCScalars
  ItemErrno <- MCItemErrno
  NulKeys = {nulKey}
  NulScalars = {nulStr}
  ScalarsOf <- MCScalarsOf
  UsedTypes <- AllTypes
  FlagChoices <- UniqueOrNot
  MaxPairs = 2
  MaxItems = 1
PROPERTY
  ExistsInErrorState
\* The process may abort.
CHECK_DEADLOCK FALSE
