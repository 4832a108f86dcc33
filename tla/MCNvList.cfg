\* Every member function and every type, on lists of at most two pairs.
SPECIFICATION Spec
CONSTANTS
  k = k
  K = K
  nulKey = nulKey
  v = v
  nulStr = nulStr
  badList = badList
  Keys <- MCKeys
  CaseFold <- MCCaseFold
  Scalars <- MCScalars
  ItemErrno <- MCItemErrno
  NulKeys = {nulKey}
  NulScalars = {nulStr}
  ScalarsOf <- MCScalarsOf
  UsedTypes <- AllTypes
  FlagChoices <- UniqueOrNot
  MaxPairs = 2
  MaxItems = 1
INVARIANTS
  TypeOK
  NulNeverStored
PROPERTIES
  ErrorIsFinal
  ThrowLeavesPairs
  FailedTakeKeepsDescriptors
  SilentOnlyMoveAppend
\* The process may abort.
CHECK_DEADLOCK FALSE
