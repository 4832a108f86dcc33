\* Every kind of element and type of member, and two changes of the list
\* between writing and reading.
SPECIFICATION SerializeSpec
CONSTANTS
  tag = tag
  a = a
  b = b
  nulName = nulName
  v = v
  w = w
  nulStr = nulStr
  badList = badList
  Keys <- MCKeys
  CaseFold <- MCCaseFold
  Scalars <- MCScalars
  ItemErrno <- MCItemErrno
  NulKeys = {nulName}
  NulScalars = {nulStr}
  ScalarsOf <- MCScalarsOf
  UsedTypes <- Types
  FlagChoices <- MCFlags
  MaxPairs = 4
  MaxItems = 1
  Members <- MCMembers
  Schemas <- MCSchemas
  MaxElements = 4
  ValuesOf <- MCValuesOf
  Blank = Blank
  MaxChanges = 2
INVARIANTS
  SerializeTypeOK
  RoundTrip
  ListMatchesSchema
  DecodedPrefix
  LiteralGuards
  OptionalAbsent
