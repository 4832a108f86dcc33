\* Every call, on at most four lists, two nv_list and one const_nv_list.
SPECIFICATION Spec
CONSTANTS
  Lists = {l1, l2, l3, l4}
  Keys = {k}
  Null = Null
  Owners = {o1, o2}
  Views = {v}
  Unborn = Unborn
  Calls <- AllCalls
SYMMETRY Symmetry
INVARIANTS
  TypeOK
  OwnedListsLive
  SingleOwner
  ChildrenHealthy
  NoCycles
PROPERTIES
  Isolation
  ThrowKeepsOwnership
  OnlyMoveAssignLeaks
