\* nvxx_base.h 350-352: an nv_list frees its nvlist_t.
SPECIFICATION Spec
CONSTANTS
  Lists = {l1, l2, l3}
  Keys = {k}
  Null = Null
  Owners = {o1, o2}
  Views = {v}
  Unborn = Unborn
  Calls <- AllCalls
SYMMETRY Symmetry
INVARIANT
  NoLeak
