\* nvxx.3 797-801: the list takes ownership of the descriptors of a moved array.
SPECIFICATION Spec
CONSTANTS
  Fds = {n1, n2, n3}
  Files = {f1, f2}
  Closed = Closed
  Guards = {g1, g2}
  None = None
  Unborn = Unborn
  NvLists = {l1}
  ScalarKeys = {s}
  ArrayKeys = {a}
  MaxItems = 2
  MaxSince = 3
SYMMETRY Symmetry
PROPERTY
  MovedArrayIsTaken
\* The process may abort.
CHECK_DEADLOCK FALSE
