\* nvxx.3 448-450: an nv_fd owns its descriptor until it is destructed.
SPECIFICATION Spec
CONSTANTS
  Fds = {n1, n2, n3}
  Files = {f1, f2}
  Closed = Closed
  Guards = {g1, g2}
  None = None
  Unborn = Unborn
  NvLists = {l1}
  ScalarKeys = {s}
  ArrayKeys = {a}
  MaxItems = 2
  MaxSince = 3
SYMMETRY Symmetry
PROPERTY
  TakenArrayIsOpen
\* The process may abort.
CHECK_DEADLOCK FALSE
