\* Every call, on two lists, with three numbers.
SPECIFICATION Spec
CONSTANTS
  Fds = {n1, n2, n3}
  Files = {f1, f2}
  Closed = Closed
  Guards = {g1, g2}
  None = None
  Unborn = Unborn
  NvLists = {l1, l2}
  ScalarKeys = {s}
  ArrayKeys = {a}
  MaxItems = 2
  MaxSince = 3
SYMMETRY Symmetry
INVARIANTS
  TypeOK
  NumbersOpen
  OneCloser
  NoDescriptorLeak
PROPERTIES
  SameFile
  ThrowKeepsDescriptors
\* The process may abort.
CHECK_DEADLOCK FALSE
