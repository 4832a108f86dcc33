--------------------------- MODULE MCNvOwnership ---------------------------
(***************************************************************************)
(* Small instances of NvOwnership.                                         *)
(***************************************************************************)
EXTENDS NvOwnership, TLC

AllCalls == Operations
Symmetry == Permutations(Lists) \cup Permutations(Owners)
=============================================================================
