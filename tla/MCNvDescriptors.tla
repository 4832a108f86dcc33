-------------------------- MODULE MCNvDescriptors --------------------------
(***************************************************************************)
(* Small instances of NvDescriptors.                                       *)
(***************************************************************************)
EXTENDS NvDescriptors, TLC

Symmetry == Permutations(Fds) \cup Permutations(Files) \cup Permutations(Guards)
              \cup Permutations(NvLists)
=============================================================================
