----------------------------- MODULE MCNvList -----------------------------
(***************************************************************************)
(* Small instances of NvList: two names that differ in case only, a third, *)
(* and one with a NUL; a plain value, a string with a NUL, and a list in   *)
(* the error state, which libnv refuses to copy into another.              *)
(***************************************************************************)
EXTENDS NvList, TLC

CONSTANTS k, K, nulKey, v, nulStr, badList

MCKeys == {k, nulKey}
MCKeysNaming == {k, K}
MCCaseFold == [x \in Keys |-> IF x = K THEN k ELSE x]
MCScalars == {v, nulStr, badList}
MCItemErrno == [s \in Scalars |-> IF s = badList THEN "EINVAL" ELSE NoError]
MCScalarsOf ==
  [t \in Types |-> CASE t \in {"string", "string_array"} -> {v, nulStr}
                     [] t \in {"nvlist", "nvlist_array"} -> {v, badList}
                     [] OTHER -> {v}]
AllTypes == Types
NamingScalarsOf == [t \in Types |-> {v}]
NamingTypes == {"number", "number_array"}
UniqueOrNot == {{}, {"NO_UNIQUE"}}
AllFlags == SUBSET Flags
=============================================================================
