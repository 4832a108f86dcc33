--------------------------- MODULE MCNvIterator ---------------------------
(***************************************************************************)
(* A small instance of NvIterator: one name, numbers and arrays of         *)
(* strings, whose vector has to be allocated.                              *)
(***************************************************************************)
EXTENDS NvIterator

CONSTANTS k, v

MCCaseFold == [x \in {k} |-> x]
MCItemErrno == [s \in {v} |-> NoError]
MCScalarsOf == [t \in Types |-> {v}]
MCTypes == {"number", "string_array"}
MCFlags == {{"NO_UNIQUE"}}
=============================================================================
