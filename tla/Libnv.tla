------------------------------- MODULE Libnv -------------------------------
(***************************************************************************)
(* The operations of FreeBSD's nvlist(9), as far as libnvxx relies on      *)
(* them.  libnv itself is not part of the repository: these operators say  *)
(* what the calls made by nv_list.cc and const_nv_list.cc do to one list.  *)
(*                                                                         *)
(* A list is a record of its creation flags, its error state and its       *)
(* pairs in insertion order.  A call that may fail for want of memory      *)
(* denotes the set of its possible results.                                *)
(***************************************************************************)
EXTENDS Naturals, SequencesExt

CONSTANTS
  Keys,       \* the names a caller may use
  CaseFold,   \* a name without its case, what strcasecmp(3) compares
  Scalars,    \* the values, and the elements of array values
  ItemErrno   \* why libnv cannot copy a value, NoError when it can

NoError == "none"
Errnos == {"EEXIST", "EINVAL", "ENOMEM"}

ASSUME CaseFoldAssumption == CaseFold \in [Keys -> Keys]
ASSUME ItemErrnoAssumption == ItemErrno \in [Scalars -> Errnos \cup {NoError}]

Flags == {"NO_UNIQUE", "IGNORE_CASE"}

ScalarTypes == {"null", "bool", "number", "string", "nvlist", "descriptor", "binary"}
ArrayTypes == {"bool_array", "number_array", "string_array", "nvlist_array",
               "descriptor_array"}
Types == ScalarTypes \cup ArrayTypes
AnyType == "any"                                        \* NV_TYPE_NONE

Pairs == [name : Keys, type : Types, items : Seq(Scalars)]
Lists == [flags : SUBSET Flags, error : Errnos \cup {NoError}, pairs : Seq(Pairs)]
-----------------------------------------------------------------------------
SameName(nvl, a, b) ==
  IF "IGNORE_CASE" \in nvl.flags THEN CaseFold[a] = CaseFold[b] ELSE a = b

Matches(nvl, key, type) ==
  {i \in DOMAIN nvl.pairs : /\ SameName(nvl, nvl.pairs[i].name, key)
                            /\ type \in {AnyType, nvl.pairs[i].type}}

nvlist_exists_type(nvl, key, type) == Matches(nvl, key, type) # {}

\* The place of the first match, {} when there is none.
nvlist_find(nvl, key, type) ==
  {i \in Matches(nvl, key, type) : \A j \in Matches(nvl, key, type) : i <= j}

nvlist_set_error(nvl, error) ==
  IF nvl.error = NoError THEN [nvl EXCEPT !.error = error] ELSE nvl

\* What stops nvpair_create_* or nvpair_move_* from making a pair: an empty
\* array or binary, a null list, or an element that cannot be copied.
BuildErrors(type, items) ==
  IF type \in ArrayTypes \cup {"binary"} /\ items = <<>>
  THEN {"EINVAL"}
  ELSE {ItemErrno[items[i]] : i \in DOMAIN items} \ {NoError}

\* Mutant: case matters even in a list that ignores it.
Clashes_exact(nvl, key) ==
  "NO_UNIQUE" \notin nvl.flags /\ \E i \in DOMAIN nvl.pairs : nvl.pairs[i].name = key

Clashes(nvl, key) ==
  "NO_UNIQUE" \notin nvl.flags /\ nvlist_exists_type(nvl, key, AnyType)

\* nvlist_add_* and nvlist_move_*: build the pair, then insert it at the tail.
nvlist_add(nvl, key, type, items) ==
  LET pair == [name |-> key, type |-> type, items |-> items]
      errors == BuildErrors(type, items)
      inserted == IF Clashes(nvl, key)
                  THEN nvlist_set_error(nvl, "EEXIST")
                  ELSE [nvl EXCEPT !.pairs = Append(@, pair)]
  IN  {nvlist_set_error(nvl, e) : e \in errors \cup {"ENOMEM"}}
        \cup (IF errors = {} THEN {inserted} ELSE {})

\* nvlist_append_*_array: extend the first array of that name, or add one.
nvlist_append(nvl, key, type, item) ==
  IF ~ nvlist_exists_type(nvl, key, type)
  THEN nvlist_add(nvl, key, type, <<item>>)
  ELSE LET errors == BuildErrors(type, <<item>>)
       IN  {nvlist_set_error(nvl, e) : e \in errors \cup {"ENOMEM"}}
             \cup {[nvl EXCEPT !.pairs[i].items = Append(@, item)] :
                      i \in IF errors = {} THEN nvlist_find(nvl, key, type) ELSE {}}

\* nvlist_take_* and nvlist_free_* of the pair at place i.
nvlist_remove(nvl, i) == [nvl EXCEPT !.pairs = RemoveAt(@, i)]
=============================================================================
