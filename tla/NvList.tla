------------------------------ MODULE NvList ------------------------------
(***************************************************************************)
(* One bsd::nv_list as its callers see it: the contents and the error      *)
(* state of the nvlist_t it owns, and what the last member function call   *)
(* returned or threw.  An action is a whole member function: the checks    *)
(* made by the wrapper, the libnv call, and the look at nvlist_error()     *)
(* afterwards, where the wrapper has one.                                  *)
(*                                                                         *)
(* Who owns the nvlist_t is the subject of NvOwnership; what happens to    *)
(* descriptors is the subject of NvDescriptors.  Exceptions themselves are *)
(* made without fail.                                                      *)
(***************************************************************************)
EXTENDS Libnv

CONSTANTS
  NulKeys,      \* the names that contain a NUL character
  NulScalars,   \* the string values that contain a NUL character
  ScalarsOf,    \* the values a caller passes for each type
  UsedTypes,    \* the types the caller uses
  FlagChoices,  \* the flags a list is created with
  MaxPairs,     \* bound: pairs in the list when a pair is added
  MaxItems      \* bound: elements of an array

ASSUME NulKeysAssumption == NulKeys \subseteq Keys
ASSUME NulScalarsAssumption == NulScalars \subseteq Scalars
ASSUME ScalarsOfAssumption == ScalarsOf \in [Types -> SUBSET Scalars]
ASSUME UsedTypesAssumption == UsedTypes \subseteq Types
ASSUME FlagChoicesAssumption == FlagChoices \subseteq SUBSET Flags
ASSUME BoundsAssumption == MaxPairs \in Nat /\ MaxItems \in Nat

\* Only text can hold a NUL character.
ASSUME NulInTextAssumption ==
  \A type \in Types \ {"string", "string_array"} : ScalarsOf[type] \cap NulScalars = {}

VARIABLES
  nvl,    \* the nvlist_t that __m_nv points to
  call    \* the last member function call and its outcome

vars == <<nvl, call>>

NoKey == "no key"
Exceptions == {"nv_error_state", "nv_key_not_found", "nv_key_exists",
               "system_error", "runtime_error", "logic_error", "bad_alloc"}
Operations == {"new", "exists", "empty", "error", "get", "add", "move", "append",
               "take", "free", "set_error", "pack", "send", "iterate"}

Outcomes == Exceptions \cup {"ok", "true", "false", "abort"}

\* A list, and a call with its outcome.
TypeOK ==
  /\ nvl \in Lists
  /\ call \in [op : Operations, key : Keys \cup {NoKey}, type : Types \cup {AnyType},
               outcome : Outcomes, items : Seq(Scalars)]
-----------------------------------------------------------------------------
Call(op, key, type) == [op |-> op, key |-> key, type |-> type]

Returns(c, outcome, items) ==
  /\ c.type \in UsedTypes \cup {AnyType}
  /\ call' = [op |-> c.op, key |-> c.key, type |-> c.type,
              outcome |-> outcome, items |-> items]

Throws(c, exception) == Returns(c, exception, <<>>) /\ UNCHANGED nvl

Truth(b) == IF b THEN "true" ELSE "false"

throw_if_error(c) == nvl.error # NoError /\ Throws(c, "nv_error_state")

check_string_null(c) ==
  /\ nvl.error = NoError
  /\ c.key \in NulKeys
  /\ Throws(c, "runtime_error")

\* The checks almost every member function begins with.
Refuses(c) == throw_if_error(c) \/ check_string_null(c)
Accepts(c) == nvl.error = NoError /\ c.key \notin NulKeys

\* std::string(key), the vectors that add_*_array hands to libnv and those that
\* get_*_array returns: what has to be allocated while nothing has changed.
CannotCopy(c) == Accepts(c) /\ Throws(c, "bad_alloc")

Rejects(c) == Refuses(c) \/ CannotCopy(c)

HasRoom == Len(nvl.pairs) < MaxPairs

\* Mutant: no look at nvlist_error().
Reported_never(error) == "ok"

\* Mutant: the errno goes to the caller.
Reported_raw(error) == IF error = NoError THEN "ok" ELSE error

\* The exception made from nvlist_error() after an nvlist_add_*.
Reported(error) ==
  IF error = NoError THEN "ok"
  ELSE IF error = "EEXIST" THEN "nv_key_exists" ELSE "system_error"
-----------------------------------------------------------------------------
(* Observers *)

exists_type(key, type) ==
  LET c == Call("exists", key, type)
  IN  \/ Rejects(c)
      \/ /\ Accepts(c)
         /\ Returns(c, Truth(nvlist_exists_type(nvl, key, type)), <<>>)
         /\ UNCHANGED nvl

empty ==
  LET c == Call("empty", NoKey, AnyType)
  IN  \/ throw_if_error(c)
      \/ /\ nvl.error = NoError
         /\ Returns(c, Truth(nvl.pairs = <<>>), <<>>)
         /\ UNCHANGED nvl

\* error() and operator bool may be called in the error state.
error == /\ Returns(Call("error", NoKey, AnyType), Truth(nvl.error # NoError), <<>>)
         /\ UNCHANGED nvl

HasDescriptors ==
  \E i \in DOMAIN nvl.pairs : nvl.pairs[i].type \in {"descriptor", "descriptor_array"}

\* libnv packs no descriptors; the std::system_error is made from error(),
\* which is no error.
pack ==
  LET c == Call("pack", NoKey, AnyType)
  IN  \/ throw_if_error(c)
      \/ nvl.error = NoError /\ (Throws(c, "system_error") \/ Throws(c, "bad_alloc"))
      \/ /\ nvl.error = NoError /\ ~ HasDescriptors
         /\ Returns(c, "ok", <<>>)
         /\ UNCHANGED nvl

\* The list is written to a socket; what arrives is the subject of NvTransfer.
send ==
  LET c == Call("send", NoKey, AnyType)
  IN  \/ throw_if_error(c)
      \/ nvl.error = NoError /\ Throws(c, "system_error")
      \/ nvl.error = NoError /\ Returns(c, "ok", <<>>) /\ UNCHANGED nvl

Missing(c) == ~ nvlist_exists_type(nvl, c.key, c.type)

get(key, type) ==
  LET c == Call("get", key, type)
  IN  \/ Rejects(c)
      \/ Accepts(c) /\ Missing(c) /\ Throws(c, "nv_key_not_found")
      \/ /\ Accepts(c)
         /\ \E i \in nvlist_find(nvl, key, type) : Returns(c, "ok", nvl.pairs[i].items)
         /\ UNCHANGED nvl
-----------------------------------------------------------------------------
(* Modifiers.  call.items is what was given to those that store something. *)

\* Mutant: the old value is removed before the new one is made.
add_replacing(key, type, items) ==
  LET c == Call("add", key, type)
  IN  /\ Accepts(c)
      /\ \E i \in nvlist_find(nvl, key, AnyType) :
           nvl' \in nvlist_add(nvlist_remove(nvl, i), key, type, items)
      /\ Returns(c, Reported(nvl'.error), items)

add(key, type, items) ==
  LET c == Call("add", key, type)
  IN  \/ Rejects(c)
      \/ /\ Accepts(c) /\ HasRoom
         /\ nvl' \in nvlist_add(nvl, key, type, items)
         /\ Returns(c, Reported(nvl'.error), items)

HasNul(items) == \E i \in DOMAIN items : items[i] \in NulScalars

\* add_string and add_string_array look for NUL in the values as well, before
\* anything is copied.
add_string(key, type, items) ==
  LET c == Call("add", key, type)
  IN  \/ /\ HasNul(items)
         /\ Refuses(c) \/ (Accepts(c) /\ Throws(c, "runtime_error"))
      \/ ~ HasNul(items) /\ add(key, type, items)

\* move_*: nothing looks at nvlist_error() afterwards.
move(key, type, items) ==
  LET c == Call("move", key, type)
  IN  \/ Rejects(c)
      \/ /\ Accepts(c) /\ HasRoom
         /\ nvl' \in nvlist_add(nvl, key, type, items)
         /\ Returns(c, "ok", items)

Extensible(key, type) ==
  IF nvlist_exists_type(nvl, key, type)
  THEN \A i \in nvlist_find(nvl, key, type) : Len(nvl.pairs[i].items) < MaxItems
  ELSE HasRoom

\* append_*_array: nothing looks at nvlist_error() afterwards.
append(key, type, item) ==
  LET c == Call("append", key, type)
  IN  \/ Rejects(c)
      \/ /\ Accepts(c) /\ Extensible(key, type)
         /\ nvl' \in nvlist_append(nvl, key, type, item)
         /\ Returns(c, "ok", <<item>>)

\* Mutant: the value is not searched for a NUL.
append_string_unchecked(key, item) == append(key, "string_array", item)

append_string(key, item) ==
  LET c == Call("append", key, "string_array")
  IN  \/ /\ HasNul(<<item>>)
         /\ Refuses(c) \/ (Accepts(c) /\ Throws(c, "runtime_error"))
      \/ ~ HasNul(<<item>>) /\ append(key, "string_array", item)

free_type(key, type) ==
  LET c == Call("free", key, type)
  IN  \/ Rejects(c)
      \/ Accepts(c) /\ Missing(c) /\ Throws(c, "nv_key_not_found")
      \/ /\ Accepts(c)
         /\ \E i \in nvlist_find(nvl, key, type) : nvl' = nvlist_remove(nvl, i)
         /\ Returns(c, "ok", <<>>)

\* Mutant: no __throw_if_error.
set_error_unchecked(errno) ==
  /\ nvl' = nvlist_set_error(nvl, errno)
  /\ Returns(Call("set_error", NoKey, AnyType), "ok", <<>>)

set_error(errno) ==
  LET c == Call("set_error", NoKey, AnyType)
  IN  \/ throw_if_error(c)
      \/ /\ nvl.error = NoError
         /\ nvl' = nvlist_set_error(nvl, errno)
         /\ Returns(c, "ok", <<>>)
-----------------------------------------------------------------------------
(* take_*: remove the first value of that name and type and return it.     *)

\* Mutant: the newest value is taken.
HandsOver_newest(c, copies) ==
  /\ Accepts(c)
  /\ \E i \in Matches(nvl, c.key, c.type) :
       /\ \A j \in Matches(nvl, c.key, c.type) : j <= i
       /\ nvl' = nvlist_remove(nvl, i)
       /\ Returns(c, "ok", nvl.pairs[i].items)

\* libnv hands the value over, then the wrapper copies it where the result
\* is a container: if that allocation fails the value is gone.
HandsOver(c, copies) ==
  /\ Accepts(c)
  /\ \E i \in nvlist_find(nvl, c.key, c.type) :
       /\ nvl' = nvlist_remove(nvl, i)
       /\ \/ Returns(c, "ok", nvl.pairs[i].items)
          \/ copies /\ Returns(c, "bad_alloc", <<>>)

take_checked(key, type, copies) ==
  LET c == Call("take", key, type)
  IN  \/ Rejects(c)
      \/ Accepts(c) /\ Missing(c) /\ Throws(c, "nv_key_not_found")
      \/ HandsOver(c, copies)

\* No look at nvlist_exists_type first: libnv aborts on a missing name.
take_unchecked(key, type, copies) ==
  LET c == Call("take", key, type)
  IN  \/ Rejects(c)
      \/ Accepts(c) /\ Missing(c) /\ Throws(c, "abort")
      \/ HandsOver(c, copies)

\* Mutant: nvlist_take_descriptor_array() and then the allocation.
take_descriptor_array_early(key) == take_unchecked(key, "descriptor_array", TRUE)

\* The vector is allocated before the array is removed from the list.
take_descriptor_array(key) ==
  LET c == Call("take", key, "descriptor_array")
  IN  \/ Rejects(c)
      \/ Accepts(c) /\ Missing(c) /\ Throws(c, "abort")
      \/ HandsOver(c, FALSE)
      \/ Accepts(c) /\ ~ Missing(c) /\ Throws(c, "bad_alloc")
-----------------------------------------------------------------------------
(* The member functions of each type.  Array is what a caller passes for   *)
(* an array, Single for a scalar; a char * or a moved array holds no NUL.  *)

Single(type) == {<<s>> : s \in ScalarsOf[type]}
Array(type) == BoundedSeq(ScalarsOf[type], MaxItems)
Moved(args) == {items \in args : ~ HasNul(items)}

null_operations(key) ==
  \/ add(key, "null", <<>>)
  \/ free_type(key, "null")

bool_operations(key) ==
  \/ \E v \in Single("bool") : add(key, "bool", v)
  \/ \E v \in Array("bool_array") : add(key, "bool_array", v) \/ move(key, "bool_array", v)
  \/ \E s \in ScalarsOf["bool_array"] : append(key, "bool_array", s)
  \/ take_checked(key, "bool", FALSE) \/ take_unchecked(key, "bool_array", TRUE)
  \/ free_type(key, "bool") \/ free_type(key, "bool_array")

number_operations(key) ==
  \/ \E v \in Single("number") : add(key, "number", v)
  \/ \E v \in Array("number_array") :
       add(key, "number_array", v) \/ move(key, "number_array", v)
  \/ \E s \in ScalarsOf["number_array"] : append(key, "number_array", s)
  \/ take_checked(key, "number", FALSE) \/ take_unchecked(key, "number_array", TRUE)
  \/ free_type(key, "number") \/ free_type(key, "number_array")

string_operations(key) ==
  \/ \E v \in Single("string") : add_string(key, "string", v)
  \/ \E v \in Moved(Single("string")) : move(key, "string", v)
  \/ \E v \in Array("string_array") : add_string(key, "string_array", v)
  \/ \E v \in Moved(Array("string_array")) : move(key, "string_array", v)
  \/ \E s \in ScalarsOf["string_array"] : append_string(key, s)
  \/ take_checked(key, "string", TRUE) \/ take_unchecked(key, "string_array", TRUE)
  \/ free_type(key, "string") \/ free_type(key, "string_array")

nvlist_operations(key) ==
  \/ \E v \in Single("nvlist") : add(key, "nvlist", v) \/ move(key, "nvlist", v)
  \/ \E v \in Array("nvlist_array") :
       add(key, "nvlist_array", v) \/ move(key, "nvlist_array", v)
  \/ \E s \in ScalarsOf["nvlist_array"] : append(key, "nvlist_array", s)
  \/ take_checked(key, "nvlist", FALSE) \/ take_unchecked(key, "nvlist_array", TRUE)
  \/ free_type(key, "nvlist") \/ free_type(key, "nvlist_array")

descriptor_operations(key) ==
  \/ \E v \in Single("descriptor") : add(key, "descriptor", v) \/ move(key, "descriptor", v)
  \/ \E v \in Array("descriptor_array") :
       add(key, "descriptor_array", v) \/ move(key, "descriptor_array", v)
  \/ \E s \in ScalarsOf["descriptor_array"] : append(key, "descriptor_array", s)
  \/ take_unchecked(key, "descriptor", FALSE) \/ take_descriptor_array(key)
  \/ free_type(key, "descriptor") \/ free_type(key, "descriptor_array")

binary_operations(key) ==
  \/ \E v \in Single("binary") \cup {<<>>} : add(key, "binary", v) \/ move(key, "binary", v)
  \/ take_checked(key, "binary", TRUE)
  \/ free_type(key, "binary")

\* The exists_* and get_* of const_nv_list.cc; there is no get_null.
Observes(key, types) ==
  \E type \in types : exists_type(key, type) \/ (type # "null" /\ get(key, type))

reads_of_null_bool_number(key) ==
  Observes(key, {"null", "bool", "bool_array", "number", "number_array"})
reads_of_string_nvlist(key) ==
  Observes(key, {"string", "string_array", "nvlist", "nvlist_array"})
reads_of_descriptor_binary(key) ==
  Observes(key, {"descriptor", "descriptor_array", "binary"})
-----------------------------------------------------------------------------
\* A new list, or one that the caller hands over: nobody looks at its error.
Init ==
  /\ nvl \in [flags : FlagChoices, error : Errnos \cup {NoError}, pairs : {<<>>}]
  /\ call = [op |-> "new", key |-> NoKey, type |-> AnyType, outcome |-> "ok",
             items |-> <<>>]

Running == call.outcome # "abort"

KeyOperations(key) ==
  \/ exists_type(key, AnyType) \/ free_type(key, AnyType)
  \/ reads_of_null_bool_number(key) \/ null_operations(key)
  \/ bool_operations(key) \/ number_operations(key)
  \/ reads_of_string_nvlist(key) \/ string_operations(key) \/ nvlist_operations(key)
  \/ reads_of_descriptor_binary(key) \/ descriptor_operations(key) \/ binary_operations(key)

Next ==
  /\ Running
  /\ \/ \E key \in Keys : KeyOperations(key)
     \/ empty \/ error \/ pack \/ send
     \/ \E errno \in Errnos : set_error(errno)

Spec == Init /\ [][Next]_vars
-----------------------------------------------------------------------------
(* Safety *)

\* No two pairs of the list share a name.
DistinctNames(list) ==
  "NO_UNIQUE" \notin list.flags =>
    \A i, j \in DOMAIN list.pairs :
      SameName(list, list.pairs[i].name, list.pairs[j].name) => i = j

NulFree(list) ==
  \A i \in DOMAIN list.pairs :
    list.pairs[i].name \notin NulKeys /\ ~ HasNul(list.pairs[i].items)

\* Unless the list was created with NV_FLAG_NO_UNIQUE, no sequence of add,
\* move, append, take and free calls leaves two pairs of one name in it, case
\* apart when it ignores case: an array and a scalar never share a name.
UniqueNames == DistinctNames(nvl)

\* Whichever way a name or a string got in, it holds no NUL: every member
\* function that stores one calls __check_string_null first.
NulNeverStored == NulFree(nvl)

\* The error state is final, whoever put the list into it: it changes no more,
\* and every call here but error(), operator bool and exists_* throws
\* nv_error_state: __throw_if_error comes first in each, before the checks of
\* the name and the value.  (ptr(), in_array(), dump(), fdump() and
\* packed_size(), which change nothing, do not look at the error either;
\* exists_* is the subject of ExistsInErrorState.)
ErrorIsFinal ==
  [][nvl.error # NoError =>
       /\ nvl' = nvl
       /\ call'.op \notin {"error", "exists"} => call'.outcome = "nv_error_state"]_vars

\* A call that throws leaves the pairs as they were, whether it threw before
\* or after the libnv call; only a take that cannot allocate its result has
\* already removed the value.
ThrowLeavesPairs ==
  [][/\ call'.outcome \in Exceptions
     /\ call'.outcome = "bad_alloc" => call'.op # "take"
     => nvl'.pairs = nvl.pairs]_vars

\* A value is lost only where a take copies it into a container; the comment
\* in take_descriptor_array promises that a failed allocation does not remove
\* the array, and no take of a scalar can fail half way.
FailedTakeKeepsDescriptors ==
  [][call'.outcome = "bad_alloc" /\ call'.type \in {"descriptor", "descriptor_array"}
       => nvl' = nvl]_vars

\* A list enters the error state without an exception only through move_* and
\* append_*, which do not look at nvlist_error(), or set_error().
SilentOnlyMoveAppend ==
  [][nvl.error = NoError /\ nvl'.error # NoError =>
       \/ call'.op \in {"move", "append", "set_error"}
       \/ call'.op = "add" /\ call'.outcome \in {"nv_key_exists", "system_error"}]_vars
-----------------------------------------------------------------------------
(* What the manual page says, where the code does something else *)


\* nvxx.3: the exists_* functions (all but exists() and exists_descriptor())
\* may be called on a list in the error state.
ExistsInErrorState ==
  [][nvl.error # NoError /\ call'.op = "exists" /\ call'.key \notin NulKeys
       /\ call'.type \notin {AnyType, "descriptor"}
     => call'.outcome \in {"true", "false"}]_vars
-----------------------------------------------------------------------------
(* Refinement: a list is a dictionary of queues (NvDict). *)

Canonical(list, key) == IF "IGNORE_CASE" \in list.flags THEN CaseFold[key] ELSE key

\* The values of the pairs at these places, in insertion order.
Gathered(pairs, places) ==
  LET upTo[n \in Nat] ==
        IF n = 0 THEN <<>>
        ELSE IF n \in places THEN Append(upTo[n-1], pairs[n].items) ELSE upTo[n-1]
  IN  upTo[Len(pairs)]

QueuePlaces(list, name, type) ==
  {i \in DOMAIN list.pairs :
     Canonical(list, list.pairs[i].name) = name /\ list.pairs[i].type = type}

ItemsOf(list, name, type) == Gathered(list.pairs, QueuePlaces(list, name, type))

DictOf(list) == [n \in Keys \X UsedTypes |-> ItemsOf(list, n[1], n[2])]

Dict == INSTANCE NvDict WITH
  flags <- nvl.flags,
  failed <- (nvl.error # NoError),
  dict <- DictOf(nvl)

\* Every behaviour of the list is one of the dictionary: get and take return
\* the oldest value of that name and type, append extends it, nothing else
\* moves, and nothing moves after a failure.
RefinesNvDict == Dict!Spec
=============================================================================
