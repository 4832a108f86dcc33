---------------------------- MODULE NvSerialize ----------------------------
(***************************************************************************)
(* nv_serialize() and nv_deserialize(): an object is written into a list,  *)
(* or read from one, by the member functions of NvList, one element of its *)
(* schema after the other.  Between the two the list may be changed.       *)
(*                                                                         *)
(* The elements that operator>> joins are a sequence.  The schema of a     *)
(* member that is an object is entered by putting its elements in front of *)
(* those still to do, as the recursion of nv_object does: the list stays   *)
(* the same one.  A member is named by the path that leads to it.          *)
(***************************************************************************)
EXTENDS NvList

CONSTANTS
  Members,      \* the members of the classes
  Schemas,      \* the schemas, functions from names to sequences of elements
  MaxElements,  \* no schema has more elements, with those of nested objects
  ValuesOf,     \* the values that a member of each type may have
  Blank,        \* what is in a member before it is read
  MaxChanges    \* bound: the changes of a list before it is read

VARIABLES
  object,   \* the object that was written
  target,   \* the object that is read into
  todo,     \* the elements to do, with the path of the object they are about
  phase,    \* "idle", "writing" or "reading"
  written,  \* the schema that the caller's list was written by
  current,  \* the schema that is written or read, or was last
  changes,  \* the changes made to the list since
  result    \* the outcome of the last nv_serialize() or nv_deserialize()

progress == <<object, target, todo, phase, written, current, changes, result>>
servars == <<nvl, call, object, target, todo, phase, written, current, changes, result>>

NoSchema == "no schema"
SchemaNames == DOMAIN Schemas

\* The types with an encoder; Blank is in no list.
BasicTypes == {"bool", "uint64_t", "string", "string_view", "nv_list", "const_nv_list"}
CxxTypes == [basic : BasicTypes, range : BOOLEAN, optional : BOOLEAN]

Field(name, type, member) ==
  [kind |-> "field", name |-> name, type |-> type, member |-> member]
Object(schema, member) == [kind |-> "object", schema |-> schema, member |-> member]
Literal(name, value) == [kind |-> "literal", name |-> name, value |-> value]

SchemaElements ==
  [kind : {"field"}, name : Keys, type : CxxTypes, member : Members]
    \cup [kind : {"object"}, schema : SchemaNames, member : Members]
    \cup [kind : {"literal"}, name : Keys, value : Scalars]
Entries == [path : Seq(Members), element : SchemaElements]

ASSUME SchemasAssumption ==
  /\ Schemas \in [SchemaNames -> Seq(SchemaElements)]
  /\ \A schema \in SchemaNames : Schemas[schema] # <<>>

\* A value is none, or the items of a pair; only text holds a NUL.
ASSUME ValuesAssumption ==
  \A type \in CxxTypes : \A value \in ValuesOf[type] :
    /\ value \in Seq(Seq(Scalars)) /\ Len(value) <= 1 /\ value # Blank
    /\ type.basic \notin {"string", "string_view"} /\ value # <<>> => ~ HasNul(value[1])

ASSUME MaxChangesAssumption == MaxChanges \in Nat

\* __field_sequence: the first element, and then the second.
Elements(schema, path) ==
  [n \in DOMAIN Schemas[schema] |-> [path |-> path, element |-> Schemas[schema][n]]]

\* nv_object: the elements of the member come before those still to do.
Entered(elements) ==
  LET first == Head(elements)
  IN  Elements(first.element.schema, Append(first.path, first.element.member))
        \o Tail(elements)

\* A place in a schema: the fields and literals done, and what is to do.
Advanced(at) ==
  IF at.todo = <<>> THEN at
  ELSE IF Head(at.todo).element.kind = "object" THEN [at EXCEPT !.todo = Entered(@)]
  ELSE [done |-> Append(at.done, Head(at.todo)), todo |-> Tail(at.todo)]

\* The place in each schema after n elements.
Place[n \in Nat] ==
  [schema \in SchemaNames |->
     IF n = 0 THEN [done |-> <<>>, todo |-> Elements(schema, <<>>)]
     ELSE Advanced(Place[n-1][schema])]

\* A class is not a member of itself, so that every schema has an end.
ASSUME MaxElementsAssumption ==
  /\ MaxElements \in Nat
  /\ \A schema \in SchemaNames : Place[MaxElements][schema].todo = <<>>

\* All fields and literals of a schema in the order in which they are done.
Whole == [schema \in SchemaNames |-> Place[MaxElements][schema].done]
Path(entry) == Append(entry.path, entry.element.member)
Fields == [schema \in SchemaNames |->
             {entry \in Range(Whole[schema]) : entry.element.kind = "field"}]

\* A value is the sequence of what the member holds, none if it is an optional
\* without a value.
Objects ==
  [schema \in SchemaNames |->
     LET values == UNION {ValuesOf[entry.element.type] : entry \in Fields[schema]}
     IN  {o \in [{Path(entry) : entry \in Fields[schema]} -> values] :
            \A entry \in Fields[schema] : o[Path(entry)] \in ValuesOf[entry.element.type]}]

BlankObject(schema) == [path \in {Path(entry) : entry \in Fields[schema]} |-> Blank]

\* nv_serialize() returns no list in the error state.
SerializeTypeOK ==
  /\ TypeOK
  /\ todo \in Seq(Entries)
  /\ phase \in {"idle", "writing", "reading"}
  /\ (todo = <<>>) <=> (phase = "idle")
  /\ written \in SchemaNames \cup {NoSchema} /\ current \in SchemaNames \cup {NoSchema}
  /\ result \in Exceptions \cup {"none", "ok"}
  /\ changes \in 0..MaxChanges
  /\ written # NoSchema /\ changes = 0 => nvl.error = NoError
-----------------------------------------------------------------------------
(* Encoders and decoders *)

ScalarType ==
  [bool |-> "bool", uint64_t |-> "number", string |-> "string", string_view |-> "string",
   nv_list |-> "nvlist", const_nv_list |-> "nvlist"]
ArrayType ==
  [bool |-> "bool_array", uint64_t |-> "number_array", string |-> "string_array",
   string_view |-> "string_array", nv_list |-> "nvlist_array", const_nv_list |-> "nvlist_array"]

\* Mutant: the decoder of the element in place of that of the container.
nvtype_scalar(type) == ScalarType[type.basic]

nvtype(type) == IF type.range THEN ArrayType[type.basic] ELSE ScalarType[type.basic]

\* A container of lists can be read but not written.
Encodable(type) == ~ (type.range /\ type.basic \in {"nv_list", "const_nv_list"})

AllocationFails(key) == Throws(Call("add", key, AnyType), "bad_alloc")

\* Mutant: move_* in place of add_*, so that nothing looks at nvlist_error().
encode_scalar_moving(key, basic, items) == move(key, ScalarType[basic], items)

encode_scalar(key, basic, items) ==
  IF basic \in {"string", "string_view"} THEN add_string(key, "string", items)
  ELSE add(key, ScalarType[basic], items)

\* add_*_range: the values are copied into a vector first.
encode_range(key, basic, items) ==
  \/ AllocationFails(key)
  \/ IF basic \in {"string", "string_view"} THEN add_string(key, "string_array", items)
     ELSE add(key, ArrayType[basic], items)

\* The value may have to be copied: a string or a container for want of memory
\* is not, and neither is a list.
CopyErrors(type) ==
  (IF type.range \/ type.basic = "string" THEN {"bad_alloc"} ELSE {})
    \cup (IF type.basic = "nv_list" THEN {"system_error"} ELSE {})

\* Mutant: exists_type() in place of exists().
decode_optional_typed(key, type) ==
  IF nvlist_exists_type(nvl, key, nvtype(type)) THEN get(key, nvtype(type))
  ELSE exists_type(key, nvtype(type))

decode(key, type) == get(key, nvtype(type))

\* An optional has no value if there is no pair of that name, of any type.
decode_optional(key, type) ==
  IF nvlist_exists_type(nvl, key, AnyType) THEN decode(key, type)
  ELSE exists_type(key, AnyType)
-----------------------------------------------------------------------------
(* The elements of a schema *)

Doing(kind) == todo # <<>> /\ Head(todo).element.kind = kind
Element == Head(todo).element

\* Mutant: an exception is caught, and the next element is done.
Continues_anyway ==
  /\ todo' = Tail(todo)
  /\ phase' = IF todo' = <<>> THEN "idle" ELSE phase
  /\ result' = IF call'.outcome \in Exceptions THEN call'.outcome
               ELSE IF todo' = <<>> THEN "ok" ELSE result

\* After a member function: on to the next element, or out with the exception.
Continues ==
  IF call'.outcome \in Exceptions
  THEN todo' = <<>> /\ phase' = "idle" /\ result' = call'.outcome
  ELSE /\ todo' = Tail(todo)
       /\ phase' = IF todo' = <<>> THEN "idle" ELSE phase
       /\ result' = IF todo' = <<>> THEN "ok" ELSE result

Fails(exception) == todo' = <<>> /\ phase' = "idle" /\ result' = exception

\* The list is returned when the last element is written.
Written == written' = IF result' = "ok" THEN current ELSE NoSchema

write_field ==
  /\ phase = "writing" /\ Doing("field")
  /\ LET type == Element.type
         value == object[Path(Head(todo))]
     IN  \/ /\ type.optional /\ value = <<>>
            /\ UNCHANGED <<nvl, call>>
         \/ /\ value # <<>> /\ ~ type.range
            /\ encode_scalar(Element.name, type.basic, value[1])
         \/ /\ value # <<>> /\ type.range
            /\ encode_range(Element.name, type.basic, value[1])
  /\ Continues /\ Written
  /\ UNCHANGED <<object, target, current, changes>>

write_literal ==
  /\ phase = "writing" /\ Doing("literal")
  /\ add_string(Element.name, "string", <<Element.value>>)
  /\ Continues /\ Written
  /\ UNCHANGED <<object, target, current, changes>>

\* nv_object, to write and to read.
enter_object ==
  /\ Doing("object")
  /\ todo' = Entered(todo)
  /\ UNCHANGED <<nvl, call, object, target, phase, written, current, changes, result>>

\* What the decoder returned; an optional that is absent has no value.
Decoded == IF call'.op = "get" THEN <<call'.items>> ELSE <<>>

read_field ==
  /\ phase = "reading" /\ Doing("field")
  /\ LET type == Element.type
     IN  IF type.optional THEN decode_optional(Element.name, type)
         ELSE decode(Element.name, type)
  /\ \/ /\ call'.outcome \notin Exceptions
        /\ target' = [target EXCEPT ![Path(Head(todo))] = Decoded]
        /\ Continues
     \/ call'.outcome \in Exceptions /\ target' = target /\ Continues
     \/ /\ call'.outcome = "ok" /\ target' = target
        /\ \E e \in CopyErrors(Element.type) : Fails(e)
  /\ UNCHANGED <<object, written, current, changes>>

\* Mutant: the value is not compared.
read_literal_unchecked ==
  /\ phase = "reading" /\ Doing("literal")
  /\ get(Element.name, "string")
  /\ Continues
  /\ UNCHANGED <<object, target, written, current, changes>>

read_literal ==
  /\ phase = "reading" /\ Doing("literal")
  /\ get(Element.name, "string")
  /\ IF call'.outcome = "ok" /\ call'.items # <<Element.value>>
     THEN Fails("nv_key_not_found") ELSE Continues
  /\ UNCHANGED <<object, target, written, current, changes>>
-----------------------------------------------------------------------------
SerializeInit ==
  /\ Init
  /\ object = <<>> /\ target = <<>> /\ todo = <<>> /\ phase = "idle"
  /\ written = NoSchema /\ current = NoSchema /\ changes = 0 /\ result = "none"

\* nv_serialize(): a new list, if one can be made; the caller drops his.
nv_serialize(schema) ==
  /\ phase = "idle"
  /\ \A entry \in Fields[schema] : Encodable(entry.element.type)
  /\ object' \in Objects[schema]
  /\ nvl' = [flags |-> {}, error |-> NoError, pairs |-> <<>>]
  /\ Returns(Call("new", NoKey, AnyType), "ok", <<>>)
  /\ \/ todo' = Elements(schema, <<>>) /\ phase' = "writing" /\ result' = "none"
     \/ Fails("system_error")
  /\ written' = NoSchema /\ current' = schema /\ target' = <<>> /\ changes' = 0

nv_deserialize(schema) ==
  /\ phase = "idle" /\ written # NoSchema
  /\ target' = BlankObject(schema)
  /\ todo' = Elements(schema, <<>>) /\ phase' = "reading"
  /\ current' = schema /\ result' = "none"
  /\ UNCHANGED <<nvl, call, object, written, changes>>

\* A list with the same pairs that was created with other flags.
Recreated ==
  /\ nvl.error = NoError
  /\ \E flags \in FlagChoices : nvl' = [nvl EXCEPT !.flags = flags] /\ DistinctNames(nvl')
  /\ Returns(Call("new", NoKey, AnyType), "ok", <<>>)

\* The caller, or the program that sends him lists, changes the list.
ChangeList ==
  /\ phase = "idle" /\ written # NoSchema /\ changes < MaxChanges
  /\ \/ Recreated
     \/ \E key \in Keys : free_type(key, AnyType)
     \/ \E key \in Keys, type \in {"number", "string", "nvlist_array"} :
          \E s \in ScalarsOf["number"] : add(key, type, <<s>>)
  /\ nvl' # nvl
  /\ changes' = changes + 1 /\ target' = <<>> /\ current' = NoSchema /\ result' = "none"
  /\ UNCHANGED <<object, todo, phase, written>>

SerializeNext ==
  \/ \E schema \in SchemaNames : nv_serialize(schema) \/ nv_deserialize(schema)
  \/ write_field \/ write_literal \/ enter_object \/ read_field \/ read_literal
  \/ ChangeList

SerializeSpec == SerializeInit /\ [][SerializeNext]_servars
-----------------------------------------------------------------------------
(* Safety *)

\* nv_deserialize() has returned or thrown.
Deserialized == phase = "idle" /\ target # <<>>

NameOf(n) == Whole[current][n].element.name

\* Optionals of which the list does not tell whether they have a value: one
\* that has the name of another element, and one whose name has a NUL, which
\* is looked at only when there is a value to write.
Ambiguous(schema) ==
  \E i \in DOMAIN Whole[schema] :
    LET name == Whole[schema][i].element.name
    IN  /\ Whole[schema][i] \in Fields[schema] /\ Whole[schema][i].element.type.optional
        /\ \/ name \in NulKeys
           \/ \E j \in DOMAIN Whole[schema] \ {i} : Whole[schema][j].element.name = name

\* What nv_serialize() wrote, nv_deserialize() reads back by the same schema:
\* every member, of every type, also inside other objects and of optionals
\* with and without a value; unless a copy cannot be made, or an optional
\* is ambiguous.
RoundTrip ==
  Deserialized /\ current = written /\ changes = 0 /\ ~ Ambiguous(written) =>
    \/ result = "ok" /\ target = object
    \/ result \in {"bad_alloc", "system_error"}

\* What is stored for an element, if anything is.
HasPair(entry) == entry.element.kind = "literal" \/ object[Path(entry)] # <<>>
PairOf(entry) ==
  IF entry.element.kind = "literal"
  THEN [name |-> entry.element.name, type |-> "string", items |-> <<entry.element.value>>]
  ELSE [name |-> entry.element.name, type |-> nvtype(entry.element.type),
        items |-> object[Path(entry)][1]]

\* The list has the pairs of the first d elements, in their order, and no
\* other.
ListHolds(schema, d) ==
  \E from \in [DOMAIN nvl.pairs -> 1..d] :
    /\ \A i, j \in DOMAIN nvl.pairs : i < j => from[i] < from[j]
    /\ \A n \in 1..d : HasPair(Whole[schema][n]) <=> n \in Range(from)
    /\ \A i \in DOMAIN nvl.pairs : nvl.pairs[i] = PairOf(Whole[schema][from[i]])

\* A list that nv_serialize() returned holds a pair for every literal and for
\* every member with a value, in the order of the schema, and nothing else: a
\* name that two elements share (as those of two nested objects of one type
\* do, which end up in the same list), a NUL, an empty container or a list in
\* the error state make it throw, and never return less.
ListMatchesSchema ==
  written # NoSchema /\ changes = 0 => ListHolds(written, Len(Whole[written]))

\* A schema that lists every member once.
MembersOnce(schema) ==
  \A i, j \in DOMAIN Whole[schema] :
    /\ Whole[schema][i] \in Fields[schema] /\ Whole[schema][j] \in Fields[schema]
    /\ Path(Whole[schema][i]) = Path(Whole[schema][j])
    => i = j

\* When nv_deserialize() throws, whatever list it was given, the members in
\* front of the element that it failed at have been assigned, from the pair of
\* their name and type, and those behind it have been left alone.
DecodedPrefix ==
  Deserialized /\ MembersOnce(current) =>
    \E done \in 0..Len(Whole[current]) :
      /\ result = "ok" <=> done = Len(Whole[current])
      /\ \A n \in DOMAIN Whole[current] : Whole[current][n] \in Fields[current] =>
           LET type == Whole[current][n].element.type
               value == target[Path(Whole[current][n])]
               found == nvlist_find(nvl, NameOf(n), nvtype(type))
           IN  IF n > done THEN value = Blank
               ELSE value \in {<<nvl.pairs[i].items>> : i \in found}
                                \cup (IF type.optional THEN {<<>>} ELSE {})

\* Nothing behind a literal is assigned unless the list has the string that
\* the literal stands for: with the literal in front, an object is not touched
\* by a list of another kind.
LiteralGuards ==
  Deserialized /\ MembersOnce(current) =>
    \A n, m \in DOMAIN Whole[current] :
      /\ n < m /\ Whole[current][n].element.kind = "literal"
      /\ Whole[current][m] \in Fields[current]
      /\ target[Path(Whole[current][m])] # Blank
      => \E i \in nvlist_find(nvl, NameOf(n), "string") :
           nvl.pairs[i].items = <<Whole[current][n].element.value>>

\* An optional is read without a value if and only if the list has no pair of
\* that name: one of another type is an error, and never taken for none.
OptionalAbsent ==
  Deserialized /\ MembersOnce(current) =>
    \A n \in DOMAIN Whole[current] :
      /\ Whole[current][n] \in Fields[current]
      /\ target[Path(Whole[current][n])] # Blank
      => /\ Whole[current][n].element.type.optional
         /\ target[Path(Whole[current][n])] = <<>>
         <=> ~ nvlist_exists_type(nvl, NameOf(n), AnyType)
=============================================================================
