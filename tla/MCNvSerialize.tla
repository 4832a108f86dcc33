--------------------------- MODULE MCNvSerialize ---------------------------
(***************************************************************************)
(* A small instance of NvSerialize: schemas with every kind of element and *)
(* every type of member, and values that cannot be written; b is a in      *)
(* another case.                                                           *)
(***************************************************************************)
EXTENDS NvSerialize

CONSTANTS tag, a, b, nulName, v, w, nulStr, badList

MCKeys == {tag, a, b, nulName}
MCCaseFold == [x \in Keys |-> IF x = b THEN a ELSE x]
MCScalars == {v, w, nulStr, badList}
MCItemErrno == [s \in Scalars |-> IF s = badList THEN "EINVAL" ELSE NoError]
MCScalarsOf == [t \in Types |-> {v, w}]
MCFlags == SUBSET Flags

Type(basic) == [basic |-> basic, range |-> FALSE, optional |-> FALSE]
Container(basic) == [Type(basic) EXCEPT !.range = TRUE]
Optional(type) == [type EXCEPT !.optional = TRUE]

Tag(value) == Literal(tag, value)

MCMembers == {"n", "t", "inner", "first", "second", "s", "o", "w", "l", "c"}

MCSchemas ==
  [number |-> <<Field(a, Type("uint64_t"), "n")>>,
   nested |-> <<Field(b, Type("bool"), "t"), Object("number", "inner")>>,
   twice |-> <<Object("number", "first"), Object("number", "second")>>,
   tagged |-> <<Tag(v), Field(a, Type("string"), "s"), Field(b, Optional(Type("uint64_t")), "o")>>,
   other |-> <<Tag(w), Field(a, Optional(Container("uint64_t")), "o")>>,
   hidden |-> <<Field(nulName, Optional(Type("uint64_t")), "o"), Field(a, Type("bool"), "t")>>,
   shared |-> <<Field(a, Optional(Type("uint64_t")), "o"), Field(a, Type("uint64_t"), "n")>>,
   again |-> <<Field(a, Type("bool"), "t"), Field(b, Type("bool"), "t")>>,
   ranges |-> <<Field(tag, Container("bool"), "t"), Field(a, Container("string"), "s"),
                Field(b, Container("string_view"), "w")>>,
   views |-> <<Field(tag, Type("string_view"), "w"), Field(a, Type("nv_list"), "l"),
               Field(b, Type("const_nv_list"), "c")>>,
   lists |-> <<Field(a, Container("nv_list"), "l"), Field(b, Container("const_nv_list"), "c")>>]

SingleValues(basic) ==
  CASE basic \in {"string", "string_view"} -> {<<v>>, <<nulStr>>}
    [] basic \in {"nv_list", "const_nv_list"} -> {<<v>>, <<badList>>}
    [] OTHER -> {<<v>>, <<w>>}

MCValuesOf ==
  [t \in CxxTypes |->
     {<<items>> : items \in SingleValues(t.basic) \cup (IF t.range THEN {<<>>} ELSE {})}
       \cup (IF t.optional THEN {<<>>} ELSE {})]
=============================================================================
