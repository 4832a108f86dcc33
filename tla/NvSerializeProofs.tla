------------------------- MODULE NvSerializeProofs -------------------------
(***************************************************************************)
(* Proofs about NvSerialize, for all schemas and all values.               *)
(***************************************************************************)
EXTENDS NvSerialize, NvListProofs

Positions == [done : Seq(Entries), todo : Seq(Entries)]

\* The one sequence begins with the other.
Begins(first, whole) ==
  Len(first) <= Len(whole) /\ \A n \in 1..Len(first) : first[n] = whole[n]
-----------------------------------------------------------------------------
(* Schemas *)

LEMMA ElementParts ==
  ASSUME NEW element \in SchemaElements
  PROVE  /\ element.kind \in {"field", "literal", "object"}
         /\ element.kind = "object" => element.schema \in SchemaNames
         /\ element.kind \in {"field", "object"} => element.member \in Members
         /\ element.kind \in {"field", "literal"} => element.name \in Keys
         /\ element.kind = "field" => element.type \in CxxTypes
         /\ element.kind = "literal" => element.value \in Scalars
BY DEF SchemaElements

LEMMA ElementsType ==
  ASSUME NEW schema \in SchemaNames, NEW path \in Seq(Members)
  PROVE  Elements(schema, path) \in Seq(Entries) /\ Elements(schema, path) # <<>>
<1>1. /\ Schemas[schema] \in Seq(SchemaElements) /\ Schemas[schema] # <<>>
  BY SchemasAssumption
<1>2. \A n \in DOMAIN Schemas[schema] :
        [path |-> path, element |-> Schemas[schema][n]] \in Entries
  BY <1>1 DEF Entries
<1> QED
  BY <1>1, <1>2 DEF Elements

LEMMA HeadAndTail ==
  ASSUME NEW s \in Seq(Entries), s # <<>>
  PROVE  /\ Head(s) \in Entries /\ Tail(s) \in Seq(Entries)
         /\ Head(s).element \in SchemaElements /\ Head(s).path \in Seq(Members)
<1>1. Head(s) \in Entries /\ Tail(s) \in Seq(Entries)
  OBVIOUS
<1> QED
  BY <1>1 DEF Entries

LEMMA EnteredType ==
  ASSUME NEW s \in Seq(Entries), s # <<>>, Head(s).element.kind = "object"
  PROVE  Entered(s) \in Seq(Entries) /\ Entered(s) # <<>>
<1> DEFINE front == Elements(Head(s).element.schema,
                             Append(Head(s).path, Head(s).element.member))
<1>1. /\ Head(s).element.schema \in SchemaNames
      /\ Append(Head(s).path, Head(s).element.member) \in Seq(Members)
      /\ Tail(s) \in Seq(Entries)
  BY HeadAndTail, ElementParts
<1>2. front \in Seq(Entries) /\ front # <<>>
  BY <1>1, ElementsType
<1> HIDE DEF front
<1>3. /\ front \o Tail(s) \in Seq(Entries)
      /\ Len(front \o Tail(s)) = Len(front) + Len(Tail(s))
  BY <1>1, <1>2, ConcatProperties
<1>4. Len(front) > 0 /\ Len(Tail(s)) \in Nat
  BY <1>1, <1>2
<1>5. front \o Tail(s) # <<>>
  BY <1>3, <1>4
<1> QED
  BY <1>3, <1>5 DEF Entered, front

LEMMA AdvancedType ==
  ASSUME NEW at \in Positions
  PROVE  Advanced(at) \in Positions
<1>1. at.done \in Seq(Entries) /\ at.todo \in Seq(Entries)
  BY DEF Positions
<1>2. CASE at.todo = <<>>
  BY <1>2 DEF Advanced
<1>3. CASE at.todo # <<>> /\ Head(at.todo).element.kind = "object"
  <2>1. Entered(at.todo) \in Seq(Entries)
    BY <1>1, <1>3, EnteredType
  <2> QED
    BY <1>3, <2>1 DEF Advanced, Positions
<1>4. CASE at.todo # <<>> /\ Head(at.todo).element.kind # "object"
  <2>1. Head(at.todo) \in Entries /\ Tail(at.todo) \in Seq(Entries)
    BY <1>1, <1>4, HeadAndTail
  <2>2. Append(at.done, Head(at.todo)) \in Seq(Entries)
    BY <1>1, <2>1
  <2> QED
    BY <1>4, <2>1, <2>2 DEF Advanced, Positions
<1> QED
  BY <1>2, <1>3, <1>4

\* Place is what its definition says.
LEMMA PlaceDefined ==
  Place = [n \in Nat |->
            [schema \in SchemaNames |->
               IF n = 0 THEN [done |-> <<>>, todo |-> Elements(schema, <<>>)]
               ELSE Advanced(Place[n-1][schema])]]
<1> DEFINE S == [SchemaNames -> Positions]
           start == [schema \in SchemaNames |->
                       [done |-> <<>>, todo |-> Elements(schema, <<>>)]]
           step == [p \in Nat \X S |-> [schema \in SchemaNames |-> Advanced(p[2][schema])]]
           Unfolded(f) == [n \in Nat |->
                            [schema \in SchemaNames |->
                               IF n = 0 THEN [done |-> <<>>, todo |-> Elements(schema, <<>>)]
                               ELSE Advanced(f[n-1][schema])]]
<1>1. start \in S
  <2>1. \A schema \in SchemaNames : Elements(schema, <<>>) \in Seq(Entries)
    <3>1. <<>> \in Seq(Members)
      OBVIOUS
    <3> QED
      BY <3>1, ElementsType
  <2>2. <<>> \in Seq(Entries)
    OBVIOUS
  <2> QED
    BY <2>1, <2>2 DEF Positions
<1>2. step \in [Nat \X S -> S]
  BY AdvancedType
<1>3. \A n \in Nat, at \in S :
        step[<<n, at>>] = [schema \in SchemaNames |-> Advanced(at[schema])]
  <2> HIDE DEF S
  <2> TAKE n \in Nat, at \in S
  <2>1. <<n, at>> \in Nat \X S /\ <<n, at>>[2] = at
    OBVIOUS
  <2> QED
    BY <2>1
<1> HIDE DEF start, step, S
<1>4. PICK f \in [Nat -> S] : Iterates(f, start, step)
  BY <1>1, <1>2, Recursion
<1>5. f = Unfolded(f)
  <2>1. ASSUME NEW n \in Nat
        PROVE  f[n] = Unfolded(f)[n]
    <3>1. CASE n = 0
      BY <1>4, <3>1 DEF start, Iterates
    <3>2. CASE n # 0
      <4>1. n - 1 \in Nat /\ (n - 1) + 1 = n
        BY <3>2
      <4>2. f[n] = [schema \in SchemaNames |-> Advanced(f[n-1][schema])]
        BY <1>3, <1>4, <4>1 DEF Iterates
      <4> QED
        BY <3>2, <4>2
    <3> QED
      BY <3>1, <3>2
  <2> QED
    BY <2>1
<1>6. \E g : g = Unfolded(g)
  BY <1>5
<1> QED
  BY <1>6 DEF Place

LEMMA PlaceSteps ==
  ASSUME NEW schema \in SchemaNames
  PROVE  /\ Place[0][schema] = [done |-> <<>>, todo |-> Elements(schema, <<>>)]
         /\ \A n \in Nat : Place[n][schema] \in Positions
         /\ \A n \in Nat : Place[n+1][schema] = Advanced(Place[n][schema])
<1>1. Place[0][schema] = [done |-> <<>>, todo |-> Elements(schema, <<>>)]
  BY PlaceDefined
<1>2. ASSUME NEW n \in Nat
      PROVE  Place[n+1][schema] = Advanced(Place[n][schema])
  <2>1. n + 1 \in Nat /\ n + 1 # 0 /\ (n + 1) - 1 = n
    OBVIOUS
  <2>2. Place[n+1][schema] = IF n + 1 = 0
                             THEN [done |-> <<>>, todo |-> Elements(schema, <<>>)]
                             ELSE Advanced(Place[(n+1)-1][schema])
    BY PlaceDefined, <2>1
  <2> QED
    BY <2>1, <2>2
<1> DEFINE T == {n \in Nat : Place[n][schema] \in Positions}
<1>3. 0 \in T
  <2>1. <<>> \in Seq(Members) /\ <<>> \in Seq(Entries)
    OBVIOUS
  <2>2. Elements(schema, <<>>) \in Seq(Entries)
    BY <2>1, ElementsType
  <2>3. [done |-> <<>>, todo |-> Elements(schema, <<>>)] \in Positions
    BY <2>1, <2>2 DEF Positions
  <2> QED
    BY <1>1, <2>3
<1>4. \A n \in Nat : n \in T => n + 1 \in T
  BY <1>2, AdvancedType
<1> HIDE DEF T
<1>5. Nat \subseteq T
  BY <1>3, <1>4, Induction
<1> QED
  BY <1>1, <1>2, <1>5 DEF T

LEMMA AdvancedGrows ==
  ASSUME NEW at \in Positions
  PROVE  Begins(at.done, Advanced(at).done)
<1>1. at.done \in Seq(Entries) /\ at.todo \in Seq(Entries)
  BY DEF Positions
<1>2. CASE at.todo = <<>> \/ Head(at.todo).element.kind = "object"
  <2>1. Advanced(at).done = at.done
    BY <1>2 DEF Advanced, Positions
  <2> QED
    BY <1>1, <2>1 DEF Begins
<1>3. CASE at.todo # <<>> /\ Head(at.todo).element.kind # "object"
  <2>1. Head(at.todo) \in Entries
    BY <1>1, <1>3, HeadAndTail
  <2>2. Advanced(at).done = Append(at.done, Head(at.todo))
    BY <1>3 DEF Advanced
  <2> QED
    BY <1>1, <2>1, <2>2 DEF Begins
<1> QED
  BY <1>2, <1>3

LEMMA PlaceGrows ==
  ASSUME NEW schema \in SchemaNames, NEW n \in Nat, NEW m \in Nat, n <= m
  PROVE  /\ Begins(Place[n][schema].done, Place[m][schema].done)
         /\ Place[n][schema].todo = <<>> => Place[m][schema] = Place[n][schema]
<1> DEFINE P(k) == Place[k][schema]
           T == {k \in Nat : /\ Begins(P(n).done, P(n+k).done)
                             /\ P(n).todo = <<>> => P(n+k) = P(n)}
<1>1. \A k \in Nat : /\ P(k) \in Positions /\ P(k).done \in Seq(Entries)
                     /\ P(k+1) = Advanced(P(k)) /\ Begins(P(k).done, P(k+1).done)
  <2>1. \A k \in Nat : P(k) \in Positions /\ P(k+1) = Advanced(P(k))
    BY PlaceSteps
  <2> HIDE DEF P
  <2> QED
    BY <2>1, AdvancedGrows DEF Positions
<1> HIDE DEF P
<1>2. 0 \in T
  <2>1. n + 0 = n
    OBVIOUS
  <2> QED
    BY <2>1 DEF Begins
<1>3. ASSUME NEW k \in Nat, k \in T
      PROVE  k + 1 \in T
  <2>1. n + k \in Nat /\ n + (k + 1) = (n + k) + 1
    OBVIOUS
  <2>2. P(n).done \in Seq(Entries) /\ P(n+k).done \in Seq(Entries)
    BY <1>1, <2>1
  <2>3. Begins(P(n+k).done, P(n+(k+1)).done) /\ P(n+(k+1)) = Advanced(P(n+k))
    BY <1>1, <2>1
  <2>4. Begins(P(n).done, P(n+(k+1)).done)
    BY <1>3, <2>2, <2>3 DEF Begins
  <2>5. P(n).todo = <<>> => P(n+(k+1)) = P(n)
    BY <1>3, <2>3 DEF Advanced
  <2> QED
    BY <2>4, <2>5
<1> HIDE DEF T
<1>4. Nat \subseteq T
  BY <1>2, <1>3, Induction
<1>5. m - n \in T /\ n + (m - n) = m
  BY <1>4
<1> QED
  BY <1>5 DEF T, P

LEMMA WholeType ==
  ASSUME NEW schema \in SchemaNames
  PROVE  /\ Whole[schema] \in Seq(Entries)
         /\ Whole[schema] = Place[MaxElements][schema].done
BY PlaceSteps, MaxElementsAssumption DEF Whole, Positions

\* The elements done so far are the first of the whole schema.
LEMMA DoneBeginsWhole ==
  ASSUME NEW schema \in SchemaNames, NEW n \in Nat
  PROVE  /\ Begins(Place[n][schema].done, Whole[schema])
         /\ Place[n][schema].todo = <<>> => Place[n][schema].done = Whole[schema]
<1>1. /\ MaxElements \in Nat /\ Place[MaxElements][schema].todo = <<>>
      /\ Whole[schema] = Place[MaxElements][schema].done
  BY WholeType, MaxElementsAssumption
<1>2. Place[n][schema].done \in Seq(Entries)
  BY PlaceSteps DEF Positions
<1>3. CASE n <= MaxElements
  BY <1>1, <1>3, PlaceGrows
<1>4. CASE MaxElements <= n
  <2>1. Place[n][schema] = Place[MaxElements][schema]
    BY <1>1, <1>4, PlaceGrows
  <2> QED
    BY <1>1, <1>2, <2>1 DEF Begins
<1> QED
  BY <1>1, <1>3, <1>4

\* After d fields and literals of the schema, rest is to do.
AtPlace(schema, rest, d) ==
  \E n \in 0..MaxElements :
    Place[n][schema].todo = rest /\ Len(Place[n][schema].done) = d

LEMMA PlaceBegin ==
  ASSUME NEW schema \in SchemaNames
  PROVE  AtPlace(schema, Elements(schema, <<>>), 0)
<1>1. 0 \in 0..MaxElements
  BY MaxElementsAssumption
<1>2. /\ Place[0][schema].todo = Elements(schema, <<>>)
      /\ Place[0][schema].done = <<>>
  <2>1. Place[0][schema] = [done |-> <<>>, todo |-> Elements(schema, <<>>)]
    BY PlaceSteps
  <2> QED
    BY <2>1
<1>3. Len(<<>>) = 0
  OBVIOUS
<1> QED
  BY <1>1, <1>2, <1>3 DEF AtPlace

LEMMA PlaceNext ==
  ASSUME NEW schema \in SchemaNames, NEW rest, NEW d, AtPlace(schema, rest, d), rest # <<>>
  PROVE  \E n \in 0..MaxElements :
           /\ n + 1 \in 0..MaxElements
           /\ Place[n][schema].todo = rest /\ Len(Place[n][schema].done) = d
           /\ Place[n][schema] \in Positions
           /\ Place[n+1][schema] = Advanced(Place[n][schema])
<1>1. PICK n \in 0..MaxElements :
        Place[n][schema].todo = rest /\ Len(Place[n][schema].done) = d
  BY DEF AtPlace
<1>2. MaxElements \in Nat /\ n # MaxElements
  BY <1>1, MaxElementsAssumption
<1>3. n \in Nat /\ n + 1 \in 0..MaxElements
  BY <1>2
<1> QED
  BY <1>1, <1>3, PlaceSteps

LEMMA PlaceEnter ==
  ASSUME NEW schema \in SchemaNames, NEW rest, NEW d, AtPlace(schema, rest, d),
         rest # <<>>, Head(rest).element.kind = "object"
  PROVE  AtPlace(schema, Entered(rest), d)
<1>1. PICK n \in 0..MaxElements :
           /\ n + 1 \in 0..MaxElements
           /\ Place[n][schema].todo = rest /\ Len(Place[n][schema].done) = d
           /\ Place[n][schema] \in Positions
           /\ Place[n+1][schema] = Advanced(Place[n][schema])
  BY PlaceNext
<1>2. /\ Place[n+1][schema].todo = Entered(rest)
      /\ Place[n+1][schema].done = Place[n][schema].done
  BY <1>1 DEF Advanced, Positions
<1> QED
  BY <1>1, <1>2 DEF AtPlace

LEMMA PlacePass ==
  ASSUME NEW schema \in SchemaNames, NEW rest, NEW d, AtPlace(schema, rest, d),
         rest # <<>>, Head(rest).element.kind # "object"
  PROVE  /\ AtPlace(schema, Tail(rest), d + 1)
         /\ d + 1 \in 1..Len(Whole[schema]) /\ Whole[schema][d+1] = Head(rest)
<1>1. PICK n \in 0..MaxElements :
           /\ n + 1 \in 0..MaxElements
           /\ Place[n][schema].todo = rest /\ Len(Place[n][schema].done) = d
           /\ Place[n][schema] \in Positions
           /\ Place[n+1][schema] = Advanced(Place[n][schema])
  BY PlaceNext
<1>2. /\ Place[n+1][schema].todo = Tail(rest)
      /\ Place[n+1][schema].done = Append(Place[n][schema].done, Head(rest))
  BY <1>1 DEF Advanced
<1>3. Place[n][schema].done \in Seq(Entries) /\ rest \in Seq(Entries)
  BY <1>1 DEF Positions
<1>4. Head(rest) \in Entries
  BY <1>3
<1>5. /\ Len(Place[n+1][schema].done) = d + 1 /\ Place[n+1][schema].done[d+1] = Head(rest)
      /\ d \in Nat
  BY <1>1, <1>2, <1>3, <1>4
<1>6. AtPlace(schema, Tail(rest), d + 1)
  BY <1>1, <1>2, <1>5 DEF AtPlace
<1>7. Begins(Place[n+1][schema].done, Whole[schema])
  BY <1>1, DoneBeginsWhole
<1> QED
  BY <1>5, <1>6, <1>7, WholeType DEF Begins

LEMMA PlaceEnd ==
  ASSUME NEW schema \in SchemaNames, NEW d, AtPlace(schema, <<>>, d)
  PROVE  d = Len(Whole[schema])
BY MaxElementsAssumption, DoneBeginsWhole DEF AtPlace
-----------------------------------------------------------------------------
(* What is inductive *)

IsField(schema, n) == Whole[schema][n] \in Fields[schema]
MemberPath(schema, n) == Path(Whole[schema][n])
TypeAt(schema, n) == Whole[schema][n].element.type
Paths(schema) == {Path(entry) : entry \in Fields[schema]}
Targets(schema) == [Paths(schema) -> {Blank} \cup Seq(Seq(Scalars))]

\* The list has what was written of the first d elements of the object, and
\* only an optional is without a value.
Wrote(schema, d) ==
  /\ ListHolds(schema, d)
  /\ \A n \in 1..d : IsField(schema, n) /\ object[MemberPath(schema, n)] = <<>> =>
       TypeAt(schema, n).optional

\* A list fit for writing, and the object that is written.
Sound(schema) == object \in Objects[schema] /\ nvl.flags = {} /\ nvl.error = NoError

Writing ==
  phase = "writing" =>
    /\ current \in SchemaNames /\ written = NoSchema /\ target = <<>> /\ result = "none"
    /\ Sound(current)
    /\ \E d \in Nat : AtPlace(current, todo, d) /\ Wrote(current, d)

Kept ==
  written # NoSchema /\ changes = 0 =>
    written \in SchemaNames /\ Sound(written) /\ Wrote(written, Len(Whole[written]))

\* What the list has for a member.
FoundValues(schema, n) ==
  {<<nvl.pairs[i].items>> :
     i \in nvlist_find(nvl, Whole[schema][n].element.name, nvtype(TypeAt(schema, n)))}
Present(schema, n) == nvlist_exists_type(nvl, Whole[schema][n].element.name, AnyType)

\* The value of a member comes from the list, and is none if it has no pair.
TakenFrom(schema, n, value) ==
  \/ value \in FoundValues(schema, n) /\ Present(schema, n)
  \/ TypeAt(schema, n).optional /\ value = <<>> /\ ~ Present(schema, n)

IsLiteral(schema, n) == Whole[schema][n].element.kind = "literal"
LiteralFound(schema, n) ==
  \E i \in nvlist_find(nvl, Whole[schema][n].element.name, "string") :
    nvl.pairs[i].items = <<Whole[schema][n].element.value>>

\* The first d elements have been read, and no other.
Took(schema, d) ==
  \A n \in DOMAIN Whole[schema] :
    /\ IsField(schema, n) /\ n > d => target[MemberPath(schema, n)] = Blank
    /\ IsField(schema, n) /\ n <= d => TakenFrom(schema, n, target[MemberPath(schema, n)])
    /\ IsLiteral(schema, n) /\ n <= d => LiteralFound(schema, n)

\* The list is read as it was written.
Faithful == current = written /\ changes = 0 /\ ~ Ambiguous(written)

Restored(schema, d) ==
  \A n \in 1..d : IsField(schema, n) =>
    target[MemberPath(schema, n)] = object[MemberPath(schema, n)]

Progress(d) ==
  /\ MembersOnce(current) => Took(current, d)
  /\ Faithful => Restored(current, d)

Reading ==
  phase = "reading" =>
    /\ current \in SchemaNames /\ written # NoSchema /\ target \in Targets(current)
    /\ result = "none"
    /\ \E d \in Nat : AtPlace(current, todo, d) /\ Progress(d)

ReadDone ==
  Deserialized =>
    /\ current \in SchemaNames /\ written # NoSchema /\ target \in Targets(current)
    /\ \E d \in 0..Len(Whole[current]) :
         (result = "ok" <=> d = Len(Whole[current])) /\ Progress(d)
    /\ Faithful /\ result # "ok" => result \in {"bad_alloc", "system_error"}

SInv == IInv /\ SerializeTypeOK /\ Writing /\ Kept /\ Reading /\ ReadDone
-----------------------------------------------------------------------------
(* What the member functions that are called return *)

LEMMA ThrowOutcome ==
  ASSUME NEW c, NEW e, Throws(c, e)
  PROVE  call'.outcome = e /\ nvl' = nvl
BY DEF Throws, Returns

LEMMA RejectOutcome ==
  ASSUME NEW c, Rejects(c)
  PROVE  /\ call'.outcome \in Exceptions /\ nvl' = nvl
         /\ nvl.error = NoError /\ c.key \notin NulKeys => call'.outcome = "bad_alloc"
BY ThrowOutcome
DEF Rejects, Refuses, CannotCopy, throw_if_error, check_string_null, Exceptions

LEMMA AddOutcome ==
  ASSUME nvl \in Lists, nvl.error = NoError, NEW key \in Keys, NEW type \in Types,
         NEW items \in Seq(Scalars), add(key, type, items)
  PROVE  \/ call'.outcome \in Exceptions
         \/ /\ call'.outcome = "ok" /\ key \notin NulKeys
            /\ nvl' = [nvl EXCEPT !.pairs =
                         Append(@, [name |-> key, type |-> type, items |-> items])]
<1> DEFINE c == Call("add", key, type)
<1>1. CASE Rejects(c)
  BY <1>1, RejectOutcome
<1>2. CASE /\ Accepts(c) /\ nvl' \in nvlist_add(nvl, key, type, items)
           /\ Returns(c, Reported(nvl'.error), items)
  <2>1. key \notin NulKeys /\ call'.outcome = Reported(nvl'.error)
    BY <1>2 DEF Accepts, Returns, Call
  <2>2. BuildErrors(type, items) \cup {"ENOMEM", "EEXIST"} \subseteq Errnos
    BY ItemErrnoAssumption DEF BuildErrors, Errnos, NoError
  <2>3. \A e \in Errnos : nvlist_set_error(nvl, e).error = e
    BY DEF nvlist_set_error, Lists
  <2>4. \A e \in Errnos : Reported(e) \in Exceptions
    BY DEF Errnos, Reported, NoError, Exceptions
  <2>5. \/ \E e \in Errnos : nvl' = nvlist_set_error(nvl, e)
        \/ nvl' = [nvl EXCEPT !.pairs =
                     Append(@, [name |-> key, type |-> type, items |-> items])]
    BY <1>2, <2>2 DEF nvlist_add
  <2>6. CASE \E e \in Errnos : nvl' = nvlist_set_error(nvl, e)
    BY <2>1, <2>3, <2>4, <2>6
  <2>7. CASE nvl' = [nvl EXCEPT !.pairs =
                       Append(@, [name |-> key, type |-> type, items |-> items])]
    <3>1. nvl'.error = NoError
      BY <2>7 DEF Lists
    <3> QED
      BY <2>1, <2>7, <3>1 DEF Reported
  <2> QED
    BY <2>5, <2>6, <2>7
<1> QED
  BY <1>1, <1>2 DEF add

LEMMA AddStringOutcome ==
  ASSUME nvl \in Lists, nvl.error = NoError, NEW key \in Keys, NEW type \in Types,
         NEW items \in Seq(Scalars), add_string(key, type, items)
  PROVE  \/ call'.outcome \in Exceptions
         \/ /\ call'.outcome = "ok" /\ key \notin NulKeys
            /\ nvl' = [nvl EXCEPT !.pairs =
                         Append(@, [name |-> key, type |-> type, items |-> items])]
BY AddOutcome, RejectOutcome, ThrowOutcome DEF add_string, Rejects, Exceptions

LEMMA GetOutcome ==
  ASSUME NEW key, NEW type, get(key, type)
  PROVE  /\ nvl' = nvl
         /\ \/ call'.outcome \in Exceptions
            \/ /\ call'.outcome = "ok" /\ call'.op = "get"
               /\ \E i \in nvlist_find(nvl, key, type) : call'.items = nvl.pairs[i].items
         /\ nvl.error = NoError /\ key \notin NulKeys /\ nvlist_exists_type(nvl, key, type)
              => call'.outcome \in {"ok", "bad_alloc"}
<1> DEFINE c == Call("get", key, type)
<1>1. c.op = "get" /\ c.key = key /\ c.type = type
  BY DEF Call
<1>2. CASE Rejects(c)
  BY <1>1, <1>2, RejectOutcome
<1>3. CASE Accepts(c) /\ Missing(c) /\ Throws(c, "nv_key_not_found")
  BY <1>1, <1>3, ThrowOutcome DEF Missing, Exceptions
<1>4. ASSUME Accepts(c), UNCHANGED nvl, NEW i \in nvlist_find(nvl, key, type),
             Returns(c, "ok", nvl.pairs[i].items)
      PROVE  /\ call'.outcome = "ok" /\ call'.op = "get"
             /\ call'.items = nvl.pairs[i].items
  BY <1>1, <1>4 DEF Returns
<1> QED
  BY <1>2, <1>3, <1>4 DEF get

LEMMA ExistsOutcome ==
  ASSUME NEW key, NEW type, exists_type(key, type)
  PROVE  /\ nvl' = nvl
         /\ \/ call'.outcome \in Exceptions
            \/ /\ call'.outcome \in {"true", "false"} /\ call'.op = "exists"
               /\ nvl.error = NoError
         /\ nvl.error = NoError /\ key \notin NulKeys =>
              call'.outcome \notin Exceptions \ {"bad_alloc"}
<1> DEFINE c == Call("exists", key, type)
<1>1. c.op = "exists" /\ c.key = key /\ c.type = type
  BY DEF Call
<1>2. CASE Rejects(c)
  BY <1>1, <1>2, RejectOutcome
<1>3. CASE Accepts(c) /\ UNCHANGED nvl
           /\ Returns(c, Truth(nvlist_exists_type(nvl, key, type)), <<>>)
  BY <1>1, <1>3 DEF Accepts, Returns, Truth, Exceptions
<1> QED
  BY <1>2, <1>3 DEF exists_type
-----------------------------------------------------------------------------
(* Elements and what is in the list for them *)

LEMMA WholeParts ==
  ASSUME NEW schema \in SchemaNames
  PROVE  /\ DOMAIN Whole[schema] = 1..Len(Whole[schema]) /\ Len(Whole[schema]) \in Nat
         /\ \A n \in 1..Len(Whole[schema]) :
              /\ Whole[schema][n] \in Entries
              /\ IsField(schema, n) <=> Whole[schema][n].element.kind = "field"
              /\ IsField(schema, n) => /\ TypeAt(schema, n) \in CxxTypes
                                       /\ Whole[schema][n].element.name \in Keys
                                       /\ MemberPath(schema, n) \in Paths(schema)
              /\ IsLiteral(schema, n) => /\ Whole[schema][n].element.name \in Keys
                                         /\ Whole[schema][n].element.value \in Scalars
<1>1. Whole[schema] \in Seq(Entries)
  BY WholeType
<1>2. DOMAIN Whole[schema] = 1..Len(Whole[schema]) /\ Len(Whole[schema]) \in Nat
  BY <1>1
<1>3. ASSUME NEW n \in 1..Len(Whole[schema])
      PROVE  /\ Whole[schema][n] \in Entries
             /\ IsField(schema, n) <=> Whole[schema][n].element.kind = "field"
             /\ IsField(schema, n) => /\ TypeAt(schema, n) \in CxxTypes
                                      /\ Whole[schema][n].element.name \in Keys
                                      /\ MemberPath(schema, n) \in Paths(schema)
             /\ IsLiteral(schema, n) => /\ Whole[schema][n].element.name \in Keys
                                        /\ Whole[schema][n].element.value \in Scalars
  <2>1. Whole[schema][n] \in Entries
    BY <1>1
  <2>2. Whole[schema][n].element \in SchemaElements
    BY <2>1 DEF Entries
  <2>3. Whole[schema][n] \in Range(Whole[schema])
    BY <1>2 DEF Range
  <2>4. IsField(schema, n) <=> Whole[schema][n].element.kind = "field"
    BY <2>3 DEF IsField, Fields
  <2>5. IsField(schema, n) => MemberPath(schema, n) \in Paths(schema)
    BY DEF IsField, MemberPath, Paths
  <2> QED
    BY <2>1, <2>2, <2>4, <2>5, ElementParts DEF TypeAt, IsLiteral
<1> QED
  BY <1>2, <1>3

LEMMA TypesOfMembers ==
  ASSUME NEW type \in CxxTypes
  PROVE  /\ nvtype(type) \in Types
         /\ ScalarType[type.basic] \in Types /\ ArrayType[type.basic] \in Types
         /\ nvtype(type) = IF type.range THEN ArrayType[type.basic]
                           ELSE ScalarType[type.basic]
<1>1. type.basic \in BasicTypes
  BY DEF CxxTypes
<1>2. ScalarType[type.basic] \in Types /\ ArrayType[type.basic] \in Types
  BY <1>1 DEF ScalarType, ArrayType, BasicTypes, Types, ScalarTypes, ArrayTypes
<1> QED
  BY <1>2 DEF nvtype

LEMMA OnlyElement ==
  ASSUME NEW S, NEW s \in Seq(S), Len(s) <= 1, s # <<>>
  PROVE  s[1] \in S /\ s = <<s[1]>>
<1>1. Len(s) = 1
  <2>1. Len(s) # 0 /\ Len(s) \in Nat
    OBVIOUS
  <2> QED
    BY <2>1
<1>2. s[1] \in S
  BY <1>1, ElementOfSeq
<1>3. <<s[1]>> \in Seq(S) /\ Len(<<s[1]>>) = 1 /\ <<s[1]>>[1] = s[1]
  BY <1>2
<1> QED
  BY <1>1, <1>2, <1>3, SeqEqual

\* What a member of the object may hold.
LEMMA MemberValue ==
  ASSUME NEW schema \in SchemaNames, object \in Objects[schema],
         NEW n \in 1..Len(Whole[schema]), IsField(schema, n)
  PROVE  LET value == object[MemberPath(schema, n)]
         IN  /\ value \in ValuesOf[TypeAt(schema, n)]
             /\ value \in Seq(Seq(Scalars)) /\ value # Blank
             /\ value # <<>> => /\ value[1] \in Seq(Scalars) /\ value = <<value[1]>>
                                /\ TypeAt(schema, n).basic \notin {"string", "string_view"}
                                     => ~ HasNul(value[1])
<1> DEFINE value == object[MemberPath(schema, n)]
<1>1. value \in ValuesOf[TypeAt(schema, n)]
  BY DEF Objects, IsField, MemberPath, TypeAt
<1>2. TypeAt(schema, n) \in CxxTypes
  BY WholeParts
<1>3. /\ value \in Seq(Seq(Scalars)) /\ Len(value) <= 1 /\ value # Blank
      /\ TypeAt(schema, n).basic \notin {"string", "string_view"} /\ value # <<>>
           => ~ HasNul(value[1])
  BY <1>1, <1>2, ValuesAssumption
<1> HIDE DEF value
<1>4. value # <<>> => value[1] \in Seq(Scalars) /\ value = <<value[1]>>
  BY <1>3, OnlyElement
<1> QED
  BY <1>1, <1>3, <1>4 DEF value

LEMMA ObjectDomain ==
  ASSUME NEW schema \in SchemaNames, object \in Objects[schema]
  PROVE  object = [path \in Paths(schema) |-> object[path]]
BY DEF Objects, Paths

LEMMA HoldsSkipped ==
  ASSUME NEW schema \in SchemaNames, NEW d \in Nat, d + 1 \in 1..Len(Whole[schema]),
         ListHolds(schema, d), ~ HasPair(Whole[schema][d+1]), UNCHANGED <<nvl, object>>
  PROVE  ListHolds(schema, d + 1)'
<1>1. PICK from \in [DOMAIN nvl.pairs -> 1..d] :
        /\ \A i, j \in DOMAIN nvl.pairs : i < j => from[i] < from[j]
        /\ \A n \in 1..d : HasPair(Whole[schema][n]) <=> n \in Range(from)
        /\ \A i \in DOMAIN nvl.pairs : nvl.pairs[i] = PairOf(Whole[schema][from[i]])
  BY DEF ListHolds
<1>2. from \in [DOMAIN nvl.pairs -> 1..d+1]
  OBVIOUS
<1>3. d + 1 \notin Range(from)
  BY DEF Range
<1>4. \A n \in 1..d+1 : n \in 1..d \/ n = d + 1
  OBVIOUS
<1>5. \A n \in 1..d+1 : HasPair(Whole[schema][n]) <=> n \in Range(from)
  BY <1>1, <1>3, <1>4
<1>6. \A entry : (HasPair(entry)' <=> HasPair(entry)) /\ PairOf(entry)' = PairOf(entry)
  BY DEF HasPair, PairOf
<1> QED
  BY <1>1, <1>2, <1>5, <1>6 DEF ListHolds

LEMMA HoldsAppended ==
  ASSUME NEW schema \in SchemaNames, NEW d \in Nat, d + 1 \in 1..Len(Whole[schema]),
         ListHolds(schema, d), HasPair(Whole[schema][d+1]), object' = object,
         nvl.pairs \in Seq(Pairs), PairOf(Whole[schema][d+1]) \in Pairs,
         nvl'.pairs = Append(nvl.pairs, PairOf(Whole[schema][d+1]))
  PROVE  ListHolds(schema, d + 1)'
<1>1. PICK from \in [DOMAIN nvl.pairs -> 1..d] :
        /\ \A i, j \in DOMAIN nvl.pairs : i < j => from[i] < from[j]
        /\ \A n \in 1..d : HasPair(Whole[schema][n]) <=> n \in Range(from)
        /\ \A i \in DOMAIN nvl.pairs : nvl.pairs[i] = PairOf(Whole[schema][from[i]])
  BY DEF ListHolds
<1> DEFINE len == Len(nvl.pairs)
           new == [i \in 1..len+1 |-> IF i = len + 1 THEN d + 1 ELSE from[i]]
<1>2. DOMAIN nvl.pairs = 1..len /\ len \in Nat
  OBVIOUS
<1>3. /\ DOMAIN nvl'.pairs = 1..len+1
      /\ nvl'.pairs[len+1] = PairOf(Whole[schema][d+1])
      /\ \A i \in 1..len : nvl'.pairs[i] = nvl.pairs[i]
  OBVIOUS
<1> HIDE DEF len
<1>4. \A i \in 1..len+1 : i \in 1..len \/ i = len + 1
  BY <1>2
<1>5. \A i \in 1..len : new[i] = from[i] /\ from[i] \in 1..d
  BY <1>1, <1>2
<1>6. new[len+1] = d + 1 /\ DOMAIN new = 1..len+1
  BY <1>2
<1>7. new \in [1..len+1 -> 1..d+1]
  BY <1>2, <1>4, <1>5, <1>6
<1> HIDE DEF new
<1>8. ASSUME NEW i \in 1..len+1, NEW j \in 1..len+1, i < j
      PROVE  new[i] < new[j]
  <2>1. i \in 1..len
    BY <1>2, <1>8
  <2>2. CASE j \in 1..len
    BY <1>1, <1>2, <1>5, <1>8, <2>1, <2>2
  <2>3. CASE j = len + 1
    <3>1. new[i] \in 1..d
      BY <1>5, <2>1
    <3> QED
      BY <1>6, <2>3, <3>1
  <2> QED
    BY <1>4, <2>2, <2>3
<1>9. Range(new) = Range(from) \cup {d + 1}
  <2>1. \A i \in 1..len : i \in 1..len+1
    BY <1>2
  <2>2. len + 1 \in 1..len+1
    BY <1>2
  <2>3. DOMAIN from = 1..len
    BY <1>1, <1>2
  <2> QED
    BY <1>4, <1>5, <1>6, <2>1, <2>2, <2>3 DEF Range
<1>10. Range(from) \subseteq 1..d
  BY DEF Range
<1>11. \A n \in 1..d+1 : HasPair(Whole[schema][n]) <=> n \in Range(new)
  <2>1. \A n \in 1..d+1 : n \in 1..d \/ n = d + 1
    OBVIOUS
  <2>2. \A n \in 1..d : n # d + 1
    OBVIOUS
  <2> QED
    BY <1>1, <1>9, <2>1, <2>2
<1>12. \A i \in 1..len+1 : nvl'.pairs[i] = PairOf(Whole[schema][new[i]])
  BY <1>1, <1>2, <1>3, <1>4, <1>5, <1>6
<1>13. \A entry : (HasPair(entry)' <=> HasPair(entry)) /\ PairOf(entry)' = PairOf(entry)
  BY DEF HasPair, PairOf
<1> QED
  BY <1>3, <1>7, <1>8, <1>11, <1>12, <1>13 DEF ListHolds
-----------------------------------------------------------------------------
(* The steps of nv_serialize() *)

\* What a step that ends, or goes on to the next element, does to the types.
LEMMA StepType ==
  ASSUME SInv, IInv', Kept', todo # <<>>,
         Continues \/ \E e \in Exceptions : Fails(e),
         current' = current, changes' = changes, written' \in {written, current, NoSchema}
  PROVE  SerializeTypeOK'
<1>1. /\ todo \in Seq(Entries) /\ Tail(todo) \in Seq(Entries) /\ <<>> \in Seq(Entries)
      /\ phase \in {"idle", "writing", "reading"} /\ phase # "idle"
      /\ result \in Exceptions \cup {"none", "ok"}
  BY DEF SInv, SerializeTypeOK
<1>2. /\ todo' \in Seq(Entries)
      /\ phase' \in {"idle", "writing", "reading"}
      /\ (todo' = <<>>) <=> (phase' = "idle")
      /\ result' \in Exceptions \cup {"none", "ok"}
  BY <1>1 DEF Continues, Fails
<1>3. /\ written' \in SchemaNames \cup {NoSchema} /\ current' \in SchemaNames \cup {NoSchema}
      /\ changes' \in 0..MaxChanges
  BY DEF SInv, SerializeTypeOK
<1>4. written' # NoSchema /\ changes' = 0 => nvl'.error = NoError
  BY DEF Kept, Sound
<1> QED
  BY <1>2, <1>3, <1>4 DEF SerializeTypeOK, IInv

\* nv_serialize() throws.
LEMMA WriteThrows ==
  ASSUME SInv, IInv', phase = "writing", todo # <<>>, call'.outcome \in Exceptions,
         Continues, Written, UNCHANGED <<object, target, current, changes>>
  PROVE  SInv'
<1>1. phase' = "idle" /\ target' = <<>> /\ written' = NoSchema
  BY DEF Continues, Written, SInv, Writing, Exceptions
<1>2. Writing' /\ Kept' /\ Reading' /\ ReadDone'
  BY <1>1 DEF Writing, Kept, Reading, ReadDone, Deserialized
<1>3. SerializeTypeOK'
  BY <1>1, <1>2, StepType
<1> QED
  BY <1>2, <1>3 DEF SInv

\* The next element has been written.
LEMMA WriteGoesOn ==
  ASSUME SInv, IInv', phase = "writing", todo # <<>>,
         NEW schema \in SchemaNames, schema = current, NEW d \in Nat,
         AtPlace(schema, todo, d), Head(todo).element.kind # "object",
         Wrote(schema, d + 1)', Sound(schema)', call'.outcome \notin Exceptions,
         Continues, Written, UNCHANGED <<object, target, current, changes>>
  PROVE  SInv'
<1>1. /\ todo' = Tail(todo) /\ target' = <<>> /\ result = "none"
      /\ phase' = IF todo' = <<>> THEN "idle" ELSE "writing"
      /\ result' = IF todo' = <<>> THEN "ok" ELSE "none"
      /\ written' = IF todo' = <<>> THEN schema ELSE NoSchema
  BY DEF Continues, Written, SInv, Writing
<1>2. AtPlace(schema, todo', d + 1)
  BY <1>1, PlacePass
<1>3. AtPlace(schema, todo, d + 1)'
  BY <1>2 DEF AtPlace
<1>4. Writing'
  <2> SUFFICES ASSUME phase' = "writing"
               PROVE  Writing'
    BY DEF Writing
  <2>1. written' = NoSchema /\ result' = "none" /\ d + 1 \in Nat /\ current' = schema
    BY <1>1
  <2> QED
    BY <1>1, <1>3, <2>1 DEF Writing
<1>5. Kept'
  <2> SUFFICES ASSUME written' # NoSchema
               PROVE  Kept'
    BY DEF Kept
  <2>1. todo' = <<>> /\ written' = schema
    BY <1>1
  <2>2. d + 1 = Len(Whole[schema])
    BY <1>2, <2>1, PlaceEnd
  <2> QED
    BY <2>1, <2>2 DEF Kept
<1>6. Reading' /\ ReadDone'
  BY <1>1 DEF Reading, ReadDone, Deserialized
<1>7. SerializeTypeOK'
  BY <1>1, <1>5, StepType
<1> QED
  BY <1>4, <1>5, <1>6, <1>7 DEF SInv

\* An element without a pair: the list stays as it is.
LEMMA WroteNothing ==
  ASSUME NEW schema \in SchemaNames, NEW d \in Nat, d + 1 \in 1..Len(Whole[schema]),
         Wrote(schema, d), Sound(schema), UNCHANGED <<nvl, object>>,
         IsField(schema, d + 1), TypeAt(schema, d + 1).optional,
         object[MemberPath(schema, d + 1)] = <<>>
  PROVE  Wrote(schema, d + 1)' /\ Sound(schema)'
<1>1. ~ HasPair(Whole[schema][d+1])
  BY WholeParts DEF HasPair, MemberPath
<1>2. ListHolds(schema, d + 1)'
  BY <1>1, HoldsSkipped DEF Wrote
<1>3. \A n \in 1..d+1 : n \in 1..d \/ n = d + 1
  OBVIOUS
<1>4. \A n \in 1..d+1 : IsField(schema, n) /\ object[MemberPath(schema, n)] = <<>> =>
        TypeAt(schema, n).optional
  BY <1>3 DEF Wrote
<1> QED
  BY <1>2, <1>4 DEF Wrote, Sound, IsField, MemberPath, TypeAt

\* An element with a pair: it is the last of the list.
LEMMA WrotePair ==
  ASSUME NEW schema \in SchemaNames, NEW d \in Nat, d + 1 \in 1..Len(Whole[schema]),
         Wrote(schema, d), Sound(schema), nvl \in Lists, object' = object,
         HasPair(Whole[schema][d+1]), PairOf(Whole[schema][d+1]) \in Pairs,
         nvl' = [nvl EXCEPT !.pairs = Append(@, PairOf(Whole[schema][d+1]))]
  PROVE  Wrote(schema, d + 1)' /\ Sound(schema)'
<1> DEFINE pair == PairOf(Whole[schema][d+1])
<1> HIDE DEF pair
<1>1. /\ nvl.pairs \in Seq(Pairs) /\ nvl'.pairs = Append(nvl.pairs, pair)
      /\ nvl'.flags = nvl.flags /\ nvl'.error = nvl.error
  BY DEF Lists, pair
<1>2. ListHolds(schema, d + 1)'
  BY <1>1, HoldsAppended DEF Wrote, pair
<1>3. \A n \in 1..d+1 : n \in 1..d \/ n = d + 1
  OBVIOUS
<1>4. IsField(schema, d + 1) => object[MemberPath(schema, d + 1)] # <<>>
  BY WholeParts DEF HasPair, MemberPath
<1>5. \A n \in 1..d+1 : IsField(schema, n) /\ object[MemberPath(schema, n)] = <<>> =>
        TypeAt(schema, n).optional
  BY <1>3, <1>4 DEF Wrote
<1> QED
  BY <1>1, <1>2, <1>5 DEF Wrote, Sound, IsField, MemberPath, TypeAt

LEMMA FieldOf ==
  ASSUME NEW schema \in SchemaNames, NEW n \in 1..Len(Whole[schema]), IsField(schema, n)
  PROVE  /\ HasPair(Whole[schema][n]) <=> object[MemberPath(schema, n)] # <<>>
         /\ PairOf(Whole[schema][n]) =
              [name |-> Whole[schema][n].element.name, type |-> nvtype(TypeAt(schema, n)),
               items |-> object[MemberPath(schema, n)][1]]
BY WholeParts DEF HasPair, PairOf, MemberPath, TypeAt

LEMMA LiteralOf ==
  ASSUME NEW schema \in SchemaNames, NEW n \in 1..Len(Whole[schema]), IsLiteral(schema, n)
  PROVE  /\ HasPair(Whole[schema][n])
         /\ PairOf(Whole[schema][n]) =
              [name |-> Whole[schema][n].element.name, type |-> "string",
               items |-> <<Whole[schema][n].element.value>>]
BY DEF HasPair, PairOf, IsLiteral

\* What the encoder of a type does.
LEMMA EncodeOutcome ==
  ASSUME IInv, nvl.error = NoError, NEW key \in Keys, NEW type \in CxxTypes,
         NEW items \in Seq(Scalars),
         type.basic \notin {"string", "string_view"} => ~ HasNul(items),
         \/ ~ type.range /\ encode_scalar(key, type.basic, items)
         \/ type.range /\ encode_range(key, type.basic, items)
  PROVE  /\ IInv'
         /\ \/ call'.outcome \in Exceptions
            \/ /\ call'.outcome = "ok"
               /\ nvl' = [nvl EXCEPT !.pairs =
                            Append(@, [name |-> key, type |-> nvtype(type), items |-> items])]
<1> DEFINE t == nvtype(type)
<1>1. t \in Types /\ nvl \in Lists
  BY TypesOfMembers DEF IInv, TypeOK
<1>2. type.basic \in {"string", "string_view"} =>
        ScalarType[type.basic] = "string" /\ ArrayType[type.basic] = "string_array"
  BY DEF ScalarType, ArrayType
<1>3. \/ AllocationFails(key)
      \/ add_string(key, t, items)
      \/ ~ HasNul(items) /\ add(key, t, items)
  BY <1>2, TypesOfMembers DEF encode_scalar, encode_range
<1> HIDE DEF t
<1>4. CASE AllocationFails(key)
  <2>1. Call("add", key, AnyType) \in Headers /\ Throws(Call("add", key, AnyType), "bad_alloc")
    BY <1>4, HeaderType DEF AllocationFails, Operations
  <2>2. StepOK
    BY <2>1, ThrowStep DEF Exceptions
  <2> QED
    BY <2>1, <2>2, ThrowOutcome DEF StepOK, Exceptions
<1>5. CASE add_string(key, t, items)
  BY <1>1, <1>5, AddStringStep, AddStringOutcome DEF StepOK, t
<1>6. CASE ~ HasNul(items) /\ add(key, t, items)
  BY <1>1, <1>6, AddStep, AddOutcome DEF StepOK, t
<1> QED
  BY <1>3, <1>4, <1>5, <1>6

\* Where nv_serialize() is.
LEMMA WritingAt ==
  ASSUME SInv, phase = "writing", todo # <<>>, Head(todo).element.kind # "object"
  PROVE  \E schema \in SchemaNames, d \in Nat :
           /\ schema = current /\ AtPlace(schema, todo, d)
           /\ Wrote(schema, d) /\ Sound(schema)
           /\ d + 1 \in 1..Len(Whole[schema]) /\ Whole[schema][d+1] = Head(todo)
<1>1. PICK d \in Nat : AtPlace(current, todo, d) /\ Wrote(current, d)
  BY DEF SInv, Writing
<1>2. current \in SchemaNames /\ Sound(current)
  BY DEF SInv, Writing
<1> QED
  BY <1>1, <1>2, PlacePass

LEMMA WriteFieldStep == SInv /\ write_field => SInv'
<1> SUFFICES ASSUME SInv, write_field
             PROVE  SInv'
  OBVIOUS
<1>1. /\ phase = "writing" /\ todo # <<>> /\ Head(todo).element.kind = "field"
      /\ Continues /\ Written /\ UNCHANGED <<object, target, current, changes>>
  BY DEF write_field, Doing
<1>2. PICK schema \in SchemaNames, d \in Nat :
           /\ schema = current /\ AtPlace(schema, todo, d)
           /\ Wrote(schema, d) /\ Sound(schema)
           /\ d + 1 \in 1..Len(Whole[schema]) /\ Whole[schema][d+1] = Head(todo)
  BY <1>1, WritingAt
<1> DEFINE type == TypeAt(schema, d + 1)
           value == object[MemberPath(schema, d + 1)]
           key == Whole[schema][d+1].element.name
<1>3. IsField(schema, d + 1) /\ type \in CxxTypes /\ key \in Keys
  BY <1>1, <1>2, WholeParts
<1>4. /\ Element.type = type /\ Element.name = key /\ object[Path(Head(todo))] = value
      /\ object \in Objects[schema] /\ nvl.error = NoError /\ IInv
  BY <1>2 DEF Element, TypeAt, MemberPath, Sound, SInv
<1>5. value # <<>> => /\ value[1] \in Seq(Scalars)
                      /\ type.basic \notin {"string", "string_view"} => ~ HasNul(value[1])
  BY <1>3, <1>4, <1>2, MemberValue
<1>6. \/ type.optional /\ value = <<>> /\ UNCHANGED <<nvl, call>>
      \/ /\ value # <<>>
         /\ \/ ~ type.range /\ encode_scalar(key, type.basic, value[1])
            \/ type.range /\ encode_range(key, type.basic, value[1])
  BY <1>4 DEF write_field
<1>7. CASE type.optional /\ value = <<>> /\ UNCHANGED <<nvl, call>>
  <2>1. Wrote(schema, d + 1)' /\ Sound(schema)'
    BY <1>1, <1>2, <1>3, <1>7, WroteNothing
  <2>2. IInv'
    BY <1>7, StutterInvariant DEF SInv, vars
  <2> QED
    BY <1>1, <1>2, <2>1, <2>2, WriteThrows, WriteGoesOn
<1>8. CASE /\ value # <<>>
           /\ \/ ~ type.range /\ encode_scalar(key, type.basic, value[1])
              \/ type.range /\ encode_range(key, type.basic, value[1])
  <2>1. HasPair(Whole[schema][d+1])
        /\ PairOf(Whole[schema][d+1]) = [name |-> key, type |-> nvtype(type),
                                         items |-> value[1]]
    BY <1>2, <1>3, <1>8, FieldOf
  <2>2. PairOf(Whole[schema][d+1]) \in Pairs
    BY <1>3, <1>5, <1>8, <2>1, TypesOfMembers DEF Pairs
  <2> DEFINE items == value[1]
  <2> HIDE DEF type, key, value, items
  <2>3. /\ IInv'
        /\ \/ call'.outcome \in Exceptions
           \/ /\ call'.outcome = "ok"
              /\ nvl' = [nvl EXCEPT !.pairs =
                           Append(@, [name |-> key, type |-> nvtype(type),
                                      items |-> items])]
    BY <1>3, <1>4, <1>5, <1>8, EncodeOutcome DEF items
  <2>4. CASE call'.outcome \in Exceptions
    BY <1>1, <2>3, <2>4, WriteThrows
  <2>5. CASE call'.outcome \notin Exceptions
    <3>1. nvl' = [nvl EXCEPT !.pairs = Append(@, PairOf(Whole[schema][d+1]))]
      BY <2>1, <2>3, <2>5 DEF items
    <3>2. nvl \in Lists
      BY <1>4 DEF IInv, TypeOK
    <3>3. Wrote(schema, d + 1)' /\ Sound(schema)'
      BY <1>1, <1>2, <2>1, <2>2, <3>1, <3>2, WrotePair
    <3> QED
      BY <1>1, <1>2, <2>3, <2>5, <3>3, WriteGoesOn
  <2> QED
    BY <2>4, <2>5
<1> QED
  BY <1>6, <1>7, <1>8

LEMMA WriteLiteralStep == SInv /\ write_literal => SInv'
<1> SUFFICES ASSUME SInv, write_literal
             PROVE  SInv'
  OBVIOUS
<1>1. /\ phase = "writing" /\ todo # <<>> /\ Head(todo).element.kind = "literal"
      /\ Continues /\ Written /\ UNCHANGED <<object, target, current, changes>>
      /\ add_string(Element.name, "string", <<Element.value>>)
  BY DEF write_literal, Doing
<1>2. PICK schema \in SchemaNames, d \in Nat :
           /\ schema = current /\ AtPlace(schema, todo, d)
           /\ Wrote(schema, d) /\ Sound(schema)
           /\ d + 1 \in 1..Len(Whole[schema]) /\ Whole[schema][d+1] = Head(todo)
  BY <1>1, WritingAt
<1> DEFINE key == Whole[schema][d+1].element.name
           items == <<Whole[schema][d+1].element.value>>
<1>3. /\ IsLiteral(schema, d + 1) /\ key \in Keys
      /\ items \in Seq(Scalars) /\ "string" \in Types
  <2>1. IsLiteral(schema, d + 1)
    BY <1>1, <1>2 DEF IsLiteral
  <2>2. key \in Keys /\ Whole[schema][d+1].element.value \in Scalars
    BY <1>2, <2>1, WholeParts
  <2> QED
    BY <2>1, <2>2 DEF Types, ScalarTypes
<1>4. add_string(key, "string", items) /\ nvl.error = NoError /\ IInv /\ nvl \in Lists
  BY <1>1, <1>2 DEF Element, Sound, SInv, IInv, TypeOK
<1>5. HasPair(Whole[schema][d+1])
      /\ PairOf(Whole[schema][d+1]) = [name |-> key, type |-> "string", items |-> items]
  BY <1>2, <1>3, LiteralOf
<1> HIDE DEF key, items
<1>6. PairOf(Whole[schema][d+1]) \in Pairs
  BY <1>3, <1>5 DEF Pairs
<1>7. IInv'
  BY <1>3, <1>4, AddStringStep DEF StepOK
<1>8. \/ call'.outcome \in Exceptions
      \/ nvl' = [nvl EXCEPT !.pairs = Append(@, PairOf(Whole[schema][d+1]))]
  BY <1>3, <1>4, <1>5, AddStringOutcome
<1>9. CASE call'.outcome \in Exceptions
  BY <1>1, <1>7, <1>9, WriteThrows
<1>10. CASE call'.outcome \notin Exceptions
  <2>1. Wrote(schema, d + 1)' /\ Sound(schema)'
    BY <1>1, <1>2, <1>4, <1>5, <1>6, <1>8, <1>10, WrotePair
  <2> QED
    BY <1>1, <1>2, <1>7, <1>10, <2>1, WriteGoesOn
<1> QED
  BY <1>9, <1>10
-----------------------------------------------------------------------------
(* The steps of nv_deserialize() *)

LEMMA FoundPlace ==
  ASSUME NEW key, NEW type, NEW i \in nvlist_find(nvl, key, type)
  PROVE  /\ i \in DOMAIN nvl.pairs /\ SameName(nvl, nvl.pairs[i].name, key)
         /\ type # AnyType => nvl.pairs[i].type = type
         /\ nvlist_exists_type(nvl, key, AnyType) /\ nvlist_exists_type(nvl, key, type)
BY DEF nvlist_find, Matches, nvlist_exists_type

\* In a list that was written for the object, a pair that the schema has is
\* the only one of its name.
LEMMA PairThere ==
  ASSUME IInv, NEW schema \in SchemaNames, Sound(schema),
         Wrote(schema, Len(Whole[schema])),
         NEW n \in 1..Len(Whole[schema]), HasPair(Whole[schema][n])
  PROVE  LET pair == PairOf(Whole[schema][n])
         IN  /\ pair.name \notin NulKeys
             /\ nvlist_exists_type(nvl, pair.name, AnyType)
             /\ pair.type # AnyType => nvlist_exists_type(nvl, pair.name, pair.type)
             /\ \A type : \A i \in nvlist_find(nvl, pair.name, type) : nvl.pairs[i] = pair
<1> DEFINE pair == PairOf(Whole[schema][n])
<1>1. PICK from \in [DOMAIN nvl.pairs -> 1..Len(Whole[schema])] :
        /\ \A m \in 1..Len(Whole[schema]) : HasPair(Whole[schema][m]) <=> m \in Range(from)
        /\ \A i \in DOMAIN nvl.pairs : nvl.pairs[i] = PairOf(Whole[schema][from[i]])
  BY DEF Wrote, ListHolds
<1>2. PICK k \in DOMAIN nvl.pairs : from[k] = n
  BY <1>1 DEF Range
<1>3. nvl.pairs[k] = pair /\ nvl.flags = {}
  BY <1>1, <1>2 DEF Sound
<1> HIDE DEF pair
<1>4. pair.name \notin NulKeys
  BY <1>3 DEF IInv, NulNeverStored, NulFree
<1>5. /\ k \in Matches(nvl, pair.name, AnyType)
      /\ k \in Matches(nvl, pair.name, pair.type)
  BY <1>3 DEF Matches, SameName
<1>6. \A type : \A i \in nvlist_find(nvl, pair.name, type) : nvl.pairs[i] = pair
  <2> TAKE type
  <2> TAKE i \in nvlist_find(nvl, pair.name, type)
  <2>1. i \in DOMAIN nvl.pairs /\ nvl.pairs[i].name = pair.name
    BY <1>3, FoundPlace DEF SameName
  <2>2. SameName(nvl, nvl.pairs[i].name, nvl.pairs[k].name)
    BY <1>3, <2>1 DEF SameName
  <2>3. i = k
    BY <1>3, <2>1, <2>2 DEF IInv, UniqueNames, DistinctNames
  <2> QED
    BY <1>3, <2>3
<1> QED
  BY <1>4, <1>5, <1>6 DEF nvlist_exists_type, pair

\* An optional without a value that is not ambiguous has no pair.
LEMMA PairMissing ==
  ASSUME IInv, NEW schema \in SchemaNames, Sound(schema),
         Wrote(schema, Len(Whole[schema])), ~ Ambiguous(schema),
         NEW n \in 1..Len(Whole[schema]), IsField(schema, n),
         object[MemberPath(schema, n)] = <<>>
  PROVE  /\ Whole[schema][n].element.name \notin NulKeys
         /\ ~ Present(schema, n)
<1> DEFINE key == Whole[schema][n].element.name
<1>1. PICK from \in [DOMAIN nvl.pairs -> 1..Len(Whole[schema])] :
        /\ \A m \in 1..Len(Whole[schema]) : HasPair(Whole[schema][m]) <=> m \in Range(from)
        /\ \A i \in DOMAIN nvl.pairs : nvl.pairs[i] = PairOf(Whole[schema][from[i]])
  BY DEF Wrote, ListHolds
<1>2. /\ TypeAt(schema, n).optional /\ Whole[schema][n] \in Fields[schema]
      /\ DOMAIN Whole[schema] = 1..Len(Whole[schema])
  BY WholeParts DEF Wrote, IsField
<1>3. /\ key \notin NulKeys
      /\ \A j \in 1..Len(Whole[schema]) \ {n} : Whole[schema][j].element.name # key
  BY <1>2 DEF Ambiguous, TypeAt
<1>4. ~ HasPair(Whole[schema][n])
  BY FieldOf
<1>5. ASSUME NEW i \in DOMAIN nvl.pairs
      PROVE  nvl.pairs[i].name # key
  <2>1. from[i] \in Range(from) /\ from[i] \in 1..Len(Whole[schema])
    BY <1>1 DEF Range
  <2>2. from[i] # n
    BY <1>1, <1>4, <2>1
  <2>3. nvl.pairs[i].name = Whole[schema][from[i]].element.name
    <3>1. \A entry : PairOf(entry).name = entry.element.name
      BY DEF PairOf
    <3> QED
      BY <1>1, <3>1
  <2> QED
    BY <1>3, <2>1, <2>2, <2>3
<1>6. nvl.flags = {}
  BY DEF Sound
<1> QED
  BY <1>3, <1>5, <1>6 DEF Present, nvlist_exists_type, Matches, SameName

\* Nothing of what Progress is about has changed.
LEMMA ProgressKept ==
  ASSUME NEW d, Progress(d), UNCHANGED <<nvl, object, target, written, current, changes>>
  PROVE  Progress(d)'
BY DEF Progress, MembersOnce, Took, Faithful, Restored, IsField, MemberPath, TakenFrom,
       FoundValues, Present, TypeAt, IsLiteral, LiteralFound, Ambiguous

LEMMA KeptKept ==
  ASSUME Kept, UNCHANGED <<nvl, object, written, changes>>
  PROVE  Kept'
<1>1. \A schema : Sound(schema) => Sound(schema)'
  BY DEF Sound
<1>2. \A schema, d : Wrote(schema, d) => Wrote(schema, d)'
  BY DEF Wrote, ListHolds, HasPair, PairOf, IsField, MemberPath, TypeAt
<1> QED
  BY <1>1, <1>2 DEF Kept

\* Where nv_deserialize() is.
LEMMA ReadingAt ==
  ASSUME SInv, phase = "reading", todo # <<>>, Head(todo).element.kind # "object"
  PROVE  \E schema \in SchemaNames, d \in Nat :
           /\ schema = current /\ AtPlace(schema, todo, d) /\ Progress(d)
           /\ d + 1 \in 1..Len(Whole[schema]) /\ Whole[schema][d+1] = Head(todo)
<1>1. PICK d \in Nat : AtPlace(current, todo, d) /\ Progress(d)
  BY DEF SInv, Reading
<1>2. current \in SchemaNames
  BY DEF SInv, Reading
<1> QED
  BY <1>1, <1>2, PlacePass

\* nv_deserialize() throws.
LEMMA ReadThrows ==
  ASSUME SInv, IInv', phase = "reading", todo # <<>>,
         NEW schema \in SchemaNames, schema = current, NEW d \in Nat,
         Progress(d), d + 1 \in 1..Len(Whole[schema]),
         NEW e \in Exceptions, Fails(e), Faithful => e \in {"bad_alloc", "system_error"},
         UNCHANGED <<nvl, target, object, written, current, changes>>
  PROVE  SInv'
<1>1. phase' = "idle" /\ result' = e /\ e # "ok"
  BY DEF Fails, Exceptions
<1>2. Kept'
  BY KeptKept DEF SInv
<1>3. Writing' /\ Reading'
  BY <1>1 DEF Writing, Reading
<1>4. Progress(d)'
  BY ProgressKept
<1>5. Faithful' => result' \in {"bad_alloc", "system_error"}
  BY <1>1 DEF Faithful, Ambiguous
<1>6. d \in 0..Len(Whole[schema]) /\ d # Len(Whole[schema])
  BY WholeParts
<1>7. ReadDone'
  <2>1. written # NoSchema /\ target \in Targets(schema)
    BY DEF SInv, Reading
  <2> QED
    BY <1>1, <1>4, <1>5, <1>6, <2>1 DEF ReadDone, Targets, Paths
<1>8. SerializeTypeOK'
  BY <1>2, StepType
<1> QED
  BY <1>2, <1>3, <1>7, <1>8 DEF SInv

\* The next element has been read.
LEMMA ReadGoesOn ==
  ASSUME SInv, IInv', phase = "reading", todo # <<>>, Head(todo).element.kind # "object",
         NEW schema \in SchemaNames, schema = current, NEW d \in Nat,
         AtPlace(schema, todo, d), Progress(d + 1)', target' \in Targets(schema),
         call'.outcome \notin Exceptions, Continues,
         UNCHANGED <<nvl, object, written, current, changes>>
  PROVE  SInv'
<1>1. /\ todo' = Tail(todo) /\ result = "none" /\ written # NoSchema
      /\ phase' = IF todo' = <<>> THEN "idle" ELSE "reading"
      /\ result' = IF todo' = <<>> THEN "ok" ELSE "none"
  BY DEF Continues, SInv, Reading
<1>2. AtPlace(schema, todo', d + 1)
  BY <1>1, PlacePass
<1>3. AtPlace(schema, todo, d + 1)'
  BY <1>2 DEF AtPlace
<1>4. Kept'
  BY KeptKept DEF SInv
<1>5. Reading'
  <2> SUFFICES ASSUME phase' = "reading"
               PROVE  Reading'
    BY DEF Reading
  <2>1. result' = "none" /\ d + 1 \in Nat /\ current' = schema
    BY <1>1
  <2> QED
    BY <1>1, <1>3, <2>1 DEF Reading, Targets, Paths
<1>6. ReadDone'
  <2> SUFFICES ASSUME phase' = "idle"
               PROVE  ReadDone'
    BY DEF ReadDone, Deserialized
  <2>1. todo' = <<>> /\ result' = "ok" /\ current' = schema
    BY <1>1
  <2>2. d + 1 = Len(Whole[schema]) /\ d + 1 \in 0..Len(Whole[schema])
    BY <1>2, <2>1, PlaceEnd
  <2> QED
    BY <1>1, <2>1, <2>2 DEF ReadDone, Targets, Paths
<1>7. Writing'
  BY <1>1 DEF Writing
<1>8. SerializeTypeOK'
  BY <1>4, StepType
<1> QED
  BY <1>4, <1>5, <1>6, <1>7, <1>8 DEF SInv

LEMMA FieldTaken ==
  ASSUME NEW schema \in SchemaNames, schema = current, schema = current',
         NEW d \in Nat, d + 1 \in 1..Len(Whole[schema]), Progress(d),
         IsField(schema, d + 1), target \in Targets(schema),
         NEW value \in Seq(Seq(Scalars)), TakenFrom(schema, d + 1, value),
         Faithful => value = object[MemberPath(schema, d + 1)],
         target' = [target EXCEPT ![MemberPath(schema, d + 1)] = value],
         UNCHANGED <<nvl, object, written, changes>>
  PROVE  Progress(d + 1)' /\ target' \in Targets(schema)
<1> DEFINE path == MemberPath(schema, d + 1)
<1>1. /\ path \in Paths(schema) /\ target' \in Targets(schema) /\ target'[path] = value
      /\ \A other \in Paths(schema) : other # path => target'[other] = target[other]
  <2>1. path \in Paths(schema)
    BY WholeParts
  <2> HIDE DEF path
  <2>2. target \in [Paths(schema) -> {Blank} \cup Seq(Seq(Scalars))]
    BY DEF Targets
  <2>3. target' = [target EXCEPT ![path] = value]
    BY DEF path
  <2> QED
    BY <2>1, <2>2, <2>3 DEF Targets
<1>2. /\ DOMAIN Whole[schema] = 1..Len(Whole[schema])
      /\ \A n \in 1..Len(Whole[schema]) : n <= d + 1 => n <= d \/ n = d + 1
      /\ \A n \in 1..Len(Whole[schema]) : n > d + 1 => n > d /\ n # d + 1
  BY WholeParts
<1>3. IsLiteral(schema, d + 1) = FALSE
  BY WholeParts DEF IsLiteral
<1>4. ASSUME MembersOnce(schema)
      PROVE  Took(schema, d + 1)'
  <2>1. Took(schema, d)
    BY <1>4 DEF Progress
  <2>2. \A n \in 1..Len(Whole[schema]) :
          IsField(schema, n) /\ n # d + 1 => MemberPath(schema, n) # path
    BY <1>2, <1>4 DEF MembersOnce, IsField, MemberPath
  <2> SUFFICES ASSUME NEW n \in 1..Len(Whole[schema])
               PROVE  /\ IsField(schema, n) /\ n > d + 1
                           => target'[MemberPath(schema, n)] = Blank
                      /\ IsField(schema, n) /\ n <= d + 1
                           => TakenFrom(schema, n, target'[MemberPath(schema, n)])
                      /\ IsLiteral(schema, n) /\ n <= d + 1 => LiteralFound(schema, n)
    <3>1. \A n : TakenFrom(schema, n, target[MemberPath(schema, n)])' <=>
                  TakenFrom(schema, n, target'[MemberPath(schema, n)])
      BY DEF TakenFrom, FoundValues, Present, TypeAt, MemberPath
    <3>2. \A n : LiteralFound(schema, n)' <=> LiteralFound(schema, n)
      BY DEF LiteralFound
    <3> QED
      BY <1>2, <3>1, <3>2 DEF Took, IsField, MemberPath, IsLiteral
  <2>3. CASE n = d + 1
    BY <1>1, <1>3, <2>3
  <2>4. CASE n # d + 1
    <3>1. IsField(schema, n) => MemberPath(schema, n) \in Paths(schema)
      BY WholeParts
    <3> QED
      BY <1>1, <1>2, <2>1, <2>2, <2>4, <3>1 DEF Took
  <2> QED
    BY <2>3, <2>4
<1>5. ASSUME Faithful
      PROVE  Restored(schema, d + 1)'
  <2>1. Restored(schema, d) /\ value = object[path]
    BY <1>5 DEF Progress
  <2>2. \A n \in 1..d+1 : n \in 1..d \/ n = d + 1
    OBVIOUS
  <2>3. \A n \in 1..d+1 : IsField(schema, n) =>
          target'[MemberPath(schema, n)] = object[MemberPath(schema, n)]
    <3>1. \A n \in 1..d+1 : IsField(schema, n) => MemberPath(schema, n) \in Paths(schema)
      BY WholeParts
    <3> QED
      BY <1>1, <2>1, <2>2, <3>1 DEF Restored
  <2> QED
    BY <2>3 DEF Restored, IsField, MemberPath
<1>6. (MembersOnce(schema)' => MembersOnce(schema)) /\ (Faithful' => Faithful)
  BY DEF MembersOnce, Faithful, Ambiguous
<1> QED
  BY <1>1, <1>4, <1>5, <1>6 DEF Progress

LEMMA LiteralTaken ==
  ASSUME NEW schema \in SchemaNames, schema = current, schema = current',
         NEW d \in Nat, d + 1 \in 1..Len(Whole[schema]), Progress(d),
         IsLiteral(schema, d + 1), LiteralFound(schema, d + 1),
         UNCHANGED <<nvl, target, object, written, changes>>
  PROVE  Progress(d + 1)'
<1>1. /\ DOMAIN Whole[schema] = 1..Len(Whole[schema])
      /\ \A n \in 1..Len(Whole[schema]) : n <= d + 1 => n <= d \/ n = d + 1
      /\ \A n \in 1..Len(Whole[schema]) : n > d + 1 => n > d
  BY WholeParts
<1>2. ~ IsField(schema, d + 1)
  BY WholeParts DEF IsLiteral
<1>3. MembersOnce(schema) => Took(schema, d + 1)
  BY <1>1, <1>2 DEF Progress, Took
<1>4. \A n \in 1..d+1 : n \in 1..d \/ n = d + 1
  OBVIOUS
<1>5. Faithful => Restored(schema, d + 1)
  BY <1>2, <1>4 DEF Progress, Restored
<1>6. Progress(d + 1)
  BY <1>3, <1>5 DEF Progress
<1> QED
  BY <1>6, ProgressKept

\* What the decoder of a member returns.
LEMMA DecodeOutcome ==
  ASSUME IInv, NEW schema \in SchemaNames, NEW n \in 1..Len(Whole[schema]),
         IsField(schema, n),
         IF TypeAt(schema, n).optional
         THEN decode_optional(Whole[schema][n].element.name, TypeAt(schema, n))
         ELSE decode(Whole[schema][n].element.name, TypeAt(schema, n))
  PROVE  /\ IInv' /\ nvl' = nvl
         /\ call'.outcome \notin Exceptions =>
              Decoded \in Seq(Seq(Scalars)) /\ TakenFrom(schema, n, Decoded)
         /\ Sound(schema) /\ Wrote(schema, Len(Whole[schema])) /\ ~ Ambiguous(schema) =>
              /\ call'.outcome \notin Exceptions \ {"bad_alloc"}
              /\ call'.outcome \notin Exceptions => Decoded = object[MemberPath(schema, n)]
<1> DEFINE key == Whole[schema][n].element.name
           type == TypeAt(schema, n)
           t == nvtype(type)
           value == object[MemberPath(schema, n)]
<1>1. key \in Keys /\ type \in CxxTypes /\ t \in Types /\ t # AnyType
  BY WholeParts, TypesOfMembers DEF AnyType, Types, ScalarTypes, ArrayTypes
<1>2. \/ get(key, t) /\ (Present(schema, n) \/ ~ type.optional)
      \/ exists_type(key, AnyType) /\ ~ Present(schema, n) /\ type.optional
  BY DEF decode_optional, decode, Present
<1>3. /\ PairOf(Whole[schema][n]).name = key /\ PairOf(Whole[schema][n]).type = t
      /\ PairOf(Whole[schema][n]).items = value[1]
      /\ HasPair(Whole[schema][n]) <=> value # <<>>
  <2>1. /\ HasPair(Whole[schema][n]) <=> value # <<>>
        /\ PairOf(Whole[schema][n]) = [name |-> key, type |-> t, items |-> value[1]]
    BY FieldOf
  <2> HIDE DEF key, t, value
  <2> QED
    BY <2>1
<1>4. object \in Objects[schema] /\ value # <<>> => value = <<value[1]>>
  BY MemberValue
<1>5. nvl.pairs \in Seq(Pairs)
  BY DEF IInv, TypeOK, Lists
<1>6. CASE get(key, t) /\ (Present(schema, n) \/ ~ type.optional)
  <2>1. IInv'
    BY <1>1, <1>6, GetStep DEF StepOK
  <2>2. /\ nvl' = nvl
        /\ \/ call'.outcome \in Exceptions
           \/ /\ call'.outcome = "ok" /\ call'.op = "get"
              /\ \E i \in nvlist_find(nvl, key, t) : call'.items = nvl.pairs[i].items
        /\ nvl.error = NoError /\ key \notin NulKeys /\ nvlist_exists_type(nvl, key, t)
             => call'.outcome \in {"ok", "bad_alloc"}
    BY <1>6, GetOutcome
  <2>3. ASSUME call'.outcome \notin Exceptions
        PROVE  /\ Decoded \in Seq(Seq(Scalars)) /\ TakenFrom(schema, n, Decoded)
               /\ \E i \in nvlist_find(nvl, key, t) : Decoded = <<nvl.pairs[i].items>>
    <3>1. PICK i \in nvlist_find(nvl, key, t) : call'.items = nvl.pairs[i].items
      BY <2>2, <2>3
    <3>2. Decoded = <<nvl.pairs[i].items>>
      BY <2>2, <2>3, <3>1 DEF Decoded
    <3>3. i \in DOMAIN nvl.pairs /\ Present(schema, n)
      BY <3>1, FoundPlace DEF Present
    <3>4. nvl.pairs[i] \in Pairs
      BY <1>5, <3>3, ElementOfSeq
    <3>5. Decoded \in Seq(Seq(Scalars))
      BY <3>2, <3>4 DEF Pairs
    <3> QED
      BY <3>1, <3>2, <3>3, <3>5 DEF TakenFrom, FoundValues
  <2>4. ASSUME Sound(schema), Wrote(schema, Len(Whole[schema])), ~ Ambiguous(schema)
        PROVE  /\ call'.outcome \notin Exceptions \ {"bad_alloc"}
               /\ call'.outcome \notin Exceptions => Decoded = value
    <3>1. value # <<>>
      <4> SUFFICES ASSUME value = <<>>
                   PROVE  FALSE
        OBVIOUS
      <4>1. type.optional
        BY <2>4 DEF Wrote
      <4>2. ~ Present(schema, n)
        BY <2>4, PairMissing
      <4> QED
        BY <1>6, <4>1, <4>2
    <3>2. /\ key \notin NulKeys /\ nvlist_exists_type(nvl, key, t)
          /\ \A i \in nvlist_find(nvl, key, t) : nvl.pairs[i] = PairOf(Whole[schema][n])
      BY <1>1, <1>3, <2>4, <3>1, PairThere
    <3>3. call'.outcome \notin Exceptions \ {"bad_alloc"}
      BY <2>2, <2>4, <3>2 DEF Sound, Exceptions
    <3>4. call'.outcome \notin Exceptions => Decoded = <<value[1]>>
      BY <1>3, <2>3, <3>2
    <3> QED
      BY <1>4, <2>4, <3>1, <3>3, <3>4 DEF Sound
  <2> QED
    BY <2>1, <2>2, <2>3, <2>4
<1>7. CASE exists_type(key, AnyType) /\ ~ Present(schema, n) /\ type.optional
  <2>1. IInv'
    BY <1>1, <1>7, ExistsStep DEF StepOK
  <2>2. /\ nvl' = nvl
        /\ call'.outcome \notin Exceptions => call'.op = "exists"
        /\ nvl.error = NoError /\ key \notin NulKeys =>
             call'.outcome \notin Exceptions \ {"bad_alloc"}
    BY <1>7, ExistsOutcome
  <2>3. ASSUME call'.outcome \notin Exceptions
        PROVE  /\ Decoded = <<>> /\ Decoded \in Seq(Seq(Scalars))
               /\ TakenFrom(schema, n, Decoded)
    <3>1. Decoded = <<>>
      BY <2>2, <2>3 DEF Decoded
    <3> QED
      BY <1>7, <3>1 DEF TakenFrom
  <2>4. ASSUME Sound(schema), Wrote(schema, Len(Whole[schema])), ~ Ambiguous(schema)
        PROVE  /\ call'.outcome \notin Exceptions \ {"bad_alloc"}
               /\ call'.outcome \notin Exceptions => Decoded = value
    <3>1. value = <<>>
      <4> SUFFICES ASSUME value # <<>>
                   PROVE  FALSE
        OBVIOUS
      <4>1. nvlist_exists_type(nvl, key, AnyType)
        BY <1>3, <2>4, PairThere
      <4> QED
        BY <1>7, <4>1 DEF Present
    <3>2. key \notin NulKeys
      BY <2>4, <3>1, PairMissing
    <3> QED
      BY <2>2, <2>3, <2>4, <3>1, <3>2 DEF Sound
  <2> QED
    BY <2>1, <2>2, <2>3, <2>4
<1> QED
  BY <1>2, <1>6, <1>7

\* The list that is read is the one that was written.
LEMMA FaithfulList ==
  ASSUME SInv, phase = "reading", NEW schema \in SchemaNames, schema = current, Faithful
  PROVE  Sound(schema) /\ Wrote(schema, Len(Whole[schema])) /\ ~ Ambiguous(schema)
BY DEF SInv, Reading, Kept, Faithful

LEMMA ReadFieldStep == SInv /\ read_field => SInv'
<1> SUFFICES ASSUME SInv, read_field
             PROVE  SInv'
  OBVIOUS
<1>1. /\ phase = "reading" /\ todo # <<>> /\ Head(todo).element.kind = "field"
      /\ UNCHANGED <<object, written, current, changes>>
  BY DEF read_field, Doing
<1>2. PICK schema \in SchemaNames, d \in Nat :
           /\ schema = current /\ AtPlace(schema, todo, d) /\ Progress(d)
           /\ d + 1 \in 1..Len(Whole[schema]) /\ Whole[schema][d+1] = Head(todo)
  BY <1>1, ReadingAt
<1> DEFINE path == MemberPath(schema, d + 1)
<1>3. /\ IsField(schema, d + 1) /\ target \in Targets(schema) /\ IInv
      /\ Path(Head(todo)) = path
  BY <1>1, <1>2, WholeParts DEF SInv, Reading, MemberPath
<1>4. IF TypeAt(schema, d + 1).optional
      THEN decode_optional(Whole[schema][d+1].element.name, TypeAt(schema, d + 1))
      ELSE decode(Whole[schema][d+1].element.name, TypeAt(schema, d + 1))
  BY <1>2 DEF read_field, Element, TypeAt
<1>5. /\ IInv' /\ nvl' = nvl
      /\ call'.outcome \notin Exceptions =>
           Decoded \in Seq(Seq(Scalars)) /\ TakenFrom(schema, d + 1, Decoded)
      /\ Faithful => /\ call'.outcome \notin Exceptions \ {"bad_alloc"}
                     /\ call'.outcome \notin Exceptions => Decoded = object[path]
  BY <1>1, <1>2, <1>3, <1>4, DecodeOutcome, FaithfulList
<1> HIDE DEF path
<1>6. \/ /\ call'.outcome \notin Exceptions
         /\ target' = [target EXCEPT ![path] = Decoded]
         /\ Continues
      \/ call'.outcome \in Exceptions /\ target' = target /\ Continues
      \/ /\ call'.outcome = "ok" /\ target' = target
         /\ \E e \in {"bad_alloc", "system_error"} : Fails(e)
  BY <1>3 DEF read_field, CopyErrors
<1>7. CASE /\ call'.outcome \notin Exceptions
           /\ target' = [target EXCEPT ![path] = Decoded]
           /\ Continues
  <2>1. Progress(d + 1)' /\ target' \in Targets(schema)
    BY <1>1, <1>2, <1>3, <1>5, <1>7, FieldTaken DEF path
  <2> QED
    BY <1>1, <1>2, <1>5, <1>7, <2>1, ReadGoesOn
<1>8. CASE call'.outcome \in Exceptions /\ target' = target /\ Continues
  <2>1. Fails(call'.outcome) /\ (Faithful => call'.outcome = "bad_alloc")
    BY <1>5, <1>8 DEF Continues, Fails
  <2> QED
    BY <1>1, <1>2, <1>5, <1>8, <2>1, ReadThrows
<1>9. ASSUME call'.outcome = "ok", target' = target,
             NEW e \in {"bad_alloc", "system_error"}, Fails(e)
      PROVE  SInv'
  BY <1>1, <1>2, <1>5, <1>9, ReadThrows DEF Exceptions
<1> QED
  BY <1>6, <1>7, <1>8, <1>9

LEMMA ReadLiteralStep == SInv /\ read_literal => SInv'
<1> SUFFICES ASSUME SInv, read_literal
             PROVE  SInv'
  OBVIOUS
<1>1. /\ phase = "reading" /\ todo # <<>> /\ Head(todo).element.kind = "literal"
      /\ UNCHANGED <<object, target, written, current, changes>>
  BY DEF read_literal, Doing
<1>2. PICK schema \in SchemaNames, d \in Nat :
           /\ schema = current /\ AtPlace(schema, todo, d) /\ Progress(d)
           /\ d + 1 \in 1..Len(Whole[schema]) /\ Whole[schema][d+1] = Head(todo)
  BY <1>1, ReadingAt
<1> DEFINE key == Whole[schema][d+1].element.name
           items == <<Whole[schema][d+1].element.value>>
<1>3. IsLiteral(schema, d + 1)
  BY <1>1, <1>2 DEF IsLiteral
<1>4. key \in Keys /\ "string" \in Types /\ IInv
  BY <1>2, <1>3, WholeParts DEF Types, ScalarTypes, SInv
<1>5. /\ get(key, "string")
      /\ IF call'.outcome = "ok" /\ call'.items # items
         THEN Fails("nv_key_not_found") ELSE Continues
  BY <1>2 DEF read_literal, Element
<1>6. IInv'
  BY <1>4, <1>5, GetStep DEF StepOK
<1>7. /\ nvl' = nvl
      /\ \/ call'.outcome \in Exceptions
         \/ /\ call'.outcome = "ok"
            /\ \E i \in nvlist_find(nvl, key, "string") : call'.items = nvl.pairs[i].items
      /\ nvl.error = NoError /\ key \notin NulKeys /\ nvlist_exists_type(nvl, key, "string")
           => call'.outcome \in {"ok", "bad_alloc"}
  BY <1>5, GetOutcome
<1>8. Faithful => call'.outcome = "bad_alloc" \/ (call'.outcome = "ok" /\ call'.items = items)
  <2> SUFFICES ASSUME Faithful
               PROVE  call'.outcome = "bad_alloc" \/ (call'.outcome = "ok" /\ call'.items = items)
    OBVIOUS
  <2>1. Sound(schema) /\ Wrote(schema, Len(Whole[schema]))
    BY <1>1, <1>2, FaithfulList
  <2>2. HasPair(Whole[schema][d+1])
        /\ PairOf(Whole[schema][d+1]) = [name |-> key, type |-> "string", items |-> items]
    BY <1>2, <1>3, LiteralOf
  <2> HIDE DEF key, items
  <2>3. /\ key \notin NulKeys /\ nvlist_exists_type(nvl, key, "string")
        /\ \A i \in nvlist_find(nvl, key, "string") : nvl.pairs[i].items = items
    BY <1>2, <1>4, <2>1, <2>2, PairThere DEF AnyType
  <2> QED
    BY <1>7, <2>1, <2>3 DEF Sound, Exceptions
<1>9. CASE call'.outcome \in Exceptions
  <2>1. Fails(call'.outcome) /\ (Faithful => call'.outcome = "bad_alloc")
    BY <1>5, <1>8, <1>9 DEF Continues, Fails, Exceptions
  <2> QED
    BY <1>1, <1>2, <1>6, <1>7, <1>9, <2>1, ReadThrows
<1>10. CASE call'.outcome \notin Exceptions /\ call'.items # items
  <2>1. Fails("nv_key_not_found") /\ ~ Faithful
    BY <1>5, <1>7, <1>8, <1>10 DEF Exceptions
  <2> QED
    BY <1>1, <1>2, <1>6, <1>7, <2>1, ReadThrows DEF Exceptions
<1>11. CASE call'.outcome \notin Exceptions /\ call'.items = items
  <2>1. Continues /\ LiteralFound(schema, d + 1)
    BY <1>5, <1>7, <1>11 DEF LiteralFound
  <2>2. Progress(d + 1)'
    BY <1>1, <1>2, <1>3, <1>7, <2>1, LiteralTaken
  <2>3. target' \in Targets(schema)
    BY <1>1, <1>2 DEF SInv, Reading
  <2> QED
    BY <1>1, <1>2, <1>6, <1>7, <1>11, <2>1, <2>2, <2>3, ReadGoesOn
<1> QED
  BY <1>9, <1>10, <1>11
-----------------------------------------------------------------------------
(* The other steps *)

LEMMA EnterStep == SInv /\ enter_object => SInv'
<1> SUFFICES ASSUME SInv, enter_object
             PROVE  SInv'
  OBVIOUS
<1>1. /\ todo # <<>> /\ Head(todo).element.kind = "object" /\ todo' = Entered(todo)
      /\ UNCHANGED <<nvl, call, object, target, phase, written, current, changes, result>>
  BY DEF enter_object, Doing
<1>2. IInv'
  BY <1>1, StutterInvariant DEF SInv, vars
<1>3. Kept'
  BY <1>1, KeptKept DEF SInv
<1>4. todo' \in Seq(Entries) /\ todo' # <<>> /\ phase # "idle"
  BY <1>1, EnteredType DEF SInv, SerializeTypeOK
<1>5. SerializeTypeOK'
  BY <1>1, <1>2, <1>4 DEF SInv, SerializeTypeOK, IInv
<1>6. \A schema \in SchemaNames : \A d : AtPlace(schema, todo, d) => AtPlace(schema, todo, d)'
  BY <1>1, PlaceEnter DEF AtPlace
<1>7. Writing'
  <2> SUFFICES ASSUME phase = "writing"
               PROVE  Writing'
    BY <1>1 DEF Writing
  <2>1. PICK schema \in SchemaNames : schema = current
    BY DEF SInv, Writing
  <2>2. PICK d \in Nat : AtPlace(schema, todo, d) /\ Wrote(schema, d)
    BY <2>1 DEF SInv, Writing
  <2>3. Wrote(schema, d)' /\ Sound(schema)'
    BY <1>1, <2>1, <2>2
    DEF SInv, Writing, Wrote, Sound, ListHolds, HasPair, PairOf, IsField, MemberPath, TypeAt
  <2>4. AtPlace(schema, todo, d)'
    BY <1>6, <2>2
  <2> QED
    BY <1>1, <2>1, <2>3, <2>4 DEF SInv, Writing
<1>8. Reading'
  <2> SUFFICES ASSUME phase = "reading"
               PROVE  Reading'
    BY <1>1 DEF Reading
  <2>1. PICK schema \in SchemaNames : schema = current
    BY DEF SInv, Reading
  <2>2. PICK d \in Nat : AtPlace(schema, todo, d) /\ Progress(d)
    BY <2>1 DEF SInv, Reading
  <2>3. AtPlace(schema, todo, d)' /\ Progress(d)'
    BY <1>1, <1>6, <2>2, ProgressKept
  <2> QED
    BY <1>1, <2>1, <2>3 DEF SInv, Reading, Targets, Paths
<1>9. ReadDone'
  BY <1>1, <1>4 DEF ReadDone, Deserialized
<1> QED
  BY <1>2, <1>3, <1>5, <1>7, <1>8, <1>9 DEF SInv

LEMMA BeginWriteStep ==
  ASSUME SInv, NEW schema \in SchemaNames, nv_serialize(schema)
  PROVE  SInv'
<1>1. /\ nvl' = [flags |-> {}, error |-> NoError, pairs |-> <<>>]
      /\ Returns(Call("new", NoKey, AnyType), "ok", <<>>)
      /\ object' \in Objects[schema]
      /\ written' = NoSchema /\ current' = schema /\ target' = <<>> /\ changes' = 0
  BY DEF nv_serialize
<1>2. nvl'.pairs = <<>> /\ nvl'.flags = {} /\ nvl'.error = NoError /\ nvl' \in Lists
  <2>1. <<>> \in Seq(Pairs)
    OBVIOUS
  <2> QED
    BY <1>1, <2>1 DEF Lists
<1>3. IInv'
  <2>1. Call("new", NoKey, AnyType) \in Headers
    BY HeaderType DEF Operations
  <2>2. call' \in CallRecords
    BY <1>1, <2>1, NoItems DEF Returns, Headers, CallRecords, Outcomes
  <2> QED
    BY <1>2, <2>2
    DEF IInv, TypeOK, UniqueNames, DistinctNames, NulNeverStored, NulFree, CallRecords
<1>4. Kept' /\ Reading' /\ ReadDone'
  <2>1. phase' # "reading"
    BY DEF nv_serialize, Fails
  <2> QED
    BY <1>1, <2>1 DEF Kept, Reading, ReadDone, Deserialized
<1>5. SerializeTypeOK'
  <2>1. <<>> \in Seq(Members) /\ <<>> \in Seq(Entries)
    OBVIOUS
  <2>2. Elements(schema, <<>>) \in Seq(Entries) /\ Elements(schema, <<>>) # <<>>
    BY <2>1, ElementsType
  <2>3. /\ todo' \in Seq(Entries)
        /\ phase' \in {"idle", "writing", "reading"}
        /\ (todo' = <<>>) <=> (phase' = "idle")
        /\ result' \in Exceptions \cup {"none", "ok"}
    BY <2>1, <2>2 DEF nv_serialize, Fails, Exceptions
  <2> QED
    BY <1>1, <1>3, <2>3, MaxChangesAssumption DEF SerializeTypeOK, IInv
<1>6. Writing'
  <2> SUFFICES ASSUME phase' = "writing"
               PROVE  Writing'
    BY DEF Writing
  <2>1. todo' = Elements(schema, <<>>) /\ result' = "none"
    BY DEF nv_serialize, Fails
  <2>2. AtPlace(schema, todo, 0)'
    BY <2>1, PlaceBegin DEF AtPlace
  <2>3. ListHolds(schema, 0)'
    <3> DEFINE from == [i \in {} |-> 0]
    <3>1. DOMAIN nvl'.pairs = {}
      BY <1>2
    <3>2. from \in [{} -> 1..0] /\ 1..0 = {} /\ Range(from) = {}
      BY DEF Range
    <3> QED
      BY <3>1, <3>2 DEF ListHolds
  <2>4. Wrote(schema, 0)'
    BY <2>3 DEF Wrote
  <2>5. Sound(schema)'
    BY <1>1, <1>2 DEF Sound
  <2> QED
    BY <1>1, <2>1, <2>2, <2>4, <2>5 DEF Writing
<1> QED
  BY <1>3, <1>4, <1>5, <1>6 DEF SInv

LEMMA BeginReadStep ==
  ASSUME SInv, NEW schema \in SchemaNames, nv_deserialize(schema)
  PROVE  SInv'
<1>1. /\ phase' = "reading" /\ written # NoSchema
      /\ target' = BlankObject(schema) /\ todo' = Elements(schema, <<>>)
      /\ current' = schema /\ result' = "none"
      /\ UNCHANGED <<nvl, call, object, written, changes>>
  BY DEF nv_deserialize
<1>2. IInv'
  BY <1>1, StutterInvariant DEF SInv, vars
<1>3. Kept'
  BY <1>1, KeptKept DEF SInv
<1>4. Writing' /\ ReadDone'
  BY <1>1 DEF Writing, ReadDone, Deserialized
<1>5. SerializeTypeOK'
  <2>1. <<>> \in Seq(Members)
    OBVIOUS
  <2>2. Elements(schema, <<>>) \in Seq(Entries) /\ Elements(schema, <<>>) # <<>>
    BY <2>1, ElementsType
  <2> QED
    BY <1>1, <1>2, <2>2 DEF SInv, SerializeTypeOK, IInv
<1>6. AtPlace(schema, todo, 0)'
  BY <1>1, PlaceBegin DEF AtPlace
<1>7. target' \in Targets(schema) /\ \A path \in Paths(schema) : target'[path] = Blank
  BY <1>1 DEF BlankObject, Targets, Paths
<1>8. Progress(0)'
  <2>1. \A n \in DOMAIN Whole[schema] : n > 0 /\ ~ n <= 0
    BY WholeParts
  <2>2. \A n \in DOMAIN Whole[schema] : IsField(schema, n) => MemberPath(schema, n) \in Paths(schema)
    BY WholeParts
  <2>3. Took(schema, 0)'
    BY <1>7, <2>1, <2>2 DEF Took, IsField, MemberPath
  <2>4. Restored(schema, 0)'
    BY DEF Restored
  <2> QED
    BY <1>1, <2>3, <2>4 DEF Progress
<1>9. Reading'
  BY <1>1, <1>6, <1>7, <1>8 DEF Reading, Targets, Paths
<1> QED
  BY <1>2, <1>3, <1>4, <1>5, <1>9 DEF SInv

LEMMA ChangeListStep == SInv /\ ChangeList => SInv'
<1> SUFFICES ASSUME SInv, ChangeList
             PROVE  SInv'
  OBVIOUS
<1>1. /\ phase = "idle" /\ changes < MaxChanges /\ changes' = changes + 1 /\ target' = <<>>
      /\ current' = NoSchema /\ result' = "none" /\ UNCHANGED <<object, todo, phase, written>>
  BY DEF ChangeList
<1>2. \/ Recreated
      \/ \E key \in Keys : free_type(key, AnyType)
      \/ \E key \in Keys, type \in {"number", "string", "nvlist_array"} :
           \E s \in ScalarsOf["number"] : add(key, type, <<s>>)
  BY DEF ChangeList
<1>3. IInv'
  <2>1. ASSUME NEW key \in Keys, free_type(key, AnyType)
        PROVE  IInv'
    BY <2>1, FreeStep DEF SInv, StepOK
  <2>2. ASSUME NEW key \in Keys, NEW type \in {"number", "string", "nvlist_array"},
               NEW s \in ScalarsOf["number"], add(key, type, <<s>>)
        PROVE  IInv'
    <3>1. {"number", "string", "nvlist_array"} \subseteq Types /\ "number" \in Types
      BY DEF Types, ScalarTypes, ArrayTypes
    <3>2. s \in Scalars \ NulScalars
      BY <3>1, ArgumentsWithoutNul
    <3>3. <<s>> \in Seq(Scalars) /\ ~ HasNul(<<s>>)
      BY <3>2 DEF HasNul
    <3> QED
      BY <2>2, <3>1, <3>3, AddStep DEF SInv, StepOK
  <2>3. CASE Recreated
    <3>1. PICK flags \in FlagChoices : nvl' = [nvl EXCEPT !.flags = flags] /\ DistinctNames(nvl')
      BY <2>3 DEF Recreated
    <3>2. nvl \in Lists /\ NulFree(nvl) /\ flags \in SUBSET Flags
      BY FlagChoicesAssumption DEF SInv, IInv, TypeOK, NulNeverStored
    <3>3. nvl' \in Lists /\ nvl'.pairs = nvl.pairs
      BY <3>1, <3>2 DEF Lists
    <3>4. Call("new", NoKey, AnyType) \in Headers /\ nvl.error = NoError /\ nvl'.error = NoError
      BY <2>3, <3>1, <3>2, HeaderType DEF Recreated, Operations, Lists
    <3>5. NulFree(nvl')
      BY <3>2, <3>3 DEF NulFree
    <3>6. /\ "ok" \in Outcomes /\ "ok" \notin Exceptions
          /\ Returns(Call("new", NoKey, AnyType), "ok", <<>>)
      BY <2>3 DEF Recreated, Outcomes, Exceptions
    <3> QED
      BY <3>1, <3>3, <3>4, <3>5, <3>6, NoItems, ChangeStep DEF Good, StepOK
  <2> QED
    BY <1>2, <2>1, <2>2, <2>3
<1>4. changes' # 0 /\ changes' \in 0..MaxChanges
  BY <1>1, MaxChangesAssumption DEF SInv, SerializeTypeOK
<1>5. Writing' /\ Kept' /\ Reading' /\ ReadDone'
  BY <1>1, <1>4 DEF Writing, Kept, Reading, ReadDone, Deserialized
<1>6. SerializeTypeOK'
  BY <1>1, <1>3, <1>4 DEF SInv, SerializeTypeOK, IInv
<1> QED
  BY <1>3, <1>5, <1>6 DEF SInv

LEMMA SerializeInitInvariant == SerializeInit => SInv
<1> SUFFICES ASSUME SerializeInit
             PROVE  SInv
  OBVIOUS
<1>1. IInv
  BY InitInvariant DEF SerializeInit
<1>2. <<>> \in Seq(Entries)
  OBVIOUS
<1>3. SerializeTypeOK
  BY <1>1, <1>2, MaxChangesAssumption DEF SerializeInit, SerializeTypeOK, IInv
<1>4. Writing /\ Kept /\ Reading /\ ReadDone
  BY DEF SerializeInit, Writing, Kept, Reading, ReadDone, Deserialized
<1> QED
  BY <1>1, <1>3, <1>4 DEF SInv

LEMMA SerializeStutter == SInv /\ UNCHANGED servars => SInv'
<1> SUFFICES ASSUME SInv, UNCHANGED servars
             PROVE  SInv'
  OBVIOUS
<1>1. UNCHANGED <<nvl, call, object, target, todo, phase, written, current, changes, result>>
  BY DEF servars
<1>2. IInv'
  BY <1>1, StutterInvariant DEF SInv, vars
<1>3. Kept'
  BY <1>1, KeptKept DEF SInv
<1>4. \A d : AtPlace(current, todo, d) => AtPlace(current, todo, d)'
  BY <1>1 DEF AtPlace
<1>5. Writing'
  BY <1>1, <1>4 DEF SInv, Writing, Sound, Wrote, ListHolds, HasPair, PairOf, IsField,
                    MemberPath, TypeAt
<1>6. \A d : Progress(d) => Progress(d)'
  BY <1>1, ProgressKept
<1>7. Reading'
  BY <1>1, <1>4, <1>6 DEF SInv, Reading, Targets, Paths
<1>8. ReadDone'
  BY <1>1, <1>6 DEF SInv, ReadDone, Deserialized, Targets, Paths, Faithful, Ambiguous
<1>9. SerializeTypeOK'
  BY <1>1, <1>2 DEF SInv, SerializeTypeOK, IInv
<1> QED
  BY <1>2, <1>3, <1>5, <1>7, <1>8, <1>9 DEF SInv

LEMMA SerializeInvariant == SerializeSpec => []SInv
<1>1. SInv /\ [SerializeNext]_servars => SInv'
  BY WriteFieldStep, WriteLiteralStep, EnterStep, ReadFieldStep, ReadLiteralStep,
     BeginWriteStep, BeginReadStep, ChangeListStep, SerializeStutter
  DEF SerializeNext
<1> QED
  BY SerializeInitInvariant, <1>1, PTL DEF SerializeSpec
-----------------------------------------------------------------------------
(* What follows *)

\* Where a call of nv_deserialize() has got to when it is over.
LEMMA DoneAt ==
  ASSUME SInv, Deserialized
  PROVE  \E schema \in SchemaNames : \E d \in 0..Len(Whole[schema]) :
           /\ schema = current /\ target \in Targets(schema) /\ written # NoSchema
           /\ (result = "ok" <=> d = Len(Whole[schema])) /\ Progress(d)
BY DEF SInv, ReadDone

LEMMA FoundTaken ==
  ASSUME NEW schema \in SchemaNames, NEW n \in 1..Len(Whole[schema]),
         NEW value, TakenFrom(schema, n, value)
  PROVE  /\ value \in FoundValues(schema, n)
                        \cup (IF TypeAt(schema, n).optional THEN {<<>>} ELSE {})
         /\ TypeAt(schema, n).optional /\ value = <<>> <=> ~ Present(schema, n)
<1>1. \A v \in FoundValues(schema, n) : v # <<>>
  BY DEF FoundValues
<1> QED
  BY <1>1 DEF TakenFrom

\* Whatever is written, read and changed, and however it ends, the list, the
\* elements to do and the outcome are of their types, and no list that
\* nv_serialize() returned is in the error state.
THEOREM SerializeTypeCorrect == SerializeSpec => []SerializeTypeOK
<1>1. SInv => SerializeTypeOK
  BY DEF SInv
<1> QED
  BY SerializeInvariant, <1>1, PTL

\* A list that nv_serialize() returned has the pairs of its schema, in their
\* order, and no other, for every schema and every object.
THEOREM ListMatchesSchemaHolds == SerializeSpec => []ListMatchesSchema
<1>1. SInv => ListMatchesSchema
  BY DEF SInv, Kept, Wrote, ListMatchesSchema
<1> QED
  BY SerializeInvariant, <1>1, PTL

\* What was written is read back as it was, for every schema without an
\* ambiguous optional and every object.
THEOREM RoundTripHolds == SerializeSpec => []RoundTrip
<1>1. SInv => RoundTrip
  <2> SUFFICES ASSUME SInv, Deserialized, Faithful
               PROVE  \/ result = "ok" /\ target = object
                      \/ result \in {"bad_alloc", "system_error"}
    BY DEF RoundTrip, Faithful
  <2>1. PICK schema \in SchemaNames : \E d \in 0..Len(Whole[schema]) :
           /\ schema = current /\ target \in Targets(schema) /\ written # NoSchema
           /\ (result = "ok" <=> d = Len(Whole[schema])) /\ Progress(d)
    BY DoneAt
  <2>2. CASE result # "ok"
    BY <2>2 DEF SInv, ReadDone
  <2>3. CASE result = "ok"
    <3>1. Restored(schema, Len(Whole[schema])) /\ object \in Objects[schema]
      BY <2>1, <2>3 DEF Progress, SInv, Kept, Sound, Faithful
    <3>2. ASSUME NEW path \in Paths(schema)
          PROVE  target[path] = object[path]
      <4>1. PICK entry \in Fields[schema] : path = Path(entry)
        BY DEF Paths
      <4>2. PICK n \in 1..Len(Whole[schema]) : Whole[schema][n] = entry
        BY WholeParts DEF Fields, Range
      <4> QED
        BY <3>1, <4>1, <4>2 DEF Restored, IsField, MemberPath
    <3>3. object = [path \in Paths(schema) |-> object[path]]
      BY <3>1, ObjectDomain
    <3>4. target = [path \in Paths(schema) |-> target[path]]
      BY <2>1 DEF Targets
    <3>5. target = object
      BY <3>2, <3>3, <3>4
    <3> QED
      BY <2>3, <3>5
  <2> QED
    BY <2>2, <2>3
<1> QED
  BY SerializeInvariant, <1>1, PTL

\* Whatever list nv_deserialize() reads, and wherever it fails, the members in
\* front are from their pairs, and those behind are untouched.
THEOREM DecodedPrefixHolds == SerializeSpec => []DecodedPrefix
<1>1. SInv => DecodedPrefix
  <2> SUFFICES ASSUME SInv, Deserialized, MembersOnce(current)
               PROVE  DecodedPrefix
    BY DEF DecodedPrefix
  <2>1. PICK schema \in SchemaNames : \E d \in 0..Len(Whole[schema]) :
           /\ schema = current /\ target \in Targets(schema) /\ written # NoSchema
           /\ (result = "ok" <=> d = Len(Whole[schema])) /\ Progress(d)
    BY DoneAt
  <2>2. PICK d \in 0..Len(Whole[schema]) :
           (result = "ok" <=> d = Len(Whole[schema])) /\ Progress(d)
    BY <2>1
  <2>3. Took(schema, d)
    BY <2>1, <2>2 DEF Progress
  <2>4. ASSUME NEW n \in 1..Len(Whole[schema]), IsField(schema, n)
        PROVE  /\ n > d => target[MemberPath(schema, n)] = Blank
               /\ ~ n > d => target[MemberPath(schema, n)] \in
                     FoundValues(schema, n)
                       \cup (IF TypeAt(schema, n).optional THEN {<<>>} ELSE {})
    BY <2>3, <2>4, FoundTaken, WholeParts DEF Took
  <2> QED
    BY <2>1, <2>2, <2>4, WholeParts
    DEF DecodedPrefix, IsField, MemberPath, FoundValues, TypeAt, NameOf
<1> QED
  BY SerializeInvariant, <1>1, PTL

\* No member behind a literal is assigned unless the list has that string.
THEOREM LiteralGuardsHolds == SerializeSpec => []LiteralGuards
<1>1. SInv => LiteralGuards
  <2> SUFFICES ASSUME SInv, Deserialized, MembersOnce(current)
               PROVE  LiteralGuards
    BY DEF LiteralGuards
  <2>1. PICK schema \in SchemaNames : \E d \in 0..Len(Whole[schema]) :
           /\ schema = current /\ target \in Targets(schema) /\ written # NoSchema
           /\ (result = "ok" <=> d = Len(Whole[schema])) /\ Progress(d)
    BY DoneAt
  <2>2. PICK d \in 0..Len(Whole[schema]) : Took(schema, d)
    BY <2>1 DEF Progress
  <2>3. ASSUME NEW n \in 1..Len(Whole[schema]), NEW m \in 1..Len(Whole[schema]),
               n < m, IsLiteral(schema, n), IsField(schema, m),
               target[MemberPath(schema, m)] # Blank
        PROVE  LiteralFound(schema, n)
    <3>1. ~ m > d
      BY <2>2, <2>3, WholeParts DEF Took
    <3>2. n <= d
      BY <2>3, <3>1
    <3> QED
      BY <2>2, <2>3, <3>2, WholeParts DEF Took
  <2> QED
    BY <2>1, <2>3, WholeParts
    DEF LiteralGuards, IsField, MemberPath, IsLiteral, LiteralFound, NameOf
<1> QED
  BY SerializeInvariant, <1>1, PTL

\* An optional is read as none exactly when the list has no pair of its name.
THEOREM OptionalAbsentHolds == SerializeSpec => []OptionalAbsent
<1>1. SInv => OptionalAbsent
  <2> SUFFICES ASSUME SInv, Deserialized, MembersOnce(current)
               PROVE  OptionalAbsent
    BY DEF OptionalAbsent
  <2>1. PICK schema \in SchemaNames : \E d \in 0..Len(Whole[schema]) :
           /\ schema = current /\ target \in Targets(schema) /\ written # NoSchema
           /\ (result = "ok" <=> d = Len(Whole[schema])) /\ Progress(d)
    BY DoneAt
  <2>2. PICK d \in 0..Len(Whole[schema]) : Took(schema, d)
    BY <2>1 DEF Progress
  <2>3. ASSUME NEW n \in 1..Len(Whole[schema]), IsField(schema, n),
               target[MemberPath(schema, n)] # Blank
        PROVE  TypeAt(schema, n).optional /\ target[MemberPath(schema, n)] = <<>>
                 <=> ~ Present(schema, n)
    <3>1. n <= d
      BY <2>2, <2>3, WholeParts DEF Took
    <3> QED
      BY <2>2, <2>3, <3>1, FoundTaken, WholeParts DEF Took
  <2> QED
    BY <2>1, <2>3, WholeParts
    DEF OptionalAbsent, IsField, MemberPath, TypeAt, Present, NameOf
<1> QED
  BY SerializeInvariant, <1>1, PTL
=============================================================================
