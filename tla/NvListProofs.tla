--------------------------- MODULE NvListProofs ---------------------------
(***************************************************************************)
(* Proofs about NvList, for every set of names, values and flags.          *)
(***************************************************************************)
EXTENDS NvList, SequenceTheorems, WellFoundedInduction, TLAPS

\* What is inductive: the three invariants together.
IInv == TypeOK /\ UniqueNames /\ NulNeverStored

\* A list that satisfies the invariants.
Good(list) == list \in Lists /\ DistinctNames(list) /\ NulFree(list)

Headers == [op : Operations, key : Keys \cup {NoKey}, type : Types \cup {AnyType}]
CallRecords == [op : Operations, key : Keys \cup {NoKey}, type : Types \cup {AnyType},
                outcome : Outcomes, items : Seq(Scalars)]

DescriptorTypes == {"descriptor", "descriptor_array"}

\* The calls that may put a list into the error state.
MayBreak(op, outcome) ==
  \/ op \in {"move", "append", "set_error"}
  \/ op = "add" /\ outcome \in {"nv_key_exists", "system_error"}

\* What is shown of every member function call.
StepOK ==
  /\ IInv'
  /\ nvl.error # NoError =>
       /\ nvl' = nvl
       /\ call'.op \notin {"error", "exists"} => call'.outcome = "nv_error_state"
  /\ /\ call'.outcome \in Exceptions
     /\ call'.outcome = "bad_alloc" => call'.op # "take"
     => nvl'.pairs = nvl.pairs
  /\ call'.outcome = "bad_alloc" /\ call'.type \in DescriptorTypes => nvl' = nvl
  /\ nvl.error = NoError /\ nvl'.error # NoError => MayBreak(call'.op, call'.outcome)
-----------------------------------------------------------------------------
(* Induction.  The library's theorems about it take a predicate; these are *)
(* about sets, so that the provers can use them.                           *)

LEMMA LeastNumber ==
  ASSUME NEW T \in SUBSET Nat, T # {}
  PROVE  \E x \in T : \A y \in T : x <= y
<1> DEFINE Less == OpToRel(<, Nat)
<1>1. IsWellFoundedOn(Less, Nat)
  BY NatLessThanWellFounded
<1>2. \A x, y \in Nat : x < y => <<x, y>> \in Less
  BY DEF OpToRel
<1> HIDE DEF Less
<1>3. PICK x \in T : \A y \in T : ~ (<<y, x>> \in Less)
  BY <1>1, WFMin
<1>4. ASSUME NEW y \in T, ~ x <= y
      PROVE  FALSE
  <2>1. x \in Nat /\ y \in Nat
    OBVIOUS
  <2>2. y < x
    BY <1>4, <2>1
  <2> QED
    BY <1>2, <1>3, <2>1, <2>2
<1> QED
  BY <1>4

LEMMA Induction ==
  ASSUME NEW T, 0 \in T, \A n \in Nat : n \in T => n + 1 \in T
  PROVE  Nat \subseteq T
<1> SUFFICES ASSUME Nat \ T # {}
             PROVE  FALSE
  OBVIOUS
<1>1. PICK n \in Nat \ T : \A m \in Nat \ T : n <= m
  BY LeastNumber
<1>2. n # 0 /\ n - 1 \in Nat /\ n - 1 \in T
  BY <1>1
<1>3. (n - 1) + 1 \in T
  BY <1>2
<1> QED
  BY <1>1, <1>3

\* The function that begins with a and goes on by g.
Iterates(f, a, g) == f[0] = a /\ \A n \in Nat : f[n+1] = g[<<n, f[n]>>]

\* A recursive function over the naturals exists.
LEMMA Recursion ==
  ASSUME NEW S, NEW a \in S, NEW g \in [Nat \X S -> S]
  PROVE  \E f \in [Nat -> S] : Iterates(f, a, g)
<1> DEFINE Start(h, m) ==
             h \in [0..m -> S] /\ h[0] = a /\ \A n \in 0..m-1 : h[n+1] = g[<<n, h[n]>>]
<1>1. \A m \in Nat : \E h : Start(h, m)
  <2> DEFINE T == {m \in Nat : \E h : Start(h, m)}
  <2>1. 0 \in T
    <3>1. Start([n \in 0..0 |-> a], 0)
      OBVIOUS
    <3> QED
      BY <3>1
  <2>2. ASSUME NEW m \in Nat, m \in T
        PROVE  m + 1 \in T
    <3>1. PICK h : Start(h, m)
      BY <2>2
    <3> DEFINE k == [n \in 0..m+1 |-> IF n <= m THEN h[n] ELSE g[<<m, h[m]>>]]
    <3>2. h[m] \in S /\ g[<<m, h[m]>>] \in S
      BY <3>1
    <3>3. k \in [0..m+1 -> S]
      BY <3>1, <3>2
    <3>4. k[0] = a
      BY <3>1
    <3>5. ASSUME NEW n \in 0..m
          PROVE  k[n+1] = g[<<n, k[n]>>]
      <4>1. CASE n = m
        BY <4>1
      <4>2. CASE n # m
        <5>1. n \in 0..m-1 /\ n + 1 <= m /\ n + 1 \in 0..m+1
          BY <4>2
        <5> QED
          BY <3>1, <5>1
      <4> QED
        BY <4>1, <4>2
    <3> HIDE DEF k
    <3>6. Start(k, m + 1)
      BY <3>3, <3>4, <3>5
    <3> QED
      BY <3>6
  <2> HIDE DEF T
  <2>3. Nat \subseteq T
    BY <2>1, <2>2, Induction
  <2> QED
    BY <2>3 DEF T
<1>2. ASSUME NEW m \in Nat, NEW h, NEW k, Start(h, m), Start(k, m + 1)
      PROVE  \A n \in 0..m : h[n] = k[n]
  <2> DEFINE T == {n \in Nat : n <= m => h[n] = k[n]}
  <2>1. 0 \in T
    BY <1>2
  <2>2. ASSUME NEW n \in Nat, n \in T
        PROVE  n + 1 \in T
    <3>1. SUFFICES ASSUME n + 1 <= m
                   PROVE  h[n+1] = k[n+1]
      OBVIOUS
    <3>2. n \in 0..m-1 /\ n \in 0..m /\ n \in 0..(m+1)-1 /\ h[n] = k[n]
      BY <2>2, <3>1
    <3> QED
      BY <1>2, <3>2
  <2> HIDE DEF T
  <2>3. Nat \subseteq T
    BY <2>1, <2>2, Induction
  <2> QED
    BY <2>3 DEF T
<1> DEFINE first(m) == CHOOSE h : Start(h, m)
           f == [n \in Nat |-> first(n)[n]]
<1>3. \A m \in Nat : Start(first(m), m)
  BY <1>1
<1> HIDE DEF first
<1>4. f \in [Nat -> S] /\ f[0] = a
  BY <1>3
<1>5. ASSUME NEW n \in Nat
      PROVE  f[n+1] = g[<<n, f[n]>>]
  <2>1. Start(first(n), n) /\ Start(first(n+1), n + 1)
    BY <1>3
  <2>2. first(n)[n] = first(n+1)[n]
    BY <1>2, <2>1
  <2>3. first(n+1)[n+1] = g[<<n, first(n+1)[n]>>]
    BY <2>1
  <2> QED
    BY <2>2, <2>3
<1> QED
  BY <1>4, <1>5 DEF Iterates
-----------------------------------------------------------------------------
(* The libnv operations keep a list good. *)

LEMMA RemoveAtElements ==
  ASSUME NEW S, NEW s \in Seq(S), NEW i \in 1..Len(s)
  PROVE  /\ RemoveAt(s, i) \in Seq(S)
         /\ Len(RemoveAt(s, i)) = Len(s) - 1
         /\ \A j \in 1..Len(s)-1 : RemoveAt(s, i)[j] = IF j < i THEN s[j] ELSE s[j+1]
<1> DEFINE front == SubSeq(s, 1, i-1)
           back == SubSeq(s, i+1, Len(s))
<1>1. /\ front \in Seq(S) /\ Len(front) = i-1
      /\ \A j \in 1..i-1 : front[j] = s[j]
  OBVIOUS
<1>2. /\ back \in Seq(S) /\ Len(back) = Len(s) - i
      /\ \A j \in 1..Len(s)-i : back[j] = s[i+j]
  OBVIOUS
<1>3. /\ front \o back \in Seq(S) /\ Len(front \o back) = Len(front) + Len(back)
      /\ \A j \in 1..Len(front) + Len(back) :
           (front \o back)[j] = IF j <= Len(front) THEN front[j] ELSE back[j - Len(front)]
  BY <1>1, <1>2, ConcatProperties
<1>4. RemoveAt(s, i) = front \o back
  BY DEF RemoveAt
<1> HIDE DEF front, back
<1>5. \A j \in 1..Len(s)-1 : RemoveAt(s, i)[j] = IF j < i THEN s[j] ELSE s[j+1]
  <2> TAKE j \in 1..Len(s)-1
  <2>1. CASE j < i
    <3>1. j \in 1..i-1
      BY <2>1
    <3> QED
      BY <1>1, <1>2, <1>3, <1>4, <2>1, <3>1
  <2>2. CASE ~ j < i
    <3>1. j - (i-1) \in 1..Len(s)-i /\ i + (j - (i-1)) = j + 1
      BY <2>2
    <3>2. back[j - (i-1)] = s[j+1]
      BY <1>2, <3>1
    <3> QED
      BY <1>1, <1>2, <1>3, <1>4, <2>2, <3>2
  <2> QED
    BY <2>1, <2>2
<1> QED
  BY <1>1, <1>2, <1>3, <1>4, <1>5

LEMMA SetErrorKeepsGood ==
  ASSUME NEW list, Good(list), NEW e \in Errnos
  PROVE  Good(nvlist_set_error(list, e))
BY DEF Good, nvlist_set_error, Lists, DistinctNames, NulFree, SameName, HasNul

LEMMA InsertKeepsGood ==
  ASSUME NEW list, Good(list), NEW key \in Keys \ NulKeys, NEW type \in Types,
         NEW items \in Seq(Scalars), ~ HasNul(items), ~ Clashes(list, key)
  PROVE  Good([list EXCEPT !.pairs = Append(@, [name |-> key, type |-> type,
                                                 items |-> items])])
<1> DEFINE pair == [name |-> key, type |-> type, items |-> items]
           new == [list EXCEPT !.pairs = Append(@, pair)]
<1>1. pair \in Pairs /\ list.pairs \in Seq(Pairs)
  BY DEF Pairs, Good, Lists
<1>2. /\ Append(list.pairs, pair) \in Seq(Pairs)
      /\ Len(Append(list.pairs, pair)) = Len(list.pairs) + 1
      /\ \A i \in 1..Len(list.pairs) : Append(list.pairs, pair)[i] = list.pairs[i]
      /\ Append(list.pairs, pair)[Len(list.pairs) + 1] = pair
  BY <1>1
<1>3. /\ new \in Lists
      /\ new.flags = list.flags
      /\ new.pairs = Append(list.pairs, pair)
  BY <1>2 DEF Good, Lists
<1>4. DOMAIN list.pairs = 1..Len(list.pairs) /\ DOMAIN new.pairs = 1..Len(list.pairs) + 1
  BY <1>1, <1>2, <1>3
<1>5. \A a, b : SameName(new, a, b) <=> SameName(list, a, b)
  BY <1>3 DEF SameName
<1>6. DistinctNames(new)
  <2> SUFFICES ASSUME "NO_UNIQUE" \notin list.flags,
                      NEW i \in 1..Len(list.pairs) + 1, NEW j \in 1..Len(list.pairs) + 1,
                      SameName(list, new.pairs[i].name, new.pairs[j].name)
               PROVE  i = j
    BY <1>3, <1>4, <1>5 DEF DistinctNames
  <2>1. \A m \in 1..Len(list.pairs) : ~ SameName(list, list.pairs[m].name, key)
    BY <1>4 DEF Clashes, nvlist_exists_type, Matches
  <2>2. \A m \in 1..Len(list.pairs) : ~ SameName(list, key, list.pairs[m].name)
    BY <2>1 DEF SameName
  <2>3. \A m \in 1..Len(list.pairs) : new.pairs[m].name = list.pairs[m].name
    BY <1>2, <1>3
  <2>4. new.pairs[Len(list.pairs) + 1].name = key
    BY <1>2, <1>3
  <2>5. CASE i \in 1..Len(list.pairs) /\ j \in 1..Len(list.pairs)
    BY <2>3, <2>5, <1>4 DEF Good, DistinctNames
  <2>6. CASE i = Len(list.pairs) + 1 \/ j = Len(list.pairs) + 1
    BY <2>1, <2>2, <2>3, <2>4, <2>6, <1>1
  <2> QED
    BY <2>5, <2>6, <1>1
<1>7. NulFree(new)
  BY <1>2, <1>3, <1>4 DEF Good, NulFree
<1> QED
  BY <1>3, <1>6, <1>7 DEF Good

LEMMA AddKeepsGood ==
  ASSUME NEW list, Good(list), NEW key \in Keys \ NulKeys, NEW type \in Types,
         NEW items \in Seq(Scalars), ~ HasNul(items),
         NEW result \in nvlist_add(list, key, type, items)
  PROVE  Good(result)
<1>1. BuildErrors(type, items) \subseteq Errnos
  BY ItemErrnoAssumption DEF BuildErrors, Errnos, NoError
<1>2. \A e \in Errnos : Good(nvlist_set_error(list, e))
  BY SetErrorKeepsGood
<1>3. "EEXIST" \in Errnos /\ "ENOMEM" \in Errnos
  BY DEF Errnos
<1> QED
  BY <1>1, <1>2, <1>3, InsertKeepsGood DEF nvlist_add

LEMMA ExtendKeepsGood ==
  ASSUME NEW list, Good(list), NEW i \in DOMAIN list.pairs,
         NEW item \in Scalars \ NulScalars
  PROVE  Good([list EXCEPT !.pairs[i].items = Append(@, item)])
<1> DEFINE items == list.pairs[i].items
           new == [list EXCEPT !.pairs[i].items = Append(@, item)]
<1>1. list.pairs \in Seq(Pairs) /\ list.pairs[i] \in Pairs /\ items \in Seq(Scalars)
  <2>1. list.pairs \in Seq(Pairs)
    BY DEF Good, Lists
  <2>2. list.pairs[i] \in Pairs
    BY <2>1, ElementOfSeq
  <2> QED
    BY <2>1, <2>2 DEF Pairs
<1>2. Append(items, item) \in Seq(Scalars)
  BY <1>1
<1>3. ~ HasNul(Append(items, item))
  BY <1>1 DEF HasNul, Good, NulFree
<1> DEFINE pair == [list.pairs[i] EXCEPT !.items = Append(items, item)]
           pairs == [list.pairs EXCEPT ![i] = pair]
<1>4. /\ pair \in Pairs /\ pair.name = list.pairs[i].name
      /\ pair.items = Append(items, item)
  BY <1>1, <1>2 DEF Pairs
<1>5. /\ pairs \in Seq(Pairs) /\ DOMAIN pairs = DOMAIN list.pairs
      /\ \A j \in DOMAIN list.pairs : pairs[j] = IF j = i THEN pair ELSE list.pairs[j]
  <2> HIDE DEF pair
  <2> QED
    BY <1>1, <1>4, ExceptSeq
<1>6. new = [list EXCEPT !.pairs = pairs]
  BY <1>1 DEF Good, Lists, Pairs
<1> HIDE DEF pair, pairs
<1>7. /\ new \in Lists /\ new.flags = list.flags
      /\ DOMAIN new.pairs = DOMAIN list.pairs
      /\ \A j \in DOMAIN list.pairs : new.pairs[j].name = list.pairs[j].name
      /\ \A j \in DOMAIN list.pairs : j # i => new.pairs[j] = list.pairs[j]
      /\ new.pairs[i].items = Append(items, item)
  BY <1>4, <1>5, <1>6 DEF Good, Lists
<1> HIDE DEF new
<1>8. DistinctNames(new)
  BY <1>7 DEF Good, DistinctNames, SameName
<1>9. NulFree(new)
  BY <1>3, <1>7 DEF Good, NulFree
<1> QED
  BY <1>7, <1>8, <1>9 DEF Good, new

LEMMA AppendKeepsGood ==
  ASSUME NEW list, Good(list), NEW key \in Keys \ NulKeys, NEW type \in Types,
         NEW item \in Scalars \ NulScalars,
         NEW result \in nvlist_append(list, key, type, item)
  PROVE  Good(result)
<1>1. <<item>> \in Seq(Scalars) /\ ~ HasNul(<<item>>)
  BY DEF HasNul
<1>2. BuildErrors(type, <<item>>) \subseteq Errnos
  BY <1>1, ItemErrnoAssumption DEF BuildErrors, Errnos, NoError
<1>3. nvlist_find(list, key, type) \subseteq DOMAIN list.pairs
  BY DEF nvlist_find, Matches
<1>4. \A e \in Errnos : Good(nvlist_set_error(list, e))
  BY SetErrorKeepsGood
<1>5. "ENOMEM" \in Errnos
  BY DEF Errnos
<1>6. CASE ~ nvlist_exists_type(list, key, type)
  BY <1>1, <1>6, AddKeepsGood DEF nvlist_append
<1>7. CASE nvlist_exists_type(list, key, type)
  BY <1>2, <1>3, <1>4, <1>5, <1>7, ExtendKeepsGood DEF nvlist_append
<1> QED
  BY <1>6, <1>7

LEMMA RemoveKeepsGood ==
  ASSUME NEW list, Good(list), NEW i \in DOMAIN list.pairs
  PROVE  Good(nvlist_remove(list, i))
<1> DEFINE new == nvlist_remove(list, i)
<1>1. list.pairs \in Seq(Pairs) /\ i \in 1..Len(list.pairs) /\ Len(list.pairs) \in Nat
  BY DEF Good, Lists
<1>2. /\ RemoveAt(list.pairs, i) \in Seq(Pairs)
      /\ Len(RemoveAt(list.pairs, i)) = Len(list.pairs) - 1
      /\ \A j \in 1..Len(list.pairs)-1 :
           RemoveAt(list.pairs, i)[j] = IF j < i THEN list.pairs[j] ELSE list.pairs[j+1]
  BY <1>1, RemoveAtElements
<1>3. new \in Lists /\ new.flags = list.flags /\ new.pairs = RemoveAt(list.pairs, i)
  BY <1>2 DEF Good, Lists, nvlist_remove
<1>4. DOMAIN list.pairs = 1..Len(list.pairs) /\ DOMAIN new.pairs = 1..Len(list.pairs)-1
  BY <1>1, <1>2, <1>3
<1> DEFINE old(j) == IF j < i THEN j ELSE j + 1
<1>5. \A j \in DOMAIN new.pairs : old(j) \in DOMAIN list.pairs /\ new.pairs[j] = list.pairs[old(j)]
  BY <1>1, <1>2, <1>3, <1>4
<1>6. \A j, m \in DOMAIN new.pairs : old(j) = old(m) => j = m
  BY <1>1, <1>4
<1> HIDE DEF new, old
<1>7. DistinctNames(new)
  BY <1>3, <1>5, <1>6 DEF Good, DistinctNames, SameName
<1>8. NulFree(new)
  BY <1>5 DEF Good, NulFree
<1> QED
  BY <1>3, <1>7, <1>8 DEF Good, new

LEMMA RemoveKeepsError ==
  ASSUME NEW list \in Lists, NEW i
  PROVE  nvlist_remove(list, i).error = list.error
BY DEF Lists, nvlist_remove
-----------------------------------------------------------------------------
(* The ways a member function can end. *)

LEMMA ChangeStep ==
  ASSUME NEW c \in Headers, NEW outcome \in Outcomes, NEW items \in Seq(Scalars),
         nvl.error = NoError, Good(nvl'), Returns(c, outcome, items),
         outcome \in Exceptions /\ outcome # "bad_alloc" => nvl'.pairs = nvl.pairs,
         outcome = "bad_alloc" => c.op = "take" /\ c.type \notin DescriptorTypes,
         nvl'.error = NoError \/ MayBreak(c.op, outcome)
  PROVE  StepOK
<1>1. /\ call' \in CallRecords /\ call'.outcome = outcome
      /\ call'.op = c.op /\ call'.type = c.type
  BY DEF Returns, CallRecords, Headers
<1>2. IInv'
  BY <1>1 DEF IInv, TypeOK, UniqueNames, NulNeverStored, Good, CallRecords
<1> QED
  BY <1>1, <1>2 DEF StepOK

LEMMA ReadStep ==
  ASSUME IInv, NEW c \in Headers, NEW outcome \in Outcomes, NEW items \in Seq(Scalars),
         nvl.error = NoError \/ outcome = "nv_error_state" \/ c.op = "error",
         Returns(c, outcome, items), UNCHANGED nvl
  PROVE  StepOK
<1>1. call' \in CallRecords /\ call'.outcome = outcome /\ call'.op = c.op
  BY DEF Returns, CallRecords, Headers
<1>2. IInv'
  BY <1>1 DEF IInv, TypeOK, UniqueNames, NulNeverStored, CallRecords
<1> QED
  BY <1>1, <1>2 DEF StepOK

LEMMA NoItems == <<>> \in Seq(Scalars)
OBVIOUS

LEMMA ThrowStep ==
  ASSUME IInv, NEW c \in Headers, NEW e \in Exceptions \cup {"abort"},
         nvl.error = NoError, Throws(c, e)
  PROVE  StepOK
BY NoItems, ReadStep DEF Throws, Outcomes

LEMMA ErrorStep ==
  ASSUME IInv, NEW c \in Headers, throw_if_error(c)
  PROVE  StepOK
BY NoItems, ReadStep DEF throw_if_error, Throws, Outcomes, Exceptions

LEMMA RefusedStep ==
  ASSUME IInv, NEW c \in Headers, Refuses(c)
  PROVE  StepOK
BY ErrorStep, ThrowStep DEF Refuses, check_string_null, Exceptions

LEMMA RejectStep ==
  ASSUME IInv, NEW c \in Headers, Rejects(c)
  PROVE  StepOK
BY RefusedStep, ThrowStep DEF Rejects, CannotCopy, Accepts, Exceptions

LEMMA HeaderType ==
  ASSUME NEW op \in Operations, NEW key \in Keys \cup {NoKey},
         NEW type \in Types \cup {AnyType}
  PROVE  /\ Call(op, key, type) \in Headers
         /\ Call(op, key, type).op = op
         /\ Call(op, key, type).key = key
         /\ Call(op, key, type).type = type
BY DEF Call, Headers

LEMMA OldGood == IInv => Good(nvl)
BY DEF IInv, TypeOK, UniqueNames, NulNeverStored, Good

LEMMA FoundItems ==
  ASSUME Good(nvl), NEW key, NEW type, NEW i \in nvlist_find(nvl, key, type)
  PROVE  i \in DOMAIN nvl.pairs /\ nvl.pairs[i].items \in Seq(Scalars)
<1>1. i \in DOMAIN nvl.pairs
  BY DEF nvlist_find, Matches
<1>2. nvl.pairs \in Seq(Pairs)
  BY DEF Good, Lists
<1>3. nvl.pairs[i] \in Pairs
  BY <1>1, <1>2, ElementOfSeq
<1> QED
  BY <1>1, <1>3 DEF Pairs

\* Only a call that succeeds changes the pairs.
LEMMA AddErrorKeepsPairs ==
  ASSUME NEW list, Good(list), list.error = NoError,
         NEW key, NEW type, NEW items \in Seq(Scalars),
         NEW result \in nvlist_add(list, key, type, items), result.error # NoError
  PROVE  result.pairs = list.pairs
BY DEF nvlist_add, nvlist_set_error, Good, Lists

LEMMA ReportedOutcome ==
  ASSUME NEW e
  PROVE  Reported(e) \in Outcomes /\ (e = NoError => Reported(e) = "ok")
BY DEF Reported, Outcomes, Exceptions

\* What an nvlist_add_* sets, and nothing but that, is reported.
LEMMA ReportedBreak ==
  ASSUME NEW e
  PROVE  Reported(e) # "bad_alloc" /\ (e # NoError => MayBreak("add", Reported(e)))
BY DEF Reported, MayBreak
-----------------------------------------------------------------------------
(* The member functions *)

LEMMA ExistsStep ==
  ASSUME IInv, NEW key \in Keys, NEW type \in Types \cup {AnyType}, exists_type(key, type)
  PROVE  StepOK
<1> DEFINE c == Call("exists", key, type)
<1>1. c \in Headers
  BY HeaderType DEF Operations
<1>2. \A b : Truth(b) \in Outcomes
  BY DEF Truth, Outcomes
<1> QED
  BY <1>1, <1>2, RejectStep, NoItems, ReadStep DEF exists_type, Accepts

LEMMA GetStep ==
  ASSUME IInv, NEW key \in Keys, NEW type \in Types, get(key, type)
  PROVE  StepOK
<1> DEFINE c == Call("get", key, type)
<1>1. c \in Headers
  BY HeaderType DEF Operations
<1>2. CASE Rejects(c)
  BY <1>1, <1>2, RejectStep
<1>3. CASE Accepts(c) /\ Missing(c) /\ Throws(c, "nv_key_not_found")
  BY <1>1, <1>3, ThrowStep DEF Accepts, Exceptions
<1>4. ASSUME Accepts(c), UNCHANGED nvl, NEW i \in nvlist_find(nvl, key, type),
             Returns(c, "ok", nvl.pairs[i].items)
      PROVE  StepOK
  BY <1>1, <1>4, OldGood, FoundItems, ReadStep DEF Accepts, Outcomes
<1> QED
  BY <1>2, <1>3, <1>4 DEF get

LEMMA AddStep ==
  ASSUME IInv, NEW key \in Keys, NEW type \in Types, NEW items \in Seq(Scalars),
         ~ HasNul(items), add(key, type, items)
  PROVE  StepOK
<1> DEFINE c == Call("add", key, type)
<1>1. c \in Headers /\ c.key = key /\ c.op = "add"
  BY HeaderType DEF Operations
<1>2. CASE Rejects(c)
  BY <1>1, <1>2, RejectStep
<1>3. CASE /\ Accepts(c) /\ nvl' \in nvlist_add(nvl, key, type, items)
           /\ Returns(c, Reported(nvl'.error), items)
  <2>1. Good(nvl')
    BY <1>1, <1>3, OldGood, AddKeepsGood DEF Accepts
  <2>2. nvl'.error # NoError => nvl'.pairs = nvl.pairs
    BY <1>3, OldGood, AddErrorKeepsPairs DEF Accepts
  <2>3. Reported(nvl'.error) \in Exceptions => nvl'.error # NoError
    BY ReportedOutcome DEF Exceptions
  <2> QED
    BY <1>1, <1>3, <2>1, <2>2, <2>3, ReportedOutcome, ReportedBreak, ChangeStep
    DEF Accepts
<1> QED
  BY <1>2, <1>3 DEF add

LEMMA AddStringStep ==
  ASSUME IInv, NEW key \in Keys, NEW type \in Types, NEW items \in Seq(Scalars),
         add_string(key, type, items)
  PROVE  StepOK
<1>1. Call("add", key, type) \in Headers
  BY HeaderType DEF Operations
<1> QED
  BY <1>1, RefusedStep, ThrowStep, AddStep DEF add_string, Accepts, Exceptions

LEMMA MoveStep ==
  ASSUME IInv, NEW key \in Keys, NEW type \in Types, NEW items \in Seq(Scalars),
         ~ HasNul(items), move(key, type, items)
  PROVE  StepOK
<1> DEFINE c == Call("move", key, type)
<1>1. c \in Headers /\ c.key = key /\ c.op = "move"
  BY HeaderType DEF Operations
<1>2. CASE Rejects(c)
  BY <1>1, <1>2, RejectStep
<1>3. CASE /\ Accepts(c) /\ nvl' \in nvlist_add(nvl, key, type, items)
           /\ Returns(c, "ok", items)
  <2>1. Good(nvl')
    BY <1>1, <1>3, OldGood, AddKeepsGood DEF Accepts
  <2> QED
    BY <1>1, <1>3, <2>1, ChangeStep DEF Accepts, Outcomes, Exceptions, MayBreak
<1> QED
  BY <1>2, <1>3 DEF move

LEMMA AppendStep ==
  ASSUME IInv, NEW key \in Keys, NEW type \in Types, NEW item \in Scalars \ NulScalars,
         append(key, type, item)
  PROVE  StepOK
<1> DEFINE c == Call("append", key, type)
<1>1. c \in Headers /\ c.key = key /\ c.op = "append"
  BY HeaderType DEF Operations
<1>2. CASE Rejects(c)
  BY <1>1, <1>2, RejectStep
<1>3. CASE /\ Accepts(c) /\ nvl' \in nvlist_append(nvl, key, type, item)
           /\ Returns(c, "ok", <<item>>)
  <2>1. Good(nvl')
    BY <1>1, <1>3, OldGood, AppendKeepsGood DEF Accepts
  <2>2. <<item>> \in Seq(Scalars)
    OBVIOUS
  <2> QED
    BY <1>1, <1>3, <2>1, <2>2, ChangeStep DEF Accepts, Outcomes, Exceptions, MayBreak
<1> QED
  BY <1>2, <1>3 DEF append

LEMMA AppendStringStep ==
  ASSUME IInv, NEW key \in Keys, NEW item \in Scalars, append_string(key, item)
  PROVE  StepOK
<1>1. "string_array" \in Types
  BY DEF Types, ArrayTypes
<1>2. Call("append", key, "string_array") \in Headers
  BY <1>1, HeaderType DEF Operations
<1>3. ~ HasNul(<<item>>) => item \in Scalars \ NulScalars
  BY DEF HasNul
<1> QED
  BY <1>1, <1>2, <1>3, RefusedStep, ThrowStep, AppendStep
  DEF append_string, Accepts, Exceptions

LEMMA FreeStep ==
  ASSUME IInv, NEW key \in Keys, NEW type \in Types \cup {AnyType}, free_type(key, type)
  PROVE  StepOK
<1> DEFINE c == Call("free", key, type)
<1>1. c \in Headers
  BY HeaderType DEF Operations
<1>2. CASE Rejects(c)
  BY <1>1, <1>2, RejectStep
<1>3. CASE Accepts(c) /\ Missing(c) /\ Throws(c, "nv_key_not_found")
  BY <1>1, <1>3, ThrowStep DEF Accepts, Exceptions
<1>4. ASSUME Accepts(c), Returns(c, "ok", <<>>), NEW i \in nvlist_find(nvl, key, type),
             nvl' = nvlist_remove(nvl, i)
      PROVE  StepOK
  <2>1. Good(nvl')
    BY <1>4, OldGood, FoundItems, RemoveKeepsGood
  <2>2. nvl'.error = nvl.error
    BY <1>4, RemoveKeepsError DEF IInv, TypeOK
  <2> QED
    BY <1>1, <1>4, <2>1, <2>2, NoItems, ChangeStep DEF Accepts, Outcomes, Exceptions
<1> QED
  BY <1>2, <1>3, <1>4 DEF free_type

LEMMA HandOverStep ==
  ASSUME IInv, NEW c \in Headers, NEW copies \in BOOLEAN,
         copies => c.op = "take" /\ c.type \notin DescriptorTypes, HandsOver(c, copies)
  PROVE  StepOK
<1> PICK i \in nvlist_find(nvl, c.key, c.type) :
           /\ nvl' = nvlist_remove(nvl, i)
           /\ \/ Returns(c, "ok", nvl.pairs[i].items)
              \/ copies /\ Returns(c, "bad_alloc", <<>>)
  BY DEF HandsOver
<1>1. Good(nvl') /\ nvl.pairs[i].items \in Seq(Scalars)
  BY OldGood, FoundItems, RemoveKeepsGood
<1>2. nvl.error = NoError /\ nvl'.error = NoError
  BY RemoveKeepsError DEF HandsOver, Accepts, IInv, TypeOK
<1>3. CASE Returns(c, "ok", nvl.pairs[i].items)
  BY <1>1, <1>2, <1>3, ChangeStep DEF Outcomes, Exceptions
<1>4. CASE copies /\ Returns(c, "bad_alloc", <<>>)
  BY <1>1, <1>2, <1>4, NoItems, ChangeStep DEF Outcomes, Exceptions
<1> QED
  BY <1>3, <1>4

LEMMA TakeStep ==
  ASSUME IInv, NEW key \in Keys, NEW type \in Types, NEW copies \in BOOLEAN,
         copies => type \notin DescriptorTypes,
         take_checked(key, type, copies) \/ take_unchecked(key, type, copies)
  PROVE  StepOK
<1>1. /\ Call("take", key, type) \in Headers /\ Call("take", key, type).type = type
      /\ Call("take", key, type).op = "take"
  BY HeaderType DEF Operations
<1> QED
  BY <1>1, RejectStep, ThrowStep, HandOverStep
  DEF take_checked, take_unchecked, Accepts, Exceptions

LEMMA TakeDescriptorArrayStep ==
  ASSUME IInv, NEW key \in Keys, take_descriptor_array(key)
  PROVE  StepOK
<1>1. "descriptor_array" \in Types
  BY DEF Types, ArrayTypes
<1>2. Call("take", key, "descriptor_array") \in Headers
  BY <1>1, HeaderType DEF Operations
<1> QED
  BY <1>2, RejectStep, ThrowStep, HandOverStep
  DEF take_descriptor_array, Accepts, Exceptions
-----------------------------------------------------------------------------
(* The sections of nv_list.cc and const_nv_list.cc *)

LEMMA ArgumentTypes ==
  ASSUME NEW type \in Types
  PROVE  /\ Single(type) \subseteq Seq(Scalars)
         /\ Array(type) \subseteq Seq(Scalars)
         /\ ScalarsOf[type] \subseteq Scalars
<1>1. ScalarsOf[type] \subseteq Scalars
  BY ScalarsOfAssumption
<1>2. \A m \in 0..MaxItems : [1..m -> ScalarsOf[type]] \subseteq Seq(Scalars)
  BY <1>1, BoundsAssumption
<1>3. Array(type) \subseteq Seq(Scalars)
  BY <1>2 DEF Array, BoundedSeq, SeqOf
<1>4. \A s \in Scalars : <<s>> \in Seq(Scalars)
  OBVIOUS
<1>5. Single(type) \subseteq Seq(Scalars)
  BY <1>1, <1>4 DEF Single
<1> QED
  BY <1>1, <1>3, <1>5

LEMMA ArgumentsWithoutNul ==
  ASSUME NEW type \in Types \ {"string", "string_array"}
  PROVE  /\ \A v \in Single(type) : ~ HasNul(v)
         /\ \A v \in Array(type) : ~ HasNul(v)
         /\ ScalarsOf[type] \subseteq Scalars \ NulScalars
<1>1. ScalarsOf[type] \cap NulScalars = {} /\ ScalarsOf[type] \subseteq Scalars
  BY NulInTextAssumption, ArgumentTypes
<1>2. \A v \in Array(type) : \A i \in DOMAIN v : v[i] \in ScalarsOf[type]
  BY DEF Array, BoundedSeq, SeqOf
<1>3. \A v \in Single(type) : \A i \in DOMAIN v : v[i] \in ScalarsOf[type]
  BY DEF Single
<1> QED
  BY <1>1, <1>2, <1>3 DEF HasNul

LEMMA NullStep ==
  ASSUME IInv, NEW key \in Keys, null_operations(key)
  PROVE  StepOK
<1>1. "null" \in Types /\ ~ HasNul(<<>>)
  BY DEF Types, ScalarTypes, HasNul
<1> QED
  BY <1>1, NoItems, AddStep, FreeStep DEF null_operations

LEMMA BoolStep ==
  ASSUME IInv, NEW key \in Keys, bool_operations(key)
  PROVE  StepOK
<1>1. {"bool", "bool_array"} \subseteq Types \ DescriptorTypes
  BY DEF Types, ScalarTypes, ArrayTypes, DescriptorTypes
<1> QED
  BY <1>1, ArgumentTypes, ArgumentsWithoutNul,
     AddStep, MoveStep, AppendStep, TakeStep, FreeStep
  DEF bool_operations

LEMMA NumberStep ==
  ASSUME IInv, NEW key \in Keys, number_operations(key)
  PROVE  StepOK
<1>1. {"number", "number_array"} \subseteq Types \ DescriptorTypes
  BY DEF Types, ScalarTypes, ArrayTypes, DescriptorTypes
<1> QED
  BY <1>1, ArgumentTypes, ArgumentsWithoutNul,
     AddStep, MoveStep, AppendStep, TakeStep, FreeStep
  DEF number_operations

LEMMA StringStep ==
  ASSUME IInv, NEW key \in Keys, string_operations(key)
  PROVE  StepOK
<1>1. {"string", "string_array"} \subseteq Types \ DescriptorTypes
  BY DEF Types, ScalarTypes, ArrayTypes, DescriptorTypes
<1>2. \A args : \A v \in Moved(args) : v \in args /\ ~ HasNul(v)
  BY DEF Moved
<1> QED
  BY <1>1, <1>2, ArgumentTypes,
     AddStringStep, MoveStep, AppendStringStep, TakeStep, FreeStep
  DEF string_operations

LEMMA NvlistStep ==
  ASSUME IInv, NEW key \in Keys, nvlist_operations(key)
  PROVE  StepOK
<1>1. {"nvlist", "nvlist_array"} \subseteq Types \ DescriptorTypes
  BY DEF Types, ScalarTypes, ArrayTypes, DescriptorTypes
<1> QED
  BY <1>1, ArgumentTypes, ArgumentsWithoutNul,
     AddStep, MoveStep, AppendStep, TakeStep, FreeStep
  DEF nvlist_operations

LEMMA DescriptorStep ==
  ASSUME IInv, NEW key \in Keys, descriptor_operations(key)
  PROVE  StepOK
<1>1. {"descriptor", "descriptor_array"} \subseteq Types
  BY DEF Types, ScalarTypes, ArrayTypes
<1> QED
  BY <1>1, ArgumentTypes, ArgumentsWithoutNul,
     AddStep, MoveStep, AppendStep, TakeStep, FreeStep,
     TakeDescriptorArrayStep
  DEF descriptor_operations

LEMMA BinaryStep ==
  ASSUME IInv, NEW key \in Keys, binary_operations(key)
  PROVE  StepOK
<1>1. "binary" \in Types \ DescriptorTypes /\ ~ HasNul(<<>>)
  BY DEF Types, ScalarTypes, HasNul, DescriptorTypes
<1> QED
  BY <1>1, NoItems, ArgumentTypes, ArgumentsWithoutNul,
     AddStep, MoveStep, TakeStep, FreeStep
  DEF binary_operations

LEMMA ReadsStep ==
  ASSUME IInv, NEW key \in Keys,
         \/ reads_of_null_bool_number(key)
         \/ reads_of_string_nvlist(key)
         \/ reads_of_descriptor_binary(key)
  PROVE  StepOK
<1>1. \A types \in SUBSET Types : Observes(key, types) => StepOK
  BY ExistsStep, GetStep DEF Observes
<1> QED
  BY <1>1 DEF reads_of_null_bool_number, reads_of_string_nvlist,
              reads_of_descriptor_binary, Types, ScalarTypes, ArrayTypes

LEMMA SetErrorStep ==
  ASSUME IInv, NEW errno \in Errnos, set_error(errno)
  PROVE  StepOK
<1> DEFINE c == Call("set_error", NoKey, AnyType)
<1>1. c \in Headers /\ c.op = "set_error"
  BY HeaderType DEF Operations
<1>2. Good(nvlist_set_error(nvl, errno))
  BY OldGood, SetErrorKeepsGood
<1> QED
  BY <1>1, <1>2, NoItems, ErrorStep, ChangeStep
  DEF set_error, Outcomes, Exceptions, MayBreak

LEMMA EmptyStep ==
  ASSUME IInv, empty \/ error
  PROVE  StepOK
<1>1. /\ Call("empty", NoKey, AnyType) \in Headers
      /\ Call("error", NoKey, AnyType) \in Headers
      /\ Call("error", NoKey, AnyType).op = "error"
  BY HeaderType DEF Operations
<1>2. \A b : Truth(b) \in Outcomes
  BY DEF Truth, Outcomes
<1> QED
  BY <1>1, <1>2, NoItems, ErrorStep, ReadStep DEF empty, error

LEMMA PackStep ==
  ASSUME IInv, pack
  PROVE  StepOK
<1>1. Call("pack", NoKey, AnyType) \in Headers
  BY HeaderType DEF Operations
<1>2. {"ok", "nv_error_state", "system_error", "bad_alloc"} \subseteq Outcomes
  BY DEF Outcomes, Exceptions
<1> QED
  BY <1>1, <1>2, NoItems, ErrorStep, ReadStep DEF pack, Throws

LEMMA SendStep ==
  ASSUME IInv, send
  PROVE  StepOK
<1>1. Call("send", NoKey, AnyType) \in Headers
  BY HeaderType DEF Operations
<1>2. {"ok", "system_error"} \subseteq Outcomes
  BY DEF Outcomes, Exceptions
<1> QED
  BY <1>1, <1>2, NoItems, ErrorStep, ReadStep DEF send, Throws
-----------------------------------------------------------------------------
LEMMA NextStep == IInv /\ Next => StepOK
<1> SUFFICES ASSUME IInv, Next
             PROVE  StepOK
  OBVIOUS
<1>1. ASSUME NEW key \in Keys, KeyOperations(key)
      PROVE  StepOK
  BY <1>1, ExistsStep, FreeStep, ReadsStep, NullStep, BoolStep, NumberStep, StringStep,
     NvlistStep, DescriptorStep, BinaryStep
  DEF KeyOperations
<1>2. CASE empty \/ error \/ pack \/ send
  BY <1>2, EmptyStep, PackStep, SendStep
<1>3. ASSUME NEW errno \in Errnos, set_error(errno)
      PROVE  StepOK
  BY <1>3, SetErrorStep
<1> QED
  BY <1>1, <1>2, <1>3 DEF Next

LEMMA InitInvariant == Init => IInv
<1> SUFFICES ASSUME Init
             PROVE  IInv
  OBVIOUS
<1> PICK f \in FlagChoices, e \in Errnos \cup {NoError} :
      nvl = [flags |-> f, error |-> e, pairs |-> <<>>]
  BY DEF Init
<1> <<>> \in Seq(Pairs) /\ f \in SUBSET Flags
  BY FlagChoicesAssumption
<1>1. nvl.pairs = <<>> /\ nvl \in Lists
  BY DEF Lists
<1>2. call \in CallRecords
  BY NoItems DEF Init, CallRecords, Operations, Outcomes
<1> QED
  BY <1>1, <1>2
  DEF IInv, TypeOK, UniqueNames, DistinctNames, NulNeverStored, NulFree, CallRecords

LEMMA StutterInvariant == IInv /\ UNCHANGED vars => IInv'
BY DEF vars, IInv, TypeOK, UniqueNames, DistinctNames, SameName, NulNeverStored, NulFree,
       HasNul

LEMMA Invariant == Spec => []IInv
<1>1. IInv /\ [Next]_vars => IInv'
  BY NextStep, StutterInvariant DEF StepOK
<1> QED
  BY InitInvariant, <1>1, PTL DEF Spec

\* Whatever calls are made, the list and the last call are of their types.
THEOREM TypeCorrect == Spec => []TypeOK
<1>1. IInv => TypeOK
  BY DEF IInv
<1> QED
  BY Invariant, <1>1, PTL

\* No sequence of calls stores two pairs of one name in a list that does not
\* allow it, whichever of add, move, append, take and free they are.
THEOREM UniqueNamesHold == Spec => []UniqueNames
<1>1. IInv => UniqueNames
  BY DEF IInv
<1> QED
  BY Invariant, <1>1, PTL

\* No sequence of calls stores a name or a string with a NUL character.
THEOREM NulNeverStoredHolds == Spec => []NulNeverStored
<1>1. IInv => NulNeverStored
  BY DEF IInv
<1> QED
  BY Invariant, <1>1, PTL

\* The error state cannot be left, and every member function but error(),
\* operator bool and exists_* refuses to work in it.
THEOREM ErrorIsFinalHolds == Spec => ErrorIsFinal
<1>1. IInv /\ Next =>
        (nvl.error # NoError =>
           /\ nvl' = nvl
           /\ call'.op \notin {"error", "exists"} => call'.outcome = "nv_error_state")
  BY NextStep DEF StepOK
<1> QED
  BY Invariant, <1>1, PTL DEF Spec, ErrorIsFinal

\* A member function that throws, anything but the bad_alloc of a take, left the
\* pairs alone.
THEOREM ThrowLeavesPairsHolds == Spec => ThrowLeavesPairs
<1>1. IInv /\ Next =>
        (/\ call'.outcome \in Exceptions
         /\ call'.outcome = "bad_alloc" => call'.op # "take"
         => nvl'.pairs = nvl.pairs)
  BY NextStep DEF StepOK
<1> QED
  BY Invariant, <1>1, PTL DEF Spec, ThrowLeavesPairs

\* A take of descriptors that cannot allocate its result has taken nothing.
THEOREM FailedTakeKeepsDescriptorsHolds == Spec => FailedTakeKeepsDescriptors
<1>1. IInv /\ Next =>
        (call'.outcome = "bad_alloc" /\ call'.type \in {"descriptor", "descriptor_array"}
           => nvl' = nvl)
  BY NextStep DEF StepOK, DescriptorTypes
<1> QED
  BY Invariant, <1>1, PTL DEF Spec, FailedTakeKeepsDescriptors

\* Whatever the list holds, it enters the error state without an exception
\* only in a move_*, an append_* or set_error().
THEOREM SilentOnlyMoveAppendHolds == Spec => SilentOnlyMoveAppend
<1>1. IInv /\ Next =>
        (nvl.error = NoError /\ nvl'.error # NoError =>
           \/ call'.op \in {"move", "append", "set_error"}
           \/ call'.op = "add" /\ call'.outcome \in {"nv_key_exists", "system_error"})
  BY NextStep DEF StepOK, MayBreak
<1> QED
  BY Invariant, <1>1, PTL DEF Spec, SilentOnlyMoveAppend
=============================================================================
