-------------------------- MODULE NvIteratorProofs --------------------------
(***************************************************************************)
(* Proofs about NvIterator, for any number of iterators and lists of every *)
(* length.  That the list itself stays well formed is taken from           *)
(* NvListProofs.                                                           *)
(***************************************************************************)
EXTENDS NvIterator, NvListProofs

\* A pass that has come to place n has shown the places up to it in order,
\* but for those that were hidden.
InOrder(shown, n, hidden) ==
  /\ shown \in Seq(Nat)
  /\ hidden \subseteq 1..n
  /\ Range(shown) = 1..n \ hidden
  /\ \A a, b \in DOMAIN shown : a < b => shown[a] < shown[b]

Pass(it, n) == InOrder(it.shown, n, it.hidden)

Shows(it) ==
  ~ it.mixed => it.current = IF it.shown = <<>> THEN EmptyPair
                             ELSE nvl.pairs[Last(it.shown)]

Reached(it) == IF it.cookie = 0 THEN Len(nvl.pairs) ELSE it.cookie

\* What is true of an iterator that the caller may use.
Sound(it) ==
  /\ it \in IteratorStates
  /\ it.cookie \in DOMAIN nvl.pairs \cup {0}
  /\ it.cookie # 0 => it.list
  /\ ~ it.list => it.shown = <<>>
  /\ it.list => Pass(it, Reached(it))
  /\ Shows(it)

\* The inductive invariant.
ItInv ==
  /\ IInv
  /\ its \in [Iterators -> IteratorStates \cup {Unborn, Dangling}]
  /\ \A i \in Objects : Sound(its[i])
  /\ loops \subseteq Objects
-----------------------------------------------------------------------------
(* An iterator that advances *)

LEMMA PairsAreSequence ==
  ASSUME IInv
  PROVE  /\ nvl.pairs \in Seq(Pairs) /\ Len(nvl.pairs) \in Nat
         /\ DOMAIN nvl.pairs = 1..Len(nvl.pairs)
         /\ \A n \in DOMAIN nvl.pairs : nvl.pairs[n] \in Pairs
BY DEF IInv, TypeOK, Lists

LEMMA StateParts ==
  ASSUME NEW it \in IteratorStates
  PROVE  /\ it.list \in BOOLEAN /\ it.cookie \in Nat
         /\ it.current \in Pairs \cup {EmptyPair} /\ it.shown \in Seq(Nat)
         /\ it.hidden \in SUBSET Nat /\ it.mixed \in BOOLEAN
BY DEF IteratorStates

LEMMA LastShown ==
  ASSUME NEW shown, NEW c \in Nat, NEW hidden, InOrder(shown, c, hidden),
         c # 0, c \notin hidden
  PROVE  shown # <<>> /\ Last(shown) = c
<1> USE DEF InOrder
<1>1. PICK m \in DOMAIN shown : shown[m] = c
  BY DEF Range
<1>2. Len(shown) \in Nat /\ DOMAIN shown = 1..Len(shown)
  OBVIOUS
<1>3. shown[Len(shown)] \in 1..c
  BY <1>1, <1>2 DEF Range
<1>4. m = Len(shown)
  <2>1. ~ m < Len(shown)
    BY <1>1, <1>2, <1>3
  <2> QED
    BY <1>2, <2>1
<1> QED
  BY <1>1, <1>2, <1>4 DEF Last

\* The next place is shown, or it is hidden.
LEMMA OneMoreShown ==
  ASSUME NEW shown, NEW c \in Nat, NEW hidden, InOrder(shown, c, hidden)
  PROVE  /\ InOrder(Append(shown, c + 1), c + 1, hidden)
         /\ Append(shown, c + 1) # <<>>
         /\ Last(Append(shown, c + 1)) = c + 1
<1> DEFINE more == Append(shown, c + 1)
<1>1. /\ more \in Seq(Nat) /\ Len(more) = Len(shown) + 1 /\ Len(shown) \in Nat
      /\ \A a \in 1..Len(shown) : more[a] = shown[a]
      /\ more[Len(shown) + 1] = c + 1
      /\ DOMAIN more = 1..Len(shown) + 1 /\ DOMAIN shown = 1..Len(shown)
  BY DEF InOrder
<1> HIDE DEF more
<1>2. more # <<>> /\ Last(more) = c + 1
  BY <1>1 DEF Last
<1>3. Range(more) = Range(shown) \cup {c + 1}
  BY <1>1 DEF Range
<1>4. (1..(c + 1)) \ hidden = (1..c \ hidden) \cup {c + 1}
  BY DEF InOrder
<1>5. ASSUME NEW a \in DOMAIN more, NEW b \in DOMAIN more, a < b
      PROVE  more[a] < more[b]
  <2>1. CASE b \in DOMAIN shown
    BY <1>1, <1>5, <2>1 DEF InOrder
  <2>2. CASE b = Len(shown) + 1
    <3>1. a \in DOMAIN shown /\ more[a] = shown[a] /\ more[b] = c + 1
      BY <1>1, <1>5, <2>2
    <3>2. shown[a] \in 1..c
      BY <3>1 DEF Range, InOrder
    <3> QED
      BY <3>1, <3>2
  <2> QED
    BY <1>1, <2>1, <2>2
<1>6. hidden \subseteq 1..(c + 1)
  BY DEF InOrder
<1>7. Range(more) = 1..(c + 1) \ hidden
  BY <1>3, <1>4 DEF InOrder
<1>8. InOrder(more, c + 1, hidden)
  BY <1>1, <1>5, <1>6, <1>7 DEF InOrder
<1> QED
  BY <1>2, <1>8 DEF more

LEMMA OneMoreHidden ==
  ASSUME NEW shown, NEW c \in Nat, NEW hidden, InOrder(shown, c, hidden)
  PROVE  InOrder(shown, c + 1, hidden \cup {c + 1})
<1>1. 1..(c + 1) \ (hidden \cup {c + 1}) = 1..c \ hidden
  BY DEF InOrder
<1>2. hidden \cup {c + 1} \subseteq 1..(c + 1)
  BY DEF InOrder
<1> QED
  BY <1>1, <1>2 DEF InOrder

\* The iterator has not come to the end yet, or is about to begin.
LEMMA AdvanceKeeps ==
  ASSUME IInv, NEW it \in IteratorStates, it.list, it.cookie \in DOMAIN nvl.pairs \cup {0},
         Pass(it, it.cookie), Shows(it)
  PROVE  Sound(Advanced(it)) /\ (AdvanceFails(it) => Sound(HalfAdvanced(it)))
<1> DEFINE next == nvlist_next(it.cookie)
           c == it.cookie
<1>1. /\ c \in Nat /\ Len(nvl.pairs) \in Nat /\ c <= Len(nvl.pairs)
      /\ DOMAIN nvl.pairs = 1..Len(nvl.pairs)
      /\ next = IF c < Len(nvl.pairs) THEN c + 1 ELSE 0
  BY PairsAreSequence, StateParts DEF nvlist_next
<1>2. CASE next = 0
  <2>1. c = Len(nvl.pairs) /\ Advanced(it) = [it EXCEPT !.cookie = 0]
    BY <1>1, <1>2 DEF Advanced
  <2>2. ~ AdvanceFails(it)
    BY <1>2 DEF AdvanceFails
  <2>3. [it EXCEPT !.cookie = 0] \in IteratorStates
    BY DEF IteratorStates
  <2>4. Pass([it EXCEPT !.cookie = 0], Len(nvl.pairs)) /\ Shows([it EXCEPT !.cookie = 0])
    BY <2>1, StateParts DEF Pass, Shows, IteratorStates
  <2>5. [it EXCEPT !.cookie = 0].cookie = 0 /\ [it EXCEPT !.cookie = 0].list
    BY DEF IteratorStates
  <2> QED
    BY <2>1, <2>2, <2>3, <2>4, <2>5 DEF Sound, Reached
<1>3. CASE next # 0
  <2>1. next = c + 1 /\ next \in DOMAIN nvl.pairs /\ nvl.pairs[next] \in Pairs
    BY <1>1, <1>3, PairsAreSequence
  <2>2. Sound(Advanced(it))
    <3> DEFINE new == [it EXCEPT !.cookie = next, !.current = nvl.pairs[next],
                                 !.shown = Append(@, next), !.mixed = FALSE]
    <3>1. Advanced(it) = new
      BY <1>3 DEF Advanced
    <3>2. /\ new.list = it.list /\ new.cookie = next /\ new.current = nvl.pairs[next]
          /\ new.shown = Append(it.shown, next) /\ new.hidden = it.hidden /\ new.mixed = FALSE
      BY DEF IteratorStates
    <3>3. /\ InOrder(Append(it.shown, next), next, it.hidden)
          /\ Append(it.shown, next) # <<>> /\ Last(Append(it.shown, next)) = next
      BY <1>1, <2>1, OneMoreShown DEF Pass
    <3>4. new \in IteratorStates
      <4>1. next \in Nat /\ nvl.pairs[next] \in Pairs /\ Append(it.shown, next) \in Seq(Nat)
        BY <1>1, <2>1, <3>3 DEF InOrder
      <4> QED
        BY <4>1 DEF IteratorStates
    <3> HIDE DEF new
    <3>5. Pass(new, next) /\ Shows(new)
      BY <3>2, <3>3 DEF Pass, Shows
    <3>6. Sound(new)
      BY <1>3, <2>1, <3>2, <3>4, <3>5 DEF Sound, Reached
    <3> QED
      BY <3>1, <3>6
  <2>3. Sound(HalfAdvanced(it))
    <3> DEFINE new == [it EXCEPT !.cookie = next, !.hidden = @ \cup {next}]
    <3>1. HalfAdvanced(it) = new
      BY DEF HalfAdvanced
    <3>2. /\ new.list = it.list /\ new.cookie = next /\ new.current = it.current
          /\ new.shown = it.shown /\ new.hidden = it.hidden \cup {next} /\ new.mixed = it.mixed
      BY DEF IteratorStates
    <3>3. new \in IteratorStates
      <4>1. next \in Nat /\ it.hidden \cup {next} \in SUBSET Nat
        BY <1>1, <2>1, StateParts
      <4> QED
        BY <4>1 DEF IteratorStates
    <3> HIDE DEF new
    <3>4. Pass(new, next)
      BY <1>1, <2>1, <3>2, OneMoreHidden DEF Pass
    <3>5. Shows(new)
      BY <3>2 DEF Shows
    <3>6. Sound(new)
      BY <1>3, <2>1, <3>2, <3>3, <3>4, <3>5 DEF Sound, Reached
    <3> QED
      BY <3>1, <3>6
  <2> QED
    BY <2>2, <2>3
<1> QED
  BY <1>2, <1>3
-----------------------------------------------------------------------------
(* A step that does not change the pairs *)

LEMMA SoundKept ==
  ASSUME nvl'.pairs = nvl.pairs, NEW it, Sound(it)
  PROVE  Sound(it)'
BY DEF Sound, Reached, Shows, Pass

LEMMA StepKeeps ==
  ASSUME ItInv, IInv', nvl'.pairs = nvl.pairs,
         NEW f \in [Iterators -> IteratorStates \cup {Unborn, Dangling}], its' = f,
         \A i \in Iterators : f[i] = its[i] \/ f[i] = Unborn \/ Sound(f[i]),
         loops' \subseteq Iterators,
         \A i \in loops' : f[i] \notin {Unborn, Dangling}
  PROVE  ItInv'
<1>1. ASSUME NEW i \in Iterators, f[i] \notin {Unborn, Dangling}
      PROVE  Sound(f[i])'
  <2>1. Sound(f[i])
    BY <1>1 DEF ItInv, Objects, Usable
  <2> QED
    BY <2>1, SoundKept
<1>2. \A i \in Objects' : Sound(its[i])'
  BY <1>1 DEF Objects, Usable
<1>3. loops' \subseteq Objects'
  BY DEF Objects, Usable
<1> QED
  BY <1>2, <1>3 DEF ItInv

LEMMA IteratorCallKeeps ==
  ASSUME IInv, NEW outcome \in Outcomes, IteratorCall(outcome)
  PROVE  IInv' /\ nvl'.pairs = nvl.pairs
<1>1. call' \in CallRecords /\ nvl' = nvl
  BY NoItems DEF IteratorCall, CallRecords, Operations
<1> QED
  BY <1>1 DEF IInv, TypeOK, CallRecords, UniqueNames, DistinctNames, SameName,
              NulNeverStored, NulFree, HasNul

\* One iterator is made, changed or destroyed.
LEMMA ChangeOne ==
  ASSUME ItInv, NEW i \in Iterators, NEW it, it = Unborn \/ Sound(it),
         its' = [its EXCEPT ![i] = it],
         NEW outcome \in Outcomes, IteratorCall(outcome),
         loops' \subseteq loops \cup {i}, it = Unborn => i \notin loops'
  PROVE  ItInv'
<1>1. IInv' /\ nvl'.pairs = nvl.pairs
  BY IteratorCallKeeps DEF ItInv
<1>2. it \in IteratorStates \cup {Unborn} /\ (it # Unborn => it \notin {Unborn, Dangling})
  BY SpecialIteratorsAssumption DEF Sound
<1> PICK f : f = [its EXCEPT ![i] = it]
  OBVIOUS
<1>3. /\ f \in [Iterators -> IteratorStates \cup {Unborn, Dangling}]
      /\ f[i] = it /\ \A j \in Iterators \ {i} : f[j] = its[j]
  BY <1>2 DEF ItInv
<1>4. loops \subseteq Iterators /\ \A j \in loops : its[j] \notin {Unborn, Dangling}
  BY DEF ItInv, Objects, Usable
<1>5. \A j \in loops' : f[j] \notin {Unborn, Dangling}
  BY <1>2, <1>3, <1>4
<1> QED
  BY <1>1, <1>3, <1>4, <1>5, StepKeeps

\* The same, for an iterator that is usable afterwards.
LEMMA ChangeMade ==
  ASSUME ItInv, NEW i \in Iterators, NEW it, Sound(it),
         its' = [its EXCEPT ![i] = it],
         NEW outcome \in Outcomes, IteratorCall(outcome), loops' \subseteq loops \cup {i}
  PROVE  ItInv'
<1>1. it # Unborn
  BY SpecialIteratorsAssumption DEF Sound
<1> QED
  BY <1>1, ChangeOne

LEMMA NothingChanges ==
  ASSUME ItInv, NEW outcome \in Outcomes, IteratorCall(outcome), its' = its, loops' = loops
  PROVE  ItInv'
<1>1. IInv' /\ nvl'.pairs = nvl.pairs
  BY IteratorCallKeeps DEF ItInv
<1> PICK f : f = its
  OBVIOUS
<1>2. /\ f \in [Iterators -> IteratorStates \cup {Unborn, Dangling}]
      /\ loops \subseteq Iterators /\ \A j \in loops : f[j] \notin {Unborn, Dangling}
  BY DEF ItInv, Objects, Usable
<1> QED
  BY <1>1, <1>2, StepKeeps

LEMMA TwoOutcomes == "ok" \in Outcomes /\ "bad_alloc" \in Outcomes /\ "logic_error" \in Outcomes
BY DEF Outcomes, Exceptions
-----------------------------------------------------------------------------
(* The iterators that the operations make *)

LEMMA SoundObject ==
  ASSUME ItInv, NEW i \in Iterators, Usable(i)
  PROVE  Sound(its[i])
BY DEF ItInv, Objects

LEMMA NothingShown == InOrder(<<>>, 0, {})
BY DEF InOrder, Range

LEMMA SoundDefault == IInv => Sound(DefaultIterator)
BY PairsAreSequence DEF Sound, DefaultIterator, NewIterator, IteratorStates, Shows

LEMMA SoundBegin == IInv => Sound(Advanced(Begin))
<1> SUFFICES ASSUME IInv
             PROVE  Sound(Advanced(Begin))
  OBVIOUS
<1>1. /\ Begin \in IteratorStates /\ Begin.list /\ Begin.cookie = 0 /\ Begin.shown = <<>>
      /\ Begin.hidden = {} /\ Begin.current = EmptyPair
  <2>1. <<>> \in Seq(Nat)
    OBVIOUS
  <2> QED
    BY <2>1 DEF Begin, NewIterator, IteratorStates
<1> HIDE DEF Begin
<1>2. Pass(Begin, 0) /\ Shows(Begin)
  BY <1>1, NothingShown DEF Pass, Shows
<1> QED
  BY <1>1, <1>2, AdvanceKeeps

LEMMA SoundNext ==
  ASSUME ItInv, NEW i \in Iterators, Usable(i), ~ AtEnd(i)
  PROVE  /\ Sound(Advanced(its[i]))
         /\ AdvanceFails(its[i]) => Sound(HalfAdvanced(its[i]))
<1> PICK it : it = its[i]
  OBVIOUS
<1>1. Sound(it) /\ it.cookie # 0
  BY SoundObject DEF AtEnd
<1>2. IInv
  BY DEF ItInv
<1>3. /\ it \in IteratorStates /\ it.list /\ it.cookie \in DOMAIN nvl.pairs \cup {0}
      /\ Pass(it, it.cookie) /\ Shows(it)
  BY <1>1 DEF Sound, Reached
<1>4. Sound(Advanced(it)) /\ (AdvanceFails(it) => Sound(HalfAdvanced(it)))
  BY <1>2, <1>3, AdvanceKeeps
<1> QED
  BY <1>4

LEMMA SoundHalf ==
  ASSUME NEW old, old.type \in Types, old.items \in Seq(Scalars),
         NEW from, Sound(from), Allocates(from.current), NEW half \in HalfAssigned(old, from)
  PROVE  Sound(half)
<1>1. from \in IteratorStates
  BY DEF Sound
<1> PICK current : /\ half = [from EXCEPT !.current = current, !.mixed = TRUE]
                   /\ current.name = from.current.name /\ current.type = old.type
                   /\ \E items \in {old.items, <<>>} :
                        current = [name |-> from.current.name, type |-> old.type,
                                   items |-> items]
  BY <1>1 DEF HalfAssigned
<1>2. from.current \in Pairs
  BY <1>1, StateParts DEF Allocates, EmptyPair
<1>3. current \in Pairs
  <2>1. PICK items \in Seq(Scalars) :
          current = [name |-> from.current.name, type |-> old.type, items |-> items]
    BY NoItems
  <2>2. from.current.name \in Keys
    BY <1>2 DEF Pairs
  <2> QED
    BY <2>1, <2>2 DEF Pairs
<1>4. half \in IteratorStates
  BY <1>1, <1>3 DEF IteratorStates
<1>5. /\ half.list = from.list /\ half.cookie = from.cookie /\ half.shown = from.shown
      /\ half.hidden = from.hidden /\ half.mixed
  BY <1>1 DEF IteratorStates
<1> QED
  BY <1>4, <1>5 DEF Sound, Reached, Pass, Shows
-----------------------------------------------------------------------------
(* The operations *)

LEMMA ConstructStep ==
  ASSUME ItInv, NEW i \in Iterators, i \notin loops,
         default_construct(i) \/ construct(i) \/ construct_from_null(i) \/ destroy(i)
  PROVE  ItInv'
<1>1. CASE default_construct(i)
  BY <1>1, SoundDefault, ChangeOne, TwoOutcomes DEF default_construct, IteratorReturns, ItInv
<1>2. CASE construct(i)
  <2>1. CASE IteratorThrows("bad_alloc")
    BY <2>1, NothingChanges, TwoOutcomes DEF IteratorThrows
  <2>2. CASE its' = [its EXCEPT ![i] = Advanced(Begin)] /\ loops' = loops /\ IteratorReturns
    BY <1>2, <2>2, SoundBegin, ChangeOne, TwoOutcomes DEF IteratorReturns, ItInv
  <2> QED
    BY <1>2, <2>1, <2>2 DEF construct
<1>3. CASE construct_from_null(i)
  BY <1>3, NothingChanges, TwoOutcomes DEF construct_from_null, IteratorThrows
<1>4. CASE destroy(i)
  BY <1>4, ChangeOne, TwoOutcomes DEF destroy, IteratorReturns
<1> QED
  BY <1>1, <1>2, <1>3, <1>4

LEMMA ReplacedPairs ==
  ASSUME ItInv, NEW i \in Iterators, NEW old \in Replaced(i)
  PROVE  old.type \in Types /\ old.items \in Seq(Scalars)
<1>1. CASE Usable(i)
  <2>1. its[i] \in IteratorStates
    BY <1>1, SoundObject DEF Sound
  <2>2. old = its[i].current
    BY <1>1 DEF Replaced
  <2>3. old \in Pairs \cup {EmptyPair}
    BY <1>1, <2>1, <2>2, StateParts DEF Usable
  <2>4. CASE old \in Pairs
    BY <2>4 DEF Pairs
  <2>5. CASE old = EmptyPair
    BY <2>5 DEF EmptyPair, Types, ScalarTypes
  <2> QED
    BY <2>3, <2>4, <2>5
<1>2. CASE ~ Usable(i)
  BY <1>2, NoItems, UsedTypesAssumption DEF Replaced, Types, ScalarTypes
<1> QED
  BY <1>1, <1>2

LEMMA CopyStep ==
  ASSUME ItInv, NEW i \in Iterators, NEW j \in Iterators, i \notin loops,
         copy_construct(i, j) \/ assign(i, j)
  PROVE  ItInv'
<1>1. CASE copy_construct(i, j)
  <2>1. CASE IteratorThrows("bad_alloc")
    BY <2>1, NothingChanges, TwoOutcomes DEF IteratorThrows
  <2>2. CASE its' = [its EXCEPT ![i] = its[j]] /\ loops' = loops /\ IteratorReturns
    <3>1. Sound(its[j])
      BY <1>1, SoundObject DEF copy_construct
    <3>2. its[j] # Unborn
      BY <1>1 DEF copy_construct, Usable
    <3> QED
      BY <2>2, <3>1, <3>2, ChangeOne, TwoOutcomes DEF IteratorReturns
  <2> QED
    BY <1>1, <2>1, <2>2 DEF copy_construct
<1>2. CASE assign(i, j)
  <2>1. Sound(its[j]) /\ its[j] # Unborn /\ loops' = loops
    BY <1>2, SoundObject DEF assign, Usable
  <2>2. CASE its' = [its EXCEPT ![i] = its[j]] /\ IteratorReturns
    BY <2>1, <2>2, ChangeOne, TwoOutcomes DEF IteratorReturns
  <2>3. ASSUME Allocates(its[j].current), NEW old \in Replaced(i),
               NEW half \in HalfAssigned(old, its[j]),
               its' = [its EXCEPT ![i] = half], IteratorCall("bad_alloc")
        PROVE  ItInv'
    <3>1. Sound(half)
      BY <2>1, <2>3, ReplacedPairs, SoundHalf
    <3> QED
      BY <2>1, <2>3, <3>1, ChangeOne, TwoOutcomes
  <2> QED
    BY <1>2, <2>2, <2>3 DEF assign
<1> QED
  BY <1>1, <1>2

LEMMA PreIncrementStep ==
  ASSUME ItInv, NEW i \in Iterators, pre_increment(i)
  PROVE  ItInv'
<1>1. /\ Sound(Advanced(its[i])) /\ (AdvanceFails(its[i]) => Sound(HalfAdvanced(its[i])))
      /\ loops' = loops
  BY SoundNext DEF pre_increment
<1>2. CASE its' = [its EXCEPT ![i] = Advanced(its[i])] /\ IteratorReturns
  BY <1>1, <1>2, ChangeMade, TwoOutcomes DEF IteratorReturns
<1>3. CASE /\ AdvanceFails(its[i])
           /\ its' = [its EXCEPT ![i] = HalfAdvanced(its[i])] /\ IteratorCall("bad_alloc")
  BY <1>1, <1>3, ChangeMade, TwoOutcomes
<1> QED
  BY <1>2, <1>3 DEF pre_increment

LEMMA PostIncrementStep ==
  ASSUME ItInv, NEW i \in Iterators, NEW result \in Iterators, post_increment(i, result)
  PROVE  ItInv'
<1>1. /\ Sound(Advanced(its[i])) /\ (AdvanceFails(its[i]) => Sound(HalfAdvanced(its[i])))
      /\ Sound(its[i]) /\ loops' = loops /\ its[result] = Unborn /\ its[i] # Unborn
  BY SoundNext, SoundObject DEF post_increment, Usable
<1>2. CASE its' = its /\ IteratorCall("bad_alloc")
  BY <1>1, <1>2, NothingChanges, TwoOutcomes
<1>3. CASE /\ AdvanceFails(its[i])
           /\ its' = [its EXCEPT ![i] = HalfAdvanced(its[i])] /\ IteratorCall("bad_alloc")
  BY <1>1, <1>3, ChangeMade, TwoOutcomes
<1>4. CASE /\ its' = [its EXCEPT ![i] = Advanced(its[i]), ![result] = its[i]]
           /\ IteratorReturns
  <2> PICK f : f = [its EXCEPT ![i] = Advanced(its[i]), ![result] = its[i]]
    OBVIOUS
  <2>1. its \in [Iterators -> IteratorStates \cup {Unborn, Dangling}] /\ i # result
    BY <1>1 DEF ItInv
  <2>2. /\ Advanced(its[i]) \in IteratorStates /\ its[i] \in IteratorStates
    BY <1>1 DEF Sound
  <2>3. /\ f \in [Iterators -> IteratorStates \cup {Unborn, Dangling}]
        /\ f[i] = Advanced(its[i]) /\ f[result] = its[i]
        /\ \A j \in Iterators \ {i, result} : f[j] = its[j]
    BY <2>1, <2>2
  <2>4. \A j \in Iterators : f[j] = its[j] \/ f[j] = Unborn \/ Sound(f[j])
    BY <1>1, <2>3
  <2>5. loops \subseteq Iterators /\ \A j \in loops : its[j] \notin {Unborn, Dangling}
    BY DEF ItInv, Objects, Usable
  <2>6. Advanced(its[i]) \notin {Unborn, Dangling} /\ its[i] \notin {Unborn, Dangling}
    BY <2>2, SpecialIteratorsAssumption
  <2>7. \A j \in loops' : f[j] \notin {Unborn, Dangling}
    BY <1>1, <2>3, <2>5, <2>6
  <2>8. IInv' /\ nvl'.pairs = nvl.pairs
    BY <1>4, IteratorCallKeeps, TwoOutcomes DEF IteratorReturns, ItInv
  <2> QED
    BY <1>1, <1>4, <2>3, <2>4, <2>5, <2>7, <2>8, StepKeeps
<1> QED
  BY <1>2, <1>3, <1>4 DEF post_increment

LEMMA ForStepKeeps ==
  ASSUME ItInv, NEW i \in Iterators, ForStep(i)
  PROVE  ItInv'
<1>1. CASE for_begin(i)
  <2>1. CASE IteratorThrows("bad_alloc")
    BY <2>1, NothingChanges, TwoOutcomes DEF IteratorThrows
  <2>2. CASE /\ its' = [its EXCEPT ![i] = Advanced(Begin)] /\ loops' = loops \cup {i}
             /\ IteratorReturns
    BY <2>2, SoundBegin, ChangeMade, TwoOutcomes DEF IteratorReturns, ItInv
  <2> QED
    BY <1>1, <2>1, <2>2 DEF for_begin
<1>2. CASE for_next(i)
  <2>1. Sound(Advanced(its[i]))
    BY <1>2, SoundNext DEF for_next, ItInv, Objects
  <2>2. CASE its' = [its EXCEPT ![i] = Advanced(its[i])] /\ loops' = loops /\ IteratorReturns
    BY <2>1, <2>2, ChangeMade, TwoOutcomes DEF IteratorReturns
  <2>3. CASE /\ its' = [its EXCEPT ![i] = Unborn] /\ loops' = loops \ {i}
             /\ IteratorCall("bad_alloc")
    BY <2>3, ChangeOne, TwoOutcomes
  <2> QED
    BY <1>2, <2>2, <2>3 DEF for_next
<1>3. CASE for_end(i) \/ for_break(i)
  BY <1>3, ChangeOne, TwoOutcomes DEF for_end, for_break, IteratorReturns
<1> QED
  BY <1>1, <1>2, <1>3 DEF ForStep

\* A changed list leaves only iterators over no list, the rest dangle.
LEMMA ListStepKeeps ==
  ASSUME ItInv, ListStep
  PROVE  ItInv'
<1>1. IInv'
  BY NextStep DEF ItInv, ListStep, StepOK
<1>2. CASE nvl'.pairs = nvl.pairs
  <2> PICK f : f = its
    OBVIOUS
  <2>1. /\ f \in [Iterators -> IteratorStates \cup {Unborn, Dangling}]
        /\ loops \subseteq Iterators /\ \A j \in loops : f[j] \notin {Unborn, Dangling}
    BY DEF ItInv, Objects, Usable
  <2>2. its' = f /\ loops' = loops
    BY <1>2 DEF ListStep
  <2> QED
    BY <1>1, <1>2, <2>1, <2>2, StepKeeps
<1>3. CASE nvl'.pairs # nvl.pairs
  <2> PICK f : f = [i \in Iterators |-> IF Usable(i) /\ its[i].list THEN Dangling ELSE its[i]]
    OBVIOUS
  <2>1. its' = f /\ loops' = {}
    BY <1>3 DEF ListStep
  <2>2. /\ f \in [Iterators -> IteratorStates \cup {Unborn, Dangling}]
        /\ \A i \in Iterators : f[i] \notin {Unborn, Dangling} =>
             /\ f[i] = its[i] /\ Usable(i) /\ ~ its[i].list
    BY DEF ItInv, Usable
  <2>3. ASSUME NEW i \in Iterators, f[i] \notin {Unborn, Dangling}
        PROVE  Sound(f[i])'
    <3>1. Sound(f[i]) /\ ~ f[i].list
      BY <2>2, <2>3, SoundObject
    <3>2. f[i].cookie = 0 /\ f[i].shown = <<>> /\ f[i] \in IteratorStates
      BY <3>1 DEF Sound
    <3>3. ~ f[i].mixed => f[i].current = EmptyPair
      BY <3>1, <3>2 DEF Sound, Shows
    <3> QED
      BY <3>1, <3>2, <3>3 DEF Sound, Shows
  <2>4. \A i \in Objects' : Sound(its[i])'
    BY <2>1, <2>3 DEF Objects, Usable
  <2> QED
    BY <1>1, <2>1, <2>2, <2>4 DEF ItInv
<1> QED
  BY <1>2, <1>3
-----------------------------------------------------------------------------
LEMMA IterNextStep == ItInv /\ IterNext => ItInv'
<1> SUFFICES ASSUME ItInv, IterNext
             PROVE  ItInv'
  OBVIOUS
<1>1. CASE ListStep
  BY <1>1, ListStepKeeps
<1>2. ASSUME NEW i \in Iterators, IteratorStep(i)
      PROVE  ItInv'
  BY <1>2, ConstructStep, CopyStep, PreIncrementStep, PostIncrementStep DEF IteratorStep
<1>3. ASSUME NEW i \in Iterators, ForStep(i)
      PROVE  ItInv'
  BY <1>3, ForStepKeeps
<1> QED
  BY <1>1, <1>2, <1>3 DEF IterNext

LEMMA IterStutter == ItInv /\ UNCHANGED itvars => ItInv'
<1> SUFFICES ASSUME ItInv, UNCHANGED itvars
             PROVE  ItInv'
  OBVIOUS
<1> PICK f : f = its
  OBVIOUS
<1>1. /\ f \in [Iterators -> IteratorStates \cup {Unborn, Dangling}]
      /\ loops \subseteq Iterators /\ \A j \in loops : f[j] \notin {Unborn, Dangling}
  BY DEF ItInv, Objects, Usable
<1>2. IInv'
  BY StutterInvariant DEF ItInv, itvars, vars
<1>3. nvl'.pairs = nvl.pairs /\ its' = f /\ loops' = loops
  BY DEF itvars
<1> QED
  BY <1>1, <1>2, <1>3, StepKeeps

LEMMA IterInitInvariant == IterInit => ItInv
BY InitInvariant, SpecialIteratorsAssumption DEF IterInit, ItInv, Objects, Usable

LEMMA IterInvariant == IterSpec => []ItInv
<1>1. ItInv /\ [IterNext]_itvars => ItInv'
  BY IterNextStep, IterStutter
<1> QED
  BY IterInitInvariant, <1>1, PTL DEF IterSpec

\* However iterators are made, copied, assigned and advanced, and whatever
\* throws, the cookie of each is a place in its list as it is now.
THEOREM IteratorsOKHolds == IterSpec => []IteratorsOK
<1>1. ItInv => IteratorsOK
  BY DEF ItInv, IteratorsOK, Sound, Objects, Usable
<1> QED
  BY IterInvariant, <1>1, PTL

\* Every pass shows each pair up to its place once and in order, but for those
\* that an exception hid.
THEOREM PassInOrderHolds == IterSpec => []PassInOrder
<1>1. ItInv => PassInOrder
  BY DEF ItInv, PassInOrder, Sound, Reached, Pass, InOrder, AtEnd
<1> QED
  BY IterInvariant, <1>1, PTL

\* operator* shows the pair of the last ++ that returned.
THEOREM CurrentIsShownHolds == IterSpec => []CurrentIsShown
<1>1. ItInv => CurrentIsShown
  BY DEF ItInv, CurrentIsShown, Sound, Shows
<1> QED
  BY IterInvariant, <1>1, PTL

\* Equal iterators show the same pair, unless an exception came between.
THEOREM EqualIteratorsAgreeHolds == IterSpec => []EqualIteratorsAgree
<1>1. ASSUME NEW it, Sound(it), it.cookie # 0, ~ it.mixed, it.cookie \notin it.hidden
      PROVE  it.current = nvl.pairs[it.cookie] /\ Last(it.shown) = it.cookie
  <2>1. InOrder(it.shown, it.cookie, it.hidden) /\ it.cookie \in Nat
    BY <1>1, StateParts DEF Sound, Reached, Pass
  <2>2. it.shown # <<>> /\ Last(it.shown) = it.cookie
    BY <1>1, <2>1, LastShown
  <2> QED
    BY <1>1, <2>2 DEF Sound, Shows
<1>2. ItInv => EqualIteratorsAgree
  BY <1>1 DEF ItInv, EqualIteratorsAgree, Equals, AtEnd, Settled
<1> QED
  BY IterInvariant, <1>2, PTL
=============================================================================
