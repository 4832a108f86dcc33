---------------------------- MODULE NvIterator ----------------------------
(***************************************************************************)
(* Iterators over one nv_list, while the member functions of NvList are    *)
(* called on it.  An iterator is the list, the cookie of libnv and, inside *)
(* the iterator, a pair made from what the cookie stands for.              *)
(*                                                                         *)
(* A change of the list invalidates its iterators (nvxx.3, RANGE SUPPORT): *)
(* such a Dangling iterator may only be assigned to and destroyed, and the *)
(* one at the end may not be advanced.  That is the caller's duty.         *)
(***************************************************************************)
EXTENDS NvList

CONSTANTS
  Iterators,  \* the iterator objects
  Unborn,     \* an object before its constructor and after its destructor
  Dangling    \* an iterator whose list was changed

VARIABLES
  its,        \* the iterators
  loops       \* the hidden iterators of range-for statements

itvars == <<nvl, call, its, loops>>

EmptyPair == [name |-> NoKey, type |-> "null", items |-> <<>>]

\* The cookie is the place of a pair, 0 for a null pointer.  Two histories:
\* the places that a pass has shown, and those that an exception hid; and
\* whether a failed assignment left __current half assigned.
IteratorStates ==
  [list : BOOLEAN, cookie : Nat, current : Pairs \cup {EmptyPair},
   shown : Seq(Nat), hidden : SUBSET Nat, mixed : BOOLEAN]

ASSUME SpecialIteratorsAssumption ==
  Unborn # Dangling /\ Unborn \notin IteratorStates /\ Dangling \notin IteratorStates

\* The cookie of an iterator over the list is a place in it.
IteratorsOK ==
  /\ loops \subseteq Iterators
  /\ \A i \in Iterators :
       \/ its[i] \in {Unborn, Dangling}
       \/ /\ its[i] \in IteratorStates
          /\ its[i].cookie \in DOMAIN nvl.pairs \cup {0}
          /\ its[i].cookie # 0 => its[i].list
  /\ \A i \in loops : its[i] # Unborn /\ its[i] # Dangling
-----------------------------------------------------------------------------
Usable(i) == its[i] \notin {Unborn, Dangling}
Objects == {i \in Iterators : Usable(i)}

NewIterator(list) == [list |-> list, cookie |-> 0, current |-> EmptyPair,
                      shown |-> <<>>, hidden |-> {}, mixed |-> FALSE]
DefaultIterator == NewIterator(FALSE)

\* Mutant: the cookie is not compared.
Equals_list(i, j) == its[i].list = its[j].list

\* operator==, and operator== with the sentinel.
Equals(i, j) == its[i].list = its[j].list /\ its[i].cookie = its[j].cookie
AtEnd(i) == its[i].cookie = 0

\* The pair after that at the cookie, the first one for a null cookie.
nvlist_next(cookie) == IF cookie < Len(nvl.pairs) THEN cookie + 1 ELSE 0

\* The value is a std::vector, which has to be allocated.
Allocates(pair) == pair.type \in {"string_array", "nvlist_array"}

\* Mutant: the cookie stays where it is at the end.
Advanced_endless(it) ==
  LET next == nvlist_next(it.cookie)
  IN  IF next = 0 THEN it
      ELSE [it EXCEPT !.cookie = next, !.current = nvl.pairs[next],
                      !.shown = Append(@, next), !.mixed = FALSE]

\* Mutant: __current is made before the cookie moves.
Advanced_late(it) ==
  LET next == nvlist_next(it.cookie)
  IN  IF next = 0 THEN [it EXCEPT !.cookie = 0]
      ELSE [it EXCEPT !.cookie = next,
                      !.current = nvl.pairs[IF @ = EmptyPair THEN next ELSE it.cookie],
                      !.shown = Append(@, next), !.mixed = FALSE]

\* __advance: at the end __current stays as it is.
Advanced(it) ==
  LET next == nvlist_next(it.cookie)
  IN  IF next = 0 THEN [it EXCEPT !.cookie = 0]
      ELSE [it EXCEPT !.cookie = next, !.current = nvl.pairs[next],
                      !.shown = Append(@, next), !.mixed = FALSE]

\* __advance that cannot allocate: nvlist_next has already moved the cookie.
AdvanceFails(it) ==
  LET next == nvlist_next(it.cookie) IN next # 0 /\ Allocates(nvl.pairs[next])

HalfAdvanced(it) ==
  LET next == nvlist_next(it.cookie)
  IN  [it EXCEPT !.cookie = next, !.hidden = @ \cup {next}]

IteratorCall(outcome) ==
  /\ call' = [op |-> "iterate", key |-> NoKey, type |-> AnyType, outcome |-> outcome,
              items |-> <<>>]
  /\ UNCHANGED nvl

IteratorReturns == IteratorCall("ok")
IteratorThrows(exception) == IteratorCall(exception) /\ UNCHANGED <<its, loops>>
-----------------------------------------------------------------------------
(* Constructors, destructor and assignment *)

default_construct(i) ==
  /\ its[i] = Unborn
  /\ its' = [its EXCEPT ![i] = DefaultIterator] /\ loops' = loops
  /\ IteratorReturns

Begin == NewIterator(TRUE)

\* Mutant: nothing but the list is set.
construct_at_end(i) ==
  /\ its[i] = Unborn
  /\ its' = [its EXCEPT ![i] = Begin] /\ loops' = loops
  /\ IteratorReturns

\* begin() and the constructors from a list; nobody looks at its error.
construct(i) ==
  /\ its[i] = Unborn
  /\ \/ AdvanceFails(Begin) /\ IteratorThrows("bad_alloc")
     \/ /\ its' = [its EXCEPT ![i] = Advanced(Begin)] /\ loops' = loops
        /\ IteratorReturns

\* ptr() of a list that was moved from.
construct_from_null(i) == its[i] = Unborn /\ IteratorThrows("logic_error")

copy_construct(i, j) ==
  /\ its[i] = Unborn /\ Usable(j)
  /\ \/ Allocates(its[j].current) /\ IteratorThrows("bad_alloc")
     \/ /\ its' = [its EXCEPT ![i] = its[j]] /\ loops' = loops
        /\ IteratorReturns

\* What __current may be before the assignment: that of a dangling iterator is
\* not followed, but it is of some type.
Replaced(i) ==
  IF Usable(i) THEN {its[i].current}
  ELSE [name : {NoKey}, type : UsedTypes \cup {"null"}, items : {<<>>}]

\* The members are assigned in order: the list, the cookie, the name and then
\* the value, which keeps its old state, or loses its elements, if it fails.
HalfAssigned(old, from) ==
  {[from EXCEPT !.current = [name |-> @.name, type |-> old.type, items |-> items],
                !.mixed = TRUE] :
     items \in {old.items} \cup (IF old.type = from.current.type THEN {<<>>} ELSE {})}

\* Mutant: the list is not assigned.
assign_without_list(i, j) ==
  /\ Usable(i) /\ Usable(j) /\ i # j /\ loops' = loops
  /\ its' = [its EXCEPT ![i] = [its[j] EXCEPT !.list = its[i].list]]
  /\ IteratorReturns

assign(i, j) ==
  /\ Usable(j) /\ its[i] # Unborn /\ i # j /\ loops' = loops
  /\ \/ its' = [its EXCEPT ![i] = its[j]] /\ IteratorReturns
     \/ /\ Allocates(its[j].current)
        /\ \E old \in Replaced(i) : \E half \in HalfAssigned(old, its[j]) :
             its' = [its EXCEPT ![i] = half]
        /\ IteratorCall("bad_alloc")

destroy(i) ==
  /\ its[i] # Unborn
  /\ its' = [its EXCEPT ![i] = Unborn] /\ loops' = loops
  /\ IteratorReturns
-----------------------------------------------------------------------------
(* operator++ *)

pre_increment(i) ==
  /\ Usable(i) /\ ~ AtEnd(i) /\ loops' = loops
  /\ \/ its' = [its EXCEPT ![i] = Advanced(its[i])] /\ IteratorReturns
     \/ /\ AdvanceFails(its[i])
        /\ its' = [its EXCEPT ![i] = HalfAdvanced(its[i])] /\ IteratorCall("bad_alloc")

\* A copy is made first and returned, or destroyed if the rest throws.
post_increment(i, result) ==
  /\ Usable(i) /\ ~ AtEnd(i) /\ its[result] = Unborn /\ loops' = loops
  /\ \/ Allocates(its[i].current) /\ its' = its /\ IteratorCall("bad_alloc")
     \/ /\ AdvanceFails(its[i])
        /\ its' = [its EXCEPT ![i] = HalfAdvanced(its[i])] /\ IteratorCall("bad_alloc")
     \/ /\ its' = [its EXCEPT ![i] = Advanced(its[i]), ![result] = its[i]]
        /\ IteratorReturns
-----------------------------------------------------------------------------
(* for (auto const &pair : list) *)

for_begin(i) ==
  /\ its[i] = Unborn
  /\ \/ AdvanceFails(Begin) /\ IteratorThrows("bad_alloc")
     \/ /\ its' = [its EXCEPT ![i] = Advanced(Begin)] /\ loops' = loops \cup {i}
        /\ IteratorReturns

\* After the body; an exception leaves the statement.
for_next(i) ==
  /\ i \in loops /\ ~ AtEnd(i)
  /\ \/ /\ its' = [its EXCEPT ![i] = Advanced(its[i])] /\ loops' = loops
        /\ IteratorReturns
     \/ /\ AdvanceFails(its[i])
        /\ its' = [its EXCEPT ![i] = Unborn] /\ loops' = loops \ {i}
        /\ IteratorCall("bad_alloc")

\* The iterator is equal to the sentinel.
for_end(i) ==
  /\ i \in loops /\ AtEnd(i)
  /\ its' = [its EXCEPT ![i] = Unborn] /\ loops' = loops \ {i}
  /\ IteratorReturns

\* break, return or an exception in the body.
for_break(i) ==
  /\ i \in loops /\ ~ AtEnd(i)
  /\ its' = [its EXCEPT ![i] = Unborn] /\ loops' = loops \ {i}
  /\ IteratorReturns
-----------------------------------------------------------------------------
IterInit == Init /\ its = [i \in Iterators |-> Unborn] /\ loops = {}

\* A member function that changes the list; the others do nothing to iterators.
\* If it changes the pairs, the iterators dangle; the body of a loop over the
\* list calls none that does.
ListStep ==
  /\ Next /\ nvl' # nvl
  /\ nvl'.pairs # nvl.pairs => loops = {}
  /\ its' = IF nvl'.pairs = nvl.pairs THEN its
            ELSE [i \in Iterators |->
                    IF Usable(i) /\ its[i].list THEN Dangling ELSE its[i]]
  /\ loops' = loops

IteratorStep(i) ==
  /\ i \notin loops
  /\ \/ default_construct(i) \/ construct(i) \/ construct_from_null(i)
     \/ destroy(i) \/ pre_increment(i)
     \/ \E j \in Iterators :
          copy_construct(i, j) \/ assign(i, j) \/ post_increment(i, j)

ForStep(i) == for_begin(i) \/ for_next(i) \/ for_end(i) \/ for_break(i)

IterNext ==
  \/ ListStep
  \/ \E i \in Iterators : IteratorStep(i) \/ ForStep(i)

IterSpec == IterInit /\ [][IterNext]_itvars

\* The body of a loop returns, and then the statement goes on: nothing else
\* is assumed of the program, which need not begin a loop, or break one.
FairSpec ==
  IterSpec /\ \A i \in Iterators : WF_itvars(for_next(i) \/ for_end(i))
-----------------------------------------------------------------------------
(* Safety *)

\* Whatever copies, assignments and failed advances came before, a pass has
\* shown the pairs up to its place once and in order; what is missing was
\* hidden by an allocation that failed, for the cookie had moved already.  At
\* the end all pairs have been shown, also of a list in the error state.
PassInOrder ==
  \A i \in Objects : its[i].list =>
    LET reached == IF AtEnd(i) THEN Len(nvl.pairs) ELSE its[i].cookie
        shown == its[i].shown
    IN  /\ Range(shown) = 1..reached \ its[i].hidden
        /\ \A m, n \in DOMAIN shown : m < n => shown[m] < shown[n]

\* operator* shows the pair of the last ++ that returned, name and value of
\* the same one: after a ++ that threw, the pair before.
CurrentIsShown ==
  \A i \in Objects : ~ its[i].mixed =>
    its[i].current = IF its[i].shown = <<>> THEN EmptyPair
                     ELSE nvl.pairs[Last(its[i].shown)]

\* A failed ++ or assignment is behind it, or never was.
Settled(i) == ~ its[i].mixed /\ its[i].cookie \notin its[i].hidden

\* Iterators that compare equal stand at the same pair and show it, so that a
\* pass may be repeated from a copy; the exception is a ++ or an assignment
\* that threw, after which equal iterators show different pairs.
EqualIteratorsAgree ==
  \A i, j \in Objects : Equals(i, j) =>
    /\ AtEnd(i) <=> AtEnd(j)
    /\ ~ AtEnd(i) /\ Settled(i) /\ Settled(j) =>
         its[i].current = its[j].current /\ Last(its[i].shown) = Last(its[j].shown)
-----------------------------------------------------------------------------
(* Liveness *)

\* A loop over the list ends: the cookie becomes null after the last pair.
LoopEnds == \A i \in Iterators : i \in loops ~> i \notin loops
=============================================================================
