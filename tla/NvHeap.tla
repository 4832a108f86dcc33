------------------------------- MODULE NvHeap -------------------------------
(***************************************************************************)
(* The nvlist_t allocated by libnv, and the lists nested in them: which    *)
(* exist, which are in the error state, which list is the value of which   *)
(* key.  The operators say what nvlist_clone(), nvlist_destroy() and the   *)
(* calls that store or remove a list do to all of them.                    *)
(*                                                                         *)
(* An address is never used twice, so that a freed list is told from a     *)
(* live one; a heap with no unused address left is out of memory.          *)
(***************************************************************************)
EXTENDS Functions, FiniteSets

CONSTANTS
  Lists,   \* the addresses of nvlist_t
  Keys,    \* the names of nested lists
  Null     \* the null pointer

ASSUME NullAssumption == Null \notin Lists

NoKids == [k \in Keys |-> Null]

Unused == [state |-> "unused", err |-> FALSE, kids |-> NoKids]
Freed == [state |-> "freed", err |-> FALSE, kids |-> NoKids]
Fresh == [state |-> "live", err |-> FALSE, kids |-> NoKids]

Cells == [state : {"unused", "live", "freed"}, err : BOOLEAN,
          kids : [Keys -> Lists \cup {Null}]]
Heaps == [Lists -> Cells]

Live(h, l) == h[l].state = "live"
Available(h) == {l \in Lists : h[l].state = "unused"}

\* c is the value of a key of l.
IsKid(h, l, c) == \E k \in Keys : h[l].kids[k] = c

Closed(h, S) == \A l \in S, c \in Lists : IsKid(h, l, c) => c \in S

\* A list with all the lists nested in it, however deep.
Tree(h, root) ==
  {l \in Lists : \A S \in SUBSET Lists : root \in S /\ Closed(h, S) => l \in S}

\* No list is nested in itself.
Acyclic(h) == \A l \in Lists : \A m \in Tree(h, l) : ~ IsKid(h, m, l)
-----------------------------------------------------------------------------
nvlist_create(h, l) == [h EXCEPT ![l] = Fresh]

nvlist_destroy(h, l) == [m \in Lists |-> IF m \in Tree(h, l) THEN Freed ELSE h[m]]

nvlist_set_error(h, l) == [h EXCEPT ![l].err = TRUE]

\* The ways to place a copy of a list in unused memory; none when there is
\* too little of it.
Placements(h, l) == Injection(Tree(h, l), Available(h))

\* nvlist_clone copies a list and all that is nested in it.
CopyOfList(h, placement, l) ==
  [Fresh EXCEPT !.kids =
     [k \in Keys |-> IF h[l].kids[k] = Null THEN Null ELSE placement[h[l].kids[k]]]]

nvlist_clone(h, placement) ==
  [m \in Lists |->
     IF m \in Range(placement)
     THEN CopyOfList(h, placement, CHOOSE l \in DOMAIN placement : placement[l] = m)
     ELSE h[m]]

\* The list c becomes, or no longer is, the value of a key of l.
Attach(h, l, k, c) == [h EXCEPT ![l].kids[k] = c]
Detach(h, l, k) == [h EXCEPT ![l].kids[k] = Null]
=============================================================================
