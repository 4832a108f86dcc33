------------------------- MODULE NvOwnershipProofs -------------------------
(***************************************************************************)
(* Proofs about NvOwnership, for every set of lists, keys and objects.     *)
(***************************************************************************)
EXTENDS NvOwnership, NvHeapProofs

Roots == {l \in Lists : Root(l)}

\* No two owners hold the same pointer.
Handles ==
  /\ \A o, p \in Owners : Points(o) /\ m_nv[o] = m_nv[p] => o = p
  /\ \A o \in Owners : m_nv[o] \notin raw

\* What is inductive.
IInv == TypeOK /\ WellFormed(heap, Roots) /\ Handles

Pointers == [Objects -> Lists \cup {Null, Unborn}]
-----------------------------------------------------------------------------
(* The ways a call can end *)

LEMMA EndStep ==
  ASSUME NEW op, NEW outcome \in Outcomes, NEW on \in SUBSET Objects,
         Ends(op, outcome, on),
         m_nv' \in Pointers, raw' \subseteq Lists,
         NEW R, WellFormed(heap', R), Roots' \subseteq R, Handles'
  PROVE  IInv'
<1>1. call' \in [op : Operations, outcome : Outcomes, on : SUBSET Objects]
  BY CallsAssumption DEF Ends
<1>2. WellFormed(heap', Roots')
  BY FewerRoots
<1> QED
  BY <1>1, <1>2 DEF IInv, TypeOK, WellFormed, Pointers

LEMMA ThrowStep ==
  ASSUME IInv, NEW op, NEW e \in Exceptions, NEW on \in SUBSET Objects, Throws(op, e, on)
  PROVE  IInv'
<1>1. Roots' = Roots /\ Handles' /\ e \in Outcomes
  BY DEF Throws, IInv, Handles, Roots, Root, Points, Outcomes
<1> QED
  BY <1>1, EndStep DEF Throws, IInv, TypeOK, Pointers

LEMMA NullStep ==
  ASSUME IInv, NEW op, NEW x, throw_if_null(op, x)
  PROVE  IInv'
BY ThrowStep DEF throw_if_null, Exceptions

LEMMA ErrorStep ==
  ASSUME IInv, NEW op, NEW x, throw_if_error(op, x) \/ Rejects(op, x)
  PROVE  IInv'
BY ThrowStep DEF Rejects, throw_if_error, throw_if_null, Exceptions

LEMMA NotFoundStep ==
  ASSUME IInv, NEW op, NEW x, NEW k, NotFound(op, x, k)
  PROVE  IInv'
BY ThrowStep DEF NotFound, Exceptions
-----------------------------------------------------------------------------
(* Who owns what after a pointer has been handed over *)

LEMMA RootsAreLists ==
  ASSUME IInv
  PROVE  /\ Roots \in SUBSET Lists
         /\ \A o \in Owners : Points(o) => m_nv[o] \in Roots
         /\ raw \subseteq Roots
         /\ \A l \in Available(heap) : l \in Lists /\ l \notin Roots
         /\ \A l \in Roots : Live(heap, l)
BY DEF Roots, Root, Points, IInv, TypeOK, WellFormed, RootsLive, Available, Live

\* One object gets a list that nobody owned.
LEMMA NewOwner ==
  ASSUME IInv, NEW o \in Owners, NEW l \in Lists \ Roots,
         m_nv' = [m_nv EXCEPT ![o] = l], raw' = raw
  PROVE  /\ m_nv' \in Pointers /\ raw' \subseteq Lists
         /\ Handles'
         /\ Roots' \subseteq (Roots \ {m_nv[o]}) \cup {l}
BY DEF IInv, TypeOK, Handles, Roots, Root, Points, Objects, Pointers

\* One object gives up what it had.
LEMMA NoOwner ==
  ASSUME IInv, NEW x \in Objects, NEW l \in {Null, Unborn},
         m_nv' = [m_nv EXCEPT ![x] = l], raw' = raw
  PROVE  /\ m_nv' \in Pointers /\ raw' \subseteq Lists
         /\ Handles'
         /\ Roots' \subseteq Roots
         /\ x \in Owners => Roots' \subseteq Roots \ {m_nv[x]}
BY NullAssumption, UnbornAssumption
   DEF IInv, TypeOK, Handles, Roots, Root, Points, Objects, Pointers

\* One object takes over what another had.
LEMMA Handover ==
  ASSUME IInv, NEW o \in Owners, NEW p \in Owners, p # o, m_nv[p] # Unborn,
         m_nv' = [m_nv EXCEPT ![o] = m_nv[p], ![p] = Null], raw' = raw
  PROVE  /\ m_nv' \in Pointers /\ raw' \subseteq Lists
         /\ Handles'
         /\ Roots' \subseteq Roots
BY NullAssumption DEF IInv, TypeOK, Handles, Roots, Root, Points, Objects, Pointers

LEMMA SameOwners ==
  ASSUME IInv, UNCHANGED <<m_nv, raw>>
  PROVE  /\ m_nv' \in Pointers /\ raw' \subseteq Lists
         /\ Handles'
         /\ Roots' = Roots
BY DEF IInv, TypeOK, Handles, Roots, Root, Points, Pointers

\* A const_nv_list owns nothing, whatever it points to.
LEMMA ViewOnly ==
  ASSUME IInv, NEW v \in Views, NEW l \in Lists \cup {Null, Unborn},
         m_nv' = [m_nv EXCEPT ![v] = l], raw' = raw
  PROVE  /\ m_nv' \in Pointers /\ raw' \subseteq Lists
         /\ Handles'
         /\ Roots' = Roots
BY ObjectsAssumption DEF IInv, TypeOK, Handles, Roots, Root, Points, Objects, Pointers
-----------------------------------------------------------------------------
(* nv_list: constructors, assignments, destructor *)

LEMMA FreshStep ==
  ASSUME IInv, NEW o \in Owners, create(o) \/ receive(o)
  PROVE  IInv'
<1>1. ASSUME NEW op, NEW l \in Available(heap), heap' = nvlist_create(heap, l),
             m_nv' = [m_nv EXCEPT ![o] = l], raw' = raw, Ends(op, "ok", {o})
      PROVE  IInv'
  <2>1. WellFormed(heap', Roots \cup {l})
    BY <1>1, CreateKeeps, RootsAreLists DEF IInv
  <2>2. l \in Lists \ Roots
    BY <1>1, RootsAreLists
  <2>3. Roots' \subseteq Roots \cup {l} /\ Handles' /\ m_nv' \in Pointers /\ raw' \subseteq Lists
    BY <1>1, <2>2, NewOwner
  <2> QED
    BY <1>1, <2>1, <2>3, EndStep DEF Outcomes, Objects
<1>2. ASSUME NEW op, Throws(op, "system_error", {o})
      PROVE  IInv'
  BY <1>2, ThrowStep DEF Exceptions, Objects
<1> QED
  BY <1>1, <1>2 DEF create, receive

LEMMA AdoptStep ==
  ASSUME IInv, NEW o \in Owners, adopt(o)
  PROVE  IInv'
<1>1. CASE Throws("adopt", "logic_error", {o})
  BY <1>1, ThrowStep DEF Exceptions, Objects
<1>2. ASSUME NEW l \in raw, m_nv' = [m_nv EXCEPT ![o] = l], raw' = raw \ {l},
             heap' = heap, Ends("adopt", "ok", {o})
      PROVE  IInv'
  <2>1. Handles' /\ Roots' \subseteq Roots /\ m_nv' \in Pointers /\ raw' \subseteq Lists
    BY <1>2 DEF IInv, TypeOK, Handles, Roots, Root, Points, Objects, Pointers
  <2> QED
    BY <1>2, <2>1, EndStep DEF IInv, Outcomes, Objects
<1> QED
  BY <1>1, <1>2 DEF adopt

LEMMA CopyStep ==
  ASSUME IInv, NEW o \in Owners, NEW x \in Objects, copy_construct(o, x)
  PROVE  IInv'
<1>1. CASE throw_if_error("copy", x)
  BY <1>1, ErrorStep
<1>2. CASE Throws("copy", "system_error", {o})
  BY <1>2, ThrowStep DEF Exceptions, Objects
<1>3. ASSUME Usable(x), Ready(x), NEW p \in Placements(heap, m_nv[x]),
             heap' = nvlist_clone(heap, p), raw' = raw,
             m_nv' = [m_nv EXCEPT ![o] = p[m_nv[x]]], Ends("copy", "ok", {o})
      PROVE  IInv'
  <2> DEFINE n == p[m_nv[x]]
  <2>1. n \in Available(heap) /\ WellFormed(heap', Roots \cup {n})
    BY <1>3, CloneKeeps, RootsAreLists DEF IInv, Usable, Ready, Points
  <2>2. n \in Lists \ Roots
    BY <2>1, RootsAreLists
  <2>3. Roots' \subseteq Roots \cup {n} /\ Handles' /\ m_nv' \in Pointers /\ raw' \subseteq Lists
    BY <1>3, <2>2, NewOwner
  <2> QED
    BY <1>3, <2>1, <2>3, EndStep DEF Outcomes, Objects
<1> QED
  BY <1>1, <1>2, <1>3 DEF copy_construct

LEMMA MoveStep ==
  ASSUME IInv, NEW o \in Owners, NEW p \in Owners, move_construct(o, p) \/ assign_move(o, p)
  PROVE  IInv'
<1>1. ASSUME NEW op, Born(p), p # o, m_nv' = [m_nv EXCEPT ![o] = m_nv[p], ![p] = Null],
             UNCHANGED <<heap, raw>>, Ends(op, "ok", {o, p})
      PROVE  IInv'
  BY <1>1, Handover, EndStep DEF Born, IInv, Outcomes, Objects
<1>2. CASE move_construct(o, p)
  BY <1>1, <1>2 DEF move_construct, Unconstructed, Usable, Born
<1>3. CASE assign_move(o, p) /\ p = o
  BY <1>3, SameOwners, EndStep DEF assign_move, IInv, Outcomes, Objects
<1>4. CASE assign_move(o, p) /\ p # o
  BY <1>1, <1>4 DEF assign_move, Usable
<1> QED
  BY <1>2, <1>3, <1>4

\* The copy is made first, so the old list may contain what is copied.
LEMMA AssignViewStep ==
  ASSUME IInv, NEW o \in Owners, NEW x \in Objects, assign_view(o, x)
  PROVE  IInv'
<1>1. CASE throw_if_null("assign_copy", x)
  BY <1>1, NullStep
<1>2. CASE Throws("assign_copy", "system_error", {o})
  BY <1>2, ThrowStep DEF Exceptions, Objects
<1>3. ASSUME Usable(x), Ready(x), NEW p \in Placements(heap, m_nv[x]),
             heap' = free_nv(nvlist_clone(heap, p), o), raw' = raw,
             m_nv' = [m_nv EXCEPT ![o] = p[m_nv[x]]], Ends("assign_copy", "ok", {o})
      PROVE  IInv'
  <2> DEFINE n == p[m_nv[x]]
             copied == nvlist_clone(heap, p)
             old == m_nv[o]
  <2>1. n \in Available(heap) /\ WellFormed(copied, Roots \cup {n})
    BY <1>3, CloneKeeps, RootsAreLists DEF IInv, Usable, Ready, Points
  <2>2. n \in Lists \ Roots
    BY <2>1, RootsAreLists
  <2>3. /\ Roots' \subseteq (Roots \ {old}) \cup {n} /\ Handles'
        /\ m_nv' \in Pointers /\ raw' \subseteq Lists
    BY <1>3, <2>2, NewOwner
  <2> HIDE DEF n, copied
  <2>4. CASE Points(o)
    <3>1. old \in Roots /\ heap' = nvlist_destroy(copied, old)
      BY <1>3, <2>4, RootsAreLists DEF free_nv, Owning, copied
    <3>2. Roots \cup {n} \in SUBSET Lists /\ old \in Roots \cup {n}
      BY <2>2, <3>1, RootsAreLists
    <3>3. WellFormed(heap', (Roots \cup {n}) \ {old})
      BY <2>1, <3>1, <3>2, DestroyKeeps
    <3>4. Roots' \subseteq (Roots \cup {n}) \ {old}
      BY <2>2, <2>3, <3>1
    <3> QED
      BY <1>3, <2>3, <3>3, <3>4, EndStep DEF Outcomes, Objects
  <2>5. CASE ~ Points(o)
    <3>1. heap' = copied /\ Roots' \subseteq Roots \cup {n}
      BY <1>3, <2>3, <2>5 DEF free_nv, copied
    <3> QED
      BY <1>3, <2>1, <2>3, <3>1, EndStep DEF Outcomes, Objects
  <2> QED
    BY <2>4, <2>5
<1> QED
  BY <1>1, <1>2, <1>3 DEF assign_view

LEMMA AssignCopyStep ==
  ASSUME IInv, NEW o \in Owners, NEW p \in Owners, assign_copy(o, p)
  PROVE  IInv'
<1>1. CASE p # o /\ assign_view(o, p)
  BY <1>1, AssignViewStep DEF Objects
<1>2. CASE UNCHANGED <<heap, m_nv, raw>> /\ Ends("assign_copy", "ok", {o})
  BY <1>2, SameOwners, EndStep DEF IInv, Outcomes, Objects
<1> QED
  BY <1>1, <1>2 DEF assign_copy

LEMMA ReleaseStep ==
  ASSUME IInv, NEW o \in Owners, release(o)
  PROVE  IInv'
<1>1. Handles' /\ Roots' \subseteq Roots /\ m_nv' \in Pointers /\ raw' \subseteq Lists
  BY NullAssumption
  DEF release, IInv, TypeOK, Handles, Roots, Root, Points, Objects, Pointers
<1> QED
  BY <1>1, EndStep DEF release, IInv, Outcomes, Objects

LEMMA DestroyStep ==
  ASSUME IInv, NEW x \in Objects, destroy(x)
  PROVE  IInv'
<1>1. /\ m_nv' \in Pointers /\ raw' \subseteq Lists /\ Handles' /\ Roots' \subseteq Roots
      /\ x \in Owners => Roots' \subseteq Roots \ {m_nv[x]}
  BY NoOwner DEF destroy
<1>2. CASE Points(x) /\ x \in Owners
  <2>1. m_nv[x] \in Roots /\ heap' = nvlist_destroy(heap, m_nv[x])
    BY <1>2, RootsAreLists DEF destroy, free_nv, Owning
  <2>2. WellFormed(heap', Roots \ {m_nv[x]})
    BY <2>1, RootsAreLists, DestroyKeeps DEF IInv
  <2> QED
    BY <1>1, <1>2, <2>2, EndStep DEF destroy, Outcomes
<1>3. CASE ~ (Points(x) /\ x \in Owners)
  <2>1. heap' = heap
    BY <1>3 DEF destroy, free_nv, Owning
  <2> QED
    BY <1>1, <2>1, EndStep DEF destroy, IInv, Outcomes
<1> QED
  BY <1>2, <1>3
-----------------------------------------------------------------------------
(* nv_list: the member functions that store, remove or send lists *)

\* A call that leaves every pointer alone and sets the error of one's list.
LEMMA FailStep ==
  ASSUME IInv, NEW op, NEW e \in Outcomes, NEW o \in Owners, Ready(o),
         heap' = nvlist_set_error(heap, m_nv[o]), UNCHANGED <<m_nv, raw>>,
         Ends(op, e, {o})
  PROVE  IInv'
<1>1. WellFormed(heap', Roots)
  BY RootsAreLists, SetErrorKeeps DEF Ready, IInv
<1> QED
  BY <1>1, SameOwners, EndStep DEF Objects

LEMMA SetErrorStep ==
  ASSUME IInv, NEW o \in Owners, set_error(o)
  PROVE  IInv'
<1>1. CASE throw_if_error("set_error", o)
  BY <1>1, ErrorStep
<1>2. CASE Ready(o) /\ heap' = nvlist_set_error(heap, m_nv[o]) /\ UNCHANGED <<m_nv, raw>>
           /\ Ends("set_error", "ok", {o})
  BY <1>2, FailStep DEF Outcomes
<1> QED
  BY <1>1, <1>2 DEF set_error

\* The copy is one more root, until it is attached.
LEMMA AddNvlistStep ==
  ASSUME IInv, NEW o \in Owners, NEW k \in Keys, NEW x \in Objects, add_nvlist(o, k, x)
  PROVE  IInv'
<1>1. CASE Rejects("add_nvlist", o)
  BY <1>1, ErrorStep
<1>2. ASSUME NEW e \in Exceptions, Ready(o), Fails("add_nvlist", e, o)
      PROVE  IInv'
  BY <1>2, FailStep DEF Fails, Outcomes
<1>3. ASSUME Ready(o), Usable(x), Ready(x), heap[m_nv[o]].kids[k] = Null,
             NEW p \in Placements(heap, m_nv[x]),
             heap' = Attach(nvlist_clone(heap, p), m_nv[o], k, p[m_nv[x]]),
             UNCHANGED <<m_nv, raw>>, Ends("add_nvlist", "ok", {o})
      PROVE  IInv'
  <2> DEFINE l == m_nv[o]
             n == p[m_nv[x]]
             copied == nvlist_clone(heap, p)
  <2>1. l \in Roots /\ l \in Lists /\ l \notin Available(heap)
    BY <1>3, RootsAreLists DEF Ready, Points
  <2>2. /\ n \in Available(heap) /\ WellFormed(copied, Roots \cup {n})
        /\ ~ copied[n].err
        /\ copied[l] = heap[l]
    <3>1. m_nv[x] \in Lists /\ Live(heap, m_nv[x])
      BY <1>3 DEF Usable, Ready, Points
    <3>2. Roots \in SUBSET Lists /\ WellFormed(heap, Roots)
      BY RootsAreLists DEF IInv
    <3> QED
      BY <1>3, <2>1, <3>1, <3>2, CloneKeeps
  <2>3. n \in Lists /\ n \notin Roots /\ n # l
    BY <2>1, <2>2, RootsAreLists
  <2> HIDE DEF n, copied, l
  <2>4. WellFormed(Attach(copied, l, k, n), (Roots \cup {n}) \ {n})
    <3>1. Roots \cup {n} \in SUBSET Lists /\ l \in Roots \cup {n} /\ n \in Roots \cup {n}
      BY <2>1, <2>3, RootsAreLists
    <3>2. copied[l].kids[k] = Null
      BY <1>3, <2>2 DEF l
    <3> QED
      BY <2>2, <2>3, <3>1, <3>2, AttachKeeps
  <2>5. heap' = Attach(copied, l, k, n)
    BY <1>3 DEF copied, l, n
  <2>6. Roots' \subseteq (Roots \cup {n}) \ {n}
    BY <1>3, <2>3, SameOwners
  <2> QED
    BY <1>3, <2>4, <2>5, <2>6, SameOwners, EndStep DEF Outcomes, Objects
<1> QED
  BY <1>1, <1>2, <1>3 DEF add_nvlist, Exceptions

\* A list that has been handed to nvlist_move_nvlist() is no longer a root:
\* it is stored, or it is gone.
LEMMA MovedKeeps ==
  ASSUME IInv, NEW o \in Owners, NEW k \in Keys, Ready(o), NEW c \in Roots \cup {Null},
         c # m_nv[o], NEW h \in moved_nvlist(o, k, c)
  PROVE  WellFormed(h, Roots \ {c})
<1> DEFINE l == m_nv[o]
<1>1. l \in Roots /\ Roots \in SUBSET Lists /\ WellFormed(heap, Roots)
  BY RootsAreLists DEF Ready, IInv
<1>2. CASE c = Null
  <2>1. h = nvlist_set_error(heap, l) /\ Roots \ {c} = Roots
    BY <1>1, <1>2, NullAssumption DEF moved_nvlist
  <2> QED
    BY <1>1, <2>1, SetErrorKeeps
<1>3. CASE c # Null /\ h = nvlist_set_error(nvlist_destroy(heap, c), l)
  <2>1. WellFormed(nvlist_destroy(heap, c), Roots \ {c})
    BY <1>1, <1>3, DestroyKeeps
  <2>2. l \in Roots \ {c} /\ Roots \ {c} \in SUBSET Lists
    BY <1>1
  <2> QED
    BY <1>3, <2>1, <2>2, SetErrorKeeps
<1>4. CASE c # Null /\ ~ heap[c].err /\ heap[l].kids[k] = Null /\ h = Attach(heap, l, k, c)
  BY <1>1, <1>4, AttachKeeps
<1> QED
  BY <1>2, <1>3, <1>4 DEF moved_nvlist

LEMMA MoveNvlistStep ==
  ASSUME IInv, NEW o \in Owners, NEW k \in Keys, NEW p \in Owners, move_nvlist(o, k, p)
  PROVE  IInv'
<1>1. CASE Rejects("move_nvlist", o)
  BY <1>1, ErrorStep
<1>2. CASE ~ Rejects("move_nvlist", o)
  <2>1. /\ Born(p) /\ p # o /\ Ready(o) /\ heap' \in moved_nvlist(o, k, m_nv[p])
        /\ m_nv' = [m_nv EXCEPT ![p] = Null] /\ raw' = raw
        /\ Ends("move_nvlist", "ok", {o, p})
    BY <1>2 DEF move_nvlist, Usable
  <2>2. m_nv[p] \in Roots \cup {Null} /\ m_nv[p] # m_nv[o]
    BY <2>1, RootsAreLists DEF Born, Ready, Points, IInv, TypeOK, Handles, Objects
  <2>3. WellFormed(heap', Roots \ {m_nv[p]})
    BY <2>1, <2>2, MovedKeeps
  <2>4. /\ m_nv' \in Pointers /\ raw' \subseteq Lists /\ Handles'
        /\ Roots' \subseteq Roots \ {m_nv[p]}
    BY <2>1, NoOwner DEF Objects
  <2> QED
    BY <2>1, <2>3, <2>4, EndStep DEF Outcomes, Objects
<1> QED
  BY <1>1, <1>2

LEMMA MoveRawNvlistStep ==
  ASSUME IInv, NEW o \in Owners, NEW k \in Keys, move_raw_nvlist(o, k)
  PROVE  IInv'
<1>1. CASE Rejects("move_nvlist", o)
  BY <1>1, ErrorStep
<1>2. ASSUME Ready(o), NEW c \in raw \cup {Null}, heap' \in moved_nvlist(o, k, c),
             raw' = raw \ {c}, m_nv' = m_nv, Ends("move_nvlist", "ok", {o})
      PROVE  IInv'
  <2>1. c \in Roots \cup {Null} /\ c # m_nv[o]
    BY <1>2, RootsAreLists, NullAssumption DEF Ready, Points, IInv, Handles
  <2>2. WellFormed(heap', Roots \ {c})
    BY <1>2, <2>1, MovedKeeps
  <2>3. /\ m_nv' \in Pointers /\ raw' \subseteq Lists /\ Handles'
        /\ Roots' \subseteq Roots \ {c}
    BY <1>2, NullAssumption
    DEF IInv, TypeOK, Handles, Roots, Root, Points, Pointers
  <2> QED
    BY <1>2, <2>2, <2>3, EndStep DEF Outcomes, Objects
<1> QED
  BY <1>1, <1>2 DEF move_raw_nvlist

LEMMA TakeNvlistStep ==
  ASSUME IInv, NEW o \in Owners, NEW k \in Keys, NEW p \in Owners, take_nvlist(o, k, p)
  PROVE  IInv'
<1>1. CASE Rejects("take_nvlist", o)
  BY <1>1, ErrorStep
<1>2. CASE NotFound("take_nvlist", o, k)
  BY <1>2, NotFoundStep
<1>3. ASSUME Ready(o), heap[m_nv[o]].kids[k] # Null, heap' = Detach(heap, m_nv[o], k),
             m_nv' = [m_nv EXCEPT ![p] = heap[m_nv[o]].kids[k]], raw' = raw,
             Ends("take_nvlist", "ok", {o, p})
      PROVE  IInv'
  <2> DEFINE c == heap[m_nv[o]].kids[k]
  <2>1. m_nv[o] \in Lists /\ Roots \in SUBSET Lists /\ WellFormed(heap, Roots)
    BY <1>3, RootsAreLists DEF Ready, Points, IInv
  <2>2. c \in Lists /\ WellFormed(heap', Roots \cup {c})
    BY <1>3, <2>1, DetachKeeps
  <2>3. c \notin Roots
    BY <2>1, <2>2 DEF WellFormed, KidsOwned, IsKid
  <2>4. /\ Roots' \subseteq Roots \cup {c} /\ Handles'
        /\ m_nv' \in Pointers /\ raw' \subseteq Lists
    BY <1>3, <2>2, <2>3, NewOwner
  <2> QED
    BY <1>3, <2>2, <2>4, EndStep DEF Outcomes, Objects
<1> QED
  BY <1>1, <1>2, <1>3 DEF take_nvlist

LEMMA GetNvlistStep ==
  ASSUME IInv, NEW x \in Objects, NEW k \in Keys, NEW v \in Views, get_nvlist(x, k, v)
  PROVE  IInv'
<1>1. CASE Rejects("get_nvlist", x)
  BY <1>1, ErrorStep
<1>2. CASE NotFound("get_nvlist", x, k)
  BY <1>2, NotFoundStep
<1>3. ASSUME Ready(x), heap[m_nv[x]].kids[k] # Null,
             m_nv' = [m_nv EXCEPT ![v] = heap[m_nv[x]].kids[k]],
             UNCHANGED <<heap, raw>>, Ends("get_nvlist", "ok", {v})
      PROVE  IInv'
  <2>1. heap[m_nv[x]].kids[k] \in Lists \cup {Null, Unborn}
    BY <1>3 DEF Ready, Points, IInv, TypeOK, Heaps, Cells
  <2> QED
    BY <1>3, <2>1, ViewOnly, EndStep DEF IInv, Outcomes, Objects
<1> QED
  BY <1>1, <1>2, <1>3 DEF get_nvlist

\* The nested list is a root for as long as it takes to free it.
LEMMA FreeNvlistStep ==
  ASSUME IInv, NEW o \in Owners, NEW k \in Keys, free_nvlist(o, k)
  PROVE  IInv'
<1>1. CASE Rejects("free_nvlist", o)
  BY <1>1, ErrorStep
<1>2. CASE NotFound("free_nvlist", o, k)
  BY <1>2, NotFoundStep
<1>3. ASSUME Ready(o), heap[m_nv[o]].kids[k] # Null,
             heap' = nvlist_destroy(Detach(heap, m_nv[o], k), heap[m_nv[o]].kids[k]),
             UNCHANGED <<m_nv, raw>>, Ends("free_nvlist", "ok", {o})
      PROVE  IInv'
  <2> DEFINE c == heap[m_nv[o]].kids[k]
             detached == Detach(heap, m_nv[o], k)
  <2>1. m_nv[o] \in Lists /\ Roots \in SUBSET Lists /\ WellFormed(heap, Roots)
    BY <1>3, RootsAreLists DEF Ready, Points, IInv
  <2>2. c \in Lists /\ WellFormed(detached, Roots \cup {c})
    BY <1>3, <2>1, DetachKeeps
  <2>3. c \notin Roots
    BY <2>1, <2>2 DEF WellFormed, KidsOwned, IsKid
  <2> HIDE DEF c, detached
  <2>4. WellFormed(nvlist_destroy(detached, c), (Roots \cup {c}) \ {c})
    <3>1. Roots \cup {c} \in SUBSET Lists /\ c \in Roots \cup {c}
      BY <2>1, <2>2
    <3> QED
      BY <2>2, <3>1, DestroyKeeps
  <2>5. heap' = nvlist_destroy(detached, c)
    BY <1>3 DEF c, detached
  <2>6. Roots' \subseteq (Roots \cup {c}) \ {c}
    BY <1>3, <2>3, SameOwners
  <2> QED
    BY <1>3, <2>4, <2>5, <2>6, SameOwners, EndStep DEF Outcomes, Objects
<1> QED
  BY <1>1, <1>2, <1>3 DEF free_nvlist

LEMMA XferStep ==
  ASSUME IInv, NEW o \in Owners, NEW p \in Owners, xfer(o, p)
  PROVE  IInv'
<1> DEFINE old == m_nv[o]
           sent == nvlist_destroy(heap, old)
<1>1. CASE throw_if_error("xfer", o)
  BY <1>1, ErrorStep
<1>2. ASSUME Ready(o)
      PROVE  /\ old \in Roots /\ Roots \in SUBSET Lists
             /\ WellFormed(sent, Roots \ {old})
  BY <1>2, RootsAreLists, DestroyKeeps DEF Ready, IInv
<1>3. ASSUME Ready(o), raw' = raw, heap' = sent, m_nv' = [m_nv EXCEPT ![o] = Null],
             Ends("xfer", "system_error", {o, p})
      PROVE  IInv'
  BY <1>2, <1>3, NoOwner, EndStep DEF Outcomes, Exceptions, Objects
<1>4. ASSUME Ready(o), Unconstructed(p), raw' = raw, NEW l \in Available(heap),
             heap' = nvlist_create(sent, l),
             m_nv' = [m_nv EXCEPT ![o] = Null, ![p] = l], Ends("xfer", "ok", {o, p})
      PROVE  IInv'
  <2>1. l \in Lists /\ l \notin Roots /\ l # old
    BY <1>2, <1>4, RootsAreLists
  <2>2. /\ m_nv' \in Pointers /\ raw' \subseteq Lists /\ Handles'
        /\ Roots' \subseteq (Roots \ {old}) \cup {l}
    BY <1>2, <1>4, <2>1, NullAssumption, UnbornAssumption
    DEF IInv, TypeOK, Handles, Roots, Root, Points, Objects, Pointers, Unconstructed
  <2>3. l \in Available(sent)
    <3>1. l \notin Tree(heap, old)
      BY <1>2, <1>4, TreeLive DEF IInv, WellFormed, RootsLive, Available, Live
    <3> QED
      BY <1>4, <2>1, <3>1 DEF nvlist_destroy, Available
  <2>4. WellFormed(heap', (Roots \ {old}) \cup {l})
    BY <1>2, <1>4, <2>3, CreateKeeps
  <2> QED
    BY <1>4, <2>2, <2>4, EndStep DEF Outcomes, Objects
<1> QED
  BY <1>1, <1>3, <1>4 DEF xfer
-----------------------------------------------------------------------------
(* const_nv_list, and the caller's own use of libnv *)

LEMMA ViewConstructStep ==
  ASSUME IInv, NEW v \in Views, view_construct(v)
  PROVE  IInv'
<1>1. PICK l \in {Null} \cup raw \cup {m_nv[x] : x \in {y \in Objects : Born(y)}} :
        m_nv' = [m_nv EXCEPT ![v] = l]
  BY DEF view_construct
<1>2. l \in Lists \cup {Null, Unborn}
  BY <1>1 DEF IInv, TypeOK
<1> QED
  BY <1>1, <1>2, ViewOnly, EndStep DEF view_construct, IInv, Outcomes, Objects

LEMMA ViewAssignStep ==
  ASSUME IInv, NEW v \in Views, NEW x \in Objects, view_assign(v, x)
  PROVE  IInv'
<1>1. m_nv[x] \in Lists \cup {Null, Unborn}
  BY DEF IInv, TypeOK
<1> QED
  BY <1>1, ViewOnly, EndStep DEF view_assign, IInv, Outcomes, Objects

LEMMA LibnvCreateStep ==
  ASSUME IInv, libnv_create
  PROVE  IInv'
<1>1. PICK l \in Available(heap), e \in BOOLEAN :
        heap' = [nvlist_create(heap, l) EXCEPT ![l].err = e] /\ raw' = raw \cup {l}
  BY DEF libnv_create
<1>2. l \in Lists /\ l \notin Roots /\ Roots \in SUBSET Lists
      /\ WellFormed(nvlist_create(heap, l), Roots \cup {l})
  BY CreateKeeps, RootsAreLists DEF IInv
<1>3. WellFormed(heap', Roots \cup {l})
  <2>1. CASE e = TRUE
    <3>1. heap' = nvlist_set_error(nvlist_create(heap, l), l)
      BY <1>1, <2>1 DEF nvlist_set_error
    <3>2. Roots \cup {l} \in SUBSET Lists /\ l \in Roots \cup {l}
      BY <1>2
    <3> QED
      BY <1>2, <3>1, <3>2, SetErrorKeeps
  <2>2. CASE e = FALSE
    <3> DEFINE g == nvlist_create(heap, l)
    <3>1. g \in [Lists -> Cells] /\ g[l].err = FALSE
      BY <1>2 DEF nvlist_create, IInv, TypeOK, Heaps, WellFormed, Fresh
    <3> HIDE DEF g
    <3>2. [g EXCEPT ![l].err = FALSE] = g
      BY <1>2, <3>1 DEF Cells
    <3> QED
      BY <1>1, <1>2, <2>2, <3>2 DEF g
  <2> QED
    BY <2>1, <2>2
<1>4. /\ m_nv' \in Pointers /\ raw' \subseteq Lists /\ Handles'
      /\ Roots' \subseteq Roots \cup {l}
  BY <1>1, <1>2 DEF libnv_create, IInv, TypeOK, Handles, Roots, Root, Points, Pointers
<1> QED
  <2>1. Ends("libnv", "ok", {}) /\ "ok" \in Outcomes /\ {} \in SUBSET Objects
    BY DEF libnv_create, Outcomes
  <2> QED
    BY <1>3, <1>4, <2>1, EndStep

LEMMA LibnvDestroyStep ==
  ASSUME IInv, libnv_destroy
  PROVE  IInv'
<1>1. PICK l \in raw : heap' = nvlist_destroy(heap, l) /\ raw' = raw \ {l}
  BY DEF libnv_destroy
<1>2. WellFormed(heap', Roots \ {l})
  BY <1>1, DestroyKeeps, RootsAreLists DEF IInv
<1>3. /\ m_nv' \in Pointers /\ raw' \subseteq Lists /\ Handles'
      /\ Roots' \subseteq Roots \ {l}
  BY <1>1 DEF libnv_destroy, IInv, TypeOK, Handles, Roots, Root, Points, Pointers
<1> QED
  BY <1>2, <1>3, EndStep DEF libnv_destroy, Outcomes
-----------------------------------------------------------------------------
(* The invariant, and what follows from it *)

LEMMA InitIInv == Init => IInv
<1> SUFFICES ASSUME Init PROVE IInv
  OBVIOUS
<1>1. TypeOK
  BY CellTypes DEF Init, TypeOK, Heaps, Operations, Outcomes
<1>2. Handles /\ Roots = {}
  BY UnbornAssumption DEF Init, Handles, Roots, Root, Points, Objects
<1>3. WellFormed(heap, {})
  <2>1. \A l, c \in Lists : ~ IsKid(heap, l, c)
    BY NullAssumption, NoKidsType DEF Init, Unused, IsKid
  <2>2. DeadAreEmpty(heap)
    BY DEF Init, DeadAreEmpty, Unused
  <2>3. Acyclic(heap)
    BY <2>1 DEF Acyclic, Tree
  <2> QED
    BY <1>1, <2>1, <2>2, <2>3, NullAssumption, NoKidsType
    DEF WellFormed, RootsLive, KidsOwned, OneParent, TypeOK, Init, Unused
<1> QED
  BY <1>1, <1>2, <1>3 DEF IInv

LEMMA NextIInv == IInv /\ [Next]_vars => IInv'
<1> SUFFICES ASSUME IInv, [Next]_vars PROVE IInv'
  OBVIOUS
<1>1. ASSUME NEW o \in Owners, OwnerStep(o) PROVE IInv'
  BY <1>1, FreshStep, AdoptStep, ReleaseStep, SetErrorStep, CopyStep, AssignViewStep,
     MoveStep, AssignCopyStep, XferStep
  DEF OwnerStep, Objects
<1>2. ASSUME NEW o \in Owners, NEW k \in Keys, NestingStep(o, k) PROVE IInv'
  BY <1>2, AddNvlistStep, MoveNvlistStep, TakeNvlistStep, MoveRawNvlistStep, FreeNvlistStep
  DEF NestingStep
<1>3. ASSUME NEW v \in Views, ViewStep(v) PROVE IInv'
  BY <1>3, ViewConstructStep, ViewAssignStep, GetNvlistStep DEF ViewStep
<1>4. CASE UNCHANGED vars
  BY <1>4, SameOwners
  DEF vars, IInv, TypeOK, Pointers
<1> QED
  BY <1>1, <1>2, <1>3, <1>4, DestroyStep, LibnvCreateStep, LibnvDestroyStep DEF Next

LEMMA Invariance == Spec => []IInv
BY InitIInv, NextIInv, PTL DEF Spec

\* In every state the program can reach, the heap, the pointers of the objects
\* and the caller's own lists have the types NvOwnership gives them.
THEOREM TypeCorrect == Spec => []TypeOK
<1>1. IInv => TypeOK
  BY DEF IInv
<1> QED
  BY <1>1, Invariance, PTL

\* Whatever sequence of constructors, assignments, moves, takes, sends and
\* destructors ran, a list that someone will free has not been freed.
THEOREM OwnedListsLiveHolds == Spec => []OwnedListsLive
<1>1. IInv => OwnedListsLive
  <2> SUFFICES ASSUME IInv PROVE OwnedListsLive
    OBVIOUS
  <2>1. \A l, c \in Lists : IsKid(heap, l, c) => Live(heap, c)
    BY DEF IInv, WellFormed, KidsOwned
  <2> QED
    BY <2>1, RootsAreLists DEF OwnedListsLive
<1> QED
  BY <1>1, Invariance, PTL

\* No list is freed twice: it has one owner, which is an object, the caller or
\* the list it is nested in under one key.
THEOREM SingleOwnerHolds == Spec => []SingleOwner
<1>1. IInv => SingleOwner
  <2> SUFFICES ASSUME IInv PROVE SingleOwner
    OBVIOUS
  <2>1. ASSUME NEW l \in Lists, NEW c \in Lists, NEW k \in Keys, heap[l].kids[k] = c
        PROVE  /\ c \notin Roots
               /\ \A m \in Lists, j \in Keys : heap[m].kids[j] = c => m = l /\ j = k
    BY <2>1 DEF IInv, WellFormed, KidsOwned, OneParent, IsKid
  <2>2. \A c \in Lists \ Roots : c \notin raw /\ \A o \in Owners : m_nv[o] # c
    BY DEF Roots, Root
  <2> QED
    BY <2>1, <2>2 DEF SingleOwner, IInv, Handles
<1> QED
  BY <1>1, Invariance, PTL

\* move_nvlist() and add_nvlist() never store a list in the error state, and
\* nothing can set the error of a list once it is stored.
THEOREM ChildrenHealthyHolds == Spec => []ChildrenHealthy
<1>1. IInv => ChildrenHealthy
  BY DEF IInv, WellFormed, KidsOwned, ChildrenHealthy
<1> QED
  BY <1>1, Invariance, PTL

\* No list comes to be nested in itself, so nvlist_clone() and
\* nvlist_destroy() end.
THEOREM NoCyclesHolds == Spec => []NoCycles
<1>1. IInv => NoCycles
  BY DEF IInv, WellFormed, NoCycles
<1> QED
  BY <1>1, Invariance, PTL
-----------------------------------------------------------------------------
(* What a call that throws leaves alone *)

Kept ==
  call'.outcome # "ok" /\ call'.op # "xfer" =>
    /\ m_nv' = m_nv /\ raw' = raw
    /\ \A l \in Lists : heap'[l].state = heap[l].state /\ heap'[l].kids = heap[l].kids

LEMMA EndKept ==
  ASSUME NEW op, NEW outcome, NEW on, Ends(op, outcome, on), outcome = "ok" \/ op = "xfer"
  PROVE  Kept
BY DEF Ends, Kept

LEMMA ThrowKept ==
  ASSUME NEW op, NEW e, NEW on, Throws(op, e, on)
  PROVE  Kept
BY DEF Throws, Kept

LEMMA ErrorKept ==
  ASSUME NEW op, NEW x, Rejects(op, x) \/ throw_if_error(op, x) \/ throw_if_null(op, x)
  PROVE  Kept
BY ThrowKept DEF Rejects, throw_if_error, throw_if_null

LEMMA NotFoundKept ==
  ASSUME NEW op, NEW x, NEW k, NotFound(op, x, k)
  PROVE  Kept
BY ThrowKept DEF NotFound

\* An error set in a list changes neither its owner nor what it holds.
LEMMA FailKept ==
  ASSUME TypeOK, NEW op, NEW e, NEW o, Ready(o), Fails(op, e, o)
  PROVE  Kept
BY DEF Fails, nvlist_set_error, Kept, TypeOK, Heaps, Cells, Ready, Points

\* A call that throws, xfer apart, leaves every list with the owner it had
\* and with the lists that were stored in it.
THEOREM ThrowKeepsOwnershipHolds == Spec => ThrowKeepsOwnership
<1>1. ASSUME TypeOK, Next PROVE Kept
  <2>1. ASSUME NEW o \in Owners, OwnerStep(o) PROVE Kept
    <3>1. ASSUME create(o) \/ receive(o) \/ adopt(o) PROVE Kept
      BY <3>1, EndKept, ThrowKept DEF create, receive, adopt
    <3>2. ASSUME release(o) \/ set_error(o) PROVE Kept
      BY <3>2, EndKept, ErrorKept DEF release, set_error
    <3>3. ASSUME NEW x, copy_construct(o, x) \/ assign_view(o, x) PROVE Kept
      BY <3>3, EndKept, ThrowKept, ErrorKept DEF copy_construct, assign_view
    <3>4. ASSUME NEW p, move_construct(o, p) \/ assign_copy(o, p) \/ assign_move(o, p)
          PROVE  Kept
      BY <3>3, <3>4, EndKept DEF move_construct, assign_copy, assign_move
    <3>5. ASSUME NEW p, xfer(o, p) PROVE Kept
      BY <3>5, EndKept, ErrorKept DEF xfer
    <3> QED
      BY <2>1, <3>1, <3>2, <3>3, <3>4, <3>5 DEF OwnerStep
  <2>2. ASSUME NEW o \in Owners, NEW k \in Keys, NestingStep(o, k) PROVE Kept
    <3>1. ASSUME NEW x, add_nvlist(o, k, x) PROVE Kept
      BY <1>1, <3>1, EndKept, ErrorKept, FailKept DEF add_nvlist
    <3>2. ASSUME NEW p, move_nvlist(o, k, p) \/ take_nvlist(o, k, p) PROVE Kept
      BY <3>2, EndKept, ErrorKept, NotFoundKept DEF move_nvlist, take_nvlist
    <3>3. ASSUME move_raw_nvlist(o, k) \/ free_nvlist(o, k) PROVE Kept
      BY <3>3, EndKept, ErrorKept, NotFoundKept DEF move_raw_nvlist, free_nvlist
    <3> QED
      BY <2>2, <3>1, <3>2, <3>3 DEF NestingStep
  <2>3. ASSUME NEW v \in Views, ViewStep(v) PROVE Kept
    BY <2>3, EndKept, ErrorKept, NotFoundKept
    DEF ViewStep, view_construct, view_assign, get_nvlist
  <2>4. ASSUME NEW x, destroy(x) \/ libnv_create \/ libnv_destroy PROVE Kept
    BY <2>4, EndKept DEF destroy, libnv_create, libnv_destroy
  <2> QED
    BY <1>1, <2>1, <2>2, <2>3, <2>4 DEF Next
<1>2. ASSUME TypeOK, [Next]_vars PROVE [Kept]_vars
  BY <1>1, <1>2
<1> QED
  BY <1>2, TypeCorrect, PTL DEF Spec, ThrowKeepsOwnership, Kept
-----------------------------------------------------------------------------
(* What a call leaves alone of the objects it is not made on *)

Isolated ==
  \A o \in Owners \ call'.on :
    /\ m_nv'[o] = m_nv[o]
    /\ Points(o) => \A l \in Tree(heap, m_nv[o]) : heap'[l] = heap[l]

\* A list a call made on the objects in on may change: one that was not in
\* use, or one nested in a root that no other object holds.
Within(on, l) ==
  \/ l \in Available(heap)
  \/ \E r \in Roots : l \in Tree(heap, r) /\ \A o \in Owners \ on : m_nv[o] # r

LEMMA EndIsolated ==
  ASSUME IInv, NEW op, NEW outcome, NEW on, Ends(op, outcome, on),
         \A o \in Owners \ on : m_nv'[o] = m_nv[o],
         \A l \in Lists : heap'[l] = heap[l] \/ Within(on, l)
  PROVE  Isolated
<1> SUFFICES ASSUME NEW o \in Owners \ on, Points(o), NEW l \in Tree(heap, m_nv[o]),
                    heap'[l] # heap[l]
             PROVE  FALSE
  BY DEF Isolated, Ends
<1>1. m_nv[o] \in Lists /\ m_nv[o] \in Roots /\ Roots \in SUBSET Lists /\ l \in Lists
  BY RootsAreLists, TreeProperties DEF Points
<1>2. l \notin Available(heap)
  <2>1. Live(heap, l)
    BY <1>1, RootsAreLists, TreeLive DEF IInv
  <2> QED
    BY <2>1 DEF Available, Live
<1>3. PICK r \in Roots : l \in Tree(heap, r) /\ m_nv[o] # r
  BY <1>1, <1>2 DEF Within
<1> QED
  BY <1>1, <1>3, TreesApart DEF IInv

\* A call that changes no list.
LEMMA SameHeapIsolated ==
  ASSUME IInv, NEW op, NEW outcome, NEW on, Ends(op, outcome, on), heap' = heap,
         \A o \in Owners \ on : m_nv'[o] = m_nv[o]
  PROVE  Isolated
BY EndIsolated

LEMMA ThrowIsolated ==
  ASSUME IInv, NEW op, NEW e, NEW on, Throws(op, e, on)
  PROVE  Isolated
BY SameHeapIsolated DEF Throws

LEMMA ErrorIsolated ==
  ASSUME IInv, NEW op, NEW x, Rejects(op, x) \/ throw_if_error(op, x) \/ throw_if_null(op, x)
  PROVE  Isolated
BY ThrowIsolated DEF Rejects, throw_if_error, throw_if_null

LEMMA NotFoundIsolated ==
  ASSUME IInv, NEW op, NEW x, NEW k, NotFound(op, x, k)
  PROVE  Isolated
BY ThrowIsolated DEF NotFound

\* What an object owns is out of the reach of calls on other objects.
LEMMA OwnWithin ==
  ASSUME IInv, NEW on, NEW o \in Owners, o \in on, Points(o)
  PROVE  /\ m_nv[o] \in Lists /\ Within(on, m_nv[o])
         /\ \A l \in Tree(heap, m_nv[o]) : Within(on, l)
<1>1. m_nv[o] \in Lists /\ m_nv[o] \in Roots /\ m_nv[o] \in Tree(heap, m_nv[o])
  BY RootsAreLists, TreeProperties DEF Points
<1>2. \A q \in Owners \ on : m_nv[q] # m_nv[o]
  BY DEF IInv, Handles
<1> QED
  BY <1>1, <1>2 DEF Within

\* What the caller owns is out of the reach of all of them.
LEMMA RawWithin ==
  ASSUME IInv, NEW on, NEW l \in raw
  PROVE  \A m \in Tree(heap, l) : Within(on, m)
BY RootsAreLists DEF Within, IInv, Handles

\* What is nested in a list before its heap is copied or loses a link.
LEMMA NestedBefore ==
  ASSUME IInv, NEW g, NEW root \in Lists, Live(heap, root),
         \A m \in Lists : m \notin Available(heap) => g[m] = heap[m]
  PROVE  Tree(g, root) \subseteq Tree(heap, root)
<1>1. \A m \in Tree(heap, root) : m \in Lists /\ m \notin Available(heap)
  BY TreeLive, TreeProperties DEF IInv, Available, Live
<1> QED
  BY <1>1, TreeShrinks DEF IsKid

LEMMA CloneWithin ==
  ASSUME IInv, NEW x, Usable(x), Ready(x), NEW p \in Placements(heap, m_nv[x])
  PROVE  \A m \in Lists : m \notin Available(heap) => nvlist_clone(heap, p)[m] = heap[m]
<1>1. m_nv[x] \in Lists /\ Live(heap, m_nv[x])
  BY DEF Usable, Ready, Points
<1>2. Roots \in SUBSET Lists /\ WellFormed(heap, Roots)
  BY RootsAreLists DEF IInv
<1> QED
  BY <1>1, <1>2, CloneKeeps

LEMMA DestroyedWithin ==
  ASSUME NEW h, NEW l \in Lists, NEW m \in Lists, m \notin Tree(h, l)
  PROVE  nvlist_destroy(h, l)[m] = h[m]
BY DEF nvlist_destroy

LEMMA FreshIsolated ==
  ASSUME IInv, NEW o \in Owners, create(o) \/ receive(o)
  PROVE  Isolated
<1>1. ASSUME NEW op, NEW l \in Available(heap), heap' = nvlist_create(heap, l),
             m_nv' = [m_nv EXCEPT ![o] = l], Ends(op, "ok", {o})
      PROVE  Isolated
  <2>1. \A m \in Lists : heap'[m] = heap[m] \/ Within({o}, m)
    BY <1>1 DEF nvlist_create, Within, IInv, TypeOK, Heaps, Available
  <2> QED
    BY <1>1, <2>1, EndIsolated DEF IInv, TypeOK, Objects
<1> QED
  BY <1>1, ThrowIsolated DEF create, receive

LEMMA CopyIsolated ==
  ASSUME IInv, NEW o \in Owners, NEW x \in Objects, copy_construct(o, x)
  PROVE  Isolated
<1>1. ASSUME Usable(x), Ready(x), NEW p \in Placements(heap, m_nv[x]),
             heap' = nvlist_clone(heap, p), m_nv' = [m_nv EXCEPT ![o] = p[m_nv[x]]],
             Ends("copy", "ok", {o})
      PROVE  Isolated
  <2>1. \A m \in Lists : heap'[m] = heap[m] \/ Within({o}, m)
    BY <1>1, CloneWithin DEF Within
  <2> QED
    BY <1>1, <2>1, EndIsolated DEF IInv, TypeOK, Objects
<1> QED
  BY <1>1, ErrorIsolated, ThrowIsolated DEF copy_construct

LEMMA AssignViewIsolated ==
  ASSUME IInv, NEW o \in Owners, NEW x \in Objects, assign_view(o, x)
  PROVE  Isolated
<1>1. ASSUME Usable(o), Usable(x), Ready(x), NEW p \in Placements(heap, m_nv[x]),
             heap' = free_nv(nvlist_clone(heap, p), o),
             m_nv' = [m_nv EXCEPT ![o] = p[m_nv[x]]], Ends("assign_copy", "ok", {o})
      PROVE  Isolated
  <2> DEFINE copied == nvlist_clone(heap, p)
  <2>1. \A m \in Lists : m \notin Available(heap) => copied[m] = heap[m]
    BY <1>1, CloneWithin
  <2> HIDE DEF copied
  <2>2. CASE Points(o)
    <3>1. m_nv[o] \in Lists /\ heap' = nvlist_destroy(copied, m_nv[o])
      BY <1>1, <2>2 DEF free_nv, Owning, Points, copied
    <3>2. Tree(copied, m_nv[o]) \subseteq Tree(heap, m_nv[o])
      BY <1>1, <2>1, <2>2, <3>1, NestedBefore DEF Usable
    <3>3. \A m \in Tree(heap, m_nv[o]) : Within({o}, m)
      BY <2>2, OwnWithin
    <3>4. \A m \in Lists : heap'[m] = copied[m] \/ Within({o}, m)
      BY <3>1, <3>2, <3>3, DestroyedWithin
    <3>5. \A m \in Lists : heap'[m] = heap[m] \/ Within({o}, m)
      BY <2>1, <3>4 DEF Within
    <3> QED
      BY <1>1, <3>5, EndIsolated DEF IInv, TypeOK, Objects
  <2>3. CASE ~ Points(o)
    <3>1. \A m \in Lists : heap'[m] = heap[m] \/ Within({o}, m)
      BY <1>1, <2>1, <2>3 DEF free_nv, Within, copied
    <3> QED
      BY <1>1, <3>1, EndIsolated DEF IInv, TypeOK, Objects
  <2> QED
    BY <2>2, <2>3
<1> QED
  BY <1>1, ErrorIsolated, ThrowIsolated DEF assign_view

LEMMA DestroyIsolated ==
  ASSUME IInv, NEW x \in Objects, destroy(x)
  PROVE  Isolated
<1>1. \A o \in Owners \ {x} : m_nv'[o] = m_nv[o]
  BY DEF destroy, IInv, TypeOK, Objects
<1>2. CASE Points(x) /\ x \in Owners
  <2>1. \A m \in Lists : heap'[m] = heap[m] \/ Within({x}, m)
    BY <1>2, DestroyedWithin, OwnWithin DEF destroy, free_nv, Owning, Points
  <2> QED
    BY <1>1, <2>1, EndIsolated DEF destroy
<1>3. CASE ~ (Points(x) /\ x \in Owners)
  BY <1>1, <1>3, SameHeapIsolated DEF destroy, free_nv, Owning
<1> QED
  BY <1>2, <1>3

\* The error of the list a call is made on.
LEMMA SetErrorWithin ==
  ASSUME IInv, NEW h \in Heaps, NEW o \in Owners, Ready(o), NEW on, o \in on,
         \A m \in Lists : h[m] = heap[m] \/ Within(on, m)
  PROVE  \A m \in Lists : nvlist_set_error(h, m_nv[o])[m] = heap[m] \/ Within(on, m)
<1>1. Within(on, m_nv[o])
  BY OwnWithin DEF Ready
<1> QED
  BY <1>1 DEF nvlist_set_error, Heaps

LEMMA FailIsolated ==
  ASSUME IInv, NEW op, NEW e, NEW o \in Owners, Ready(o),
         heap' = nvlist_set_error(heap, m_nv[o]), UNCHANGED <<m_nv, raw>>,
         Ends(op, e, {o})
  PROVE  Isolated
<1>1. \A m \in Lists : heap'[m] = heap[m] \/ Within({o}, m)
  BY SetErrorWithin DEF IInv, TypeOK
<1> QED
  BY <1>1, EndIsolated

LEMMA AddNvlistIsolated ==
  ASSUME IInv, NEW o \in Owners, NEW k \in Keys, NEW x \in Objects, add_nvlist(o, k, x)
  PROVE  Isolated
<1>1. ASSUME Ready(o), Usable(x), Ready(x), NEW p \in Placements(heap, m_nv[x]),
             heap' = Attach(nvlist_clone(heap, p), m_nv[o], k, p[m_nv[x]]),
             UNCHANGED <<m_nv, raw>>, Ends("add_nvlist", "ok", {o})
      PROVE  Isolated
  <2>1. Within({o}, m_nv[o]) /\ m_nv[o] \in Lists
    BY <1>1, OwnWithin DEF Ready
  <2>2. \A m \in Lists : m # m_nv[o] => heap'[m] = nvlist_clone(heap, p)[m]
    BY <1>1 DEF Attach, nvlist_clone
  <2>3. \A m \in Lists : heap'[m] = heap[m] \/ Within({o}, m)
    BY <1>1, <2>1, <2>2, CloneWithin DEF Within
  <2> QED
    BY <1>1, <2>3, EndIsolated
<1> QED
  BY <1>1, ErrorIsolated, FailIsolated DEF add_nvlist, Fails

LEMMA MovedWithin ==
  ASSUME IInv, NEW o \in Owners, NEW k \in Keys, Ready(o), NEW on, o \in on,
         NEW c \in Lists \cup {Null}, c \in Lists => c \in Roots,
         \A m \in Lists : c \in Lists /\ m \in Tree(heap, c) => Within(on, m),
         heap' \in moved_nvlist(o, k, c)
  PROVE  \A m \in Lists : heap'[m] = heap[m] \/ Within(on, m)
<1>1. CASE heap' = nvlist_set_error(heap, m_nv[o])
  BY <1>1, SetErrorWithin DEF IInv, TypeOK
<1>2. CASE c # Null /\ heap' = nvlist_set_error(nvlist_destroy(heap, c), m_nv[o])
  <2>1. \A m \in Lists : nvlist_destroy(heap, c)[m] = heap[m] \/ Within(on, m)
    BY <1>2, DestroyedWithin
  <2>2. nvlist_destroy(heap, c) \in Heaps
    BY <1>2, DestroyKeeps, RootsAreLists DEF IInv, WellFormed
  <2> QED
    BY <1>2, <2>1, <2>2, SetErrorWithin
<1>3. CASE heap' = Attach(heap, m_nv[o], k, c)
  <2>1. Within(on, m_nv[o])
    BY OwnWithin DEF Ready
  <2> QED
    BY <1>3, <2>1 DEF Attach, IInv, TypeOK, Heaps
<1> QED
  BY <1>1, <1>2, <1>3 DEF moved_nvlist

LEMMA MoveNvlistIsolated ==
  ASSUME IInv, NEW o \in Owners, NEW k \in Keys, NEW p \in Owners, move_nvlist(o, k, p)
  PROVE  Isolated
<1>1. ASSUME Usable(p), Ready(o), heap' \in moved_nvlist(o, k, m_nv[p]),
             m_nv' = [m_nv EXCEPT ![p] = Null], Ends("move_nvlist", "ok", {o, p})
      PROVE  Isolated
  <2>1. m_nv[p] \in Lists \cup {Null} /\ (m_nv[p] \in Lists => m_nv[p] \in Roots)
    BY <1>1, RootsAreLists DEF Usable, Born, IInv, TypeOK, Objects, Points
  <2>2. \A m \in Lists : heap'[m] = heap[m] \/ Within({o, p}, m)
    BY <1>1, <2>1, MovedWithin, OwnWithin DEF Points
  <2> QED
    BY <1>1, <2>2, EndIsolated DEF IInv, TypeOK, Objects
<1> QED
  BY <1>1, ErrorIsolated DEF move_nvlist

LEMMA MoveRawNvlistIsolated ==
  ASSUME IInv, NEW o \in Owners, NEW k \in Keys, move_raw_nvlist(o, k)
  PROVE  Isolated
<1>1. ASSUME Ready(o), NEW c \in raw \cup {Null}, heap' \in moved_nvlist(o, k, c),
             m_nv' = m_nv, Ends("move_nvlist", "ok", {o})
      PROVE  Isolated
  <2>1. c \in Lists \cup {Null} /\ (c \in Lists => c \in Roots /\ c \in raw)
    BY RootsAreLists, NullAssumption
  <2>2. \A m \in Lists : heap'[m] = heap[m] \/ Within({o}, m)
    BY <1>1, <2>1, MovedWithin, RawWithin
  <2> QED
    BY <1>1, <2>2, EndIsolated
<1> QED
  BY <1>1, ErrorIsolated DEF move_raw_nvlist

LEMMA TakeNvlistIsolated ==
  ASSUME IInv, NEW o \in Owners, NEW k \in Keys, NEW p \in Owners, take_nvlist(o, k, p)
  PROVE  Isolated
<1>1. ASSUME Ready(o), heap' = Detach(heap, m_nv[o], k),
             m_nv' = [m_nv EXCEPT ![p] = heap[m_nv[o]].kids[k]],
             Ends("take_nvlist", "ok", {o, p})
      PROVE  Isolated
  <2>1. Within({o, p}, m_nv[o])
    BY <1>1, OwnWithin DEF Ready
  <2>2. \A m \in Lists : heap'[m] = heap[m] \/ Within({o, p}, m)
    BY <1>1, <2>1 DEF Detach, IInv, TypeOK, Heaps
  <2> QED
    BY <1>1, <2>2, EndIsolated DEF IInv, TypeOK, Objects
<1> QED
  BY <1>1, ErrorIsolated, NotFoundIsolated DEF take_nvlist

LEMMA FreeNvlistIsolated ==
  ASSUME IInv, NEW o \in Owners, NEW k \in Keys, free_nvlist(o, k)
  PROVE  Isolated
<1>1. ASSUME Ready(o), heap[m_nv[o]].kids[k] # Null,
             heap' = nvlist_destroy(Detach(heap, m_nv[o], k), heap[m_nv[o]].kids[k]),
             UNCHANGED <<m_nv, raw>>, Ends("free_nvlist", "ok", {o})
      PROVE  Isolated
  <2> DEFINE l == m_nv[o]
             c == heap[l].kids[k]
             detached == Detach(heap, l, k)
  <2>1. l \in Lists /\ c \in Lists
    BY <1>1 DEF Ready, Points, IInv, TypeOK, Heaps, Cells
  <2>2. /\ \A m \in Lists : m # l => detached[m] = heap[m]
        /\ \A m, d \in Lists : IsKid(detached, m, d) => IsKid(heap, m, d)
    BY NullAssumption DEF Detach, IsKid, IInv, TypeOK, Heaps, Cells
  <2>3. l \in Tree(heap, l) /\ c \in Tree(heap, l) /\ Closed(heap, Tree(heap, l))
        /\ Tree(heap, l) \subseteq Lists
    BY <2>1, TreeProperties DEF Closed, IsKid
  <2> HIDE DEF detached, c
  <2>4. Tree(detached, c) \subseteq Tree(heap, l)
    <3>1. Closed(detached, Tree(heap, l))
      BY <2>2, <2>3 DEF Closed
    <3> QED
      BY <2>3, <3>1 DEF Tree
  <2>5. heap' = nvlist_destroy(detached, c)
    BY <1>1 DEF detached, c
  <2>6. \A m \in Lists : heap'[m] = heap[m] \/ m \in Tree(heap, l)
    BY <2>1, <2>2, <2>3, <2>4, <2>5, DestroyedWithin
  <2>7. \A m \in Lists : heap'[m] = heap[m] \/ Within({o}, m)
    BY <1>1, <2>6, OwnWithin DEF Ready
  <2> QED
    BY <1>1, <2>7, EndIsolated
<1> QED
  BY <1>1, ErrorIsolated, NotFoundIsolated DEF free_nvlist

LEMMA XferIsolated ==
  ASSUME IInv, NEW o \in Owners, NEW p \in Owners, xfer(o, p)
  PROVE  Isolated
<1> DEFINE sent == nvlist_destroy(heap, m_nv[o])
<1>1. ASSUME Ready(o)
      PROVE  \A m \in Lists : sent[m] = heap[m] \/ Within({o, p}, m)
  BY <1>1, DestroyedWithin, OwnWithin DEF Ready, Points
<1>2. ASSUME Ready(o), heap' = sent, m_nv' = [m_nv EXCEPT ![o] = Null],
             Ends("xfer", "system_error", {o, p})
      PROVE  Isolated
  BY <1>1, <1>2, EndIsolated DEF IInv, TypeOK, Objects
<1>3. ASSUME Ready(o), NEW l \in Available(heap), heap' = nvlist_create(sent, l),
             m_nv' = [m_nv EXCEPT ![o] = Null, ![p] = l], Ends("xfer", "ok", {o, p})
      PROVE  Isolated
  <2>1. \A m \in Lists : m # l => heap'[m] = sent[m]
    BY <1>3 DEF nvlist_create, nvlist_destroy
  <2>2. \A m \in Lists : heap'[m] = heap[m] \/ Within({o, p}, m)
    BY <1>1, <1>3, <2>1 DEF Within
  <2> QED
    BY <1>3, <2>2, EndIsolated DEF IInv, TypeOK, Objects
<1> QED
  BY <1>2, <1>3, ErrorIsolated DEF xfer

\* A const_nv_list owns nothing.
LEMMA ViewIsolated ==
  ASSUME IInv, NEW v \in Views, ViewStep(v)
  PROVE  Isolated
<1>1. ASSUME NEW op, NEW on, NEW l, heap' = heap, m_nv' = [m_nv EXCEPT ![v] = l],
             Ends(op, "ok", on)
      PROVE  Isolated
  BY <1>1, SameHeapIsolated, ObjectsAssumption DEF IInv, TypeOK, Objects
<1>2. CASE view_construct(v)
  BY <1>1, <1>2 DEF view_construct
<1>3. ASSUME NEW x \in Objects, view_assign(v, x)
      PROVE  Isolated
  BY <1>1, <1>3 DEF view_assign
<1>4. ASSUME NEW x \in Objects, NEW k \in Keys, get_nvlist(x, k, v)
      PROVE  Isolated
  BY <1>1, <1>4, ErrorIsolated, NotFoundIsolated DEF get_nvlist
<1> QED
  BY <1>2, <1>3, <1>4 DEF ViewStep

LEMMA LibnvIsolated ==
  ASSUME IInv, libnv_create \/ libnv_destroy
  PROVE  Isolated
<1>1. ASSUME NEW l \in Available(heap), NEW e \in BOOLEAN,
             heap' = [nvlist_create(heap, l) EXCEPT ![l].err = e], m_nv' = m_nv,
             Ends("libnv", "ok", {})
      PROVE  Isolated
  <2>1. \A m \in Lists : m # l => heap'[m] = heap[m]
    BY <1>1 DEF nvlist_create, IInv, TypeOK, Heaps
  <2> QED
    BY <1>1, <2>1, EndIsolated DEF Within
<1>2. ASSUME NEW l \in raw, heap' = nvlist_destroy(heap, l), m_nv' = m_nv,
             Ends("libnv", "ok", {})
      PROVE  Isolated
  <2>1. l \in Lists
    BY RootsAreLists
  <2>2. \A m \in Lists : heap'[m] = heap[m] \/ Within({}, m)
    BY <1>2, <2>1, DestroyedWithin, RawWithin
  <2> QED
    BY <1>2, <2>2, EndIsolated
<1> QED
  BY <1>1, <1>2 DEF libnv_create, libnv_destroy

LEMMA NextIsolated ==
  ASSUME IInv, Next
  PROVE  Isolated
<1>1. ASSUME NEW o \in Owners, OwnerStep(o) PROVE Isolated
  <2>1. ASSUME adopt(o) PROVE Isolated
    BY <2>1, ThrowIsolated, SameHeapIsolated DEF adopt, IInv, TypeOK, Objects
  <2>2. ASSUME release(o) PROVE Isolated
    BY <2>2, SameHeapIsolated DEF release, IInv, TypeOK, Objects
  <2>3. ASSUME set_error(o) PROVE Isolated
    BY <2>3, ErrorIsolated, FailIsolated DEF set_error
  <2>4. ASSUME NEW p \in Owners, move_construct(o, p) \/ assign_move(o, p) PROVE Isolated
    BY <2>4, SameHeapIsolated DEF move_construct, assign_move, IInv, TypeOK, Objects
  <2>5. ASSUME NEW p \in Owners, assign_copy(o, p) PROVE Isolated
    BY <2>5, SameHeapIsolated, AssignViewIsolated DEF assign_copy, Objects
  <2> QED
    BY <1>1, <2>1, <2>2, <2>3, <2>4, <2>5,
       FreshIsolated, CopyIsolated, AssignViewIsolated, XferIsolated
    DEF OwnerStep, Objects
<1>2. ASSUME NEW o \in Owners, NEW k \in Keys, NestingStep(o, k) PROVE Isolated
  BY <1>2, AddNvlistIsolated, MoveNvlistIsolated, TakeNvlistIsolated,
     MoveRawNvlistIsolated, FreeNvlistIsolated DEF NestingStep
<1> QED
  BY <1>1, <1>2, ViewIsolated, DestroyIsolated, LibnvIsolated DEF Next

\* A call changes neither the pointer nor, at any depth, the lists of an object
\* it is not made on: copies are deep, and nothing is shared by two objects.
THEOREM IsolationHolds == Spec => Isolation
<1>1. ASSUME IInv, [Next]_vars PROVE [Isolated]_vars
  BY <1>1, NextIsolated
<1> QED
  BY <1>1, Invariance, PTL DEF Spec, Isolation, Isolated
-----------------------------------------------------------------------------
(* Which calls lose a list *)

NoNewLeak == Leaked' \subseteq Leaked

LEMMA LeakedLists == Leaked = Outermost(heap) \ Roots
BY DEF Leaked, Outermost, Roots

\* A call may give lists an owner, or leave one outermost that has an owner.
LEMMA NoLeakStep ==
  ASSUME NEW G, NEW K, Outermost(heap') \subseteq (Outermost(heap) \cup G) \ K,
         (Roots \cup G) \ K \subseteq Roots'
  PROVE  NoNewLeak
<1>1. Leaked' = Outermost(heap') \ Roots'
  BY DEF Leaked, Outermost, Roots
<1> QED
  BY <1>1, LeakedLists DEF NoNewLeak

\* Nothing changes but who owns the same lists.
LEMMA SameHeapNoLeak ==
  ASSUME heap' = heap, Roots \subseteq Roots'
  PROVE  NoNewLeak
<1>1. Outermost(heap') \subseteq (Outermost(heap) \cup {}) \ {}
  OBVIOUS
<1>2. (Roots \cup {}) \ {} \subseteq Roots'
  OBVIOUS
<1> QED
  BY <1>1, <1>2, NoLeakStep

LEMMA ThrowNoLeak ==
  ASSUME NEW op, NEW e, NEW on, Throws(op, e, on)
  PROVE  NoNewLeak
<1>1. heap' = heap /\ Roots' = Roots
  BY DEF Throws, Roots, Root
<1> QED
  BY <1>1, SameHeapNoLeak

LEMMA ErrorNoLeak ==
  ASSUME NEW op, NEW x, Rejects(op, x) \/ throw_if_error(op, x) \/ throw_if_null(op, x)
  PROVE  NoNewLeak
BY ThrowNoLeak DEF Rejects, throw_if_error, throw_if_null

LEMMA NotFoundNoLeak ==
  ASSUME NEW op, NEW x, NEW k, NotFound(op, x, k)
  PROVE  NoNewLeak
BY ThrowNoLeak DEF NotFound

\* An object that gets a list becomes its owner; the others keep theirs.
LEMMA OwnerGained ==
  ASSUME IInv, NEW o \in Owners, NEW l \in Lists,
         m_nv' = [m_nv EXCEPT ![o] = l], raw \subseteq raw'
  PROVE  (Roots \cup {l}) \ ({m_nv[o]} \ {l}) \subseteq Roots'
BY DEF IInv, TypeOK, Handles, Roots, Root, Points, Objects

\* An object that gives up its pointer leaves the others theirs.
LEMMA OwnerLost ==
  ASSUME IInv, NEW o \in Owners, NEW l,
         m_nv' = [m_nv EXCEPT ![o] = l], raw \subseteq raw'
  PROVE  Roots \ {m_nv[o]} \subseteq Roots'
BY DEF IInv, TypeOK, Handles, Roots, Root, Points, Objects

LEMMA FreshNoLeak ==
  ASSUME IInv, NEW o \in Owners, create(o) \/ receive(o)
  PROVE  NoNewLeak
<1>1. ASSUME NEW l \in Available(heap), heap' = nvlist_create(heap, l),
             m_nv' = [m_nv EXCEPT ![o] = l], raw' = raw, Unconstructed(o)
      PROVE  NoNewLeak
  <2>1. Outermost(heap') \subseteq (Outermost(heap) \cup {l}) \ {}
    BY <1>1, CreateOutermost, RootsAreLists DEF IInv
  <2>2. (Roots \cup {l}) \ {} \subseteq Roots'
    BY <1>1, OwnerGained, RootsAreLists, UnbornAssumption DEF Unconstructed
  <2> QED
    BY <2>1, <2>2, NoLeakStep
<1> QED
  BY <1>1, ThrowNoLeak DEF create, receive

LEMMA CloneLeaves ==
  ASSUME IInv, NEW x, Usable(x), Ready(x), NEW p \in Placements(heap, m_nv[x])
  PROVE  /\ p[m_nv[x]] \in Available(heap)
         /\ Outermost(nvlist_clone(heap, p)) \subseteq Outermost(heap) \cup {p[m_nv[x]]}
         /\ nvlist_clone(heap, p) \in Heaps
<1>1. m_nv[x] \in Lists /\ Live(heap, m_nv[x])
  BY DEF Usable, Ready, Points
<1>2. Roots \in SUBSET Lists /\ WellFormed(heap, Roots)
  BY RootsAreLists DEF IInv
<1> QED
  BY <1>1, <1>2, CloneKeeps, CloneOutermost DEF WellFormed

LEMMA CopyNoLeak ==
  ASSUME IInv, NEW o \in Owners, NEW x \in Objects, copy_construct(o, x)
  PROVE  NoNewLeak
<1>1. ASSUME Usable(x), Ready(x), NEW p \in Placements(heap, m_nv[x]), Unconstructed(o),
             heap' = nvlist_clone(heap, p), raw' = raw,
             m_nv' = [m_nv EXCEPT ![o] = p[m_nv[x]]]
      PROVE  NoNewLeak
  <2> DEFINE n == p[m_nv[x]]
  <2>1. n \in Lists /\ Outermost(heap') \subseteq (Outermost(heap) \cup {n}) \ {}
    BY <1>1, CloneLeaves, RootsAreLists
  <2>2. (Roots \cup {n}) \ {} \subseteq Roots'
    BY <1>1, <2>1, OwnerGained, RootsAreLists, UnbornAssumption DEF Unconstructed
  <2> QED
    BY <2>1, <2>2, NoLeakStep
<1> QED
  BY <1>1, ErrorNoLeak, ThrowNoLeak DEF copy_construct

\* The object that is copied to frees what it had.
LEMMA AssignViewNoLeak ==
  ASSUME IInv, NEW o \in Owners, NEW x \in Objects, assign_view(o, x)
  PROVE  NoNewLeak
<1>1. ASSUME Usable(o), Usable(x), Ready(x), NEW p \in Placements(heap, m_nv[x]),
             heap' = free_nv(nvlist_clone(heap, p), o), raw' = raw,
             m_nv' = [m_nv EXCEPT ![o] = p[m_nv[x]]]
      PROVE  NoNewLeak
  <2> DEFINE n == p[m_nv[x]]
             old == m_nv[o]
             copied == nvlist_clone(heap, p)
  <2>1. n \in Available(heap) /\ Outermost(copied) \subseteq Outermost(heap) \cup {n}
    BY <1>1, CloneLeaves
  <2>2. n \in Lists /\ n \notin Roots
    BY <2>1, RootsAreLists
  <2>3. (Roots \cup {n}) \ ({old} \ {n}) \subseteq Roots'
    BY <1>1, <2>2, OwnerGained
  <2> HIDE DEF n, copied
  <2>4. CASE Points(o)
    <3>1. old \in Lists /\ old \in Roots /\ heap' = nvlist_destroy(copied, old)
      BY <1>1, <2>4, RootsAreLists DEF free_nv, Owning, Points, copied
    <3>2. Outermost(heap') \subseteq (Outermost(heap) \cup {n}) \ {old}
      BY <2>1, <3>1, DestroyOutermost
    <3>3. (Roots \cup {n}) \ {old} \subseteq Roots'
      BY <2>2, <2>3, <3>1
    <3> QED
      BY <3>2, <3>3, NoLeakStep
  <2>5. CASE ~ Points(o)
    <3>1. Outermost(heap') \subseteq (Outermost(heap) \cup {n}) \ {}
      BY <1>1, <2>1, <2>5 DEF free_nv, copied
    <3>2. (Roots \cup {n}) \ {} \subseteq Roots'
      BY <2>2, <2>3, <2>5, RootsAreLists DEF Points
    <3> QED
      BY <3>1, <3>2, NoLeakStep
  <2> QED
    BY <2>4, <2>5
<1> QED
  BY <1>1, ErrorNoLeak, ThrowNoLeak DEF assign_view

LEMMA DestroyNoLeak ==
  ASSUME IInv, NEW x \in Objects, destroy(x)
  PROVE  NoNewLeak
<1>1. CASE Points(x) /\ x \in Owners
  <2>1. m_nv[x] \in Lists /\ heap' = nvlist_destroy(heap, m_nv[x])
    BY <1>1 DEF destroy, free_nv, Owning, Points
  <2>2. Outermost(heap') \subseteq (Outermost(heap) \cup {}) \ {m_nv[x]}
    BY <2>1, DestroyOutermost
  <2>3. (Roots \cup {}) \ {m_nv[x]} \subseteq Roots'
    BY <1>1, OwnerLost DEF destroy
  <2> QED
    BY <2>2, <2>3, NoLeakStep
<1>2. CASE ~ (Points(x) /\ x \in Owners)
  <2>1. heap' = heap
    BY <1>2 DEF destroy, free_nv, Owning
  <2>2. Roots \subseteq Roots'
    BY <1>2, ObjectsAssumption DEF destroy, Roots, Root, Points, Objects, IInv, TypeOK
  <2> QED
    BY <2>1, <2>2, SameHeapNoLeak
<1> QED
  BY <1>1, <1>2

LEMMA FailNoLeak ==
  ASSUME IInv, NEW o, Ready(o), heap' = nvlist_set_error(heap, m_nv[o]),
         UNCHANGED <<m_nv, raw>>
  PROVE  NoNewLeak
<1>1. Outermost(heap') \subseteq (Outermost(heap) \cup {}) \ {}
  BY SetErrorOutermost DEF Ready, Points, IInv, TypeOK
<1>2. (Roots \cup {}) \ {} \subseteq Roots'
  BY DEF Roots, Root
<1> QED
  BY <1>1, <1>2, NoLeakStep

LEMMA AddNvlistNoLeak ==
  ASSUME IInv, NEW o \in Owners, NEW k \in Keys, NEW x \in Objects, add_nvlist(o, k, x)
  PROVE  NoNewLeak
<1>1. ASSUME Ready(o), Usable(x), Ready(x), heap[m_nv[o]].kids[k] = Null,
             NEW p \in Placements(heap, m_nv[x]),
             heap' = Attach(nvlist_clone(heap, p), m_nv[o], k, p[m_nv[x]]),
             UNCHANGED <<m_nv, raw>>
      PROVE  NoNewLeak
  <2> DEFINE n == p[m_nv[x]]
             copied == nvlist_clone(heap, p)
  <2>1. /\ n \in Available(heap) /\ copied \in Heaps
        /\ Outermost(copied) \subseteq Outermost(heap) \cup {n}
    BY <1>1, CloneLeaves
  <2>2. m_nv[o] \in Lists /\ m_nv[o] \notin Available(heap) /\ n \in Lists /\ n \notin Roots
    BY <1>1, <2>1, RootsAreLists DEF Ready, Points
  <2>3. copied[m_nv[o]].kids[k] = Null
    BY <1>1, <2>2, CloneWithin
  <2> HIDE DEF n, copied
  <2>4. heap' = Attach(copied, m_nv[o], k, n)
    BY <1>1 DEF n, copied
  <2>5. Outermost(heap') \subseteq (Outermost(heap) \cup {n}) \ {n}
    BY <2>1, <2>2, <2>3, <2>4, AttachOutermost
  <2>6. (Roots \cup {n}) \ {n} \subseteq Roots'
    BY <1>1 DEF Roots, Root
  <2> QED
    BY <2>5, <2>6, NoLeakStep
<1> QED
  BY <1>1, ErrorNoLeak, FailNoLeak DEF add_nvlist, Fails

\* A list handed to nvlist_move_nvlist() is stored or destroyed.
LEMMA MovedNoLeak ==
  ASSUME IInv, NEW o \in Owners, NEW k \in Keys, Ready(o), NEW c \in Lists \cup {Null},
         c \in Lists => c \in Roots,
         heap' \in moved_nvlist(o, k, c), Roots \ {c} \subseteq Roots'
  PROVE  NoNewLeak
<1>1. m_nv[o] \in Lists /\ heap \in Heaps
  BY DEF Ready, Points, IInv, TypeOK
<1>2. Outermost(heap') \subseteq (Outermost(heap) \cup {}) \ {c}
  <2>1. CASE c = Null
    <3>1. Outermost(heap') \subseteq Outermost(heap)
      BY <1>1, <2>1, SetErrorOutermost DEF moved_nvlist
    <3> QED
      BY <2>1, <3>1, NullAssumption DEF Outermost
  <2>2. CASE c # Null /\ heap' = nvlist_set_error(nvlist_destroy(heap, c), m_nv[o])
    <3>1. nvlist_destroy(heap, c) \in Heaps
      BY <2>2, DestroyKeeps, RootsAreLists DEF IInv, WellFormed
    <3> QED
      BY <1>1, <2>2, <3>1, SetErrorOutermost, DestroyOutermost
  <2>3. CASE c # Null /\ heap[m_nv[o]].kids[k] = Null /\ heap' = Attach(heap, m_nv[o], k, c)
    BY <1>1, <2>3, AttachOutermost
  <2> QED
    BY <2>1, <2>2, <2>3 DEF moved_nvlist
<1> QED
  BY <1>2, NoLeakStep

LEMMA MoveNvlistNoLeak ==
  ASSUME IInv, NEW o \in Owners, NEW k \in Keys, NEW p \in Owners, move_nvlist(o, k, p)
  PROVE  NoNewLeak
<1>1. ASSUME Usable(p), Ready(o), heap' \in moved_nvlist(o, k, m_nv[p]),
             m_nv' = [m_nv EXCEPT ![p] = Null], raw' = raw
      PROVE  NoNewLeak
  <2>1. m_nv[p] \in Lists \cup {Null} /\ (m_nv[p] \in Lists => m_nv[p] \in Roots)
    BY <1>1, RootsAreLists DEF Usable, Born, IInv, TypeOK, Objects, Points
  <2>2. Roots \ {m_nv[p]} \subseteq Roots'
    BY <1>1, OwnerLost
  <2> QED
    BY <1>1, <2>1, <2>2, MovedNoLeak
<1> QED
  BY <1>1, ErrorNoLeak DEF move_nvlist

LEMMA MoveRawNvlistNoLeak ==
  ASSUME IInv, NEW o \in Owners, NEW k \in Keys, move_raw_nvlist(o, k)
  PROVE  NoNewLeak
<1>1. ASSUME Ready(o), NEW c \in raw \cup {Null}, heap' \in moved_nvlist(o, k, c),
             m_nv' = m_nv, raw' = raw \ {c}
      PROVE  NoNewLeak
  <2>1. c \in Lists \cup {Null} /\ (c \in Lists => c \in Roots)
    BY RootsAreLists, NullAssumption
  <2>2. Roots \ {c} \subseteq Roots'
    BY <1>1 DEF Roots, Root
  <2> QED
    BY <1>1, <2>1, <2>2, MovedNoLeak
<1> QED
  BY <1>1, ErrorNoLeak DEF move_raw_nvlist

LEMMA TakeNvlistNoLeak ==
  ASSUME IInv, NEW o \in Owners, NEW k \in Keys, NEW p \in Owners, take_nvlist(o, k, p)
  PROVE  NoNewLeak
<1>1. ASSUME Ready(o), Unconstructed(p), heap[m_nv[o]].kids[k] # Null,
             heap' = Detach(heap, m_nv[o], k),
             m_nv' = [m_nv EXCEPT ![p] = heap[m_nv[o]].kids[k]], raw' = raw
      PROVE  NoNewLeak
  <2> DEFINE c == heap[m_nv[o]].kids[k]
  <2>1. m_nv[o] \in Lists /\ c \in Lists /\ heap \in Heaps
    BY <1>1 DEF Ready, Points, IInv, TypeOK, Heaps, Cells
  <2>2. Outermost(heap') \subseteq (Outermost(heap) \cup {c}) \ {}
    BY <1>1, <2>1, DetachOutermost
  <2>3. (Roots \cup {c}) \ {} \subseteq Roots'
    BY <1>1, <2>1, OwnerGained, RootsAreLists, UnbornAssumption DEF Unconstructed
  <2> QED
    BY <2>2, <2>3, NoLeakStep
<1> QED
  BY <1>1, ErrorNoLeak, NotFoundNoLeak DEF take_nvlist

LEMMA FreeNvlistNoLeak ==
  ASSUME IInv, NEW o \in Owners, NEW k \in Keys, free_nvlist(o, k)
  PROVE  NoNewLeak
<1>1. ASSUME Ready(o), heap[m_nv[o]].kids[k] # Null,
             heap' = nvlist_destroy(Detach(heap, m_nv[o], k), heap[m_nv[o]].kids[k]),
             UNCHANGED <<m_nv, raw>>
      PROVE  NoNewLeak
  <2> DEFINE c == heap[m_nv[o]].kids[k]
  <2>1. m_nv[o] \in Lists /\ c \in Lists /\ heap \in Heaps
    BY <1>1 DEF Ready, Points, IInv, TypeOK, Heaps, Cells
  <2>2. Outermost(heap') \subseteq (Outermost(heap) \cup {c}) \ {c}
    BY <1>1, <2>1, DetachOutermost, DestroyOutermost
  <2>3. (Roots \cup {c}) \ {c} \subseteq Roots'
    BY <1>1 DEF Roots, Root
  <2> QED
    BY <2>2, <2>3, NoLeakStep
<1> QED
  BY <1>1, ErrorNoLeak, NotFoundNoLeak DEF free_nvlist

\* What xfer sends is destroyed, what it receives belongs to the new object.
LEMMA XferNoLeak ==
  ASSUME IInv, NEW o \in Owners, NEW p \in Owners, xfer(o, p)
  PROVE  NoNewLeak
<1> DEFINE old == m_nv[o]
           sent == nvlist_destroy(heap, old)
<1>1. ASSUME Ready(o)
      PROVE  /\ old \in Lists /\ old \in Roots /\ Roots \in SUBSET Lists
             /\ Outermost(sent) \subseteq Outermost(heap) \ {old}
             /\ WellFormed(sent, Roots \ {old})
  <2>1. old \in Lists /\ old \in Roots /\ Roots \in SUBSET Lists
    BY <1>1, RootsAreLists DEF Ready, Points
  <2> QED
    BY <2>1, DestroyOutermost, DestroyKeeps DEF IInv
<1>2. ASSUME Ready(o), raw' = raw, heap' = sent, m_nv' = [m_nv EXCEPT ![o] = Null]
      PROVE  NoNewLeak
  <2>1. Outermost(heap') \subseteq (Outermost(heap) \cup {}) \ {old}
    BY <1>1, <1>2
  <2>2. (Roots \cup {}) \ {old} \subseteq Roots'
    BY <1>2, OwnerLost
  <2> QED
    BY <2>1, <2>2, NoLeakStep
<1>3. ASSUME Ready(o), Unconstructed(p), raw' = raw, NEW l \in Available(heap),
             heap' = nvlist_create(sent, l),
             m_nv' = [m_nv EXCEPT ![o] = Null, ![p] = l]
      PROVE  NoNewLeak
  <2>1. l \in Lists /\ l \notin Roots /\ l # old
    BY <1>1, <1>3, RootsAreLists
  <2>2. l \in Available(sent)
    <3>1. l \notin Tree(heap, old)
      BY <1>1, <1>3, TreeLive DEF IInv, WellFormed, RootsLive, Available, Live
    <3> QED
      BY <1>1, <1>3, <2>1, <3>1, DestroyedWithin DEF Available
  <2>3. Outermost(heap') \subseteq Outermost(sent) \cup {l}
    <3>1. Roots \ {old} \in SUBSET Lists
      BY <1>1, <1>3
    <3> HIDE DEF sent
    <3> QED
      BY <1>1, <1>3, <2>2, <3>1, CreateOutermost
  <2>4. Outermost(heap') \subseteq (Outermost(heap) \cup {l}) \ {old}
    BY <1>1, <1>3, <2>1, <2>3
  <2>5. (Roots \cup {l}) \ {old} \subseteq Roots'
    BY <1>1, <1>3, <2>1, UnbornAssumption
    DEF IInv, TypeOK, Handles, Roots, Root, Points, Objects, Unconstructed
  <2> QED
    BY <2>4, <2>5, NoLeakStep
<1> QED
  BY <1>2, <1>3, ErrorNoLeak DEF xfer

LEMMA ViewNoLeak ==
  ASSUME IInv, NEW v \in Views, ViewStep(v)
  PROVE  NoNewLeak
<1>1. ASSUME NEW l, UNCHANGED <<heap, raw>>, m_nv' = [m_nv EXCEPT ![v] = l]
      PROVE  NoNewLeak
  <2>1. Roots \subseteq Roots'
    BY <1>1, ObjectsAssumption DEF Roots, Root, Objects, IInv, TypeOK
  <2> QED
    BY <1>1, <2>1, SameHeapNoLeak
<1>2. CASE view_construct(v)
  BY <1>1, <1>2 DEF view_construct
<1>3. ASSUME NEW x \in Objects, view_assign(v, x)
      PROVE  NoNewLeak
  BY <1>1, <1>3 DEF view_assign
<1>4. ASSUME NEW x \in Objects, NEW k \in Keys, get_nvlist(x, k, v)
      PROVE  NoNewLeak
  BY <1>1, <1>4, ErrorNoLeak, NotFoundNoLeak DEF get_nvlist
<1> QED
  BY <1>2, <1>3, <1>4 DEF ViewStep

LEMMA LibnvNoLeak ==
  ASSUME IInv, libnv_create \/ libnv_destroy
  PROVE  NoNewLeak
<1>1. ASSUME NEW l \in Available(heap), NEW e \in BOOLEAN,
             heap' = [nvlist_create(heap, l) EXCEPT ![l].err = e],
             raw' = raw \cup {l}, m_nv' = m_nv
      PROVE  NoNewLeak
  <2> DEFINE g == nvlist_create(heap, l)
  <2>1. g \in Heaps /\ l \in Lists /\ Outermost(g) \subseteq Outermost(heap) \cup {l}
    BY <1>1, CreateOutermost, CreateKeeps, RootsAreLists DEF IInv, WellFormed
  <2> HIDE DEF g
  <2>2. heap' = [g EXCEPT ![l].err = e]
    BY <1>1 DEF g
  <2>3. \A m \in Lists : heap'[m].kids = g[m].kids /\ heap'[m].state = g[m].state
    BY <2>1, <2>2 DEF Heaps, Cells
  <2>4. Outermost(heap') \subseteq (Outermost(heap) \cup {l}) \ {}
    BY <2>1, <2>3 DEF Outermost, Live, IsKid
  <2>5. (Roots \cup {l}) \ {} \subseteq Roots'
    BY <1>1, <2>1 DEF Roots, Root
  <2> QED
    BY <2>4, <2>5, NoLeakStep
<1>2. ASSUME NEW l \in raw, heap' = nvlist_destroy(heap, l), raw' = raw \ {l}, m_nv' = m_nv
      PROVE  NoNewLeak
  <2>1. Outermost(heap') \subseteq (Outermost(heap) \cup {}) \ {l}
    BY <1>2, DestroyOutermost, RootsAreLists
  <2>2. (Roots \cup {}) \ {l} \subseteq Roots'
    BY <1>2 DEF Roots, Root
  <2> QED
    BY <2>1, <2>2, NoLeakStep
<1> QED
  BY <1>1, <1>2 DEF libnv_create, libnv_destroy

LEMMA NextNoLeak ==
  ASSUME IInv, Next, call'.op # "assign_move"
  PROVE  NoNewLeak
<1>1. ASSUME NEW o \in Owners, OwnerStep(o) PROVE NoNewLeak
  <2>1. ASSUME adopt(o) PROVE NoNewLeak
    <3>1. ASSUME NEW l \in raw, m_nv' = [m_nv EXCEPT ![o] = l], raw' = raw \ {l},
                 heap' = heap, Unconstructed(o)
          PROVE  NoNewLeak
      <4>1. Roots \subseteq Roots'
        BY <3>1, UnbornAssumption
        DEF IInv, TypeOK, Handles, Roots, Root, Points, Objects, Unconstructed
      <4> QED
        BY <3>1, <4>1, SameHeapNoLeak
    <3> QED
      BY <2>1, <3>1, ThrowNoLeak DEF adopt
  <2>2. ASSUME release(o) PROVE NoNewLeak
    <3>1. Roots \subseteq Roots' /\ heap' = heap
      BY <2>2 DEF release, Roots, Root, IInv, TypeOK, Objects
    <3> QED
      BY <3>1, SameHeapNoLeak
  <2>3. ASSUME set_error(o) PROVE NoNewLeak
    BY <2>3, ErrorNoLeak, FailNoLeak DEF set_error
  <2>4. ASSUME NEW p \in Owners, move_construct(o, p) PROVE NoNewLeak
    <3>1. Roots \subseteq Roots' /\ heap' = heap
      BY <2>4, UnbornAssumption
      DEF move_construct, Unconstructed, Usable, Born, Roots, Root, IInv, TypeOK, Objects
    <3> QED
      BY <3>1, SameHeapNoLeak
  <2>5. ASSUME NEW p \in Owners, assign_copy(o, p) PROVE NoNewLeak
    <3>1. ASSUME UNCHANGED <<heap, m_nv, raw>> PROVE NoNewLeak
      BY <3>1, SameHeapNoLeak DEF Roots, Root
    <3> QED
      BY <2>5, <3>1, AssignViewNoLeak DEF assign_copy, Objects
  <2>6. ASSUME NEW p \in Owners, assign_move(o, p) PROVE FALSE
    BY <2>6 DEF assign_move, Ends
  <2> QED
    BY <1>1, <2>1, <2>2, <2>3, <2>4, <2>5, <2>6,
       FreshNoLeak, CopyNoLeak, AssignViewNoLeak, XferNoLeak
    DEF OwnerStep, Objects
<1>2. ASSUME NEW o \in Owners, NEW k \in Keys, NestingStep(o, k) PROVE NoNewLeak
  BY <1>2, AddNvlistNoLeak, MoveNvlistNoLeak, TakeNvlistNoLeak,
     MoveRawNvlistNoLeak, FreeNvlistNoLeak DEF NestingStep
<1> QED
  BY <1>1, <1>2, ViewNoLeak, DestroyNoLeak, LibnvNoLeak DEF Next

\* Move assignment apart, no call loses a list: what it takes from its owner it
\* hands to another or frees, with all that is nested in it.
THEOREM OnlyMoveAssignLeaksHolds == Spec => OnlyMoveAssignLeaks
<1>1. ASSUME IInv, [Next]_vars
      PROVE  [call'.op # "assign_move" => NoNewLeak]_vars
  BY <1>1, NextNoLeak
<1> QED
  BY <1>1, Invariance, PTL DEF Spec, OnlyMoveAssignLeaks, NoNewLeak
=============================================================================
