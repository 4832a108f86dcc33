------------------------ MODULE NvDescriptorsProofs ------------------------
(***************************************************************************)
(* Proofs about NvDescriptors, for any number of descriptors, files, nv_fd *)
(* objects, lists and keys.                                                *)
(***************************************************************************)
EXTENDS NvDescriptors, TLAPS

\* The numbers that a list keeps under a key.
Kept(l, k) == lists[l].fds[k]

Tables == [Fds -> Files \cup {Closed}]
ListStates == [NvLists -> [alive : BOOLEAN, err : BOOLEAN, fds : [Keys -> Seq(Fds)]]]

StateOK ==
  /\ table \in Tables /\ m_fd \in [Guards -> Fds \cup {None, Unborn}]
  /\ plain \subseteq Fds /\ lists \in ListStates

InList(n) == \E l \in NvLists, k \in Keys : \E i \in DOMAIN Kept(l, k) : Kept(l, k)[i] = n
Held(n) == n \in plain \/ (\E g \in Guards : m_fd[g] = n) \/ InList(n)

\* Every open number has someone to close it.
AllHeld == \A n \in Fds : IsOpen(n) => Held(n)

\* A list that is not constructed keeps nothing, so that nothing is lost when
\* it is.
DeadEmpty == \A l \in NvLists : ~ lists[l].alive => \A k \in Keys : Kept(l, k) = <<>>

\* A descriptor pair has one number.
Singles == \A l \in NvLists, k \in ScalarKeys : Len(Kept(l, k)) <= 1

\* Whoever is to close a number finds it open.
HeldOpen ==
  /\ \A g \in Guards : m_fd[g] \in Fds => IsOpen(m_fd[g])
  /\ \A n \in plain : IsOpen(n)
  /\ \A l \in NvLists, k \in Keys : \A i \in DOMAIN Kept(l, k) : IsOpen(Kept(l, k)[i])

\* No two have the same number.
FdsApart ==
  /\ \A g, h \in Guards : m_fd[g] \in Fds /\ m_fd[g] = m_fd[h] => g = h
  /\ \A g \in Guards : m_fd[g] \notin plain

ListsApart ==
  \A l \in NvLists, k \in Keys : \A i \in DOMAIN Kept(l, k) :
    /\ Kept(l, k)[i] \notin plain /\ \A g \in Guards : m_fd[g] # Kept(l, k)[i]
    /\ \A m \in NvLists, j \in Keys : \A y \in DOMAIN Kept(m, j) :
         Kept(m, j)[y] = Kept(l, k)[i] => m = l /\ j = k /\ y = i

Exclusive == HeldOpen /\ FdsApart /\ ListsApart

\* What is inductive.
Body == StateOK /\ AllHeld /\ DeadEmpty /\ Singles /\ (since = 0 => Exclusive)
IInv == TypeOK /\ Body
-----------------------------------------------------------------------------
(* The shape of a state *)

LEMMA KeptTyped ==
  ASSUME StateOK, NEW l \in NvLists, NEW k \in Keys
  PROVE  /\ Kept(l, k) \in Seq(Fds)
         /\ \A i \in DOMAIN Kept(l, k) : Kept(l, k)[i] \in Fds
BY DEF StateOK, ListStates, Kept

LEMMA NumbersMember ==
  ASSUME NEW l \in NvLists, NEW n
  PROVE  n \in Numbers(l) <=>
           \E k \in Keys : \E i \in DOMAIN Kept(l, k) : Kept(l, k)[i] = n
BY DEF Numbers, Kept, Range

LEMMA PlacesMember ==
  ASSUME NEW l \in NvLists, NEW x
  PROVE  x \in Places(l) <=>
           \E k \in Keys : \E i \in DOMAIN Kept(l, k) : x = <<k, i>>
BY DEF Places, Kept

\* A call ends in a state that is right.
LEMMA EndStep ==
  ASSUME TypeOK, Running, NEW op \in Operations, NEW outcome \in Outcomes,
         NEW fds \in SUBSET Fds, Ends(op, outcome, fds),
         StateOK', AllHeld', DeadEmpty', Singles', since' = 0 => Exclusive'
  PROVE  IInv'
<1>1. since' \in 0..MaxSince
  BY BoundsAssumption DEF Ends, Running, TypeOK
<1> QED
  BY <1>1 DEF Ends, IInv, Body, TypeOK, StateOK, Tables, ListStates

\* Until take_descriptor_array returns, it has not returned.
LEMMA SinceStep ==
  ASSUME TypeOK, NEW op, NEW outcome, NEW fds, Ends(op, outcome, fds), since' = 0
  PROVE  since = 0
BY DEF Ends, TypeOK

\* A call that changes nothing that has to do with numbers.
LEMMA SameNumbers ==
  ASSUME IInv, Running, NEW op \in Operations, NEW outcome \in Outcomes,
         NEW fds \in SUBSET Fds, Ends(op, outcome, fds),
         UNCHANGED <<table, m_fd, plain>>, lists' \in ListStates,
         \A l \in NvLists : lists'[l].fds = lists[l].fds,
         \A l \in NvLists : lists[l].alive => lists'[l].alive
  PROVE  IInv'
<1>1. \A l \in NvLists, k \in Keys : Kept(l, k)' = Kept(l, k)
  BY DEF Kept
<1>2. StateOK' /\ AllHeld' /\ DeadEmpty' /\ Singles'
  BY <1>1 DEF IInv, Body, StateOK, AllHeld, Held, InList, DeadEmpty, Singles, IsOpen, Keys
<1>3. since' = 0 => Exclusive'
  BY <1>1, SinceStep DEF IInv, Body, Exclusive, HeldOpen, FdsApart, ListsApart, IsOpen
<1> QED
  BY <1>2, <1>3, EndStep DEF IInv

LEMMA ThrowStep ==
  ASSUME IInv, Running, NEW op \in Operations, NEW e \in Exceptions \cup {"abort"},
         Throws(op, e)
  PROVE  IInv'
BY SameNumbers DEF Throws, IInv, Body, StateOK, Outcomes

LEMMA ErrorStep ==
  ASSUME IInv, Running, NEW op \in Operations, NEW l,
         throw_if_error(op, l) \/ Rejects(op, l)
  PROVE  IInv'
BY ThrowStep DEF Rejects, throw_if_error, Exceptions

LEMMA FailStep ==
  ASSUME IInv, Running, NEW op \in Operations, NEW outcome \in Outcomes,
         NEW l \in NvLists, Fails(op, outcome, l)
  PROVE  IInv'
<1>1. /\ lists' \in ListStates
      /\ \A m \in NvLists : lists'[m].fds = lists[m].fds /\ lists'[m].alive = lists[m].alive
  BY DEF Fails, IInv, Body, StateOK, ListStates
<1> QED
  BY <1>1, SameNumbers DEF Fails
-----------------------------------------------------------------------------
(* The caller's numbers and those of nv_fd *)

Known(n) == n \in plain \/ \E g \in Guards : m_fd[g] = n

LEMMA ClosedTable ==
  ASSUME StateOK, NEW S
  PROVE  /\ closed(S) \in Tables
         /\ \A n \in Fds : closed(S)[n] # Closed <=> IsOpen(n) /\ n \notin S
         /\ \A n \in Fds \ S : closed(S)[n] = table[n]
BY DEF closed, StateOK, Tables, IsOpen

LEMMA NothingClosed ==
  ASSUME StateOK
  PROVE  table = closed({})
BY DEF closed, StateOK, Tables

\* Numbers change hands between nv_fd objects and the caller; those in S are
\* closed.
LEMMA HandStep ==
  ASSUME IInv, Running, NEW op \in Operations, NEW outcome \in Outcomes,
         NEW fds \in SUBSET Fds, Ends(op, outcome, fds), lists' \in ListStates,
         \A l \in NvLists : lists'[l].fds = lists[l].fds /\ lists'[l].alive = lists[l].alive,
         m_fd' \in [Guards -> Fds \cup {None, Unborn}], plain' \subseteq Fds,
         NEW S, table' = closed(S),
         \A n \in Fds \ S : Known(n) => Known(n)',
         since = 0 =>
           /\ \A n \in Fds : Known(n)' => Known(n) /\ n \notin S
           /\ \A n \in Fds \cap S : Known(n)
           /\ FdsApart'
  PROVE  IInv'
<1>1. \A l \in NvLists, k \in Keys : Kept(l, k)' = Kept(l, k)
  BY DEF Kept
<1>2. \A n \in Fds : IsOpen(n)' <=> IsOpen(n) /\ n \notin S
  BY ClosedTable DEF IsOpen, IInv, Body
<1>3. StateOK'
  BY ClosedTable DEF StateOK, IInv, Body
<1>4. DeadEmpty' /\ Singles'
  BY <1>1 DEF DeadEmpty, Singles, IInv, Body, Keys
<1>5. \A n : InList(n)' <=> InList(n)
  BY <1>1 DEF InList
<1>6. AllHeld'
  BY <1>2, <1>5 DEF AllHeld, Held, Known, IInv, Body
<1>7. ASSUME since' = 0 PROVE Exclusive'
  <2>1. since = 0 /\ Exclusive
    BY <1>7, SinceStep DEF IInv, Body
  <2>2. \A l \in NvLists, k \in Keys : \A i \in DOMAIN Kept(l, k) :
          Kept(l, k)[i] \in Fds /\ ~ Known(Kept(l, k)[i])
    BY <2>1, KeptTyped DEF Exclusive, ListsApart, Known, IInv, Body
  <2>3. HeldOpen'
    <3>1. ASSUME NEW n \in Fds, Known(n)' PROVE IsOpen(n)'
      BY <1>2, <2>1, <3>1 DEF Exclusive, HeldOpen, Known
    <3>2. ASSUME NEW l \in NvLists, NEW k \in Keys, NEW i \in DOMAIN Kept(l, k)
          PROVE  IsOpen(Kept(l, k)[i])'
      BY <1>1, <1>2, <2>1, <2>2 DEF Exclusive, HeldOpen
    <3> QED
      BY <1>1, <3>1, <3>2 DEF HeldOpen, Known
  <2>4. ListsApart'
    <3>1. ASSUME NEW l \in NvLists, NEW k \in Keys, NEW i \in DOMAIN Kept(l, k)
          PROVE  ~ Known(Kept(l, k)[i])'
      BY <1>1, <2>1, <2>2
    <3> QED
      BY <1>1, <2>1, <3>1 DEF Exclusive, ListsApart, Known
  <2> QED
    BY <2>1, <2>3, <2>4 DEF Exclusive
<1> QED
  BY <1>3, <1>4, <1>6, <1>7, EndStep DEF IInv

LEMMA FdStep ==
  ASSUME IInv, Running, NEW op \in Operations, NEW outcome \in Outcomes,
         NEW fds \in SUBSET Fds, Ends(op, outcome, fds),
         lists' = lists, m_fd' \in [Guards -> Fds \cup {None, Unborn}], plain' \subseteq Fds,
         NEW S, table' = closed(S),
         \A n \in Fds \ S : Known(n) => Known(n)',
         since = 0 =>
           /\ \A n \in Fds : Known(n)' => Known(n) /\ n \notin S
           /\ \A n \in Fds \cap S : Known(n)
           /\ FdsApart'
  PROVE  IInv'
<1>1. /\ lists' \in ListStates
      /\ \A l \in NvLists : lists'[l].fds = lists[l].fds /\ lists'[l].alive = lists[l].alive
  BY DEF IInv, Body, StateOK
<1> QED
  BY <1>1, HandStep

LEMMA CloseStep ==
  ASSUME IInv, Running, close
  PROVE  IInv'
<1>1. PICK n \in plain :
        /\ table' = closed({n}) /\ plain' = plain \ {n} /\ Ends("close", "ok", {n})
        /\ UNCHANGED <<m_fd, lists>>
  BY DEF close
<1>2. since = 0 => FdsApart /\ FdsApart'
  BY <1>1 DEF IInv, Body, Exclusive, FdsApart
<1>3. StateOK /\ n \in Fds /\ {n} \in SUBSET Fds
  BY DEF IInv, Body, StateOK
<1> QED
  BY <1>1, <1>2, <1>3, FdStep DEF Known, StateOK, FdsApart, Operations, Outcomes

LEMMA FdConstructStep ==
  ASSUME IInv, Running, NEW g \in Guards, fd_construct(g)
  PROVE  IInv'
<1>1. PICK n \in plain \cup {None} :
        m_fd' = [m_fd EXCEPT ![g] = n] /\ plain' = plain \ {n}
  BY DEF fd_construct
<1>2. StateOK /\ m_fd' \in [Guards -> Fds \cup {None, Unborn}] /\ plain' \subseteq Fds
  BY <1>1 DEF IInv, Body, StateOK
<1>3. \A x \in Fds : Known(x)' <=> Known(x)
  BY <1>1, <1>2, NoNumberAssumption DEF Known, fd_construct, Unconstructed, StateOK
<1>4. since = 0 => FdsApart'
  BY <1>1, <1>2, NoNumberAssumption DEF IInv, Body, Exclusive, FdsApart, StateOK
<1>5. Ends("nv_fd", "ok", {}) /\ lists' = lists /\ table' = closed({})
  BY <1>2, NothingClosed DEF fd_construct
<1> QED
  BY <1>2, <1>3, <1>4, <1>5, FdStep DEF Operations, Outcomes

LEMMA FdMoveStep ==
  ASSUME IInv, Running, NEW g \in Guards, NEW h \in Guards, fd_move_construct(g, h)
  PROVE  IInv'
<1>1. StateOK /\ m_fd' \in [Guards -> Fds \cup {None, Unborn}] /\ plain' \subseteq Fds
  BY DEF IInv, Body, StateOK, fd_move_construct
<1>2. \A x \in Fds : Known(x)' <=> Known(x)
  BY <1>1, NoNumberAssumption DEF Known, fd_move_construct, Unconstructed, StateOK
<1>3. since = 0 => FdsApart'
  BY <1>1, NoNumberAssumption
  DEF IInv, Body, Exclusive, FdsApart, StateOK, fd_move_construct, Unconstructed
<1>4. Ends("move_fd", "ok", {}) /\ lists' = lists /\ table' = closed({})
  BY <1>1, NothingClosed DEF fd_move_construct
<1> QED
  BY <1>1, <1>2, <1>3, <1>4, FdStep DEF Operations, Outcomes

LEMMA FdAssignStep ==
  ASSUME IInv, Running, NEW g \in Guards, NEW h \in Guards, fd_assign(g, h)
  PROVE  IInv'
<1>1. StateOK /\ m_fd' \in [Guards -> Fds \cup {None, Unborn}] /\ plain' \subseteq Fds
  BY DEF IInv, Body, StateOK, fd_assign
<1>2. CASE g = h
  <2>1. \A x \in Fds : Known(x)' <=> Known(x)
    BY <1>2 DEF Known, fd_assign
  <2>2. since = 0 => FdsApart'
    BY <1>2 DEF IInv, Body, Exclusive, FdsApart, fd_assign
  <2> QED
    BY <1>1, <1>2, <2>1, <2>2, NothingClosed, FdStep DEF fd_assign, Operations, Outcomes
<1>3. CASE g # h
  <2>1. \A x \in Fds \ {m_fd[g]} : Known(x) => Known(x)'
    BY <1>1, <1>3, NoNumberAssumption DEF Known, fd_assign, StateOK
  <2>2. since = 0 =>
          /\ \A x \in Fds : Known(x)' => Known(x) /\ x # m_fd[g]
          /\ FdsApart'
    BY <1>1, <1>3, NoNumberAssumption
    DEF IInv, Body, Exclusive, FdsApart, StateOK, fd_assign, Known
  <2>3. \A x \in Fds \cap {m_fd[g]} : Known(x)
    BY DEF Known
  <2> QED
    BY <1>1, <1>3, <2>1, <2>2, <2>3, FdStep DEF fd_assign, Operations, Outcomes
<1> QED
  BY <1>2, <1>3

LEMMA FdReleaseStep ==
  ASSUME IInv, Running, NEW g \in Guards, fd_release(g)
  PROVE  IInv'
<1>1. CASE Throws("release", "logic_error")
  BY <1>1, ThrowStep DEF Operations, Exceptions
<1>2. CASE /\ m_fd[g] \in Fds
           /\ m_fd' = [m_fd EXCEPT ![g] = None] /\ plain' = plain \cup {m_fd[g]}
           /\ UNCHANGED <<table, lists>>
           /\ Ends("release", "ok", {m_fd[g]})
  <2>1. StateOK /\ m_fd' \in [Guards -> Fds \cup {None, Unborn}] /\ plain' \subseteq Fds
    BY <1>2 DEF IInv, Body, StateOK
  <2>2. \A x \in Fds : Known(x)' <=> Known(x)
    BY <1>2, <2>1, NoNumberAssumption DEF Known, StateOK
  <2>3. since = 0 => FdsApart'
    BY <1>2, <2>1, NoNumberAssumption DEF IInv, Body, Exclusive, FdsApart, StateOK
  <2> QED
    BY <1>2, <2>1, <2>2, <2>3, NothingClosed, FdStep DEF Operations, Outcomes
<1> QED
  BY <1>1, <1>2 DEF fd_release

LEMMA FdDestroyStep ==
  ASSUME IInv, Running, NEW g \in Guards, fd_destroy(g)
  PROVE  IInv'
<1>1. StateOK /\ m_fd' \in [Guards -> Fds \cup {None, Unborn}] /\ plain' \subseteq Fds
  BY DEF IInv, Body, StateOK, fd_destroy
<1>2. \A x \in Fds \ {m_fd[g]} : Known(x) => Known(x)'
  BY <1>1 DEF Known, fd_destroy, StateOK
<1>3. since = 0 =>
        /\ \A x \in Fds : Known(x)' => Known(x) /\ x # m_fd[g]
        /\ FdsApart'
  BY <1>1, NoNumberAssumption DEF IInv, Body, Exclusive, FdsApart, StateOK, fd_destroy, Known
<1>4. \A x \in Fds \cap {m_fd[g]} : Known(x)
  BY DEF Known
<1> QED
  BY <1>1, <1>2, <1>3, <1>4, FdStep DEF fd_destroy, Operations, Outcomes

LEMMA OpenStep ==
  ASSUME IInv, Running, open
  PROVE  IInv'
<1>1. PICK n \in FreeNumbers, f \in Files :
        /\ table' = [table EXCEPT ![n] = f] /\ plain' = plain \cup {n}
        /\ Ends("open", "ok", {n}) /\ UNCHANGED <<m_fd, lists>>
  BY DEF open
<1>2. StateOK /\ StateOK' /\ n \in Fds /\ ~ IsOpen(n)
  BY <1>1 DEF IInv, Body, StateOK, Tables, FreeNumbers
<1>3. \A x \in Fds : IsOpen(x)' <=> IsOpen(x) \/ x = n
  BY <1>1, <1>2, ClosedAssumption DEF IsOpen, StateOK, Tables
<1>4. \A l \in NvLists, k \in Keys : Kept(l, k)' = Kept(l, k)
  BY <1>1 DEF Kept
<1>5. AllHeld' /\ DeadEmpty' /\ Singles'
  BY <1>1, <1>3, <1>4 DEF IInv, Body, AllHeld, Held, InList, DeadEmpty, Singles, Keys
<1>6. ASSUME since' = 0 PROVE Exclusive'
  <2>1. Exclusive
    BY <1>1, <1>6, SinceStep DEF IInv, Body
  <2>2. \A l \in NvLists, k \in Keys : \A i \in DOMAIN Kept(l, k) : Kept(l, k)[i] \in Fds
    BY <1>2, KeptTyped
  <2>3. HeldOpen'
    BY <1>1, <1>2, <1>3, <1>4, <2>1, <2>2 DEF Exclusive, HeldOpen, StateOK
  <2>4. FdsApart' /\ ListsApart'
    BY <1>1, <1>2, <1>4, <2>1, <2>2 DEF Exclusive, HeldOpen, FdsApart, ListsApart, StateOK
  <2> QED
    BY <2>3, <2>4 DEF Exclusive
<1>7. {n} \in SUBSET Fds
  BY <1>2
<1> QED
  BY <1>1, <1>2, <1>5, <1>6, <1>7, EndStep DEF IInv, Operations, Outcomes
-----------------------------------------------------------------------------
(* The numbers of a list *)

\* What is under one key of a list is replaced.
LEMMA KeptUpdate ==
  ASSUME IInv, NEW l \in NvLists, NEW k \in Keys, NEW s \in Seq(Fds),
         lists' = [lists EXCEPT ![l].fds[k] = s],
         lists[l].alive, k \in ScalarKeys => Len(s) <= 1
  PROVE  /\ lists' \in ListStates /\ DeadEmpty' /\ Singles'
         /\ Kept(l, k)' = s
         /\ \A m \in NvLists, j \in Keys : m # l \/ j # k => Kept(m, j)' = Kept(m, j)
<1>1. /\ lists \in [NvLists -> [alive : BOOLEAN, err : BOOLEAN, fds : [Keys -> Seq(Fds)]]]
      /\ DeadEmpty /\ Singles
  BY DEF IInv, Body, StateOK, ListStates
<1>2. lists' \in [NvLists -> [alive : BOOLEAN, err : BOOLEAN, fds : [Keys -> Seq(Fds)]]]
  BY <1>1
<1>3. lists'[l].fds = [lists[l].fds EXCEPT ![k] = s]
  BY <1>1
<1>4. lists'[l].alive = lists[l].alive
  BY <1>1
<1>5. \A m \in NvLists : m # l => lists'[m] = lists[m]
  BY <1>1
<1>6. lists[l].fds \in [Keys -> Seq(Fds)]
  BY <1>1
<1>7. /\ Kept(l, k)' = s
      /\ \A m \in NvLists, j \in Keys : m # l \/ j # k => Kept(m, j)' = Kept(m, j)
  BY <1>3, <1>5, <1>6 DEF Kept
<1>8. DeadEmpty'
  BY <1>1, <1>4, <1>5, <1>7 DEF DeadEmpty
<1>9. Singles'
  BY <1>1, <1>7 DEF Singles, Keys
<1> QED
  BY <1>2, <1>7, <1>8, <1>9 DEF ListStates

\* The numbers under some keys are closed, and the keys are gone.
LEMMA DropStep ==
  ASSUME IInv, Running, NEW op \in Operations, NEW outcome \in Outcomes,
         NEW fds \in SUBSET Fds, Ends(op, outcome, fds),
         m_fd' = m_fd, plain' = plain, NEW l \in NvLists, NEW D \in SUBSET Keys,
         lists' \in ListStates, DeadEmpty', Singles',
         \A k \in D : Kept(l, k)' = <<>>,
         \A m \in NvLists, j \in Keys : m # l \/ j \notin D => Kept(m, j)' = Kept(m, j),
         NEW S, table' = closed(S),
         \A n : n \in S <=> \E k \in D : \E i \in DOMAIN Kept(l, k) : Kept(l, k)[i] = n
  PROVE  IInv'
<1>1. \A n \in Fds : IsOpen(n)' <=> IsOpen(n) /\ n \notin S
  BY ClosedTable DEF IsOpen, IInv, Body
<1>2. StateOK'
  BY ClosedTable DEF StateOK, IInv, Body
<1>3. AllHeld'
  <2>1. ASSUME NEW n \in Fds, IsOpen(n)', InList(n) PROVE InList(n)'
    <3>1. PICK m \in NvLists, j \in Keys : \E i \in DOMAIN Kept(m, j) : Kept(m, j)[i] = n
      BY <2>1 DEF InList
    <3>2. m # l \/ j \notin D
      BY <1>1, <2>1, <3>1
    <3> QED
      BY <3>1, <3>2 DEF InList
  <2> QED
    BY <1>1, <2>1 DEF AllHeld, Held, IInv, Body
<1>4. ASSUME since' = 0 PROVE Exclusive'
  <2>1. Exclusive
    BY <1>4, SinceStep DEF IInv, Body
  <2>2. \A m \in NvLists, j \in Keys : \A i \in DOMAIN Kept(m, j)' :
          /\ Kept(m, j)' = Kept(m, j) /\ (m # l \/ j \notin D)
          /\ Kept(m, j)[i] \in Fds
    BY KeptTyped DEF IInv, Body
  <2>3. \A m \in NvLists, j \in Keys : \A i \in DOMAIN Kept(m, j)' : Kept(m, j)[i] \notin S
    BY <2>1, <2>2 DEF Exclusive, ListsApart
  <2>4. \A n \in S : n \notin plain /\ \A g \in Guards : m_fd[g] # n
    BY <2>1 DEF Exclusive, ListsApart
  <2>5. HeldOpen'
    BY <1>1, <2>1, <2>2, <2>3, <2>4 DEF Exclusive, HeldOpen, IInv, Body, StateOK
  <2>6. FdsApart' /\ ListsApart'
    BY <2>1, <2>2 DEF Exclusive, FdsApart, ListsApart
  <2> QED
    BY <2>5, <2>6 DEF Exclusive
<1> QED
  BY <1>2, <1>3, <1>4, EndStep DEF IInv

LEMMA KeptRange ==
  ASSUME StateOK, NEW l \in NvLists, NEW k \in Keys
  PROVE  /\ \A n : n \in Range(Kept(l, k)) <=> \E i \in DOMAIN Kept(l, k) : Kept(l, k)[i] = n
         /\ Range(Kept(l, k)) \in SUBSET Fds
BY KeptTyped DEF Range

LEMMA FreeStep ==
  ASSUME IInv, Running, NEW l \in NvLists, NEW k \in Keys, free_type(l, k)
  PROVE  IInv'
<1>1. CASE Rejects("free", l)
  BY <1>1, ErrorStep DEF Operations
<1>2. CASE Throws("free", "nv_key_not_found")
  BY <1>2, ThrowStep DEF Operations, Exceptions
<1>3. CASE /\ Ready(l) /\ lists[l].fds[k] # <<>>
           /\ table' = closed(Range(lists[l].fds[k]))
           /\ lists' = [lists EXCEPT ![l].fds[k] = <<>>]
           /\ UNCHANGED <<m_fd, plain>>
           /\ Ends("free", "ok", {})
  <2> DEFINE none == <<>>
  <2>0. none \in Seq(Fds) /\ Len(none) <= 1
    OBVIOUS
  <2>1. /\ lists' \in ListStates /\ DeadEmpty' /\ Singles' /\ Kept(l, k)' = <<>>
        /\ \A m \in NvLists, j \in Keys : m # l \/ j # k => Kept(m, j)' = Kept(m, j)
    BY <1>3, <2>0, KeptUpdate DEF Ready
  <2> DEFINE D == {k}
             S == Range(Kept(l, k))
  <2>2. /\ table' = closed(S)
        /\ \A n : n \in S <=> \E j \in D : \E i \in DOMAIN Kept(l, j) : Kept(l, j)[i] = n
    BY <1>3, KeptRange DEF Kept, IInv, Body
  <2>3. D \in SUBSET Keys /\ "free" \in Operations /\ "ok" \in Outcomes
    BY DEF Operations, Outcomes
  <2>4. \A m \in NvLists, j \in Keys : m # l \/ j \notin D => Kept(m, j)' = Kept(m, j)
    BY <2>1
  <2>5. \A j \in D : Kept(l, j)' = <<>>
    BY <2>1
  <2>6. m_fd' = m_fd /\ plain' = plain /\ Ends("free", "ok", {})
    BY <1>3
  <2> HIDE DEF none, D, S
  <2> QED
    BY <2>1, <2>2, <2>3, <2>4, <2>5, <2>6, DropStep
<1> QED
  BY <1>1, <1>2, <1>3 DEF free_type

LEMMA DestroyStep ==
  ASSUME IInv, Running, NEW l \in NvLists, destroy(l)
  PROVE  IInv'
<1>1. lists \in [NvLists -> [alive : BOOLEAN, err : BOOLEAN, fds : [Keys -> Seq(Fds)]]]
  BY DEF IInv, Body, StateOK, ListStates
<1>2. /\ Empty \in [Keys -> Seq(Fds)]
      /\ lists'[l] = [alive |-> FALSE, err |-> FALSE, fds |-> Empty]
      /\ \A m \in NvLists : m # l => lists'[m] = lists[m]
  BY <1>1 DEF destroy, Empty
<1>3. lists' \in ListStates
  BY <1>1, <1>2 DEF destroy, ListStates
<1>4. /\ \A k \in Keys : Kept(l, k)' = <<>>
      /\ \A m \in NvLists, j \in Keys : m # l => Kept(m, j)' = Kept(m, j)
  BY <1>2 DEF Kept, Empty
<1>5. DeadEmpty' /\ Singles'
  BY <1>2, <1>4 DEF IInv, Body, DeadEmpty, Singles, Keys
<1>6. /\ \A n : n \in Numbers(l) <=>
           \E k \in Keys : \E i \in DOMAIN Kept(l, k) : Kept(l, k)[i] = n
      /\ Keys \in SUBSET Keys /\ "destroy" \in Operations /\ "ok" \in Outcomes
  BY NumbersMember DEF Operations, Outcomes
<1>7. table' = closed(Numbers(l)) /\ m_fd' = m_fd /\ plain' = plain /\ Ends("destroy", "ok", {})
  BY DEF destroy
<1> QED
  BY <1>3, <1>4, <1>5, <1>6, <1>7, DropStep

LEMMA CreateStep ==
  ASSUME IInv, Running, NEW l \in NvLists, create(l)
  PROVE  IInv'
<1>1. lists \in [NvLists -> [alive : BOOLEAN, err : BOOLEAN, fds : [Keys -> Seq(Fds)]]]
  BY DEF IInv, Body, StateOK, ListStates
<1>2. CASE Throws("nv_list", "system_error")
  BY <1>2, ThrowStep DEF Operations, Exceptions
<1>3. CASE /\ lists' = [lists EXCEPT ![l].alive = TRUE]
           /\ UNCHANGED <<table, m_fd, plain>>
           /\ Ends("nv_list", "ok", {})
  <2>1. /\ lists' \in ListStates
        /\ \A m \in NvLists : lists'[m].fds = lists[m].fds
        /\ \A m \in NvLists : lists[m].alive => lists'[m].alive
    BY <1>1, <1>3 DEF ListStates
  <2>2. UNCHANGED <<table, m_fd, plain>> /\ Ends("nv_list", "ok", {})
    BY <1>3
  <2> QED
    BY <2>1, <2>2, SameNumbers DEF Operations, Outcomes
<1> QED
  BY <1>2, <1>3 DEF create
-----------------------------------------------------------------------------
(* Duplicates *)

LEMMA Copies ==
  ASSUME StateOK, NEW source, \A x \in DOMAIN source : source[x] \in Fds,
         NEW copies \in Duplicates(source)
  PROVE  /\ DOMAIN copies = DOMAIN source
         /\ \A x \in DOMAIN copies : copies[x] \in Fds /\ ~ IsOpen(copies[x])
         /\ \A x, y \in DOMAIN copies : copies[x] = copies[y] => x = y
         /\ duplicated(source, copies) \in Tables
         /\ \A n \in Fds : duplicated(source, copies)[n] # Closed <=>
                             IsOpen(n) \/ \E x \in DOMAIN copies : copies[x] = n
<1>1. /\ \A x \in DOMAIN source : IsOpen(source[x])
      /\ copies \in Injection(DOMAIN source, FreeNumbers)
  BY DEF Duplicates
<1>2. /\ copies \in [DOMAIN source -> FreeNumbers]
      /\ \A x, y \in DOMAIN copies : copies[x] = copies[y] => x = y
  BY <1>1 DEF Injection, IsInjective
<1>3. \A x \in DOMAIN copies : copies[x] \in Fds /\ ~ IsOpen(copies[x])
  BY <1>2 DEF FreeNumbers
<1>4. ASSUME NEW n \in Fds, n \in Range(copies)
      PROVE  /\ duplicated(source, copies)[n] \in Files
             /\ \E x \in DOMAIN copies : copies[x] = n
  <2> DEFINE c == CHOOSE x \in DOMAIN copies : copies[x] = n
  <2>1. \E x \in DOMAIN copies : copies[x] = n
    BY <1>4 DEF Range
  <2>2. c \in DOMAIN source
    BY <1>2, <2>1
  <2>3. table[source[c]] \in Files
    BY <1>1, <2>2 DEF IsOpen, StateOK, Tables
  <2>4. duplicated(source, copies)[n] = table[source[c]]
    BY <1>4 DEF duplicated
  <2> QED
    BY <2>1, <2>3, <2>4
<1>5. ASSUME NEW n \in Fds, n \notin Range(copies)
      PROVE  /\ duplicated(source, copies)[n] = table[n]
             /\ ~ \E x \in DOMAIN copies : copies[x] = n
  BY <1>5 DEF duplicated, Range
<1>6. duplicated(source, copies) \in Tables
  <2>1. \A n \in Fds : duplicated(source, copies)[n] \in Files \cup {Closed}
    BY <1>4, <1>5 DEF StateOK, Tables
  <2> QED
    BY <2>1 DEF duplicated, Tables
<1>7. \A n \in Fds : duplicated(source, copies)[n] # Closed <=>
                       IsOpen(n) \/ \E x \in DOMAIN copies : copies[x] = n
  BY <1>4, <1>5, ClosedAssumption DEF IsOpen
<1> QED
  BY <1>2, <1>3, <1>6, <1>7

\* The numbers in N are opened, each for one new place in a list.
LEMMA GrowStep ==
  ASSUME IInv, Running, NEW op \in Operations, NEW outcome \in Outcomes,
         NEW fds \in SUBSET Fds, Ends(op, outcome, fds),
         m_fd' = m_fd, plain' = plain, table' \in Tables, NEW N \in SUBSET Fds,
         \A n \in N : ~ IsOpen(n), \A n \in Fds : IsOpen(n)' <=> IsOpen(n) \/ n \in N,
         lists' \in ListStates, DeadEmpty', Singles',
         \A m \in NvLists, j \in Keys : \A i \in DOMAIN Kept(m, j) :
           i \in DOMAIN Kept(m, j)' /\ Kept(m, j)'[i] = Kept(m, j)[i],
         \A m \in NvLists, j \in Keys : \A i \in DOMAIN Kept(m, j)' :
           i \notin DOMAIN Kept(m, j) =>
             /\ Kept(m, j)'[i] \in N
             /\ \A q \in NvLists, r \in Keys : \A y \in DOMAIN Kept(q, r)' :
                  y \notin DOMAIN Kept(q, r) /\ Kept(q, r)'[y] = Kept(m, j)'[i] =>
                    q = m /\ r = j /\ y = i,
         \A n \in N : InList(n)'
  PROVE  IInv'
<1>1. StateOK'
  BY DEF StateOK, IInv, Body
<1>2. AllHeld'
  <2>1. \A n : InList(n) => InList(n)'
    BY DEF InList
  <2> QED
    BY <2>1 DEF AllHeld, Held, IInv, Body
<1>3. ASSUME since' = 0 PROVE Exclusive'
  <2>1. Exclusive
    BY <1>3, SinceStep DEF IInv, Body
  <2>2. \A m \in NvLists, j \in Keys : \A i \in DOMAIN Kept(m, j) :
          Kept(m, j)[i] \in Fds /\ Kept(m, j)[i] \notin N
    BY <2>1, KeptTyped DEF Exclusive, HeldOpen, IInv, Body
  <2>3. HeldOpen'
    BY <2>1, <2>2 DEF Exclusive, HeldOpen, IInv, Body, StateOK
  <2>4. FdsApart'
    BY <2>1 DEF Exclusive, FdsApart
  <2>5. ASSUME NEW m \in NvLists, NEW j \in Keys, NEW i \in DOMAIN Kept(m, j)'
        PROVE  /\ Kept(m, j)'[i] \notin plain /\ \A g \in Guards : m_fd[g] # Kept(m, j)'[i]
               /\ \A q \in NvLists, r \in Keys : \A y \in DOMAIN Kept(q, r)' :
                    Kept(q, r)'[y] = Kept(m, j)'[i] => q = m /\ r = j /\ y = i
    <3>1. CASE i \in DOMAIN Kept(m, j)
      BY <2>1, <2>2, <3>1 DEF Exclusive, ListsApart
    <3>2. CASE i \notin DOMAIN Kept(m, j)
      BY <2>1, <2>2, <3>2 DEF Exclusive, HeldOpen
    <3> QED
      BY <3>1, <3>2
  <2>6. ListsApart'
    BY <2>5 DEF ListsApart
  <2> QED
    BY <2>3, <2>4, <2>6 DEF Exclusive
<1> QED
  BY <1>1, <1>2, <1>3, EndStep DEF IInv

LEMMA StoresStep ==
  ASSUME IInv, Running, NEW op \in Operations, NEW l \in NvLists, NEW k \in Keys,
         NEW given \in Seq(Fds), Ready(l), Stores(op, l, k, given),
         k \in ScalarKeys => Kept(l, k) = <<>> /\ Len(given) <= 1
  PROVE  IInv'
<1>1. PICK copies \in Duplicates(given) :
        /\ table' = duplicated(given, copies)
        /\ lists' = [lists EXCEPT ![l].fds[k] = @ \o copies]
  BY DEF Stores
<1>2. StateOK /\ Kept(l, k) \in Seq(Fds)
  BY KeptTyped DEF IInv, Body
<1>3. /\ DOMAIN copies = DOMAIN given
      /\ \A x \in DOMAIN copies : copies[x] \in Fds /\ ~ IsOpen(copies[x])
      /\ \A x, y \in DOMAIN copies : copies[x] = copies[y] => x = y
      /\ table' \in Tables
      /\ \A n \in Fds : IsOpen(n)' <=> IsOpen(n) \/ \E x \in DOMAIN copies : copies[x] = n
  <2>1. \A x \in DOMAIN given : given[x] \in Fds
    OBVIOUS
  <2> QED
    BY <1>1, <1>2, <2>1, Copies DEF IsOpen
<1>4. copies \in Seq(Fds) /\ Len(copies) = Len(given)
  <2>1. copies \in [1..Len(given) -> Fds]
    <3>1. DOMAIN given = 1..Len(given) /\ Len(given) \in Nat
      OBVIOUS
    <3>2. copies = [x \in DOMAIN copies |-> copies[x]]
      BY <1>1 DEF Duplicates, Injection
    <3> QED
      BY <1>3, <3>1, <3>2
  <2> QED
    BY <2>1
<1> DEFINE s == Kept(l, k) \o copies
<1>5. /\ s \in Seq(Fds) /\ Len(s) = Len(Kept(l, k)) + Len(copies)
      /\ \A i \in DOMAIN Kept(l, k) : i \in DOMAIN s /\ s[i] = Kept(l, k)[i]
      /\ \A i \in DOMAIN s : i \notin DOMAIN Kept(l, k) =>
           i - Len(Kept(l, k)) \in DOMAIN copies /\ s[i] = copies[i - Len(Kept(l, k))]
      /\ \A x \in DOMAIN copies : s[Len(Kept(l, k)) + x] = copies[x]
                                  /\ Len(Kept(l, k)) + x \in DOMAIN s
      /\ DOMAIN s \subseteq Nat /\ Len(Kept(l, k)) \in Nat
  BY <1>2, <1>4
<1>6. lists' = [lists EXCEPT ![l].fds[k] = s]
  BY <1>1 DEF Kept
<1> HIDE DEF s
<1>7. /\ lists' \in ListStates /\ DeadEmpty' /\ Singles' /\ Kept(l, k)' = s
      /\ \A m \in NvLists, j \in Keys : m # l \/ j # k => Kept(m, j)' = Kept(m, j)
  <2>1. k \in ScalarKeys => Len(s) <= 1
    BY <1>2, <1>4, <1>5
  <2> QED
    BY <1>5, <1>6, <2>1, KeptUpdate DEF Ready
<1> DEFINE N == {copies[x] : x \in DOMAIN copies}
<1>8. /\ N \in SUBSET Fds /\ \A n \in N : ~ IsOpen(n)
      /\ \A n \in Fds : IsOpen(n)' <=> IsOpen(n) \/ n \in N
  BY <1>3
<1>9. \A m \in NvLists, j \in Keys : \A i \in DOMAIN Kept(m, j) :
        i \in DOMAIN Kept(m, j)' /\ Kept(m, j)'[i] = Kept(m, j)[i]
  BY <1>5, <1>7
<1>10. \A m \in NvLists, j \in Keys : \A i \in DOMAIN Kept(m, j)' :
         i \notin DOMAIN Kept(m, j) => m = l /\ j = k
  BY <1>7
<1>11. \A i \in DOMAIN s : i \notin DOMAIN Kept(l, k) =>
         /\ s[i] \in N
         /\ \A y \in DOMAIN s : y \notin DOMAIN Kept(l, k) /\ s[y] = s[i] => y = i
  BY <1>3, <1>5
<1>12. \A n \in N : InList(n)'
  BY <1>5, <1>7 DEF InList
<1>13. UNCHANGED <<m_fd, plain>> /\ Ends(op, "ok", Range(given))
  BY DEF Stores
<1>14. Range(given) \in SUBSET Fds /\ "ok" \in Outcomes
  BY DEF Range, Outcomes
<1>15. \A m \in NvLists, j \in Keys : \A i \in DOMAIN Kept(m, j)' :
         i \notin DOMAIN Kept(m, j) =>
           /\ Kept(m, j)'[i] \in N
           /\ \A q \in NvLists, r \in Keys : \A y \in DOMAIN Kept(q, r)' :
                y \notin DOMAIN Kept(q, r) /\ Kept(q, r)'[y] = Kept(m, j)'[i] =>
                  q = m /\ r = j /\ y = i
  BY <1>7, <1>10, <1>11
<1> HIDE DEF N
<1> QED
  BY <1>3, <1>7, <1>8, <1>9, <1>12, <1>13, <1>14, <1>15, GrowStep

LEMMA AddStep ==
  ASSUME IInv, Running, NEW op \in Operations, NEW l \in NvLists, NEW k \in Keys,
         NEW given \in Seq(Fds), add(op, l, k, given), k \in ScalarKeys => Len(given) <= 1
  PROVE  IInv'
<1>1. CASE Rejects(op, l)
  BY <1>1, ErrorStep
<1>2. ASSUME NEW e \in Exceptions, Fails(op, e, l) PROVE IInv'
  BY <1>2, FailStep DEF Outcomes
<1>3. CASE Ready(l) /\ lists[l].fds[k] = <<>> /\ Stores(op, l, k, given)
  BY <1>3, StoresStep DEF Kept
<1> QED
  BY <1>1, <1>2, <1>3 DEF add, Exceptions

LEMMA MoveArrayStep ==
  ASSUME IInv, Running, NEW l \in NvLists, NEW k \in ArrayKeys, NEW given \in Seq(Fds),
         move_descriptor_array(l, k, given)
  PROVE  IInv'
<1> DEFINE op == "move_descriptor_array"
<1>1. op \in Operations /\ k \in Keys /\ k \notin ScalarKeys /\ "ok" \in Outcomes
  BY OneTypeAssumption DEF Operations, Keys, Outcomes
<1>2. \/ Rejects(op, l) \/ Fails(op, "ok", l)
      \/ Ready(l) /\ Stores(op, l, k, given)
  BY DEF move_descriptor_array
<1> HIDE DEF op
<1> QED
  BY <1>1, <1>2, ErrorStep, FailStep, StoresStep

LEMMA AppendStep ==
  ASSUME IInv, Running, NEW l \in NvLists, NEW k \in ArrayKeys, NEW n \in Fds,
         append_descriptor_array(l, k, n)
  PROVE  IInv'
<1> DEFINE op == "append_descriptor_array"
           given == <<n>>
<1>1. op \in Operations /\ k \in Keys /\ k \notin ScalarKeys /\ "ok" \in Outcomes
  BY OneTypeAssumption DEF Operations, Keys, Outcomes
<1>2. \/ Rejects(op, l) \/ Fails(op, "ok", l)
      \/ Ready(l) /\ Stores(op, l, k, given)
  BY DEF append_descriptor_array
<1>3. given \in Seq(Fds)
  OBVIOUS
<1> HIDE DEF op, given
<1> QED
  BY <1>1, <1>2, <1>3, ErrorStep, FailStep, StoresStep

\* A number goes from an nv_fd to a list that has nothing under the key.
LEMMA FdToListStep ==
  ASSUME IInv, Running, NEW op \in Operations, NEW outcome \in Outcomes,
         NEW fds \in SUBSET Fds, Ends(op, outcome, fds),
         NEW l \in NvLists, NEW k \in Keys, NEW g \in Guards, lists[l].alive,
         m_fd[g] \in Fds, Kept(l, k) = <<>>, IsOpen(m_fd[g]),
         m_fd' = [m_fd EXCEPT ![g] = None], plain' = plain, table' = table,
         lists' = [lists EXCEPT ![l].fds[k] = <<m_fd[g]>>]
  PROVE  IInv'
<1>0. PICK n \in Fds : n = m_fd[g]
  OBVIOUS
<1> DEFINE s == <<n>>
<1>1. StateOK /\ s \in Seq(Fds) /\ Len(s) <= 1 /\ s[1] = n /\ DOMAIN s = {1}
  BY DEF IInv, Body
<1>2. lists' = [lists EXCEPT ![l].fds[k] = s]
  BY <1>0
<1> HIDE DEF s
<1>3. /\ lists' \in ListStates /\ DeadEmpty' /\ Singles' /\ Kept(l, k)' = s
      /\ \A m \in NvLists, j \in Keys : m # l \/ j # k => Kept(m, j)' = Kept(m, j)
  BY <1>1, <1>2, KeptUpdate
<1>4. StateOK' /\ \A h \in Guards : m_fd'[h] = IF h = g THEN None ELSE m_fd[h]
  BY <1>1, <1>3 DEF StateOK
<1>5. AllHeld'
  <2>1. InList(n)'
    BY <1>1, <1>3 DEF InList
  <2>2. ASSUME NEW x, InList(x) PROVE InList(x)'
    <3>1. PICK m \in NvLists, j \in Keys : \E i \in DOMAIN Kept(m, j) : Kept(m, j)[i] = x
      BY <2>2 DEF InList
    <3>2. m # l \/ j # k
      BY <3>1
    <3> QED
      BY <1>3, <3>1, <3>2 DEF InList
  <2> QED
    BY <1>0, <1>4, <2>1, <2>2 DEF AllHeld, Held, IsOpen, IInv, Body
<1>6. ASSUME since' = 0 PROVE Exclusive'
  <2>1. Exclusive
    BY <1>6, SinceStep DEF IInv, Body
  <2>2. \A m \in NvLists, j \in Keys : \A i \in DOMAIN Kept(m, j)' :
          \/ m = l /\ j = k /\ i = 1 /\ Kept(m, j)'[i] = n
          \/ /\ Kept(m, j)' = Kept(m, j) /\ (m # l \/ j # k)
             /\ Kept(m, j)[i] \in Fds /\ Kept(m, j)[i] # n
    BY <1>0, <1>1, <1>3, <2>1, KeptTyped DEF Exclusive, ListsApart
  <2>3. HeldOpen'
    BY <1>0, <1>4, <2>1, <2>2, NoNumberAssumption DEF Exclusive, HeldOpen, IsOpen
  <2>4. FdsApart'
    BY <1>1, <1>4, <2>1, NoNumberAssumption DEF Exclusive, FdsApart, StateOK
  <2>5. ListsApart'
    BY <1>0, <1>4, <2>1, <2>2, NoNumberAssumption DEF Exclusive, FdsApart, ListsApart
  <2> QED
    BY <2>3, <2>4, <2>5 DEF Exclusive
<1> QED
  BY <1>3, <1>4, <1>5, <1>6, EndStep DEF IInv

\* libnv closes the number that it could not store.
LEMMA FdLostStep ==
  ASSUME IInv, Running, NEW op \in Operations, NEW outcome \in Outcomes,
         NEW fds \in SUBSET Fds, Ends(op, outcome, fds),
         NEW l \in NvLists, NEW g \in Guards, m_fd[g] \in Fds,
         m_fd' = [m_fd EXCEPT ![g] = None], plain' = plain, table' = closed({m_fd[g]}),
         lists' = [lists EXCEPT ![l].err = TRUE]
  PROVE  IInv'
<1>1. StateOK /\ m_fd' \in [Guards -> Fds \cup {None, Unborn}] /\ plain' \subseteq Fds
  BY DEF IInv, Body, StateOK
<1>2. lists \in [NvLists -> [alive : BOOLEAN, err : BOOLEAN, fds : [Keys -> Seq(Fds)]]]
  BY <1>1 DEF StateOK, ListStates
<1>3. /\ lists' \in ListStates
      /\ \A m \in NvLists : lists'[m].fds = lists[m].fds /\ lists'[m].alive = lists[m].alive
  BY <1>2 DEF ListStates
<1>4. \A x \in Fds \ {m_fd[g]} : Known(x) => Known(x)'
  BY <1>1 DEF Known, StateOK
<1>5. since = 0 =>
        /\ \A x \in Fds : Known(x)' => Known(x) /\ x # m_fd[g]
        /\ FdsApart'
  BY <1>1, NoNumberAssumption DEF IInv, Body, Exclusive, FdsApart, StateOK, Known
<1>6. \A x \in Fds \cap {m_fd[g]} : Known(x)
  BY DEF Known
<1> QED
  BY <1>1, <1>3, <1>4, <1>5, <1>6, HandStep

LEMMA MoveStep ==
  ASSUME IInv, Running, NEW l \in NvLists, NEW k \in ScalarKeys, NEW g \in Guards,
         move_descriptor(l, k, g)
  PROVE  IInv'
<1> DEFINE op == "move_descriptor"
<1>1. op \in Operations /\ k \in Keys /\ "ok" \in Outcomes /\ "logic_error" \in Exceptions
  BY DEF Operations, Keys, Outcomes, Exceptions
<1>2. CASE Rejects(op, l) \/ Throws(op, "logic_error")
  BY <1>1, <1>2, ErrorStep, ThrowStep
<1>3. CASE /\ Ready(l) /\ m_fd[g] \in Fds
           /\ m_fd' = [m_fd EXCEPT ![g] = None] /\ plain' = plain
           /\ \/ /\ IsOpen(m_fd[g]) /\ lists[l].fds[k] = <<>>
                 /\ lists' = [lists EXCEPT ![l].fds[k] = <<m_fd[g]>>] /\ table' = table
              \/ lists' = [lists EXCEPT ![l].err = TRUE] /\ table' = closed({m_fd[g]})
           /\ Ends(op, "ok", {m_fd[g]})
  <2>1. {m_fd[g]} \in SUBSET Fds /\ lists[l].alive
    BY <1>3 DEF Ready
  <2> HIDE DEF op
  <2> QED
    BY <1>1, <1>3, <2>1, FdToListStep, FdLostStep DEF Kept
<1> QED
  BY <1>2, <1>3 DEF move_descriptor

LEMMA SingleSeq ==
  ASSUME NEW q \in Seq(Fds), q # <<>>, Len(q) <= 1
  PROVE  Head(q) \in Fds /\ DOMAIN q = {1} /\ q[1] = Head(q)
<1>1. Len(q) \in Nat \ {0}
  OBVIOUS
<1>2. Len(q) = 1
  BY <1>1
<1> QED
  BY <1>2

LEMMA TakeStep ==
  ASSUME IInv, Running, NEW l \in NvLists, NEW k \in ScalarKeys, NEW g \in Guards,
         take_descriptor(l, k, g)
  PROVE  IInv'
<1> DEFINE op == "take_descriptor"
           none == <<>>
           n == Head(Kept(l, k))
<1>1. op \in Operations /\ k \in Keys /\ "ok" \in Outcomes
  BY DEF Operations, Keys, Outcomes
<1>2. CASE Rejects(op, l) \/ Aborts(op, l, k)
  BY <1>1, <1>2, ErrorStep, ThrowStep DEF Aborts
<1>3. CASE /\ Ready(l) /\ Unconstructed(g) /\ lists[l].fds[k] # <<>>
           /\ m_fd' = [m_fd EXCEPT ![g] = Head(lists[l].fds[k])]
           /\ lists' = [lists EXCEPT ![l].fds[k] = <<>>]
           /\ UNCHANGED <<table, plain>>
           /\ Ends(op, "ok", Range(lists[l].fds[k]))
  <2>1. /\ StateOK /\ Kept(l, k) \in Seq(Fds) /\ Len(Kept(l, k)) <= 1 /\ Kept(l, k) # <<>>
        /\ none \in Seq(Fds) /\ Len(none) <= 1
    BY <1>1, <1>3, KeptTyped DEF IInv, Body, Singles, Kept
  <2>2. /\ n \in Fds /\ DOMAIN Kept(l, k) = {1} /\ Kept(l, k)[1] = n
        /\ Range(Kept(l, k)) \in SUBSET Fds
    <3>1. Head(Kept(l, k)) \in Fds /\ DOMAIN Kept(l, k) = {1} /\ Kept(l, k)[1] = n
      BY <2>1, SingleSeq
    <3>2. Range(Kept(l, k)) \in SUBSET Fds
      BY <1>1, <2>1, KeptRange
    <3> QED
      BY <2>1, <3>1, <3>2
  <2>3. /\ lists' \in ListStates /\ DeadEmpty' /\ Singles' /\ Kept(l, k)' = <<>>
        /\ \A m \in NvLists, j \in Keys : m # l \/ j # k => Kept(m, j)' = Kept(m, j)
    BY <1>1, <1>3, <2>1, KeptUpdate DEF Ready
  <2>4. /\ m_fd' \in [Guards -> Fds \cup {None, Unborn}] /\ m_fd[g] = Unborn
        /\ \A h \in Guards : m_fd'[h] = IF h = g THEN n ELSE m_fd[h]
    BY <1>3, <2>1, <2>2 DEF StateOK, Kept, Unconstructed
  <2>5. StateOK'
    BY <1>3, <2>1, <2>3, <2>4 DEF StateOK
  <2> HIDE DEF n, none
  <2>6. AllHeld'
    <3>1. ASSUME NEW x \in Fds, InList(x), x # n PROVE InList(x)'
      <4>1. PICK m \in NvLists, j \in Keys : \E i \in DOMAIN Kept(m, j) : Kept(m, j)[i] = x
        BY <3>1 DEF InList
      <4>2. m # l \/ j # k
        BY <2>2, <3>1, <4>1
      <4> QED
        BY <2>3, <4>1, <4>2 DEF InList
    <3> QED
      BY <1>3, <2>4, <3>1, NoNumberAssumption DEF AllHeld, Held, IsOpen, IInv, Body
  <2>7. ASSUME since' = 0 PROVE Exclusive'
    <3>1. Exclusive
      BY <1>3, <2>7, SinceStep DEF IInv, Body
    <3>2. \A m \in NvLists, j \in Keys : \A i \in DOMAIN Kept(m, j)' :
            /\ Kept(m, j)' = Kept(m, j)
            /\ Kept(m, j)[i] \in Fds /\ Kept(m, j)[i] # n
      BY <1>1, <2>1, <2>2, <2>3, <3>1, KeptTyped DEF Exclusive, ListsApart
    <3>3. IsOpen(n) /\ n \notin plain /\ \A h \in Guards : m_fd[h] # n
      BY <1>1, <2>2, <3>1 DEF Exclusive, ListsApart, HeldOpen
    <3>4. HeldOpen'
      BY <1>3, <2>4, <3>1, <3>2, <3>3 DEF Exclusive, HeldOpen, IsOpen
    <3>5. FdsApart'
      BY <1>3, <2>4, <3>1, <3>3 DEF Exclusive, FdsApart
    <3>6. ListsApart'
      BY <1>3, <2>4, <3>1, <3>2 DEF Exclusive, ListsApart
    <3> QED
      BY <3>4, <3>5, <3>6 DEF Exclusive
  <2>8. Ends(op, "ok", Range(Kept(l, k)))
    BY <1>3 DEF Kept
  <2> HIDE DEF op
  <2> QED
    BY <1>1, <2>2, <2>3, <2>5, <2>6, <2>7, <2>8, EndStep DEF IInv
<1> QED
  BY <1>2, <1>3 DEF take_descriptor

\* After it has returned an array only AllHeld is left to show: what is closed
\* is what was in the array.
LEMMA TakeArrayStep ==
  ASSUME IInv, Running, NEW l \in NvLists, NEW k \in ArrayKeys, take_descriptor_array(l, k)
  PROVE  IInv'
<1> DEFINE op == "take_descriptor_array"
           none == <<>>
           S == Range(Kept(l, k))
<1>1. /\ op \in Operations /\ k \in Keys /\ "ok" \in Outcomes
      /\ k \notin ScalarKeys
  BY OneTypeAssumption DEF Operations, Keys, Outcomes, Exceptions
<1>2. CASE Rejects(op, l) \/ Aborts(op, l, k)
  BY <1>1, <1>2, ErrorStep, ThrowStep DEF Aborts
<1>3. ASSUME Ready(l),
             NEW result \in Injection(DOMAIN Kept(l, k), {g \in Guards : Unconstructed(g)}),
             m_fd' = [g \in Guards |->
                        IF g \in Range(result)
                        THEN Kept(l, k)[CHOOSE i \in DOMAIN Kept(l, k) : result[i] = g]
                        ELSE m_fd[g]],
             lists' = [lists EXCEPT ![l].fds[k] = <<>>],
             table' = closed(S), plain' = plain, Ends(op, "ok", S)
      PROVE  IInv'
  <2>1. /\ StateOK /\ none \in Seq(Fds) /\ Len(none) <= 1
        /\ \A i \in DOMAIN Kept(l, k) : Kept(l, k)[i] \in Fds
    BY <1>1, KeptTyped DEF IInv, Body
  <2>2. S \in SUBSET Fds /\ \A i \in DOMAIN Kept(l, k) : Kept(l, k)[i] \in S
    BY <1>1, <2>1, KeptRange
  <2>3. /\ lists' \in ListStates /\ DeadEmpty' /\ Singles' /\ Kept(l, k)' = <<>>
        /\ \A m \in NvLists, j \in Keys : m # l \/ j # k => Kept(m, j)' = Kept(m, j)
    BY <1>1, <1>3, <2>1, KeptUpdate DEF Ready
  <2>4. ASSUME NEW g \in Guards
        PROVE  /\ m_fd'[g] \in Fds \cup {None, Unborn}
               /\ m_fd[g] \in Fds => m_fd'[g] = m_fd[g]
    <3>1. CASE g \in Range(result)
      <4>1. /\ DOMAIN result = DOMAIN Kept(l, k)
            /\ \A i \in DOMAIN result : m_fd[result[i]] = Unborn
        BY <1>3 DEF Injection, Unconstructed
      <4>2. PICK i \in DOMAIN Kept(l, k) : result[i] = g
        BY <3>1, <4>1 DEF Range
      <4>3. (CHOOSE j \in DOMAIN Kept(l, k) : result[j] = g) \in DOMAIN Kept(l, k)
        BY <4>2
      <4>4. m_fd[g] = Unborn
        BY <4>1, <4>2
      <4> QED
        BY <1>3, <2>1, <3>1, <4>3, <4>4, NoNumberAssumption
    <3>2. CASE g \notin Range(result)
      BY <1>3, <2>1, <3>2 DEF StateOK
    <3> QED
      BY <3>1, <3>2
  <2>5. m_fd' \in [Guards -> Fds \cup {None, Unborn}]
    BY <1>3, <2>4
  <2>6. StateOK'
    BY <1>3, <2>1, <2>3, <2>5, ClosedTable DEF StateOK
  <2>7. \A n \in Fds : IsOpen(n)' <=> IsOpen(n) /\ n \notin S
    BY <1>3, <2>1, ClosedTable DEF IsOpen
  <2>8. AllHeld'
    <3>1. ASSUME NEW n \in Fds, InList(n), n \notin S PROVE InList(n)'
      <4>1. PICK m \in NvLists, j \in Keys : \E i \in DOMAIN Kept(m, j) : Kept(m, j)[i] = n
        BY <3>1 DEF InList
      <4>2. m # l \/ j # k
        BY <2>2, <3>1, <4>1
      <4> QED
        BY <2>3, <4>1, <4>2 DEF InList
    <3> QED
      BY <1>3, <2>4, <2>7, <3>1 DEF AllHeld, Held, IInv, Body
  <2>9. since' # 0
    BY <1>3 DEF Ends, IInv, TypeOK
  <2> HIDE DEF op, S
  <2> QED
    BY <1>1, <1>3, <2>2, <2>3, <2>6, <2>8, <2>9, EndStep DEF IInv
<1> QED
  BY <1>2, <1>3 DEF take_descriptor_array, Kept

LEMMA CopyStep ==
  ASSUME IInv, Running, NEW l \in NvLists, NEW m \in NvLists, copy_construct(l, m)
  PROVE  IInv'
<1>1. CASE throw_if_error("copy", m) \/ Throws("copy", "system_error")
  BY <1>1, ErrorStep, ThrowStep DEF Operations, Exceptions
<1> DEFINE source == [x \in Places(m) |-> At(m, x)]
<1>2. ASSUME ~ lists[l].alive, Ready(m), NEW copies \in Duplicates(source),
             table' = duplicated(source, copies),
             lists' = [lists EXCEPT ![l] =
               [alive |-> TRUE, err |-> FALSE,
                fds |-> [k \in Keys |-> [i \in DOMAIN lists[m].fds[k] |-> copies[<<k, i>>]]]]],
             UNCHANGED <<m_fd, plain>>, Ends("copy", "ok", {})
      PROVE  IInv'
  <2>1. StateOK /\ lists \in ListStates /\ DeadEmpty /\ Singles
    BY DEF IInv, Body, StateOK
  <2>2. /\ \A j \in Keys : \A i \in DOMAIN Kept(m, j) : <<j, i>> \in Places(m)
        /\ \A x \in Places(m) : \E j \in Keys : \E i \in DOMAIN Kept(m, j) : x = <<j, i>>
    BY PlacesMember
  <2>3. DOMAIN source = Places(m) /\ \A x \in DOMAIN source : source[x] \in Fds
    BY <2>1, <2>2, KeptTyped DEF At, Kept
  <2> HIDE DEF source
  <2>4. /\ DOMAIN copies = Places(m)
        /\ \A x \in DOMAIN copies : copies[x] \in Fds /\ ~ IsOpen(copies[x])
        /\ \A x, y \in DOMAIN copies : copies[x] = copies[y] => x = y
        /\ table' \in Tables
        /\ \A n \in Fds : IsOpen(n)' <=> IsOpen(n) \/ \E x \in DOMAIN copies : copies[x] = n
    BY <1>2, <2>1, <2>3, Copies DEF IsOpen
  <2> DEFINE new(j) == [i \in DOMAIN Kept(m, j) |-> copies[<<j, i>>]]
  <2>5. ASSUME NEW j \in Keys
        PROVE  /\ new(j) \in Seq(Fds) /\ Len(new(j)) = Len(Kept(m, j))
               /\ DOMAIN new(j) = DOMAIN Kept(m, j)
    <3>1. /\ DOMAIN Kept(m, j) = 1..Len(Kept(m, j)) /\ Len(Kept(m, j)) \in Nat
          /\ \A i \in DOMAIN Kept(m, j) : copies[<<j, i>>] \in Fds
      BY <2>1, <2>2, <2>4, KeptTyped
    <3> QED
      BY <3>1
  <2>6. /\ lists'[l].alive = TRUE /\ lists'[l].err = FALSE
        /\ lists'[l].fds = [j \in Keys |-> new(j)]
        /\ \A q \in NvLists : q # l => lists'[q] = lists[q]
        /\ DOMAIN lists' = NvLists
    BY <1>2, <2>1 DEF ListStates, Kept
  <2>7. lists' \in ListStates
    <3>1. [alive |-> TRUE, err |-> FALSE, fds |-> [j \in Keys |-> new(j)]]
            \in [alive : BOOLEAN, err : BOOLEAN, fds : [Keys -> Seq(Fds)]]
      BY <2>5
    <3>2. lists' = [lists EXCEPT ![l] =
                      [alive |-> TRUE, err |-> FALSE, fds |-> [j \in Keys |-> new(j)]]]
      BY <1>2 DEF Kept
    <3> HIDE DEF new
    <3> QED
      BY <2>1, <3>1, <3>2 DEF ListStates
  <2>8. /\ \A j \in Keys : Kept(l, j)' = new(j) /\ Kept(l, j) = <<>>
        /\ \A q \in NvLists, j \in Keys : q # l => Kept(q, j)' = Kept(q, j)
    BY <1>2, <2>1, <2>6 DEF Kept, DeadEmpty
  <2>9. DeadEmpty'
    BY <2>1, <2>6, <2>8 DEF DeadEmpty
  <2>10. Singles'
    BY <2>1, <2>5, <2>8 DEF Singles, Keys
  <2>11. PICK N : N = {copies[x] : x \in DOMAIN copies}
    OBVIOUS
  <2>12. /\ N \in SUBSET Fds /\ \A n \in N : ~ IsOpen(n)
         /\ \A n \in Fds : IsOpen(n)' <=> IsOpen(n) \/ n \in N
    BY <2>4, <2>11
  <2>13. \A j \in Keys : \A i \in DOMAIN new(j) :
           <<j, i>> \in DOMAIN copies /\ new(j)[i] = copies[<<j, i>>] /\ new(j)[i] \in N
    BY <2>2, <2>4, <2>5, <2>11
  <2>14. \A n \in N : \E j \in Keys : \E i \in DOMAIN new(j) : new(j)[i] = n
    BY <2>2, <2>4, <2>5, <2>11
  <2>15. \A j, r \in Keys : \A i \in DOMAIN new(j), y \in DOMAIN new(r) :
           new(r)[y] = new(j)[i] => r = j /\ y = i
    BY <2>4, <2>13
  <2> HIDE DEF new
  <2>16. \A q \in NvLists, j \in Keys : \A i \in DOMAIN Kept(q, j) :
           i \in DOMAIN Kept(q, j)' /\ Kept(q, j)'[i] = Kept(q, j)[i]
    BY <2>8
  <2>17. \A q \in NvLists, j \in Keys : \A i \in DOMAIN Kept(q, j)' :
           i \notin DOMAIN Kept(q, j) => q = l /\ Kept(q, j)' = new(j) /\ i \in DOMAIN new(j)
    BY <2>8
  <2>18. \A q \in NvLists, j \in Keys : \A i \in DOMAIN Kept(q, j)' :
           i \notin DOMAIN Kept(q, j) =>
             /\ Kept(q, j)'[i] \in N
             /\ \A p \in NvLists, r \in Keys : \A y \in DOMAIN Kept(p, r)' :
                  y \notin DOMAIN Kept(p, r) /\ Kept(p, r)'[y] = Kept(q, j)'[i] =>
                    p = q /\ r = j /\ y = i
    <3>1. ASSUME NEW q \in NvLists, NEW j \in Keys, NEW i \in DOMAIN Kept(q, j)',
                 i \notin DOMAIN Kept(q, j)
          PROVE  Kept(q, j)'[i] \in N
      BY <2>13, <2>17, <3>1
    <3>2. ASSUME NEW q \in NvLists, NEW j \in Keys, NEW i \in DOMAIN Kept(q, j)',
                 i \notin DOMAIN Kept(q, j),
                 NEW p \in NvLists, NEW r \in Keys, NEW y \in DOMAIN Kept(p, r)',
                 y \notin DOMAIN Kept(p, r), Kept(p, r)'[y] = Kept(q, j)'[i]
          PROVE  p = q /\ r = j /\ y = i
      <4>1. q = l /\ Kept(q, j)' = new(j) /\ i \in DOMAIN new(j)
        BY <2>17, <3>2
      <4>2. p = l /\ Kept(p, r)' = new(r) /\ y \in DOMAIN new(r)
        BY <2>17, <3>2
      <4> QED
        BY <2>15, <3>2, <4>1, <4>2
    <3> QED
      BY <3>1, <3>2
  <2>19. \A n \in N : InList(n)'
    BY <2>8, <2>14 DEF InList
  <2>20. "copy" \in Operations /\ "ok" \in Outcomes
    BY DEF Operations, Outcomes
  <2>21. m_fd' = m_fd /\ plain' = plain /\ Ends("copy", "ok", {})
    BY <1>2
  <2> QED
    BY <2>4, <2>7, <2>9, <2>10, <2>12, <2>16, <2>18, <2>19, <2>20, <2>21, GrowStep
<1> QED
  BY <1>1, <1>2 DEF copy_construct
-----------------------------------------------------------------------------
(* The invariant *)

LEMMA InitIInv ==
  ASSUME Init
  PROVE  IInv
<1>1. /\ \A l \in NvLists : lists[l].fds = Empty
      /\ \A l \in NvLists, k \in Keys : Kept(l, k) = <<>>
  BY DEF Init, Kept, Empty
<1>2. Empty \in [Keys -> Seq(Fds)]
  BY DEF Empty
<1>3. TypeOK /\ StateOK
  BY <1>2, BoundsAssumption
  DEF Init, TypeOK, StateOK, Tables, ListStates, Operations, Outcomes
<1>4. AllHeld /\ DeadEmpty /\ Singles
  BY <1>1 DEF Init, AllHeld, IsOpen, DeadEmpty, Singles, Keys
<1>5. Exclusive
  BY <1>1, NoNumberAssumption DEF Init, Exclusive, HeldOpen, FdsApart, ListsApart
<1> QED
  BY <1>3, <1>4, <1>5 DEF IInv, Body

LEMMA NextIInv ==
  ASSUME IInv, Next
  PROVE  IInv'
<1>0. Running
  BY DEF Next
<1>1. CASE open \/ close
  BY <1>0, <1>1, OpenStep, CloseStep
<1>2. ASSUME NEW g \in Guards, GuardStep(g) PROVE IInv'
  BY <1>0, <1>2, FdConstructStep, FdReleaseStep, FdDestroyStep, FdMoveStep, FdAssignStep
  DEF GuardStep
<1>3. ASSUME NEW l \in NvLists, ListStep(l) PROVE IInv'
  <2>1. CASE create(l) \/ destroy(l) \/ \E m \in NvLists : copy_construct(l, m)
    BY <1>0, <2>1, CreateStep, DestroyStep, CopyStep
  <2>2. ASSUME NEW k \in ScalarKeys, ScalarStep(l, k) PROVE IInv'
    <3>1. ASSUME NEW n \in Fds, add("add_descriptor", l, k, <<n>>) PROVE IInv'
      <4> DEFINE given == <<n>>
      <4>1. given \in Seq(Fds) /\ Len(given) <= 1
        OBVIOUS
      <4>2. k \in Keys /\ "add_descriptor" \in Operations
        BY DEF Keys, Operations
      <4> HIDE DEF given
      <4>3. add("add_descriptor", l, k, given)
        BY <3>1 DEF given
      <4> QED
        BY <1>0, <4>1, <4>2, <4>3, AddStep
    <3>2. ASSUME NEW g \in Guards, move_descriptor(l, k, g) \/ take_descriptor(l, k, g)
          PROVE  IInv'
      BY <1>0, <3>2, MoveStep, TakeStep
    <3>3. CASE free_type(l, k)
      BY <1>0, <3>3, FreeStep DEF Keys
    <3> QED
      BY <2>2, <3>1, <3>2, <3>3 DEF ScalarStep
  <2>3. ASSUME NEW k \in ArrayKeys, ArrayStep(l, k) PROVE IInv'
    <3>1. k \in Keys /\ k \notin ScalarKeys /\ "add_descriptor_array" \in Operations
      BY OneTypeAssumption DEF Keys, Operations
    <3>2. ASSUME NEW given \in BoundedSeq(Fds, MaxItems),
                 \/ add("add_descriptor_array", l, k, given)
                 \/ move_descriptor_array(l, k, given)
          PROVE  IInv'
      <4>1. given \in Seq(Fds)
        BY BoundsAssumption DEF BoundedSeq, SeqOf
      <4> QED
        BY <1>0, <3>1, <3>2, <4>1, AddStep, MoveArrayStep
    <3>3. ASSUME NEW n \in Fds, append_descriptor_array(l, k, n) PROVE IInv'
      BY <1>0, <3>3, AppendStep
    <3>4. CASE take_descriptor_array(l, k) \/ free_type(l, k)
      BY <1>0, <3>1, <3>4, TakeArrayStep, FreeStep
    <3> QED
      BY <2>3, <3>2, <3>3, <3>4 DEF ArrayStep
  <2> QED
    BY <1>3, <2>1, <2>2, <2>3 DEF ListStep
<1> QED
  BY <1>1, <1>2, <1>3 DEF Next

LEMMA Inductive == Spec => []IInv
<1>1. IInv /\ UNCHANGED vars => IInv'
  BY DEF vars, IInv, TypeOK, Body, StateOK, AllHeld, Held, InList, Kept, DeadEmpty, Singles,
         Exclusive, HeldOpen, FdsApart, ListsApart, IsOpen
<1> QED
  BY <1>1, InitIInv, NextIInv, PTL DEF Spec

\* The state has the form that TypeOK says.
THEOREM TypeCorrect == Spec => []TypeOK
BY Inductive, PTL DEF IInv

\* Until take_descriptor_array has returned an array, nothing is closed twice:
\* who is to close a number finds it open.
THEOREM NumbersOpenHolds == Spec => []NumbersOpen
<1>1. IInv => NumbersOpen
  BY NumbersMember DEF IInv, Body, Exclusive, HeldOpen, NumbersOpen
<1> QED
  BY <1>1, Inductive, PTL

\* Until then, every number has one closer at most.
THEOREM OneCloserHolds == Spec => []OneCloser
<1>1. ASSUME IInv PROVE OneCloser
  <2>1. ASSUME NEW l \in NvLists, NEW x \in Places(l)
        PROVE  \E k \in Keys : \E i \in DOMAIN Kept(l, k) :
                 x = <<k, i>> /\ At(l, x) = Kept(l, k)[i]
    BY PlacesMember DEF At, Kept
  <2> QED
    BY <1>1, <2>1 DEF IInv, Body, Exclusive, FdsApart, ListsApart, OneCloser
<1> QED
  BY <1>1, Inductive, PTL

\* Every open number has a closer, whatever was called.
THEOREM NoDescriptorLeakHolds == Spec => []NoDescriptorLeak
<1>1. IInv => NoDescriptorLeak
  BY NumbersMember DEF IInv, Body, AllHeld, Held, InList, NoDescriptorLeak
<1> QED
  BY <1>1, Inductive, PTL
-----------------------------------------------------------------------------
(* What a step may not do *)

\* No call makes an open number stand for another file.
FilesStay == \A n \in Fds : IsOpen(n) /\ IsOpen(n)' => table'[n] = table[n]

LEMMA SameTable ==
  ASSUME table' = table
  PROVE  FilesStay
BY DEF FilesStay

LEMMA ClosedStay ==
  ASSUME StateOK, NEW S, table' = closed(S)
  PROVE  FilesStay
BY DEF FilesStay, closed, IsOpen

LEMMA DuplicatedStay ==
  ASSUME StateOK, NEW source, NEW copies \in Duplicates(source),
         table' = duplicated(source, copies)
  PROVE  FilesStay
<1>1. \A x \in DOMAIN copies : ~ IsOpen(copies[x])
  BY DEF Duplicates, Injection, FreeNumbers
<1> QED
  BY <1>1 DEF FilesStay, duplicated, Range, IsOpen

LEMMA StoresStay ==
  ASSUME StateOK, NEW op, NEW l, NEW k, NEW given, Stores(op, l, k, given)
  PROVE  FilesStay
BY DuplicatedStay DEF Stores

LEMMA ThrowStay ==
  ASSUME NEW op, NEW e, NEW l, Throws(op, e) \/ Rejects(op, l) \/ throw_if_error(op, l) \/ Fails(op, e, l)
  PROVE  FilesStay
BY SameTable DEF Throws, Rejects, throw_if_error, Fails

LEMMA NextFilesStay ==
  ASSUME StateOK, Next
  PROVE  FilesStay
<1>1. CASE open
  <2>1. PICK n \in FreeNumbers, f \in Files : table' = [table EXCEPT ![n] = f]
    BY <1>1 DEF open
  <2> QED
    BY <2>1 DEF FilesStay, FreeNumbers, StateOK, Tables, IsOpen
<1>2. CASE close
  BY <1>2, ClosedStay DEF close
<1>3. ASSUME NEW g \in Guards, GuardStep(g) PROVE FilesStay
  BY <1>3, SameTable, ClosedStay, ThrowStay
  DEF GuardStep, fd_construct, fd_release, fd_destroy, fd_move_construct, fd_assign
<1>4. ASSUME NEW l \in NvLists, ListStep(l) PROVE FilesStay
  <2>1. CASE create(l) \/ destroy(l)
    BY <2>1, SameTable, ClosedStay, ThrowStay DEF create, destroy
  <2>2. ASSUME NEW m \in NvLists, copy_construct(l, m) PROVE FilesStay
    BY <2>2, ThrowStay, DuplicatedStay DEF copy_construct
  <2>3. ASSUME NEW op, NEW k, NEW given, add(op, l, k, given) PROVE FilesStay
    BY <2>3, ThrowStay, StoresStay DEF add
  <2>4. ASSUME NEW k, free_type(l, k) PROVE FilesStay
    BY <2>4, ThrowStay, ClosedStay DEF free_type
  <2>5. ASSUME NEW k \in ScalarKeys, ScalarStep(l, k) PROVE FilesStay
    <3>1. ASSUME NEW g, move_descriptor(l, k, g) PROVE FilesStay
      BY <3>1, ThrowStay, SameTable, ClosedStay DEF move_descriptor
    <3>2. ASSUME NEW g, take_descriptor(l, k, g) PROVE FilesStay
      BY <3>2, ThrowStay, SameTable DEF take_descriptor, Aborts
    <3> QED
      BY <2>3, <2>4, <2>5, <3>1, <3>2 DEF ScalarStep
  <2>6. ASSUME NEW k \in ArrayKeys, ArrayStep(l, k) PROVE FilesStay
    <3>1. ASSUME NEW given, move_descriptor_array(l, k, given) PROVE FilesStay
      BY <3>1, ThrowStay, StoresStay DEF move_descriptor_array
    <3>2. ASSUME NEW n, append_descriptor_array(l, k, n) PROVE FilesStay
      BY <3>2, ThrowStay, StoresStay DEF append_descriptor_array
    <3>3. ASSUME take_descriptor_array(l, k) PROVE FilesStay
      BY <3>3, ThrowStay, ClosedStay DEF take_descriptor_array, Aborts
    <3> QED
      BY <2>3, <2>4, <2>6, <3>1, <3>2, <3>3 DEF ArrayStep
  <2> QED
    BY <1>4, <2>1, <2>2, <2>5, <2>6 DEF ListStep
<1> QED
  BY <1>1, <1>2, <1>3, <1>4 DEF Next

\* Whatever is called ends.
LEMMA EveryStepEnds ==
  ASSUME Next
  PROVE  \E op, outcome, fds : Ends(op, outcome, fds)
<1>1. ASSUME NEW op, NEW e, NEW l, Throws(op, e) \/ Rejects(op, l) \/ throw_if_error(op, l) \/ Fails(op, e, l)
      PROVE  \E o, r, f : Ends(o, r, f)
  BY <1>1 DEF Throws, Rejects, throw_if_error, Fails
<1>2. CASE open \/ close
  BY <1>2 DEF open, close
<1>3. ASSUME NEW g \in Guards, GuardStep(g) PROVE \E o, r, f : Ends(o, r, f)
  BY <1>1, <1>3
  DEF GuardStep, fd_construct, fd_release, fd_destroy, fd_move_construct, fd_assign
<1>4. ASSUME NEW l \in NvLists, ListStep(l) PROVE \E o, r, f : Ends(o, r, f)
  <2>1. CASE create(l) \/ destroy(l) \/ \E m \in NvLists : copy_construct(l, m)
    BY <1>1, <2>1 DEF create, destroy, copy_construct
  <2>2. ASSUME NEW op, NEW k, NEW given, add(op, l, k, given)
        PROVE  \E o, r, f : Ends(o, r, f)
    BY <1>1, <2>2 DEF add, Stores
  <2>3. ASSUME NEW k, free_type(l, k) PROVE \E o, r, f : Ends(o, r, f)
    BY <1>1, <2>3 DEF free_type
  <2>4. ASSUME NEW k \in ScalarKeys, ScalarStep(l, k) PROVE \E o, r, f : Ends(o, r, f)
    BY <1>1, <2>2, <2>3, <2>4 DEF ScalarStep, move_descriptor, take_descriptor, Aborts
  <2>5. ASSUME NEW k \in ArrayKeys, ArrayStep(l, k) PROVE \E o, r, f : Ends(o, r, f)
    <3>1. ASSUME NEW given, move_descriptor_array(l, k, given)
          PROVE  \E o, r, f : Ends(o, r, f)
      BY <1>1, <3>1 DEF move_descriptor_array, Stores
    <3>2. ASSUME NEW n, append_descriptor_array(l, k, n) PROVE \E o, r, f : Ends(o, r, f)
      BY <1>1, <3>2 DEF append_descriptor_array, Stores
    <3>3. ASSUME take_descriptor_array(l, k) PROVE \E o, r, f : Ends(o, r, f)
      BY <1>1, <3>3 DEF take_descriptor_array, Aborts
    <3> QED
      BY <2>2, <2>3, <2>5, <3>1, <3>2, <3>3 DEF ArrayStep
  <2> QED
    BY <1>4, <2>1, <2>4, <2>5 DEF ListStep
<1> QED
  BY <1>2, <1>3, <1>4 DEF Next

\* Until take_descriptor_array has returned an array, a number stands for the
\* same file as long as an nv_fd or a list keeps it.
THEOREM SameFileHolds == Spec => SameFile
<1>1. ASSUME IInv, IInv', Next, since' = 0
      PROVE  /\ \A g \in Guards :
                  m_fd[g] \in Fds /\ m_fd'[g] = m_fd[g] => table'[m_fd[g]] = table[m_fd[g]]
             /\ \A l \in NvLists, n \in Fds :
                  n \in Numbers(l) /\ n \in Numbers(l)' => table'[n] = table[n]
  <2>1. FilesStay
    BY <1>1, NextFilesStay DEF IInv, Body
  <2>2. since = 0
    <3>1. ASSUME NEW op, NEW outcome, NEW fds, Ends(op, outcome, fds) PROVE since = 0
      BY <1>1, <3>1, SinceStep DEF IInv
    <3> QED
      BY <1>1, <3>1, EveryStepEnds
  <2>3. HeldOpen /\ HeldOpen'
    BY <1>1, <2>2 DEF IInv, Body, Exclusive
  <2>4. \A l \in NvLists, n \in Fds : n \in Numbers(l) => IsOpen(n)
    BY <2>3, NumbersMember DEF HeldOpen
  <2>5. \A l \in NvLists, n \in Fds : n \in Numbers(l)' => IsOpen(n)'
    <3>1. ASSUME NEW l \in NvLists, NEW n \in Fds, n \in Numbers(l)'
          PROVE  \E k \in Keys : \E i \in DOMAIN Kept(l, k)' : Kept(l, k)'[i] = n
      BY <3>1 DEF Numbers, Kept, Range
    <3> QED
      BY <2>3, <3>1 DEF HeldOpen
  <2> QED
    BY <2>1, <2>3, <2>4, <2>5 DEF FilesStay, HeldOpen
<1>2. ASSUME UNCHANGED vars
      PROVE  /\ \A g \in Guards : table'[m_fd[g]] = table[m_fd[g]]
             /\ \A n : table'[n] = table[n]
  BY <1>2 DEF vars
<1> QED
  BY <1>1, <1>2, Inductive, PTL DEF Spec, SameFile

\* A call that throws leaves every number with its closer.
Untouched ==
  call'.outcome \in Exceptions =>
    /\ UNCHANGED <<table, m_fd, plain>>
    /\ \A l \in NvLists : lists'[l].fds = lists[l].fds

LEMMA EndUntouched ==
  ASSUME NEW op, NEW fds, Ends(op, "ok", fds)
  PROVE  Untouched
BY DEF Ends, Untouched, Exceptions

LEMMA ThrowUntouched ==
  ASSUME StateOK, NEW op, NEW e, NEW l \in NvLists,
         Throws(op, e) \/ Rejects(op, l) \/ throw_if_error(op, l) \/ Fails(op, e, l)
  PROVE  Untouched
<1>1. CASE Throws(op, e) \/ Rejects(op, l) \/ throw_if_error(op, l)
  BY <1>1 DEF Throws, Rejects, throw_if_error, Untouched
<1>2. CASE Fails(op, e, l)
  <2>1. lists \in [NvLists -> [alive : BOOLEAN, err : BOOLEAN, fds : [Keys -> Seq(Fds)]]]
    BY DEF StateOK, ListStates
  <2>2. \A m \in NvLists : lists'[m].fds = lists[m].fds
    BY <1>2, <2>1 DEF Fails
  <2> QED
    BY <1>2, <2>2 DEF Fails, Untouched
<1> QED
  BY <1>1, <1>2

LEMMA NextUntouched ==
  ASSUME StateOK, Next
  PROVE  Untouched
<1>1. CASE open \/ close
  BY <1>1, EndUntouched DEF open, close
<1>2. ASSUME NEW g \in Guards, GuardStep(g) PROVE Untouched
  <2>1. CASE fd_release(g)
    BY <2>1, EndUntouched DEF fd_release, Throws, Untouched
  <2> QED
    BY <1>2, <2>1, EndUntouched
    DEF GuardStep, fd_construct, fd_destroy, fd_move_construct, fd_assign
<1>3. ASSUME NEW l \in NvLists, ListStep(l) PROVE Untouched
  <2>1. CASE create(l) \/ destroy(l)
    BY <1>3, <2>1, EndUntouched, ThrowUntouched DEF create, destroy
  <2>2. ASSUME NEW m \in NvLists, copy_construct(l, m) PROVE Untouched
    BY <2>2, EndUntouched, ThrowUntouched DEF copy_construct
  <2>3. ASSUME NEW op, NEW k, NEW given, add(op, l, k, given) PROVE Untouched
    BY <1>3, <2>3, EndUntouched, ThrowUntouched DEF add, Stores
  <2>4. ASSUME NEW k, free_type(l, k) PROVE Untouched
    BY <1>3, <2>4, EndUntouched, ThrowUntouched DEF free_type
  <2>5. ASSUME NEW k \in ScalarKeys, ScalarStep(l, k) PROVE Untouched
    <3>1. ASSUME NEW g, move_descriptor(l, k, g) \/ take_descriptor(l, k, g)
          PROVE  Untouched
      BY <1>3, <3>1, EndUntouched, ThrowUntouched
      DEF move_descriptor, take_descriptor, Aborts
    <3> QED
      BY <2>3, <2>4, <2>5, <3>1 DEF ScalarStep
  <2>6. ASSUME NEW k \in ArrayKeys, ArrayStep(l, k) PROVE Untouched
    <3>1. ASSUME NEW given, move_descriptor_array(l, k, given) PROVE Untouched
      BY <1>3, <3>1, EndUntouched, ThrowUntouched DEF move_descriptor_array, Stores
    <3>2. ASSUME NEW n, append_descriptor_array(l, k, n) PROVE Untouched
      BY <1>3, <3>2, EndUntouched, ThrowUntouched DEF append_descriptor_array, Stores
    <3>3. ASSUME take_descriptor_array(l, k) PROVE Untouched
      BY <1>3, <3>3, EndUntouched, ThrowUntouched DEF take_descriptor_array, Aborts
    <3> QED
      BY <2>3, <2>4, <2>6, <3>1, <3>2, <3>3 DEF ArrayStep
  <2> QED
    BY <1>3, <2>1, <2>2, <2>5, <2>6 DEF ListStep
<1> QED
  BY <1>1, <1>2, <1>3 DEF Next

\* A call that throws opens, closes and moves nothing.
THEOREM ThrowKeepsDescriptorsHolds == Spec => ThrowKeepsDescriptors
<1>1. IInv /\ Next => Untouched
  BY NextUntouched DEF IInv, Body
<1>2. IInv /\ [Next]_vars => [Untouched]_vars
  BY <1>1
<1> QED
  BY <1>2, Inductive, PTL DEF Spec, ThrowKeepsDescriptors, Untouched
=============================================================================
