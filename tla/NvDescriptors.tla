--------------------------- MODULE NvDescriptors ---------------------------
(***************************************************************************)
(* Who closes which file descriptor.  An nv_fd closes the number in its    *)
(* __m_fd, a list closes the numbers of its descriptor and                 *)
(* descriptor_array pairs, and the caller closes the numbers he opened     *)
(* himself or got from release().  A number that has been closed may come  *)
(* to stand for another file.                                              *)
(*                                                                         *)
(* The caller uses each key for one type and no key with a NUL, and moves  *)
(* no list around: NvList and NvOwnership have those.                      *)
(***************************************************************************)
EXTENDS SequencesExt

CONSTANTS
  Fds,         \* the descriptor numbers of the process
  Files,       \* what a number can stand for
  Closed,      \* what a number stands for that is not open
  Guards,      \* the nv_fd objects
  None,        \* the -1 of an nv_fd
  Unborn,      \* the nv_fd before its constructor and after its destructor
  NvLists,     \* the nv_list objects
  ScalarKeys,  \* the keys of descriptor pairs
  ArrayKeys,   \* the keys of descriptor_array pairs
  MaxItems,    \* bound: elements of an array
  MaxSince     \* bound: calls since take_descriptor_array returned an array

Keys == ScalarKeys \cup ArrayKeys
Operations == {"start", "open", "close", "nv_fd", "move_fd", "assign_fd", "release", "drop_fd",
               "nv_list", "copy", "destroy", "add_descriptor", "add_descriptor_array",
               "move_descriptor", "move_descriptor_array", "append_descriptor_array",
               "take_descriptor", "take_descriptor_array", "free"}

ASSUME ClosedAssumption == Closed \notin Files
ASSUME NoNumberAssumption == None \notin Fds /\ Unborn \notin Fds /\ None # Unborn
ASSUME OneTypeAssumption == ScalarKeys \cap ArrayKeys = {}
ASSUME BoundsAssumption == MaxItems \in Nat /\ MaxSince \in Nat \ {0}

VARIABLES
  table,   \* what each number stands for
  m_fd,    \* the __m_fd of each nv_fd
  plain,   \* the numbers that the caller has to close
  lists,   \* the lists: constructed or not, in the error state or not, and
           \* the numbers under each key
  call,    \* the last call, its outcome, and the numbers passed or returned
  since    \* history: the calls since take_descriptor_array returned an
           \* array, the first such call included; 0 if it never did

vars == <<table, m_fd, plain, lists, call, since>>

Exceptions == {"nv_error_state", "nv_key_not_found", "nv_key_exists", "system_error",
               "logic_error", "bad_alloc"}
Outcomes == Exceptions \cup {"ok", "abort"}

Empty == [k \in Keys |-> <<>>]

\* Numbers, files, and the last call.
TypeOK ==
  /\ table \in [Fds -> Files \cup {Closed}]
  /\ m_fd \in [Guards -> Fds \cup {None, Unborn}]
  /\ plain \subseteq Fds
  /\ lists \in [NvLists -> [alive : BOOLEAN, err : BOOLEAN, fds : [Keys -> Seq(Fds)]]]
  /\ call \in [op : Operations, outcome : Outcomes, fds : SUBSET Fds]
  /\ since \in 0..MaxSince
-----------------------------------------------------------------------------
IsOpen(n) == table[n] # Closed
FreeNumbers == {n \in Fds : ~ IsOpen(n)}
Unconstructed(g) == m_fd[g] = Unborn
Numbers(l) == UNION {Range(lists[l].fds[k]) : k \in Keys}

\* Where a list keeps its numbers: a key and a position under it.
Places(l) == UNION {{k} \X DOMAIN lists[l].fds[k] : k \in Keys}
At(l, place) == lists[l].fds[place[1]][place[2]]

Ends(op, outcome, fds) ==
  /\ call' = [op |-> op, outcome |-> outcome, fds |-> fds]
  /\ since' = IF since > 0 \/ (op = "take_descriptor_array" /\ outcome = "ok")
              THEN since + 1 ELSE 0

Throws(op, exception) ==
  Ends(op, exception, {}) /\ UNCHANGED <<table, m_fd, plain, lists>>

\* close(2); nothing happens to a number that is not open.
closed(numbers) == [n \in Fds |-> IF n \in numbers THEN Closed ELSE table[n]]

\* Free numbers for duplicates of the numbers in source, a function.
Duplicates(source) ==
  IF \A x \in DOMAIN source : IsOpen(source[x])
  THEN Injection(DOMAIN source, FreeNumbers) ELSE {}

\* The table with those duplicates.
duplicated(source, copies) ==
  [n \in Fds |-> IF n \in Range(copies)
                 THEN table[source[CHOOSE x \in DOMAIN copies : copies[x] = n]]
                 ELSE table[n]]
-----------------------------------------------------------------------------
(* The caller's own descriptors *)

open ==
  /\ \E n \in FreeNumbers, f \in Files :
       /\ table' = [table EXCEPT ![n] = f] /\ plain' = plain \cup {n}
       /\ Ends("open", "ok", {n})
  /\ UNCHANGED <<m_fd, lists>>

close ==
  /\ \E n \in plain :
       table' = closed({n}) /\ plain' = plain \ {n} /\ Ends("close", "ok", {n})
  /\ UNCHANGED <<m_fd, lists>>
-----------------------------------------------------------------------------
(* nv_fd *)

\* nv_fd(int): of a number the caller owned, or of -1.
fd_construct(g) ==
  /\ Unconstructed(g)
  /\ \E n \in plain \cup {None} : m_fd' = [m_fd EXCEPT ![g] = n] /\ plain' = plain \ {n}
  /\ UNCHANGED <<table, lists>>
  /\ Ends("nv_fd", "ok", {})

\* Mutant: no std::exchange.
fd_move_construct_shared(g, h) ==
  /\ Unconstructed(g) /\ ~ Unconstructed(h)
  /\ m_fd' = [m_fd EXCEPT ![g] = m_fd[h]]
  /\ UNCHANGED <<table, plain, lists>>
  /\ Ends("move_fd", "ok", {})

fd_move_construct(g, h) ==
  /\ Unconstructed(g) /\ ~ Unconstructed(h)
  /\ m_fd' = [m_fd EXCEPT ![g] = m_fd[h], ![h] = None]
  /\ UNCHANGED <<table, plain, lists>>
  /\ Ends("move_fd", "ok", {})

\* Mutant: the number it had is overwritten.
fd_assign_leaking(g, h) ==
  /\ ~ Unconstructed(g) /\ ~ Unconstructed(h) /\ g # h
  /\ m_fd' = [m_fd EXCEPT ![g] = m_fd[h], ![h] = None]
  /\ UNCHANGED <<table, plain, lists>>
  /\ Ends("assign_fd", "ok", {})

\* operator=(nv_fd &&): the number it had is closed.
fd_assign(g, h) ==
  /\ ~ Unconstructed(g) /\ ~ Unconstructed(h)
  /\ IF g = h THEN UNCHANGED <<table, m_fd>>
     ELSE table' = closed({m_fd[g]}) /\ m_fd' = [m_fd EXCEPT ![g] = m_fd[h], ![h] = None]
  /\ UNCHANGED <<plain, lists>>
  /\ Ends("assign_fd", "ok", {})

\* Mutant: a moved-from nv_fd releases its -1.
fd_release_unchecked(g) ==
  /\ ~ Unconstructed(g)
  /\ m_fd' = [m_fd EXCEPT ![g] = None] /\ plain' = plain \cup {m_fd[g]}
  /\ UNCHANGED <<table, lists>>
  /\ Ends("release", "ok", {})

\* Mutant: the nv_fd keeps the number it has released.
fd_release_shared(g) ==
  /\ m_fd[g] \in Fds
  /\ plain' = plain \cup {m_fd[g]} /\ UNCHANGED <<table, m_fd, lists>>
  /\ Ends("release", "ok", {m_fd[g]})

fd_release(g) ==
  \/ m_fd[g] = None /\ Throws("release", "logic_error")
  \/ /\ m_fd[g] \in Fds
     /\ m_fd' = [m_fd EXCEPT ![g] = None] /\ plain' = plain \cup {m_fd[g]}
     /\ UNCHANGED <<table, lists>>
     /\ Ends("release", "ok", {m_fd[g]})

fd_destroy(g) ==
  /\ ~ Unconstructed(g)
  /\ table' = closed({m_fd[g]}) /\ m_fd' = [m_fd EXCEPT ![g] = Unborn]
  /\ UNCHANGED <<plain, lists>>
  /\ Ends("drop_fd", "ok", {})
-----------------------------------------------------------------------------
(* nv_list: a list with all its descriptors *)

create(l) ==
  /\ ~ lists[l].alive
  /\ \/ Throws("nv_list", "system_error")
     \/ /\ lists' = [lists EXCEPT ![l].alive = TRUE]
        /\ UNCHANGED <<table, m_fd, plain>>
        /\ Ends("nv_list", "ok", {})

throw_if_error(op, l) == lists[l].alive /\ lists[l].err /\ Throws(op, "nv_error_state")

Ready(l) == lists[l].alive /\ ~ lists[l].err

\* A member function with a key: the check, then the copy of the key.
Rejects(op, l) ==
  \/ throw_if_error(op, l)
  \/ Ready(l) /\ Throws(op, "bad_alloc")

\* A list is copied with a duplicate of each of its descriptors.
copy_construct(l, m) ==
  /\ ~ lists[l].alive
  /\ \/ throw_if_error("copy", m) \/ (Ready(m) /\ Throws("copy", "system_error"))
     \/ /\ Ready(m)
        /\ LET fds == lists[m].fds
               source == [x \in Places(m) |-> At(m, x)]
           IN  \E copies \in Duplicates(source) :
                 /\ table' = duplicated(source, copies)
                 /\ lists' = [lists EXCEPT ![l] =
                      [alive |-> TRUE, err |-> FALSE,
                       fds |-> [k \in Keys |-> [i \in DOMAIN fds[k] |-> copies[<<k, i>>]]]]]
        /\ UNCHANGED <<m_fd, plain>>
        /\ Ends("copy", "ok", {})

destroy(l) ==
  /\ lists[l].alive
  /\ table' = closed(Numbers(l))
  /\ lists' = [lists EXCEPT ![l] = [alive |-> FALSE, err |-> FALSE, fds |-> Empty]]
  /\ UNCHANGED <<m_fd, plain>>
  /\ Ends("destroy", "ok", {})
-----------------------------------------------------------------------------
(* nv_list: the member functions *)

\* A failed libnv call: the list is in the error state.
Fails(op, outcome, l) ==
  /\ lists' = [lists EXCEPT ![l].err = TRUE]
  /\ UNCHANGED <<table, m_fd, plain>>
  /\ Ends(op, outcome, {})

\* Duplicates of the given numbers are stored after those under the key.
Stores(op, l, k, given) ==
  /\ \E copies \in Duplicates(given) :
       /\ table' = duplicated(given, copies)
       /\ lists' = [lists EXCEPT ![l].fds[k] = @ \o copies]
  /\ UNCHANGED <<m_fd, plain>>
  /\ Ends(op, "ok", Range(given))

\* add_descriptor and add_descriptor_array; an empty array is refused.
add(op, l, k, given) ==
  \/ Rejects(op, l)
  \/ Ready(l) /\ Fails(op, "system_error", l)
  \/ Ready(l) /\ lists[l].fds[k] # <<>> /\ Fails(op, "nv_key_exists", l)
  \/ Ready(l) /\ lists[l].fds[k] = <<>> /\ given # <<>> /\ Stores(op, l, k, given)

\* The array goes to nvlist_add_descriptor_array(), and nothing looks at
\* nvlist_error() afterwards.
move_descriptor_array(l, k, given) ==
  LET op == "move_descriptor_array"
  IN  \/ Rejects(op, l)
      \/ Ready(l) /\ Fails(op, "ok", l)
      \/ Ready(l) /\ lists[l].fds[k] = <<>> /\ given # <<>> /\ Stores(op, l, k, given)

append_descriptor_array(l, k, n) ==
  LET op == "append_descriptor_array"
  IN  \/ Rejects(op, l)
      \/ Ready(l) /\ Fails(op, "ok", l)
      \/ Ready(l) /\ Len(lists[l].fds[k]) < MaxItems /\ Stores(op, l, k, <<n>>)

\* Mutant: release(), an argument of the call that the copy of the key is
\* another argument of, is evaluated first.
move_descriptor_unordered(l, k, g) ==
  /\ Ready(l) /\ m_fd[g] \in Fds
  /\ m_fd' = [m_fd EXCEPT ![g] = None] /\ UNCHANGED <<table, plain, lists>>
  /\ Ends("move_descriptor", "bad_alloc", {})

\* The nv_fd gives up its number before libnv is asked; the list gets it, or
\* libnv closes it.  The key is copied before release() is evaluated, as Clang,
\* the compiler of FreeBSD's base system, does it; C++ leaves the order open.
move_descriptor(l, k, g) ==
  LET n == m_fd[g]
  IN  \/ Rejects("move_descriptor", l)
      \/ Ready(l) /\ n = None /\ Throws("move_descriptor", "logic_error")
      \/ /\ Ready(l) /\ n \in Fds
         /\ m_fd' = [m_fd EXCEPT ![g] = None] /\ plain' = plain
         /\ \/ /\ IsOpen(n) /\ lists[l].fds[k] = <<>>
               /\ lists' = [lists EXCEPT ![l].fds[k] = <<n>>] /\ table' = table
            \/ lists' = [lists EXCEPT ![l].err = TRUE] /\ table' = closed({n})
         /\ Ends("move_descriptor", "ok", {n})

\* libnv aborts when there is no such pair.
Aborts(op, l, k) == Ready(l) /\ lists[l].fds[k] = <<>> /\ Throws(op, "abort")

\* Mutant: nvlist_get_descriptor() and nvlist_free_descriptor().
take_descriptor_freed(l, k, g) ==
  /\ Ready(l) /\ Unconstructed(g) /\ lists[l].fds[k] # <<>>
  /\ m_fd' = [m_fd EXCEPT ![g] = Head(lists[l].fds[k])]
  /\ lists' = [lists EXCEPT ![l].fds[k] = <<>>]
  /\ table' = closed(Range(lists[l].fds[k])) /\ plain' = plain
  /\ Ends("take_descriptor", "ok", Range(lists[l].fds[k]))

take_descriptor(l, k, g) ==
  \/ Rejects("take_descriptor", l) \/ Aborts("take_descriptor", l, k)
  \/ /\ Ready(l) /\ Unconstructed(g) /\ lists[l].fds[k] # <<>>
     /\ m_fd' = [m_fd EXCEPT ![g] = Head(lists[l].fds[k])]
     /\ lists' = [lists EXCEPT ![l].fds[k] = <<>>]
     /\ UNCHANGED <<table, plain>>
     /\ Ends("take_descriptor", "ok", Range(lists[l].fds[k]))

\* The vector of nv_fd is allocated, or the call throws like one that cannot
\* copy its key; it is filled with the numbers of the array, and
\* nvlist_free_descriptor_array() then closes those numbers.
take_descriptor_array(l, k) ==
  LET op == "take_descriptor_array"
      numbers == lists[l].fds[k]
  IN  \/ Rejects(op, l) \/ Aborts(op, l, k)
      \/ /\ Ready(l) /\ numbers # <<>>
         /\ \E result \in Injection(DOMAIN numbers, {g \in Guards : Unconstructed(g)}) :
              m_fd' = [g \in Guards |->
                         IF g \in Range(result)
                         THEN numbers[CHOOSE i \in DOMAIN numbers : result[i] = g] ELSE m_fd[g]]
         /\ lists' = [lists EXCEPT ![l].fds[k] = <<>>]
         /\ table' = closed(Range(numbers)) /\ plain' = plain
         /\ Ends(op, "ok", Range(numbers))

\* free_descriptor, free_descriptor_array and free.
free_type(l, k) ==
  \/ Rejects("free", l)
  \/ Ready(l) /\ lists[l].fds[k] = <<>> /\ Throws("free", "nv_key_not_found")
  \/ /\ Ready(l) /\ lists[l].fds[k] # <<>>
     /\ table' = closed(Range(lists[l].fds[k]))
     /\ lists' = [lists EXCEPT ![l].fds[k] = <<>>]
     /\ UNCHANGED <<m_fd, plain>>
     /\ Ends("free", "ok", {})
-----------------------------------------------------------------------------
Init ==
  /\ table = [n \in Fds |-> Closed]
  /\ m_fd = [g \in Guards |-> Unborn]
  /\ plain = {}
  /\ lists = [l \in NvLists |-> [alive |-> FALSE, err |-> FALSE, fds |-> Empty]]
  /\ call = [op |-> "start", outcome |-> "ok", fds |-> {}]
  /\ since = 0

Running == call.outcome # "abort" /\ since < MaxSince

GuardStep(g) ==
  \/ fd_construct(g) \/ fd_release(g) \/ fd_destroy(g)
  \/ \E h \in Guards : fd_move_construct(g, h) \/ fd_assign(g, h)

ScalarStep(l, k) ==
  \/ \E n \in Fds : add("add_descriptor", l, k, <<n>>)
  \/ \E g \in Guards : move_descriptor(l, k, g) \/ take_descriptor(l, k, g)
  \/ free_type(l, k)

ArrayStep(l, k) ==
  \/ \E given \in BoundedSeq(Fds, MaxItems) :
       add("add_descriptor_array", l, k, given) \/ move_descriptor_array(l, k, given)
  \/ \E n \in Fds : append_descriptor_array(l, k, n)
  \/ take_descriptor_array(l, k) \/ free_type(l, k)

ListStep(l) ==
  \/ create(l) \/ destroy(l) \/ \E m \in NvLists : copy_construct(l, m)
  \/ \E k \in ScalarKeys : ScalarStep(l, k)
  \/ \E k \in ArrayKeys : ArrayStep(l, k)

Next ==
  /\ Running
  /\ \/ open \/ close
     \/ \E g \in Guards : GuardStep(g)
     \/ \E l \in NvLists : ListStep(l)

Spec == Init /\ [][Next]_vars
-----------------------------------------------------------------------------
(* Safety *)

\* Whoever is to close a number finds it open: nothing is closed twice, until
\* take_descriptor_array has returned numbers that it has closed.
NumbersOpen ==
  since = 0 =>
    /\ \A g \in Guards : m_fd[g] \in Fds => IsOpen(m_fd[g])
    /\ \A n \in plain : IsOpen(n)
    /\ \A l \in NvLists : \A n \in Numbers(l) : IsOpen(n)

\* A number is closed by one nv_fd, one place in one list, or the caller, and
\* by nobody else, until take_descriptor_array has returned an array.
OneCloser ==
  since = 0 =>
    /\ \A g, h \in Guards : m_fd[g] \in Fds /\ m_fd[g] = m_fd[h] => g = h
    /\ \A g \in Guards : m_fd[g] \notin plain
    /\ \A l \in NvLists : \A x \in Places(l) :
         /\ At(l, x) \notin plain /\ \A g \in Guards : m_fd[g] # At(l, x)
         /\ \A m \in NvLists : \A y \in Places(m) : At(m, y) = At(l, x) => m = l /\ y = x

\* Every open number will be closed by someone, whatever was called.
NoDescriptorLeak ==
  \A n \in Fds : IsOpen(n) =>
    n \in plain \/ (\E g \in Guards : m_fd[g] = n) \/ \E l \in NvLists : n \in Numbers(l)

\* A number stands for the same file as long as an nv_fd or a list keeps it:
\* no close elsewhere lets it be reused under their feet, until
\* take_descriptor_array has returned an array.
SameFile ==
  [][since' = 0 =>
     /\ \A g \in Guards :
          m_fd[g] \in Fds /\ m_fd'[g] = m_fd[g] => table'[m_fd[g]] = table[m_fd[g]]
     /\ \A l \in NvLists, n \in Fds :
          n \in Numbers(l) /\ n \in Numbers(l)' => table'[n] = table[n]]_vars

\* A call that throws opens, closes and moves nothing.
ThrowKeepsDescriptors ==
  [][call'.outcome \in Exceptions =>
       /\ UNCHANGED <<table, m_fd, plain>>
       /\ \A l \in NvLists : lists'[l].fds = lists[l].fds]_vars
-----------------------------------------------------------------------------
(* What the documentation says, where the code does something else *)

\* nvxx.3, nv_list.cc 881: the nv_fd objects that take_descriptor_array
\* returns own the descriptors of the array.
TakenArrayIsOpen ==
  [][call'.op = "take_descriptor_array" /\ call'.outcome = "ok" =>
       \A n \in call'.fds : table'[n] # Closed]_vars

\* nvxx.3: the list takes ownership of the descriptors that
\* move_descriptor_array is given: it has them, or it has closed them.
MovedArrayIsTaken ==
  [][call'.op = "move_descriptor_array" /\ call'.outcome = "ok" =>
       \A n \in call'.fds : table'[n] = Closed \/ \E l \in NvLists : n \in Numbers(l)']_vars
=============================================================================
