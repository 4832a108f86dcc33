---------------------------- MODULE NvOwnership ----------------------------
(***************************************************************************)
(* Who frees which nvlist_t.  An nv_list owns the list its __m_nv points   *)
(* to, a const_nv_list only looks at one, a list owns the lists stored in  *)
(* it, and the caller owns what release() gave him or what he made with    *)
(* libnv himself.  Each action is one constructor, assignment, destructor  *)
(* or member function that hands lists around.                             *)
(*                                                                         *)
(* A caller does not use an object before its constructor or after its     *)
(* destructor, does not use a const_nv_list whose list has been freed, and *)
(* does not move an object into itself.  He may use a moved-from nv_list:  *)
(* its member functions then throw.                                        *)
(***************************************************************************)
EXTENDS NvHeap

CONSTANTS
  Owners,   \* the nv_list objects
  Views,    \* the const_nv_list objects
  Unborn,   \* what __m_nv is before the constructor and after the destructor
  Calls     \* the calls the program makes

Objects == Owners \cup Views
Operations == {"start", "nv_list", "adopt", "copy", "move", "assign_copy", "assign_move",
               "release", "destroy", "set_error", "add_nvlist", "move_nvlist",
               "take_nvlist", "get_nvlist", "free_nvlist", "xfer", "recv",
               "view", "libnv"}

ASSUME UnbornAssumption == Unborn \notin Lists /\ Unborn # Null
ASSUME ObjectsAssumption == Owners \cap Views = {}
ASSUME CallsAssumption == Calls \subseteq Operations

VARIABLES
  heap,   \* the lists
  m_nv,   \* the __m_nv of each object
  raw,    \* the nvlist_t that the caller owns
  call    \* the last call, its outcome, and the objects it was to change

vars == <<heap, m_nv, raw, call>>

Exceptions == {"logic_error", "system_error", "nv_error_state", "nv_key_not_found",
               "nv_key_exists", "bad_alloc"}
Outcomes == Exceptions \cup {"ok"}

\* Lists, pointers and the last call.
TypeOK ==
  /\ heap \in Heaps
  /\ m_nv \in [Objects -> Lists \cup {Null, Unborn}]
  /\ raw \subseteq Lists
  /\ call \in [op : Operations, outcome : Outcomes, on : SUBSET Objects]
-----------------------------------------------------------------------------
Born(x) == m_nv[x] # Unborn
Unconstructed(x) == m_nv[x] = Unborn
Points(x) == m_nv[x] \in Lists

\* The caller may use x.
Usable(x) == Born(x) /\ (Points(x) => Live(heap, m_nv[x]))

Ends(op, outcome, on) ==
  op \in Calls /\ call' = [op |-> op, outcome |-> outcome, on |-> on]

Throws(op, exception, on) ==
  Ends(op, exception, on) /\ UNCHANGED <<heap, m_nv, raw>>

throw_if_null(op, x) == m_nv[x] = Null /\ Throws(op, "logic_error", {})

throw_if_error(op, x) ==
  \/ throw_if_null(op, x)
  \/ Points(x) /\ heap[m_nv[x]].err /\ Throws(op, "nv_error_state", {})

\* x holds a list that is not in the error state.
Ready(x) == Points(x) /\ ~ heap[m_nv[x]].err

\* A member function with a key: the checks, then the copy of the key.
Rejects(op, x) ==
  \/ throw_if_error(op, x)
  \/ Ready(x) /\ Throws(op, "bad_alloc", {})

\* Mutant: a const_nv_list frees the list, too.
Owning_always(x) == TRUE

\* A const_nv_list is constructed with __non_owning.
Owning(x) == x \in Owners

\* The heap after __free_nv of x.
free_nv(h, x) ==
  IF Points(x) /\ Owning(x) THEN nvlist_destroy(h, m_nv[x]) ELSE h
-----------------------------------------------------------------------------
(* nv_list: constructors, assignments, destructor *)

\* nv_list(flags): one new list, or std::system_error and no object.
create(o) ==
  /\ Unconstructed(o)
  /\ \/ /\ \E l \in Available(heap) :
             heap' = nvlist_create(heap, l) /\ m_nv' = [m_nv EXCEPT ![o] = l]
        /\ raw' = raw
        /\ Ends("nv_list", "ok", {o})
     \/ Throws("nv_list", "system_error", {o})

\* unpack() and recv(), too, make one new list or none.
receive(o) ==
  /\ Unconstructed(o)
  /\ \/ /\ \E l \in Available(heap) :
             heap' = nvlist_create(heap, l) /\ m_nv' = [m_nv EXCEPT ![o] = l]
        /\ raw' = raw
        /\ Ends("recv", "ok", {o})
     \/ Throws("recv", "system_error", {o})

\* nv_list(nvlist_t *): the error state is not looked at.
adopt(o) ==
  /\ Unconstructed(o)
  /\ \/ Throws("adopt", "logic_error", {o})
     \/ \E l \in raw :
          /\ m_nv' = [m_nv EXCEPT ![o] = l] /\ raw' = raw \ {l} /\ heap' = heap
          /\ Ends("adopt", "ok", {o})

\* nv_list(const_nv_list const &) and nv_list(nv_list const &).
copy_construct(o, x) ==
  /\ Unconstructed(o) /\ Usable(x)
  /\ \/ throw_if_error("copy", x)
     \/ /\ Ready(x)
        /\ \/ \E p \in Placements(heap, m_nv[x]) :
                /\ heap' = nvlist_clone(heap, p) /\ raw' = raw
                /\ m_nv' = [m_nv EXCEPT ![o] = p[m_nv[x]]]
                /\ Ends("copy", "ok", {o})
           \/ Throws("copy", "system_error", {o})

\* Mutant: no std::exchange.
move_construct_shared(o, p) ==
  /\ Unconstructed(o) /\ Usable(p)
  /\ m_nv' = [m_nv EXCEPT ![o] = m_nv[p]]
  /\ UNCHANGED <<heap, raw>>
  /\ Ends("move", "ok", {o, p})

move_construct(o, p) ==
  /\ Unconstructed(o) /\ Usable(p)
  /\ m_nv' = [m_nv EXCEPT ![o] = m_nv[p], ![p] = Null]
  /\ UNCHANGED <<heap, raw>>
  /\ Ends("move", "ok", {o, p})

\* Mutant: no __free_nv.
assign_view_leaking(o, x) ==
  /\ Usable(o) /\ Usable(x) /\ Ready(x)
  /\ \E p \in Placements(heap, m_nv[x]) :
       /\ heap' = nvlist_clone(heap, p) /\ raw' = raw
       /\ m_nv' = [m_nv EXCEPT ![o] = p[m_nv[x]]]
  /\ Ends("assign_copy", "ok", {o})

\* operator=(const_nv_list const &): the old list goes once the copy is made.
assign_view(o, x) ==
  /\ Usable(o) /\ Usable(x)
  /\ \/ throw_if_null("assign_copy", x)
     \/ /\ Ready(x)
        /\ \E p \in Placements(heap, m_nv[x]) :
             /\ heap' = free_nv(nvlist_clone(heap, p), o) /\ raw' = raw
             /\ m_nv' = [m_nv EXCEPT ![o] = p[m_nv[x]]]
             /\ Ends("assign_copy", "ok", {o})
     \/ Points(x) /\ Throws("assign_copy", "system_error", {o})

\* operator=(nv_list const &): nothing when it is the same object.
assign_copy(o, p) ==
  \/ p # o /\ assign_view(o, p)
  \/ /\ p = o /\ Usable(o)
     /\ UNCHANGED <<heap, m_nv, raw>> /\ Ends("assign_copy", "ok", {o})

\* operator=(nv_list &&): the pointer to the old list is overwritten.
assign_move(o, p) ==
  /\ Usable(o) /\ Usable(p)
  /\ m_nv' = IF p = o THEN m_nv ELSE [m_nv EXCEPT ![o] = m_nv[p], ![p] = Null]
  /\ UNCHANGED <<heap, raw>>
  /\ Ends("assign_move", "ok", {o, p})

\* Mutant: a null pointer counts as a list.
release_null(o) ==
  /\ Usable(o)
  /\ raw' = raw \cup {m_nv[o]}
  /\ m_nv' = [m_nv EXCEPT ![o] = Null] /\ heap' = heap
  /\ Ends("release", "ok", {o})

release(o) ==
  /\ Usable(o)
  /\ raw' = raw \cup ({m_nv[o]} \cap Lists)
  /\ m_nv' = [m_nv EXCEPT ![o] = Null] /\ heap' = heap
  /\ Ends("release", "ok", {o})

\* ~__nv_list_base, of an nv_list or a const_nv_list.
destroy(x) ==
  /\ Born(x)
  /\ heap' = free_nv(heap, x)
  /\ m_nv' = [m_nv EXCEPT ![x] = Unborn] /\ raw' = raw
  /\ Ends("destroy", "ok", {x})
-----------------------------------------------------------------------------
(* nv_list: the member functions that store, remove or send lists *)

set_error(o) ==
  /\ Usable(o)
  /\ \/ throw_if_error("set_error", o)
     \/ /\ Ready(o)
        /\ heap' = nvlist_set_error(heap, m_nv[o]) /\ UNCHANGED <<m_nv, raw>>
        /\ Ends("set_error", "ok", {o})

\* An nvlist_add_* or nvlist_move_* call that fails only sets the error.
Fails(op, exception, o) ==
  /\ heap' = nvlist_set_error(heap, m_nv[o]) /\ UNCHANGED <<m_nv, raw>>
  /\ Ends(op, exception, {o})

\* Mutant: the list itself is stored.
add_nvlist_itself(o, k, x) ==
  /\ Usable(o) /\ Usable(x) /\ Ready(o) /\ Ready(x) /\ heap[m_nv[o]].kids[k] = Null
  /\ heap' = Attach(heap, m_nv[o], k, m_nv[x]) /\ UNCHANGED <<m_nv, raw>>
  /\ Ends("add_nvlist", "ok", {o})

\* Mutant: the arguments are swapped.
add_nvlist_swapped(o, k, x) ==
  /\ Usable(o) /\ Usable(x) /\ Ready(o) /\ Ready(x) /\ heap[m_nv[x]].kids[k] = Null
  /\ \E p \in Placements(heap, m_nv[o]) :
       heap' = Attach(nvlist_clone(heap, p), m_nv[x], k, p[m_nv[o]])
  /\ UNCHANGED <<m_nv, raw>>
  /\ Ends("add_nvlist", "ok", {o})

\* add_nvlist stores a copy of the list of x.
add_nvlist(o, k, x) ==
  /\ Usable(o) /\ Usable(x)
  /\ \/ Rejects("add_nvlist", o)
     \/ Ready(o) /\ Fails("add_nvlist", "system_error", o)
     \/ Ready(o) /\ Ready(x) /\ heap[m_nv[o]].kids[k] # Null
          /\ Fails("add_nvlist", "nv_key_exists", o)
     \/ /\ Ready(o) /\ Ready(x) /\ heap[m_nv[o]].kids[k] = Null
        /\ \E p \in Placements(heap, m_nv[x]) :
             heap' = Attach(nvlist_clone(heap, p), m_nv[o], k, p[m_nv[x]])
        /\ UNCHANGED <<m_nv, raw>>
        /\ Ends("add_nvlist", "ok", {o})

\* Mutant: nobody looks at the error of the list that is stored.
moved_nvlist_unchecked(o, k, c) ==
  IF c = Null \/ heap[m_nv[o]].kids[k] # Null THEN {nvlist_set_error(heap, m_nv[o])}
  ELSE {Attach(heap, m_nv[o], k, c)}

\* The heap after nvlist_move_nvlist of c: the list is stored, or destroyed
\* when the call fails; a null pointer is refused.
moved_nvlist(o, k, c) ==
  LET l == m_nv[o]
  IN  IF c = Null THEN {nvlist_set_error(heap, l)}
      ELSE {nvlist_set_error(nvlist_destroy(heap, c), l)}
             \cup IF heap[c].err \/ heap[l].kids[k] # Null THEN {}
                  ELSE {Attach(heap, l, k, c)}

\* Mutant: std::exchange, an argument of the call that the copy of the key is
\* another argument of, is evaluated first.
move_nvlist_unordered(o, k, p) ==
  /\ Usable(o) /\ Usable(p) /\ p # o /\ Ready(o)
  /\ m_nv' = [m_nv EXCEPT ![p] = Null] /\ UNCHANGED <<heap, raw>>
  /\ Ends("move_nvlist", "bad_alloc", {o, p})

\* move_nvlist(key, nv_list &&): nothing looks at nvlist_error() afterwards.
\* The key is copied before std::exchange is evaluated, as Clang, the compiler
\* of FreeBSD's base system, does it; C++ leaves the order open.
move_nvlist(o, k, p) ==
  /\ Usable(o) /\ Usable(p) /\ p # o
  /\ \/ Rejects("move_nvlist", o)
     \/ /\ Ready(o)
        /\ heap' \in moved_nvlist(o, k, m_nv[p])
        /\ m_nv' = [m_nv EXCEPT ![p] = Null] /\ raw' = raw
        /\ Ends("move_nvlist", "ok", {o, p})

\* move_nvlist(key, nvlist_t *).
move_raw_nvlist(o, k) ==
  /\ Usable(o)
  /\ \/ Rejects("move_nvlist", o)
     \/ /\ Ready(o)
        /\ \E c \in raw \cup {Null} : heap' \in moved_nvlist(o, k, c) /\ raw' = raw \ {c}
        /\ m_nv' = m_nv
        /\ Ends("move_nvlist", "ok", {o})

NotFound(op, x, k) ==
  Ready(x) /\ heap[m_nv[x]].kids[k] = Null /\ Throws(op, "nv_key_not_found", {})

take_nvlist(o, k, p) ==
  /\ Usable(o) /\ Unconstructed(p)
  /\ \/ Rejects("take_nvlist", o) \/ NotFound("take_nvlist", o, k)
     \/ /\ Ready(o) /\ heap[m_nv[o]].kids[k] # Null
        /\ heap' = Detach(heap, m_nv[o], k)
        /\ m_nv' = [m_nv EXCEPT ![p] = heap[m_nv[o]].kids[k]] /\ raw' = raw
        /\ Ends("take_nvlist", "ok", {o, p})

\* get_nvlist returns a const_nv_list that looks at the nested list.
get_nvlist(x, k, v) ==
  /\ Usable(x) /\ Unconstructed(v)
  /\ \/ Rejects("get_nvlist", x) \/ NotFound("get_nvlist", x, k)
     \/ /\ Ready(x) /\ heap[m_nv[x]].kids[k] # Null
        /\ m_nv' = [m_nv EXCEPT ![v] = heap[m_nv[x]].kids[k]]
        /\ UNCHANGED <<heap, raw>>
        /\ Ends("get_nvlist", "ok", {v})

free_nvlist(o, k) ==
  /\ Usable(o)
  /\ \/ Rejects("free_nvlist", o) \/ NotFound("free_nvlist", o, k)
     \/ /\ Ready(o) /\ heap[m_nv[o]].kids[k] # Null
        /\ heap' = nvlist_destroy(Detach(heap, m_nv[o], k), heap[m_nv[o]].kids[k])
        /\ UNCHANGED <<m_nv, raw>>
        /\ Ends("free_nvlist", "ok", {o})

\* xfer sends the list, destroys it and waits for a list in return: p.
xfer(o, p) ==
  /\ Usable(o) /\ Unconstructed(p)
  /\ \/ throw_if_error("xfer", o)
     \/ /\ Ready(o) /\ raw' = raw
        /\ LET sent == nvlist_destroy(heap, m_nv[o])
           IN  \/ /\ heap' = sent
                  /\ m_nv' = [m_nv EXCEPT ![o] = Null]
                  /\ Ends("xfer", "system_error", {o, p})
               \/ \E l \in Available(heap) :
                    /\ heap' = nvlist_create(sent, l)
                    /\ m_nv' = [m_nv EXCEPT ![o] = Null, ![p] = l]
                    /\ Ends("xfer", "ok", {o, p})
-----------------------------------------------------------------------------
(* const_nv_list *)

\* The constructors: of nothing, of a pointer, of another object.
view_construct(v) ==
  /\ Unconstructed(v)
  /\ \E l \in {Null} \cup raw \cup {m_nv[x] : x \in {y \in Objects : Born(y)}} :
       m_nv' = [m_nv EXCEPT ![v] = l]
  /\ UNCHANGED <<heap, raw>>
  /\ Ends("view", "ok", {v})

view_assign(v, x) ==
  /\ Born(v) /\ Born(x)
  /\ m_nv' = [m_nv EXCEPT ![v] = m_nv[x]]
  /\ UNCHANGED <<heap, raw>>
  /\ Ends("view", "ok", {v})
-----------------------------------------------------------------------------
(* The caller's own use of libnv, on the lists he owns *)

libnv_create ==
  /\ \E l \in Available(heap), e \in BOOLEAN :
       /\ heap' = [nvlist_create(heap, l) EXCEPT ![l].err = e]
       /\ raw' = raw \cup {l}
  /\ m_nv' = m_nv
  /\ Ends("libnv", "ok", {})

libnv_destroy ==
  /\ \E l \in raw : heap' = nvlist_destroy(heap, l) /\ raw' = raw \ {l}
  /\ m_nv' = m_nv
  /\ Ends("libnv", "ok", {})
-----------------------------------------------------------------------------
Init ==
  /\ heap = [l \in Lists |-> Unused]
  /\ m_nv = [x \in Objects |-> Unborn]
  /\ raw = {}
  /\ call = [op |-> "start", outcome |-> "ok", on |-> {}]

OwnerStep(o) ==
  \/ create(o) \/ receive(o) \/ adopt(o) \/ release(o) \/ set_error(o)
  \/ \E x \in Views : copy_construct(o, x) \/ assign_view(o, x)
  \/ \E p \in Owners : \/ copy_construct(o, p) \/ move_construct(o, p)
                       \/ assign_copy(o, p) \/ assign_move(o, p) \/ xfer(o, p)

NestingStep(o, k) ==
  \/ \E x \in Objects : add_nvlist(o, k, x)
  \/ \E p \in Owners : move_nvlist(o, k, p) \/ take_nvlist(o, k, p)
  \/ move_raw_nvlist(o, k) \/ free_nvlist(o, k)

ViewStep(v) ==
  \/ view_construct(v)
  \/ \E x \in Objects : view_assign(v, x) \/ \E k \in Keys : get_nvlist(x, k, v)

Next ==
  \/ \E o \in Owners : OwnerStep(o) \/ \E k \in Keys : NestingStep(o, k)
  \/ \E v \in Views : ViewStep(v)
  \/ \E x \in Objects : destroy(x)
  \/ libnv_create \/ libnv_destroy

Spec == Init /\ [][Next]_vars
-----------------------------------------------------------------------------
(* Safety *)

\* A list that has an owner, whether object, caller or list, has not been
\* freed: no use after free and no second free of it, after any sequence of
\* constructors, assignments, moves, takes and destructors.
OwnedListsLive ==
  /\ \A o \in Owners : Points(o) => Live(heap, m_nv[o])
  /\ \A l \in raw : Live(heap, l)
  /\ \A l, c \in Lists : IsKid(heap, l, c) => Live(heap, c)

\* No list has two owners, which would both free it.
SingleOwner ==
  /\ \A o, p \in Owners : Points(o) /\ m_nv[o] = m_nv[p] => o = p
  /\ \A o \in Owners : m_nv[o] \notin raw
  /\ \A l, c \in Lists, k \in Keys :
       heap[l].kids[k] = c =>
         /\ c \notin raw /\ \A o \in Owners : m_nv[o] # c
         /\ \A m \in Lists, j \in Keys : heap[m].kids[j] = c => m = l /\ j = k

\* A list in the error state is not stored in another: nothing reports its
\* error there, and a copy of the outer list would be impossible.
ChildrenHealthy ==
  \A l, c \in Lists : IsKid(heap, l, c) => ~ heap[c].err

\* No list is nested in itself, however the lists are moved and copied: a
\* clone, a send and a destruction of any list come to an end.
NoCycles == Acyclic(heap)

Root(l) == l \in raw \/ \E o \in Owners : m_nv[o] = l

\* The lists that nobody will free.  What is nested in them is lost with them.
Leaked ==
  {l \in Lists : Live(heap, l) /\ ~ Root(l) /\ \A m \in Lists : ~ IsKid(heap, m, l)}

\* Every call that takes a list from its owner hands it to another or frees
\* it; only move assignment, which overwrites a pointer, loses lists.
OnlyMoveAssignLeaks ==
  [][call'.op # "assign_move" => Leaked' \subseteq Leaked]_vars

\* A copy is deep: a call changes no list that belongs to an object it was
\* not made on.
Isolation ==
  [][\A o \in Owners \ call'.on :
       /\ m_nv'[o] = m_nv[o]
       /\ Points(o) => \A l \in Tree(heap, m_nv[o]) : heap'[l] = heap[l]]_vars

\* A call that throws moves no list: what it was to take over is still the
\* caller's.  xfer, which destroys the list it sends, is the exception.
ThrowKeepsOwnership ==
  [][call'.outcome # "ok" /\ call'.op # "xfer" =>
       /\ m_nv' = m_nv /\ raw' = raw
       /\ \A l \in Lists : heap'[l].state = heap[l].state /\ heap'[l].kids = heap[l].kids]_vars

-----------------------------------------------------------------------------
(* What the documentation says, where the code does something else *)

\* nvxx_base.h: an nv_list is an owning reference and frees its nvlist_t.
NoLeak == Leaked = {}
=============================================================================
