--------------------------- MODULE NvHeapProofs ---------------------------
(***************************************************************************)
(* What the libnv calls keep true of the heap, for every set of lists and  *)
(* every nesting of them.  R is the set of lists that objects or the       *)
(* caller own, the roots; every other list is owned by the list it is      *)
(* stored in.                                                              *)
(***************************************************************************)
EXTENDS NvHeap, TLAPS

RootsLive(h, R) == \A l \in R : Live(h, l)

\* Whatever is stored in a list is live, is owned by nobody else, and is not
\* in the error state.
KidsOwned(h, R) ==
  \A l, c \in Lists : IsKid(h, l, c) => Live(h, c) /\ c \notin R /\ ~ h[c].err

OneParent(h) ==
  \A l, m, c \in Lists, k, j \in Keys :
    h[l].kids[k] = c /\ h[m].kids[j] = c => l = m /\ k = j

DeadAreEmpty(h) == \A l \in Lists : ~ Live(h, l) => h[l].kids = NoKids /\ ~ h[l].err

WellFormed(h, R) ==
  /\ h \in Heaps
  /\ RootsLive(h, R)
  /\ KidsOwned(h, R)
  /\ OneParent(h)
  /\ DeadAreEmpty(h)
  /\ Acyclic(h)
-----------------------------------------------------------------------------
(* The tree of lists nested in one list *)

LEMMA TreeProperties ==
  ASSUME NEW h, NEW root \in Lists
  PROVE  /\ root \in Tree(h, root)
         /\ Tree(h, root) \subseteq Lists
         /\ Closed(h, Tree(h, root))
BY DEF Tree, Closed

\* Whoever is in the tree, but not its root, has a parent in the tree.
LEMMA TreeParent ==
  ASSUME NEW h, NEW root \in Lists, NEW c \in Tree(h, root), c # root
  PROVE  \E l \in Tree(h, root) : IsKid(h, l, c)
<1> SUFFICES ASSUME \A l \in Tree(h, root) : ~ IsKid(h, l, c)
             PROVE  FALSE
  OBVIOUS
<1> DEFINE S == Tree(h, root) \ {c}
<1>1. S \in SUBSET Lists /\ root \in S
  BY TreeProperties
<1>2. Closed(h, S)
  BY TreeProperties DEF Closed
<1> QED
  BY <1>1, <1>2 DEF Tree

LEMMA TreeLive ==
  ASSUME NEW h, NEW R, WellFormed(h, R), NEW root \in Lists, Live(h, root)
  PROVE  \A l \in Tree(h, root) : Live(h, l)
<1> DEFINE S == {l \in Lists : Live(h, l)}
<1>1. Closed(h, S)
  BY DEF Closed, WellFormed, KidsOwned
<1> QED
  BY <1>1 DEF Tree

\* A heap with fewer links has no cycle that the other has not.
LEMMA FewerLinks ==
  ASSUME NEW g, NEW h, Acyclic(h),
         \A m, c \in Lists : IsKid(g, m, c) => IsKid(h, m, c)
  PROVE  Acyclic(g)
<1>1. \A S \in SUBSET Lists : Closed(h, S) => Closed(g, S)
  BY DEF Closed
<1>2. \A l \in Lists : Tree(g, l) \subseteq Tree(h, l)
  BY <1>1 DEF Tree
<1>3. \A l \in Lists : Tree(g, l) \subseteq Lists
  BY TreeProperties
<1> QED
  BY <1>2, <1>3 DEF Acyclic

LEMMA NoKidsType == NoKids \in [Keys -> Lists \cup {Null}] /\ \A k \in Keys : NoKids[k] = Null
BY DEF NoKids

LEMMA CellTypes == Fresh \in Cells /\ Freed \in Cells /\ Unused \in Cells
BY NoKidsType DEF Fresh, Freed, Unused, Cells
-----------------------------------------------------------------------------
(* What each call keeps *)

\* Fewer roots are no harder to keep.
LEMMA FewerRoots ==
  ASSUME NEW h, NEW R, WellFormed(h, R), NEW S \in SUBSET R
  PROVE  WellFormed(h, S)
BY DEF WellFormed, RootsLive, KidsOwned

LEMMA CreateKeeps ==
  ASSUME NEW h, NEW R \in SUBSET Lists, WellFormed(h, R), NEW l \in Available(h)
  PROVE  WellFormed(nvlist_create(h, l), R \cup {l})
<1> DEFINE g == nvlist_create(h, l)
<1>1. h \in Heaps /\ l \in Lists /\ ~ Live(h, l)
  BY DEF WellFormed, Available, Live
<1>2. /\ g \in Heaps
      /\ g[l] = Fresh
      /\ \A m \in Lists : m # l => g[m] = h[m]
  BY <1>1, CellTypes DEF nvlist_create, Heaps
<1>3. h[l].kids = NoKids /\ g[l].kids = NoKids /\ Live(g, l) /\ ~ g[l].err
  BY <1>1, <1>2 DEF WellFormed, DeadAreEmpty, Live, Fresh
<1> HIDE DEF g
<1>4. \A m \in Lists : g[m].kids = h[m].kids
  BY <1>2, <1>3
<1>5. \A m, c \in Lists : IsKid(g, m, c) => IsKid(h, m, c) /\ c # l
  BY <1>1, <1>4 DEF IsKid, WellFormed, KidsOwned
<1>6. RootsLive(g, R \cup {l}) /\ DeadAreEmpty(g)
  BY <1>2, <1>3 DEF WellFormed, RootsLive, DeadAreEmpty, Live
<1>7. KidsOwned(g, R \cup {l})
  BY <1>2, <1>5 DEF WellFormed, KidsOwned, Live
<1>8. OneParent(g)
  BY <1>4 DEF WellFormed, OneParent
<1>9. Acyclic(g)
  BY <1>5, FewerLinks DEF WellFormed
<1> QED
  BY <1>2, <1>6, <1>7, <1>8, <1>9 DEF WellFormed, g

LEMMA SetErrorKeeps ==
  ASSUME NEW h, NEW R \in SUBSET Lists, WellFormed(h, R), NEW l \in R
  PROVE  WellFormed(nvlist_set_error(h, l), R)
<1> DEFINE g == nvlist_set_error(h, l)
<1>1. /\ g \in Heaps
      /\ \A m \in Lists : g[m].kids = h[m].kids /\ g[m].state = h[m].state
      /\ \A m \in Lists : m # l => g[m] = h[m]
  BY DEF nvlist_set_error, WellFormed, Heaps, Cells
<1> HIDE DEF g
<1>2. \A m \in Lists : Live(g, m) <=> Live(h, m)
  BY <1>1 DEF Live
<1>3. \A m, c \in Lists : IsKid(g, m, c) => IsKid(h, m, c)
  BY <1>1 DEF IsKid
<1>4. RootsLive(g, R) /\ DeadAreEmpty(g)
  BY <1>1, <1>2 DEF WellFormed, RootsLive, DeadAreEmpty
<1>5. KidsOwned(g, R)
  BY <1>1, <1>2, <1>3 DEF WellFormed, KidsOwned
<1>6. OneParent(g)
  BY <1>1 DEF WellFormed, OneParent
<1>7. Acyclic(g)
  BY <1>3, FewerLinks DEF WellFormed
<1> QED
  BY <1>1, <1>4, <1>5, <1>6, <1>7 DEF WellFormed, g

\* A root can be destroyed: nothing that stays refers to what goes.
LEMMA DestroyKeeps ==
  ASSUME NEW h, NEW R \in SUBSET Lists, WellFormed(h, R), NEW l \in R
  PROVE  /\ WellFormed(nvlist_destroy(h, l), R \ {l})
         /\ \A m \in R \ {l} : nvlist_destroy(h, l)[m] = h[m]
<1> DEFINE T == Tree(h, l)
           g == nvlist_destroy(h, l)
<1>1. l \in T /\ T \subseteq Lists /\ h \in Heaps
  BY TreeProperties DEF WellFormed
<1>2. \A c \in T : c # l => \E m \in T : IsKid(h, m, c)
  BY TreeParent
<1>3. /\ g \in Heaps
      /\ \A m \in T : g[m] = Freed
      /\ \A m \in Lists \ T : g[m] = h[m]
  BY <1>1, CellTypes DEF nvlist_destroy, Heaps
<1> HIDE DEF T, g
<1>4. \A m \in R : m # l => m \notin T
  BY <1>1, <1>2 DEF WellFormed, KidsOwned
<1>5. \A m \in T : g[m].kids = NoKids /\ ~ g[m].err
  BY <1>3 DEF Freed
<1>6. \A m, c \in Lists : IsKid(g, m, c) => m \notin T /\ IsKid(h, m, c)
  BY <1>3, <1>5, NoKidsType, NullAssumption DEF IsKid
<1>7. \A m, c \in Lists : IsKid(g, m, c) => c \notin T
  <2> SUFFICES ASSUME NEW m \in Lists, NEW c \in Lists, IsKid(g, m, c), c \in T
               PROVE  FALSE
    OBVIOUS
  <2>1. m \notin T /\ IsKid(h, m, c)
    BY <1>6
  <2>2. c # l
    BY <2>1 DEF WellFormed, KidsOwned
  <2>3. PICK y \in T : IsKid(h, y, c)
    BY <1>2, <2>2
  <2> QED
    BY <1>1, <2>1, <2>3 DEF IsKid, WellFormed, OneParent
<1>8. RootsLive(g, R \ {l})
  BY <1>3, <1>4 DEF WellFormed, RootsLive, Live
<1>9. KidsOwned(g, R \ {l})
  BY <1>3, <1>6, <1>7 DEF WellFormed, KidsOwned, Live
<1>10. OneParent(g)
  <2> SUFFICES ASSUME NEW a \in Lists, NEW b \in Lists, NEW c \in Lists,
                      NEW k \in Keys, NEW j \in Keys,
                      g[a].kids[k] = c, g[b].kids[j] = c
               PROVE  a = b /\ k = j
    BY DEF OneParent
  <2>1. a \notin T /\ b \notin T
    BY <1>6 DEF IsKid
  <2> QED
    BY <1>3, <2>1 DEF WellFormed, OneParent
<1>11. DeadAreEmpty(g)
  BY <1>3, <1>5 DEF WellFormed, DeadAreEmpty, Live
<1>12. \A m \in R \ {l} : g[m] = h[m]
  BY <1>3, <1>4
<1>13. Acyclic(g)
  BY <1>6, FewerLinks DEF WellFormed
<1> QED
  BY <1>3, <1>8, <1>9, <1>10, <1>11, <1>12, <1>13 DEF WellFormed, g

LEMMA AttachKeeps ==
  ASSUME NEW h, NEW R \in SUBSET Lists, WellFormed(h, R),
         NEW l \in R, NEW k \in Keys, h[l].kids[k] = Null,
         NEW c \in R, c # l, ~ h[c].err
  PROVE  WellFormed(Attach(h, l, k, c), R \ {c})
<1> DEFINE g == Attach(h, l, k, c)
<1>1. /\ g \in Heaps
      /\ \A m \in Lists : g[m].state = h[m].state /\ g[m].err = h[m].err
      /\ \A m \in Lists : m # l => g[m] = h[m]
      /\ g[l].kids[k] = c
      /\ \A j \in Keys : j # k => g[l].kids[j] = h[l].kids[j]
  BY DEF Attach, WellFormed, Heaps, Cells
<1> HIDE DEF g
<1>2. \A m \in Lists : Live(g, m) <=> Live(h, m)
  BY <1>1 DEF Live
<1>3. \A m, d \in Lists, j \in Keys :
        g[m].kids[j] = d => (m = l /\ j = k /\ d = c) \/ (h[m].kids[j] = d /\ d # c)
  BY <1>1 DEF WellFormed, KidsOwned, IsKid
<1>4. RootsLive(g, R \ {c}) /\ DeadAreEmpty(g)
  BY <1>1, <1>2 DEF WellFormed, RootsLive, DeadAreEmpty
<1>5. KidsOwned(g, R \ {c})
  BY <1>1, <1>2, <1>3 DEF WellFormed, KidsOwned, RootsLive, IsKid
<1>6. OneParent(g)
  BY <1>3 DEF WellFormed, OneParent
<1>7. Acyclic(g)
  <2> SUFFICES ASSUME NEW x \in Lists, NEW m \in Tree(g, x), IsKid(g, m, x)
               PROVE  FALSE
    BY DEF Acyclic
  <2>1. m \in Lists /\ \A a \in Lists : ~ IsKid(g, a, l)
    BY <1>5, TreeProperties DEF KidsOwned
  <2>2. x # l
    BY <2>1
  <2>3. l \notin Tree(g, x)
    BY <2>1, <2>2, TreeParent, TreeProperties
  <2>4. \A S \in SUBSET Lists : Closed(h, S) => Closed(g, S \cap Tree(g, x))
    BY <1>1, <2>3, TreeProperties DEF Closed, IsKid
  <2>5. Tree(g, x) \subseteq Tree(h, x)
    <3> SUFFICES ASSUME NEW a \in Tree(g, x), NEW S \in SUBSET Lists,
                        x \in S, Closed(h, S)
                 PROVE  a \in S
      BY TreeProperties DEF Tree
    <3>1. x \in S \cap Tree(g, x) /\ Closed(g, S \cap Tree(g, x))
      BY <2>4, TreeProperties
    <3> QED
      BY <3>1 DEF Tree
  <2>6. IsKid(h, m, x)
    BY <1>1, <2>1, <2>3 DEF IsKid
  <2> QED
    BY <2>5, <2>6 DEF WellFormed, Acyclic
<1> QED
  BY <1>1, <1>4, <1>5, <1>6, <1>7 DEF WellFormed, g

LEMMA DetachKeeps ==
  ASSUME NEW h, NEW R \in SUBSET Lists, WellFormed(h, R),
         NEW l \in Lists, NEW k \in Keys, h[l].kids[k] # Null
  PROVE  /\ h[l].kids[k] \in Lists
         /\ WellFormed(Detach(h, l, k), R \cup {h[l].kids[k]})
<1> DEFINE g == Detach(h, l, k)
           c == h[l].kids[k]
<1>1. /\ g \in Heaps
      /\ \A m \in Lists : g[m].state = h[m].state /\ g[m].err = h[m].err
      /\ \A m \in Lists : m # l => g[m] = h[m]
      /\ g[l].kids[k] = Null
      /\ \A j \in Keys : j # k => g[l].kids[j] = h[l].kids[j]
  BY DEF Detach, WellFormed, Heaps, Cells
<1>2. c \in Lists /\ IsKid(h, l, c)
  BY DEF IsKid, WellFormed, Heaps, Cells
<1>3. \A m, d \in Lists, j \in Keys :
        g[m].kids[j] = d => h[m].kids[j] = d /\ ~ (m = l /\ j = k)
  BY <1>1, NullAssumption
<1>4. Live(h, c) /\ ~ h[c].err
  BY <1>1, <1>2 DEF WellFormed, KidsOwned
<1>5. Live(h, l)
  BY NoKidsType DEF WellFormed, DeadAreEmpty
<1>6. \A m, d \in Lists, j \in Keys : g[m].kids[j] = d => d # c
  BY <1>2, <1>3 DEF WellFormed, OneParent
<1> HIDE DEF g, c
<1>7. \A m \in Lists : Live(g, m) <=> Live(h, m)
  BY <1>1 DEF Live
<1>8. RootsLive(g, R \cup {c})
  BY <1>1, <1>2, <1>4, <1>7 DEF WellFormed, RootsLive
<1>9. DeadAreEmpty(g)
  BY <1>1, <1>5, <1>7 DEF WellFormed, DeadAreEmpty
<1>10. KidsOwned(g, R \cup {c})
  BY <1>1, <1>3, <1>6, <1>7 DEF WellFormed, KidsOwned, IsKid
<1>11. OneParent(g)
  BY <1>3 DEF WellFormed, OneParent
<1>12. Acyclic(g)
  BY <1>3, FewerLinks DEF WellFormed, IsKid
<1> QED
  BY <1>1, <1>2, <1>8, <1>9, <1>10, <1>11, <1>12 DEF WellFormed, g, c

\* A copy is a new tree next to the old one, owned by nobody yet.
LEMMA CloneKeeps ==
  ASSUME NEW h, NEW R \in SUBSET Lists, WellFormed(h, R),
         NEW root \in Lists, Live(h, root), NEW p \in Placements(h, root)
  PROVE  /\ p[root] \in Available(h)
         /\ WellFormed(nvlist_clone(h, p), R \cup {p[root]})
         /\ ~ nvlist_clone(h, p)[p[root]].err
         /\ \A m \in Lists : m \notin Available(h) => nvlist_clone(h, p)[m] = h[m]
<1> DEFINE T == Tree(h, root)
           g == nvlist_clone(h, p)
           N == Range(p)
           src(m) == CHOOSE l \in DOMAIN p : p[l] = m
<1>1. /\ root \in T /\ T \subseteq Lists /\ Closed(h, T)
      /\ \A l \in T : Live(h, l)
      /\ h \in Heaps
  BY TreeProperties, TreeLive DEF WellFormed
<1>2. /\ p \in [T -> Available(h)]
      /\ \A a, b \in T : p[a] = p[b] => a = b
  BY DEF Placements, Injection, IsInjective
<1>3. \A m : m \in N <=> \E l \in T : p[l] = m
  BY <1>2 DEF Range
<1>4. N \subseteq Lists /\ \A m \in N : h[m].state = "unused" /\ ~ Live(h, m)
  BY <1>2, <1>3 DEF Available, Live
<1>5. \A m \in N : src(m) \in T /\ p[src(m)] = m
  BY <1>2, <1>3
<1>6. \A m \in Lists : g[m] = IF m \in N THEN CopyOfList(h, p, src(m)) ELSE h[m]
  BY DEF nvlist_clone
<1> HIDE DEF src, N, T
<1>7. \A l \in T, k \in Keys :
        h[l].kids[k] = Null \/ (h[l].kids[k] \in T /\ p[h[l].kids[k]] \in N)
  <2> TAKE l \in T, k \in Keys
  <2>1. h[l].kids[k] \in Lists \cup {Null}
    BY <1>1 DEF Heaps, Cells
  <2> QED
    BY <1>1, <1>3, <2>1 DEF Closed, IsKid
<1>8. \A l \in T :
        LET copy == CopyOfList(h, p, l)
        IN  /\ copy \in Cells
            /\ copy.state = "live" /\ ~ copy.err
            /\ \A k \in Keys :
                 copy.kids[k] = IF h[l].kids[k] = Null THEN Null ELSE p[h[l].kids[k]]
  BY <1>4, <1>7 DEF CopyOfList, Fresh, Cells
<1>9. g \in Heaps
  BY <1>1, <1>5, <1>6, <1>8 DEF nvlist_clone, Heaps
<1>10. \A m \in N : Live(g, m) /\ ~ g[m].err
  BY <1>4, <1>5, <1>6, <1>8 DEF Live
<1>11. \A m \in Lists \ N : g[m] = h[m]
  BY <1>6
<1> HIDE DEF g
<1>12. \A a, c \in Lists, k \in Keys :
         a \notin N /\ g[a].kids[k] = c => c \notin N /\ h[a].kids[k] = c
  BY <1>4, <1>11 DEF WellFormed, KidsOwned, IsKid
<1>13. \A a, c \in Lists, k \in Keys :
         a \in N /\ g[a].kids[k] = c =>
           /\ h[src(a)].kids[k] \in T
           /\ p[h[src(a)].kids[k]] = c
           /\ c \in N
  BY <1>5, <1>6, <1>7, <1>8, NullAssumption
<1>14. p[root] \in N /\ p[root] \in Available(h)
  BY <1>1, <1>2, <1>3
<1>15. RootsLive(g, R \cup {p[root]})
  BY <1>4, <1>10, <1>11, <1>14 DEF WellFormed, RootsLive, Live
<1>16. DeadAreEmpty(g)
  BY <1>10, <1>11 DEF WellFormed, DeadAreEmpty, Live
<1>17. \A m \in N : m \notin R
  BY <1>4 DEF WellFormed, RootsLive
<1>18. ASSUME NEW a \in Lists, NEW k \in Keys, g[a].kids[k] = p[root]
       PROVE  FALSE
  <2>1. a \in N
    BY <1>4, <1>12, <1>14, <1>18
  <2>2. h[src(a)].kids[k] \in T /\ p[h[src(a)].kids[k]] = p[root]
    BY <1>4, <1>13, <1>14, <1>18, <2>1
  <2>3. IsKid(h, src(a), root) /\ src(a) \in T
    BY <1>1, <1>2, <1>5, <2>1, <2>2 DEF IsKid
  <2> QED
    BY <2>3 DEF WellFormed, Acyclic, T
<1>19. KidsOwned(g, R \cup {p[root]})
  <2> SUFFICES ASSUME NEW a \in Lists, NEW c \in Lists, NEW k \in Keys, g[a].kids[k] = c
               PROVE  Live(g, c) /\ c \notin R /\ c # p[root] /\ ~ g[c].err
    BY DEF KidsOwned, IsKid
  <2>1. c # p[root]
    BY <1>18
  <2>2. CASE a \in N
    BY <1>10, <1>13, <1>17, <2>1, <2>2
  <2>3. CASE a \notin N
    BY <1>11, <1>12, <2>1, <2>3 DEF WellFormed, KidsOwned, IsKid, Live
  <2> QED
    BY <2>2, <2>3
<1>20. OneParent(g)
  <2> SUFFICES ASSUME NEW a \in Lists, NEW b \in Lists, NEW c \in Lists,
                      NEW k \in Keys, NEW j \in Keys,
                      g[a].kids[k] = c, g[b].kids[j] = c
               PROVE  a = b /\ k = j
    BY DEF OneParent
  <2>1. CASE c \in N
    <3>1. a \in N /\ b \in N
      BY <1>12, <2>1
    <3>2. h[src(a)].kids[k] = h[src(b)].kids[j] /\ h[src(a)].kids[k] \in T
      BY <1>2, <1>13, <3>1
    <3>3. src(a) = src(b) /\ k = j
      BY <1>1, <1>5, <3>1, <3>2 DEF WellFormed, OneParent
    <3> QED
      BY <1>5, <3>1, <3>3
  <2>2. CASE c \notin N
    <3>1. a \notin N /\ b \notin N
      BY <1>13, <2>2
    <3> QED
      BY <1>12, <3>1 DEF WellFormed, OneParent
  <2> QED
    BY <2>1, <2>2
<1>21. Acyclic(g)
  <2> SUFFICES ASSUME NEW x \in Lists, NEW m \in Tree(g, x), IsKid(g, m, x)
               PROVE  FALSE
    BY DEF Acyclic
  <2>1. m \in Lists
    BY TreeProperties
  <2>2. CASE x \in N
    <3> DEFINE U == Tree(h, src(x))
               V == {p[y] : y \in U \cap T}
    <3>1. src(x) \in U /\ U \subseteq Lists /\ Closed(h, U) /\ src(x) \in T
      BY <1>1, <1>5, <2>2, TreeProperties
    <3> HIDE DEF U
    <3>2. x \in V /\ V \subseteq N
      BY <1>3, <1>5, <2>2, <3>1
    <3>3. \A a \in V : src(a) \in U
      BY <1>2, <1>3, <1>5
    <3>4. Closed(g, V)
      <4> SUFFICES ASSUME NEW a \in V, NEW c \in Lists, NEW k \in Keys, g[a].kids[k] = c
                   PROVE  c \in V
        BY DEF Closed, IsKid
      <4>1. a \in Lists /\ a \in N /\ src(a) \in U
        BY <1>4, <3>2, <3>3
      <4>2. h[src(a)].kids[k] \in T /\ p[h[src(a)].kids[k]] = c
        BY <1>13, <4>1
      <4>3. h[src(a)].kids[k] \in U
        BY <1>1, <3>1, <4>1, <4>2 DEF Closed, IsKid
      <4> QED
        BY <4>2, <4>3
    <3>5. m \in V
      BY <1>4, <3>2, <3>4 DEF Tree
    <3>6. IsKid(h, src(m), src(x))
      BY <1>2, <1>5, <1>13, <2>1, <2>2, <3>2, <3>5 DEF IsKid
    <3> QED
      BY <1>1, <3>1, <3>3, <3>5, <3>6 DEF WellFormed, Acyclic, U
  <2>3. CASE x \notin N
    <3>1. \A S \in SUBSET Lists : Closed(h, S) => Closed(g, S \ N)
      BY <1>12 DEF Closed, IsKid
    <3>2. \A S \in SUBSET Lists : x \in S /\ Closed(h, S) => m \in S \ N
      BY <2>3, <3>1 DEF Tree
    <3>3. m \in Tree(h, x)
      BY <2>1, <3>2 DEF Tree
    <3>4. m \notin N
      BY <3>2 DEF Closed
    <3>5. IsKid(h, m, x)
      BY <1>12, <2>1, <3>4 DEF IsKid
    <3> QED
      BY <3>3, <3>5 DEF WellFormed, Acyclic
  <2> QED
    BY <2>2, <2>3
<1>22. \A m \in N : m \in Available(h)
  BY <1>2, <1>3
<1>23. WellFormed(g, R \cup {p[root]})
  BY <1>9, <1>15, <1>16, <1>19, <1>20, <1>21 DEF WellFormed
<1> QED
  BY <1>10, <1>11, <1>14, <1>22, <1>23 DEF g
-----------------------------------------------------------------------------
(* What each call leaves alone, and which lists it leaves without an owner *)

\* Two roots share nothing: to change what is nested in one cannot change what
\* is nested in the other.
LEMMA TreesApart ==
  ASSUME NEW h, NEW R \in SUBSET Lists, WellFormed(h, R),
         NEW l \in R, NEW r \in R, l # r
  PROVE  Tree(h, l) \cap Tree(h, r) = {}
<1> DEFINE T == Tree(h, l)
           S == Tree(h, r) \ T
<1>1. /\ l \in T /\ r \in Tree(h, r)
      /\ T \subseteq Lists /\ Tree(h, r) \subseteq Lists
      /\ Closed(h, Tree(h, r))
  BY TreeProperties
<1>2. \A c \in T : c # l => \E m \in T : IsKid(h, m, c)
  BY TreeParent
<1> HIDE DEF T
<1>3. r \in S
  BY <1>1, <1>2 DEF WellFormed, KidsOwned
<1>4. Closed(h, S)
  <2> SUFFICES ASSUME NEW a \in S, NEW c \in Lists, IsKid(h, a, c), c \in T
               PROVE  FALSE
    BY <1>1 DEF Closed
  <2>1. a \in Lists /\ a \notin T /\ c # l
    BY <1>1 DEF WellFormed, KidsOwned
  <2>2. PICK m \in T : IsKid(h, m, c)
    BY <1>2, <2>1
  <2> QED
    BY <1>1, <2>1, <2>2 DEF IsKid, WellFormed, OneParent
<1>5. Tree(h, r) \subseteq S
  BY <1>1, <1>3, <1>4 DEF Tree
<1> QED
  BY <1>5 DEF T

\* A list that is nested in root in a later heap was so before, as long as
\* nothing nested in root has been changed, links taken away apart.
LEMMA TreeShrinks ==
  ASSUME NEW g, NEW h, NEW root \in Lists,
         \A m \in Tree(h, root), c \in Lists : IsKid(g, m, c) => IsKid(h, m, c)
  PROVE  Tree(g, root) \subseteq Tree(h, root)
<1>1. Closed(g, Tree(h, root))
  BY TreeProperties DEF Closed
<1> QED
  BY <1>1, TreeProperties DEF Tree

\* The live lists that are nested in no other.
Outermost(h) == {l \in Lists : Live(h, l) /\ \A m \in Lists : ~ IsKid(h, m, l)}

LEMMA CreateOutermost ==
  ASSUME NEW h, NEW R \in SUBSET Lists, WellFormed(h, R), NEW l \in Available(h)
  PROVE  Outermost(nvlist_create(h, l)) \subseteq Outermost(h) \cup {l}
<1> DEFINE g == nvlist_create(h, l)
<1>1. l \in Lists /\ \A m \in Lists : m # l => g[m] = h[m]
  BY DEF nvlist_create, WellFormed, Heaps, Available
<1>2. h[l].kids = NoKids
  BY DEF WellFormed, DeadAreEmpty, Available, Live
<1>3. \A m \in Lists : ~ IsKid(h, l, m)
  BY <1>2, NoKidsType, NullAssumption DEF IsKid
<1> HIDE DEF g
<1> QED
  BY <1>1, <1>3 DEF Outermost, Live, IsKid, g

LEMMA SetErrorOutermost ==
  ASSUME NEW h \in Heaps, NEW l \in Lists
  PROVE  Outermost(nvlist_set_error(h, l)) = Outermost(h)
<1>1. \A m \in Lists : /\ nvlist_set_error(h, l)[m].kids = h[m].kids
                       /\ nvlist_set_error(h, l)[m].state = h[m].state
  BY DEF nvlist_set_error, Heaps, Cells
<1> QED
  BY <1>1 DEF Outermost, Live, IsKid

\* Whatever is nested in a destroyed list is destroyed, too.
LEMMA DestroyOutermost ==
  ASSUME NEW h, NEW l \in Lists
  PROVE  Outermost(nvlist_destroy(h, l)) \subseteq Outermost(h) \ {l}
<1> DEFINE T == Tree(h, l)
           g == nvlist_destroy(h, l)
<1>1. l \in T /\ T \subseteq Lists /\ Closed(h, T)
  BY TreeProperties
<1>2. /\ \A m \in T : g[m] = Freed
      /\ \A m \in Lists \ T : g[m] = h[m]
  BY <1>1 DEF nvlist_destroy
<1> HIDE DEF T, g
<1>3. \A m \in Lists : Live(g, m) => m \notin T /\ Live(h, m)
  BY <1>2 DEF Live, Freed
<1>4. \A m, a \in Lists : m \notin T /\ IsKid(h, a, m) => IsKid(g, a, m)
  BY <1>1, <1>2 DEF Closed, IsKid
<1> QED
  BY <1>1, <1>3, <1>4 DEF Outermost, g

LEMMA AttachOutermost ==
  ASSUME NEW h \in Heaps, NEW l \in Lists, NEW k \in Keys, h[l].kids[k] = Null,
         NEW c \in Lists
  PROVE  Outermost(Attach(h, l, k, c)) \subseteq Outermost(h) \ {c}
<1> DEFINE g == Attach(h, l, k, c)
<1>1. /\ \A m \in Lists : g[m].state = h[m].state
      /\ \A m \in Lists, j \in Keys : h[m].kids[j] # Null => g[m].kids[j] = h[m].kids[j]
      /\ g[l].kids[k] = c
  BY DEF Attach, Heaps, Cells
<1> HIDE DEF g
<1>2. IsKid(g, l, c) /\ \A m, a \in Lists : IsKid(h, a, m) => IsKid(g, a, m)
  BY <1>1, NullAssumption DEF IsKid
<1> QED
  BY <1>1, <1>2 DEF Outermost, Live, g

LEMMA DetachOutermost ==
  ASSUME NEW h \in Heaps, NEW l \in Lists, NEW k \in Keys
  PROVE  Outermost(Detach(h, l, k)) \subseteq Outermost(h) \cup {h[l].kids[k]}
<1> DEFINE g == Detach(h, l, k)
<1>1. /\ \A m \in Lists : g[m].state = h[m].state
      /\ \A m \in Lists, j \in Keys : m # l \/ j # k => g[m].kids[j] = h[m].kids[j]
  BY DEF Detach, Heaps, Cells
<1> HIDE DEF g
<1>2. \A m, a \in Lists : IsKid(h, a, m) /\ m # h[l].kids[k] => IsKid(g, a, m)
  BY <1>1 DEF IsKid
<1> QED
  BY <1>1, <1>2 DEF Outermost, Live, g

\* Of a copy only the outermost list is nested in nothing.
LEMMA CloneOutermost ==
  ASSUME NEW h, NEW R \in SUBSET Lists, WellFormed(h, R),
         NEW root \in Lists, Live(h, root), NEW p \in Placements(h, root)
  PROVE  Outermost(nvlist_clone(h, p)) \subseteq Outermost(h) \cup {p[root]}
<1> DEFINE T == Tree(h, root)
           g == nvlist_clone(h, p)
           N == Range(p)
           src(m) == CHOOSE l \in DOMAIN p : p[l] = m
<1>1. root \in T /\ T \subseteq Lists /\ \A s \in T : s # root => \E y \in T : IsKid(h, y, s)
  BY TreeProperties, TreeParent
<1>2. /\ p \in [T -> Available(h)]
      /\ \A a, b \in T : p[a] = p[b] => a = b
  BY DEF Placements, Injection, IsInjective
<1>3. \A m : m \in N <=> \E l \in T : p[l] = m
  BY <1>2 DEF Range
<1>4. \A s \in T : src(p[s]) = s
  BY <1>2
<1>5. \A m \in Lists : g[m] = IF m \in N THEN CopyOfList(h, p, src(m)) ELSE h[m]
  BY DEF nvlist_clone
<1>6. \A m \in N : m \in Lists /\ ~ Live(h, m)
  BY <1>2, <1>3 DEF Available, Live
<1> HIDE DEF src, N, T, g
<1>7. \A s \in T, y \in T : IsKid(h, y, s) => IsKid(g, p[y], p[s])
  <2> SUFFICES ASSUME NEW s \in T, NEW y \in T, NEW k \in Keys, h[y].kids[k] = s
               PROVE  g[p[y]].kids[k] = p[s]
    BY DEF IsKid
  <2>1. p[y] \in N /\ p[y] \in Lists /\ s # Null
    BY <1>1, <1>3, <1>6, NullAssumption
  <2>2. g[p[y]] = CopyOfList(h, p, y)
    BY <1>4, <1>5, <2>1
  <2> QED
    BY <2>1, <2>2 DEF CopyOfList, Fresh
<1>8. \A m, a \in Lists : IsKid(h, a, m) => IsKid(g, a, m)
  <2> SUFFICES ASSUME NEW m \in Lists, NEW a \in Lists, IsKid(h, a, m)
               PROVE  a \notin N
    BY <1>5 DEF IsKid
  <2> QED
    BY <1>6, NoKidsType, NullAssumption DEF IsKid, WellFormed, DeadAreEmpty
<1>9. ASSUME NEW m \in Outermost(g), m # p[root]
      PROVE  m \in Outermost(h)
  <2>1. m \in Lists /\ Live(g, m) /\ \A a \in Lists : ~ IsKid(g, a, m)
    BY DEF Outermost
  <2>2. m \notin N
    <3> SUFFICES ASSUME NEW s \in T, p[s] = m PROVE FALSE
      BY <1>3
    <3>1. PICK y \in T : IsKid(h, y, s)
      BY <1>1, <1>9
    <3> QED
      BY <1>3, <1>6, <1>7, <2>1, <3>1
  <2> QED
    BY <1>5, <1>8, <2>1, <2>2 DEF Outermost, Live
<1> QED
  BY <1>9 DEF g
=============================================================================
