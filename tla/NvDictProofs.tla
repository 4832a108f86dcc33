---------------------------- MODULE NvDictProofs ----------------------------
(***************************************************************************)
(* Proof that NvList implements NvDict, for every set of names, values and *)
(* flags: a list of pairs in insertion order is a queue of values for each *)
(* name and type.                                                          *)
(***************************************************************************)
EXTENDS NvListProofs

Values == Seq(Scalars)
-----------------------------------------------------------------------------
(* The values at some places of a sequence of pairs *)

LEMMA AppendFacts ==
  ASSUME NEW V, NEW q \in Seq(V), NEW x \in V
  PROVE  /\ Append(q, x) \in Seq(V) /\ Append(q, x) # <<>>
         /\ q = <<>> => Head(Append(q, x)) = x /\ Tail(Append(q, x)) = <<>>
         /\ q # <<>> => /\ Head(Append(q, x)) = Head(q)
                        /\ Tail(Append(q, x)) = Append(Tail(q), x)
<1>1. /\ Append(q, x) \in Seq(V) /\ Len(Append(q, x)) = Len(q) + 1 /\ Len(q) \in Nat
      /\ \A i \in 1..Len(q) : Append(q, x)[i] = q[i]
      /\ Append(q, x)[Len(q) + 1] = x
  OBVIOUS
<1>2. Append(q, x) # <<>>
  BY <1>1
<1>3. CASE q = <<>>
  BY <1>1, <1>2, <1>3
<1>4. CASE q # <<>>
  <2>1. Len(q) # 0
    BY <1>4
  <2>2. Head(Append(q, x)) = Head(q)
    BY <1>1, <2>1
  <2>3. Tail(Append(q, x)) = Append(Tail(q), x)
    BY <1>1, <2>1
  <2> QED
    BY <1>1, <1>2, <1>4, <2>2, <2>3
<1> QED
  BY <1>3, <1>4

LEMMA HeadAndTail ==
  ASSUME NEW V, NEW q \in Seq(V), q # <<>>
  PROVE  q = <<Head(q)>> \o Tail(q)
<1>1. Len(q) \in Nat /\ Len(q) # 0 /\ Head(q) \in V /\ Head(q) = q[1]
  OBVIOUS
<1>2. /\ Tail(q) \in Seq(V) /\ Len(Tail(q)) = Len(q) - 1
      /\ \A i \in 1..Len(q) - 1 : Tail(q)[i] = q[i+1]
  BY <1>1
<1> DEFINE t == Tail(q)
           h == Head(q)
<1> HIDE DEF t, h
<1>3. h \in V /\ h = q[1] /\ t \in Seq(V) /\ Len(t) = Len(q) - 1
      /\ \A i \in 1..Len(q) - 1 : t[i] = q[i+1]
  BY <1>1, <1>2 DEF t, h
<1>4. /\ <<h>> \o t \in Seq(V) /\ Len(<<h>> \o t) = Len(q)
      /\ \A i \in 1..Len(q) : (<<h>> \o t)[i] = IF i = 1 THEN h ELSE t[i-1]
  BY <1>1, <1>3
<1>5. \A i \in 1..Len(q) : (<<h>> \o t)[i] = q[i]
  <2> TAKE i \in 1..Len(q)
  <2>1. CASE i = 1
    BY <1>3, <1>4, <2>1
  <2>2. CASE i # 1
    <3>1. i - 1 \in 1..Len(q) - 1 /\ (i - 1) + 1 = i
      BY <1>1, <2>2
    <3>2. t[i-1] = q[i]
      BY <1>3, <3>1
    <3> QED
      BY <1>4, <2>2, <3>2
  <2> QED
    BY <2>1, <2>2
<1>6. q = <<h>> \o t
  BY <1>4, <1>5, SeqEqual
<1> QED
  BY <1>6 DEF t, h

\* u[n] holds the values at those of the places that are among the first n.
Grows(u, pairs, places) ==
  /\ u \in [Nat -> Seq(Values)]
  /\ u[0] = <<>>
  /\ \A n \in Nat : u[n+1] = IF n + 1 \in places THEN Append(u[n], pairs[n+1].items) ELSE u[n]

LEMMA ItemsAt ==
  ASSUME NEW pairs \in Seq(Pairs), NEW i \in DOMAIN pairs
  PROVE  pairs[i].items \in Values /\ pairs[i].name \in Keys /\ pairs[i].type \in Types
<1>1. pairs[i] \in Pairs
  BY ElementOfSeq
<1> QED
  BY <1>1 DEF Pairs, Values

LEMMA GrowsStep ==
  ASSUME NEW u, NEW pairs, NEW places, Grows(u, pairs, places), NEW n \in Nat
  PROVE  /\ u[n] \in Seq(Values) /\ n + 1 \in Nat /\ u[n+1] \in Seq(Values)
         /\ n + 1 \in places => u[n+1] = Append(u[n], pairs[n+1].items)
         /\ n + 1 \notin places => u[n+1] = u[n]
<1>1. n + 1 \in Nat /\ u \in [Nat -> Seq(Values)]
  BY DEF Grows
<1>2. u[n] \in Seq(Values) /\ u[n+1] \in Seq(Values)
  BY <1>1
<1> QED
  BY <1>1, <1>2 DEF Grows

\* The places are some of the sequence's.
Proper(pairs, places) ==
  places \subseteq Nat \ {0} /\ \A j \in places : pairs[j].items \in Values

Least(i, places) == i \in places /\ \A j \in places : i <= j

LEMMA ProperPlaces ==
  ASSUME NEW pairs \in Seq(Pairs), NEW places \in SUBSET DOMAIN pairs
  PROVE  Proper(pairs, places)
BY ItemsAt DEF Proper

\* What one more of the places adds, first to nothing and then to something.
LEMMA GrowsFirst ==
  ASSUME NEW pairs, NEW places, Proper(pairs, places), NEW u, Grows(u, pairs, places),
         NEW n \in Nat, NEW m, m = n + 1, m \in places, u[n] = <<>>
  PROVE  u[m] # <<>> /\ Head(u[m]) = pairs[m].items /\ Tail(u[m]) = <<>>
<1> DEFINE q == u[n]
           x == pairs[m].items
<1>1. q \in Seq(Values) /\ u[m] = Append(q, x)
  BY GrowsStep
<1>2. x \in Values /\ q = <<>>
  BY DEF Proper
<1> HIDE DEF q, x
<1>3. Append(q, x) # <<>> /\ Head(Append(q, x)) = x /\ Tail(Append(q, x)) = <<>>
  BY <1>1, <1>2, AppendFacts
<1> QED
  BY <1>1, <1>3 DEF x

LEMMA GrowsNext ==
  ASSUME NEW pairs, NEW places, Proper(pairs, places), NEW u, Grows(u, pairs, places),
         NEW n \in Nat, NEW m, m = n + 1, m \in places, u[n] # <<>>
  PROVE  /\ u[m] # <<>> /\ Head(u[m]) = Head(u[n])
         /\ Tail(u[m]) = Append(Tail(u[n]), pairs[m].items)
<1> DEFINE q == u[n]
           x == pairs[m].items
<1>1. q \in Seq(Values) /\ u[m] = Append(q, x)
  BY GrowsStep
<1>2. x \in Values /\ q # <<>>
  BY DEF Proper
<1> HIDE DEF q, x
<1>3. /\ Append(q, x) # <<>> /\ Head(Append(q, x)) = Head(q)
      /\ Tail(Append(q, x)) = Append(Tail(q), x)
  BY <1>1, <1>2, AppendFacts
<1> QED
  BY <1>1, <1>3 DEF q, x

LEMMA GrowsHere ==
  ASSUME NEW pairs, NEW places, NEW u, Grows(u, pairs, places),
         NEW n \in Nat, NEW m, m = n + 1, m \in places
  PROVE  u[m] = Append(u[n], pairs[m].items)
BY GrowsStep

\* Nothing is added elsewhere.
LEMMA GrowsElsewhere ==
  ASSUME NEW pairs, NEW places, NEW u, Grows(u, pairs, places),
         NEW n \in Nat, NEW m, m = n + 1, m \notin places
  PROVE  u[m] = u[n]
BY GrowsStep

LEMMA GatheredGrows ==
  ASSUME NEW pairs \in Seq(Pairs), NEW places \in SUBSET DOMAIN pairs
  PROVE  \E u : Grows(u, pairs, places) /\ Gathered(pairs, places) = u[Len(pairs)]
<1> DEFINE S == Seq(Values)
           step == [p \in Nat \X S |-> IF p[1] + 1 \in places
                                       THEN Append(p[2], pairs[p[1] + 1].items) ELSE p[2]]
           Unfolded(f) == [n \in Nat |-> IF n = 0 THEN <<>>
                                         ELSE IF n \in places THEN Append(f[n-1], pairs[n].items)
                                         ELSE f[n-1]]
           U == CHOOSE f : f = Unfolded(f)
<1>1. \A n \in Nat, q \in S :
        (IF n + 1 \in places THEN Append(q, pairs[n+1].items) ELSE q) \in S
  BY ItemsAt, AppendFacts
<1>2. step \in [Nat \X S -> S]
  BY <1>1
<1>3. \A n \in Nat, q \in S :
        step[<<n, q>>] = IF n + 1 \in places THEN Append(q, pairs[n+1].items) ELSE q
  <2> HIDE DEF S
  <2> TAKE n \in Nat, q \in S
  <2>1. <<n, q>> \in Nat \X S /\ <<n, q>>[1] = n /\ <<n, q>>[2] = q
    OBVIOUS
  <2> QED
    BY <2>1
<1>4. <<>> \in S
  OBVIOUS
<1> HIDE DEF step, S
<1>5. PICK f \in [Nat -> S] : Iterates(f, <<>>, step)
  BY <1>2, <1>4, Recursion
<1>6. f = Unfolded(f)
  <2>1. ASSUME NEW n \in Nat
        PROVE  f[n] = Unfolded(f)[n]
    <3>1. CASE n = 0
      BY <1>5, <3>1 DEF Iterates
    <3>2. CASE n # 0
      <4>1. n - 1 \in Nat /\ (n - 1) + 1 = n
        BY <3>2
      <4>2. f[n] = IF n \in places THEN Append(f[n-1], pairs[n].items) ELSE f[n-1]
        BY <1>3, <1>5, <4>1 DEF Iterates
      <4> QED
        BY <3>2, <4>2
    <3> QED
      BY <3>1, <3>2
  <2> QED
    BY <2>1
<1>7. U = Unfolded(U)
  <2>1. \E g : g = Unfolded(g)
    BY <1>6
  <2> QED
    BY <2>1
<1>8. Gathered(pairs, places) = U[Len(pairs)]
  BY DEF Gathered
<1> HIDE DEF U
<1>9. /\ U[0] = <<>>
      /\ \A n \in Nat : U[n+1] = IF n + 1 \in places THEN Append(U[n], pairs[n+1].items) ELSE U[n]
  <2>1. \A n \in Nat : U[n] = Unfolded(U)[n]
    BY <1>7
  <2>2. U[0] = <<>>
    BY <2>1
  <2>3. ASSUME NEW n \in Nat
        PROVE  U[n+1] = IF n + 1 \in places THEN Append(U[n], pairs[n+1].items) ELSE U[n]
    <3>1. n + 1 \in Nat /\ n + 1 # 0 /\ (n + 1) - 1 = n
      OBVIOUS
    <3> QED
      BY <2>1, <3>1
  <2> QED
    BY <2>2, <2>3
<1>10. U \in [Nat -> S]
  <2> DEFINE T == {n \in Nat : U[n] \in S}
  <2>1. 0 \in T
    BY <1>4, <1>9
  <2>2. ASSUME NEW n \in Nat, U[n] \in S
        PROVE  U[n+1] \in S
    BY <1>1, <1>9, <2>2
  <2> HIDE DEF T
  <2>3. Nat \subseteq T
    <3>1. \A n \in Nat : n \in T => n + 1 \in T
      BY <2>2 DEF T
    <3> QED
      BY <2>1, <3>1, Induction
  <2>4. \A n \in Nat : U[n] \in S
    BY <2>3 DEF T
  <2>5. U = [n \in Nat |-> U[n]]
    BY <1>7
  <2> QED
    BY <2>4, <2>5
<1> QED
  BY <1>8, <1>9, <1>10 DEF Grows, S

\* Sequences that agree at the places up to N.
LEMMA Agreement ==
  ASSUME NEW s, NEW P, NEW u, Grows(u, s, P), NEW t, NEW Q, NEW w, Grows(w, t, Q),
         NEW N \in Nat,
         \A m \in 1..N : (m \in P <=> m \in Q) /\ (m \in P => s[m].items = t[m].items)
  PROVE  \A n \in 0..N : u[n] = w[n]
<1> DEFINE T == {n \in Nat : n <= N => u[n] = w[n]}
<1>1. 0 \in T
  BY DEF Grows
<1>2. ASSUME NEW n \in Nat, n \in T
      PROVE  n + 1 \in T
  <2> SUFFICES ASSUME n + 1 <= N
               PROVE  u[n+1] = w[n+1]
    OBVIOUS
  <2>1. u[n] = w[n] /\ n + 1 \in 1..N
    BY <1>2
  <2> QED
    BY <2>1 DEF Grows
<1> HIDE DEF T
<1>3. Nat \subseteq T
  BY <1>1, <1>2, Induction
<1> QED
  BY <1>3 DEF T

\* There is nothing before the first of the places, and its value comes first.
LEMMA FirstPlace ==
  ASSUME NEW s, NEW P, Proper(s, P), NEW u, Grows(u, s, P),
         NEW i, Least(i, P)
  PROVE  /\ \A n \in Nat : n < i => u[n] = <<>>
         /\ \A n \in Nat : n >= i => u[n] # <<>> /\ Head(u[n]) = s[i].items
<1>1. i \in Nat /\ i # 0 /\ u[0] = <<>>
  BY DEF Grows, Proper, Least
<1>2. \A j \in P : i <= j /\ j \in Nat
  BY DEF Proper, Least
<1> DEFINE Right(n) == IF n < i THEN u[n] = <<>>
                       ELSE u[n] # <<>> /\ Head(u[n]) = s[i].items
           T == {n \in Nat : Right(n)}
<1>3. 0 \in T
  BY <1>1
<1> HIDE DEF T, Right
<1>4. ASSUME NEW n \in Nat, NEW m, m = n + 1, Right(n)
      PROVE  Right(m)
  <2>1. m \in Nat
    BY <1>4
  <2>2. CASE m < i
    <3>1. m \notin P /\ n < i
      BY <1>1, <1>2, <1>4, <2>2
    <3>2. u[m] = u[n]
      BY <1>4, <3>1, GrowsElsewhere
    <3> QED
      BY <1>4, <2>2, <3>1, <3>2 DEF Right
  <2>3. CASE m = i
    <3>1. u[n] = <<>> /\ m \in P
      BY <1>1, <1>4, <2>3 DEF Right, Least
    <3>2. u[m] # <<>> /\ Head(u[m]) = s[m].items
      BY <1>4, <3>1, GrowsFirst
    <3> QED
      BY <1>1, <2>3, <3>2 DEF Right
  <2>4. CASE m > i
    <3>1. u[n] # <<>> /\ Head(u[n]) = s[i].items
      BY <1>1, <1>4, <2>4 DEF Right
    <3>2. CASE m \in P
      <4>1. u[m] # <<>> /\ Head(u[m]) = Head(u[n])
        BY <1>4, <3>1, <3>2, GrowsNext
      <4> QED
        BY <1>1, <2>1, <2>4, <3>1, <4>1 DEF Right
    <3>3. CASE m \notin P
      <4>1. u[m] = u[n]
        BY <1>4, <3>3, GrowsElsewhere
      <4> QED
        BY <1>1, <2>1, <2>4, <3>1, <4>1 DEF Right
    <3> QED
      BY <3>2, <3>3
  <2> QED
    BY <1>1, <2>1, <2>2, <2>3, <2>4
<1>5. Nat \subseteq T
  <2>1. \A n \in Nat : n \in T => n + 1 \in T
    BY <1>4 DEF T
  <2> QED
    BY <1>3, <2>1, Induction
<1>6. \A n \in Nat : Right(n)
  BY <1>5 DEF T
<1>7. \A n \in Nat : n < i <=> ~ n >= i
  BY <1>1
<1> QED
  BY <1>6, <1>7 DEF Right

\* t is s without the pair at i, Q the places that have moved up.
Closing(s, P, t, Q, i) ==
  /\ \A m \in Nat : m < i => /\ m \in Q <=> m \in P
                             /\ m \in P => t[m].items = s[m].items
  /\ \A m \in Nat : m >= i => /\ m \in Q <=> m + 1 \in P
                              /\ m \in Q => t[m].items = s[m+1].items

\* Before the pair that goes nothing changes.
LEMMA ClosingStart ==
  ASSUME NEW s, NEW P, NEW u, Grows(u, s, P), NEW t, NEW Q, NEW w, Grows(w, t, Q),
         NEW i \in Nat \ {0}, Closing(s, P, t, Q, i)
  PROVE  u[i-1] = w[i-1]
<1>1. i - 1 \in Nat /\ i - 1 \in 0..i-1
  OBVIOUS
<1>2. \A m \in 1..i-1 : (m \in P <=> m \in Q) /\ (m \in P => s[m].items = t[m].items)
  BY DEF Closing
<1> QED
  BY <1>1, <1>2, Agreement

\* Before the pair that goes nothing changes, and after it both run one apart.
LEMMA ClosingPlaces ==
  ASSUME NEW s, NEW P, NEW t, NEW Q, NEW i \in Nat \ {0}, Closing(s, P, t, Q, i),
         NEW n \in Nat, NEW m, m = n + 1, m >= i
  PROVE  /\ m \in Q <=> m + 1 \in P
         /\ m \in Q => t[m].items = s[m+1].items
BY DEF Closing

LEMMA OtherRemoved ==
  ASSUME NEW s, NEW P, NEW u, Grows(u, s, P), NEW t, NEW Q, NEW w, Grows(w, t, Q),
         NEW i \in Nat \ {0}, i \notin P, Closing(s, P, t, Q, i)
  PROVE  \A n \in Nat : n >= i - 1 => w[n] = u[n+1]
<1>1. i - 1 \in Nat /\ (i - 1) + 1 = i
  OBVIOUS
<1>2. w[i-1] = u[i]
  <2>1. u[i-1] = w[i-1]
    BY ClosingStart
  <2>2. u[i] = u[i-1]
    BY <1>1, GrowsElsewhere
  <2> QED
    BY <2>1, <2>2
<1> DEFINE Right(n) == n >= i - 1 => w[n] = u[n+1]
           T == {n \in Nat : Right(n)}
<1>3. 0 \in T
  BY <1>1, <1>2
<1> HIDE DEF T, Right
<1>4. ASSUME NEW n \in Nat, NEW m, m = n + 1, NEW k, k = m + 1, Right(n)
      PROVE  Right(m)
  <2>1. m \in Nat /\ k \in Nat
    BY <1>4
  <2>2. CASE m >= i
    <3>1. w[n] = u[m]
      BY <1>1, <1>4, <2>2 DEF Right
    <3>2. /\ m \in Q <=> k \in P
          /\ m \in Q => t[m].items = s[k].items
      BY <1>4, <2>2, ClosingPlaces
    <3>3. w[m] = u[k]
      <4>1. CASE m \in Q
        <5>1. w[m] = Append(w[n], t[m].items)
          BY <1>4, <4>1, GrowsStep
        <5>2. u[k] = Append(u[m], s[k].items)
          BY <1>4, <2>1, <3>2, <4>1, GrowsStep
        <5> QED
          BY <3>1, <3>2, <4>1, <5>1, <5>2
      <4>2. CASE m \notin Q
        <5>1. w[m] = w[n] /\ u[k] = u[m]
          BY <1>4, <2>1, <3>2, <4>2, GrowsElsewhere
        <5> QED
          BY <3>1, <5>1
      <4> QED
        BY <4>1, <4>2
    <3> QED
      BY <1>4, <3>3 DEF Right
  <2>3. CASE ~ m >= i
    <3>1. m >= i - 1 => m = i - 1
      BY <1>1, <2>1, <2>3
    <3> QED
      BY <1>1, <1>2, <3>1 DEF Right
  <2> QED
    BY <2>2, <2>3
<1>5. Nat \subseteq T
  <2>1. \A n \in Nat : n \in T => n + 1 \in T
    BY <1>4 DEF T
  <2> QED
    BY <1>3, <2>1, Induction
<1> QED
  BY <1>5 DEF T, Right

LEMMA FirstRemoved ==
  ASSUME NEW s, NEW P, Proper(s, P), NEW u, Grows(u, s, P),
         NEW t, NEW Q, NEW w, Grows(w, t, Q),
         NEW i, Least(i, P), Closing(s, P, t, Q, i)
  PROVE  \A n \in Nat : n >= i - 1 => w[n] = Tail(u[n+1])
<1>1. i \in Nat \ {0} /\ i - 1 \in Nat /\ (i - 1) + 1 = i /\ i \in P
  BY DEF Proper, Least
<1>2. u[i-1] = <<>> /\ \A n \in Nat : n >= i => u[n] # <<>>
  BY <1>1, FirstPlace
<1>3. w[i-1] = Tail(u[i])
  <2>1. u[i-1] = w[i-1]
    BY <1>1, ClosingStart
  <2>2. Tail(u[i]) = <<>>
    BY <1>1, <1>2, GrowsFirst
  <2> QED
    BY <1>2, <2>1, <2>2
<1> DEFINE Right(n) == n >= i - 1 => w[n] = Tail(u[n+1])
           T == {n \in Nat : Right(n)}
<1>4. 0 \in T
  BY <1>1, <1>3
<1> HIDE DEF T, Right
<1>5. ASSUME NEW n \in Nat, NEW m, m = n + 1, NEW k, k = m + 1, Right(n)
      PROVE  Right(m)
  <2>1. m \in Nat /\ k \in Nat
    BY <1>5
  <2>2. CASE m >= i
    <3>1. w[n] = Tail(u[m]) /\ u[m] # <<>>
      BY <1>1, <1>2, <1>5, <2>1, <2>2 DEF Right
    <3>2. /\ m \in Q <=> k \in P
          /\ m \in Q => t[m].items = s[k].items
      BY <1>1, <1>5, <2>2, ClosingPlaces
    <3>3. w[m] = Tail(u[k])
      <4>1. CASE m \in Q
        <5>1. w[m] = Append(w[n], t[m].items)
          BY <1>5, <4>1, GrowsStep
        <5>2. Tail(u[k]) = Append(Tail(u[m]), s[k].items)
          BY <1>5, <2>1, <3>1, <3>2, <4>1, GrowsNext
        <5> QED
          BY <3>1, <3>2, <4>1, <5>1, <5>2
      <4>2. CASE m \notin Q
        <5>1. w[m] = w[n] /\ u[k] = u[m]
          BY <1>5, <2>1, <3>2, <4>2, GrowsElsewhere
        <5> QED
          BY <3>1, <5>1
      <4> QED
        BY <4>1, <4>2
    <3> QED
      BY <1>5, <3>3 DEF Right
  <2>3. CASE ~ m >= i
    <3>1. m >= i - 1 => m = i - 1
      BY <1>1, <2>1, <2>3
    <3> QED
      BY <1>1, <1>3, <3>1 DEF Right
  <2> QED
    BY <2>2, <2>3
<1>6. Nat \subseteq T
  <2>1. \A n \in Nat : n \in T => n + 1 \in T
    BY <1>5 DEF T
  <2> QED
    BY <1>4, <2>1, Induction
<1> QED
  BY <1>6 DEF T, Right

EqualBut(s, t, P, i) == \A j \in P : j # i => t[j] = s[j]

\* Only the pair at the first of the places is another in t.
LEMMA FirstReplaced ==
  ASSUME NEW s, NEW t, NEW P, Proper(s, P), Proper(t, P),
         NEW u, Grows(u, s, P), NEW w, Grows(w, t, P), NEW i, Least(i, P),
         EqualBut(s, t, P, i)
  PROVE  \A n \in Nat : n >= i =>
           w[n] # <<>> /\ Tail(w[n]) = Tail(u[n]) /\ Head(w[n]) = t[i].items
<1>1. i \in Nat \ {0} /\ i - 1 \in Nat /\ (i - 1) + 1 = i /\ i \in P
  BY DEF Proper, Least
<1>2. u[i-1] = <<>> /\ \A n \in Nat : n >= i => u[n] # <<>>
  BY <1>1, FirstPlace
<1>3. /\ w[i-1] = <<>>
      /\ \A n \in Nat : n >= i => w[n] # <<>> /\ Head(w[n]) = t[i].items
  BY <1>1, FirstPlace
<1>4. Tail(w[i]) = Tail(u[i])
  <2>1. Tail(u[i]) = <<>>
    BY <1>1, <1>2, GrowsFirst
  <2>2. Tail(w[i]) = <<>>
    BY <1>1, <1>3, GrowsFirst
  <2> QED
    BY <2>1, <2>2
<1> DEFINE Right(n) == n >= i => Tail(w[n]) = Tail(u[n])
           T == {n \in Nat : Right(n)}
<1>5. 0 \in T
  BY <1>1
<1> HIDE DEF T, Right
<1>6. ASSUME NEW n \in Nat, NEW m, m = n + 1, Right(n)
      PROVE  Right(m)
  <2>1. CASE m > i
    <3>1. /\ n >= i /\ m # i /\ m \in Nat
          /\ Tail(w[n]) = Tail(u[n]) /\ u[n] # <<>> /\ w[n] # <<>>
      BY <1>1, <1>2, <1>3, <1>6, <2>1 DEF Right
    <3>2. CASE m \in P
      <4>1. Tail(u[m]) = Append(Tail(u[n]), s[m].items)
        BY <1>6, <3>1, <3>2, GrowsNext
      <4>2. Tail(w[m]) = Append(Tail(w[n]), t[m].items)
        BY <1>1, <1>6, <3>1, <3>2, GrowsNext
      <4>3. t[m] = s[m]
        BY <3>1, <3>2 DEF EqualBut
      <4> QED
        BY <3>1, <4>1, <4>2, <4>3 DEF Right
    <3>3. CASE m \notin P
      <4>1. u[m] = u[n] /\ w[m] = w[n]
        BY <1>6, <3>3, GrowsElsewhere
      <4> QED
        BY <3>1, <4>1 DEF Right
    <3> QED
      BY <3>2, <3>3
  <2>2. CASE ~ m > i
    <3>1. m >= i => m = i
      BY <1>1, <1>6, <2>2
    <3> QED
      BY <1>4, <3>1 DEF Right
  <2> QED
    BY <2>1, <2>2
<1>7. Nat \subseteq T
  <2>1. \A n \in Nat : n \in T => n + 1 \in T
    BY <1>6 DEF T
  <2> QED
    BY <1>5, <2>1, Induction
<1>8. \A n \in Nat : n >= i => Tail(w[n]) = Tail(u[n])
  BY <1>7 DEF T, Right
<1> QED
  BY <1>3, <1>8
-----------------------------------------------------------------------------
(* The queues of a list *)

\* The name and the type of every pair are of those a caller uses.
UsedOnly(list) == \A i \in DOMAIN list.pairs : list.pairs[i].type \in UsedTypes

LEMMA CanonicalIsAKey ==
  ASSUME NEW list, NEW key \in Keys
  PROVE  Canonical(list, key) \in Keys
BY CaseFoldAssumption DEF Canonical

LEMMA SameNameIsSameCanonical ==
  ASSUME NEW list, NEW a, NEW b
  PROVE  SameName(list, a, b) <=> Canonical(list, a) = Canonical(list, b)
BY DEF SameName, Canonical

LEMMA MatchesAreAQueue ==
  ASSUME NEW list, NEW key, NEW type \in Types
  PROVE  Matches(list, key, type) = QueuePlaces(list, Canonical(list, key), type)
<1>1. type # AnyType
  BY DEF Types, ScalarTypes, ArrayTypes, AnyType
<1> QED
  BY <1>1, SameNameIsSameCanonical DEF Matches, QueuePlaces

LEMMA MatchesOfAnyType ==
  ASSUME NEW list, UsedOnly(list), NEW key
  PROVE  Matches(list, key, AnyType)
           = UNION {QueuePlaces(list, Canonical(list, key), t) : t \in UsedTypes}
<1> DEFINE All == UNION {QueuePlaces(list, Canonical(list, key), t) : t \in UsedTypes}
<1>1. \A i : i \in Matches(list, key, AnyType) <=> i \in DOMAIN list.pairs
                 /\ Canonical(list, list.pairs[i].name) = Canonical(list, key)
  BY SameNameIsSameCanonical DEF Matches
<1>2. \A i : i \in All <=> \E t \in UsedTypes : i \in QueuePlaces(list, Canonical(list, key), t)
  OBVIOUS
<1>3. \A i : i \in All <=> i \in DOMAIN list.pairs
                 /\ Canonical(list, list.pairs[i].name) = Canonical(list, key)
  BY <1>2 DEF QueuePlaces, UsedOnly
<1> QED
  BY <1>1, <1>3

\* What ItemsOf is: the last of a sequence that grows.
LEMMA ItemsGrow ==
  ASSUME NEW list \in Lists, NEW name, NEW type
  PROVE  /\ Proper(list.pairs, QueuePlaces(list, name, type))
         /\ Len(list.pairs) \in Nat
         /\ QueuePlaces(list, name, type) \subseteq 1..Len(list.pairs)
         /\ \E u : /\ Grows(u, list.pairs, QueuePlaces(list, name, type))
                  /\ ItemsOf(list, name, type) = u[Len(list.pairs)]
<1>1. list.pairs \in Seq(Pairs)
  BY DEF Lists
<1>2. QueuePlaces(list, name, type) \in SUBSET DOMAIN list.pairs
  BY DEF QueuePlaces
<1> QED
  BY <1>1, <1>2, GatheredGrows, ProperPlaces DEF ItemsOf

LEMMA QueueType ==
  ASSUME NEW list \in Lists, NEW name, NEW type
  PROVE  ItemsOf(list, name, type) \in Seq(Values)
<1> DEFINE P == QueuePlaces(list, name, type)
           N == Len(list.pairs)
<1>1. PICK u : Grows(u, list.pairs, P) /\ ItemsOf(list, name, type) = u[N]
  BY ItemsGrow
<1>2. N \in Nat
  BY ItemsGrow
<1> HIDE DEF P, N
<1> QED
  BY <1>1, <1>2 DEF Grows

LEMMA QueueFirst ==
  ASSUME NEW list \in Lists, NEW name, NEW type,
         NEW i, Least(i, QueuePlaces(list, name, type))
  PROVE  /\ ItemsOf(list, name, type) # <<>>
         /\ Head(ItemsOf(list, name, type)) = list.pairs[i].items
<1> DEFINE P == QueuePlaces(list, name, type)
           N == Len(list.pairs)
<1>1. Proper(list.pairs, P) /\ N \in Nat /\ P \subseteq 1..N
  BY ItemsGrow
<1>2. PICK u : Grows(u, list.pairs, P) /\ ItemsOf(list, name, type) = u[N]
  BY ItemsGrow
<1>3. N >= i
  BY <1>1 DEF Least
<1>4. Least(i, P)
  OBVIOUS
<1> HIDE DEF P, N
<1> QED
  BY <1>1, <1>2, <1>3, <1>4, FirstPlace

LEMMA QueueEmpty ==
  ASSUME NEW list \in Lists, NEW name, NEW type
  PROVE  ItemsOf(list, name, type) = <<>> <=> QueuePlaces(list, name, type) = {}
<1> DEFINE P == QueuePlaces(list, name, type)
           N == Len(list.pairs)
<1>1. N \in Nat /\ P \subseteq 1..N
  BY ItemsGrow
<1>2. CASE P = {}
  <2>1. PICK u : Grows(u, list.pairs, P) /\ ItemsOf(list, name, type) = u[N]
    BY ItemsGrow
  <2> DEFINE T == {n \in Nat : u[n] = <<>>}
  <2>2. 0 \in T
    BY <2>1 DEF Grows
  <2>3. ASSUME NEW n \in Nat, n \in T
        PROVE  n + 1 \in T
    <3>1. u[n+1] = u[n]
      BY <1>2, <2>1, GrowsElsewhere
    <3> QED
      BY <2>3, <3>1
  <2> HIDE DEF T
  <2>4. Nat \subseteq T
    BY <2>2, <2>3, Induction
  <2> QED
    BY <1>1, <1>2, <2>1, <2>4 DEF T
<1>3. CASE P # {}
  <2>1. \E i \in P : \A j \in P : i <= j
    <3>1. P \in SUBSET Nat
      BY <1>1
    <3> QED
      BY <1>3, <3>1, LeastNumber
  <2>2. PICK i : Least(i, P)
    BY <2>1 DEF Least
  <2> QED
    BY <1>3, <2>2, QueueFirst
<1> QED
  BY <1>2, <1>3

LEMMA QueueAppended ==
  ASSUME NEW list \in Lists, NEW pair \in Pairs, NEW new \in Lists,
         new.flags = list.flags, new.pairs = Append(list.pairs, pair), NEW name, NEW type
  PROVE  ItemsOf(new, name, type) =
           IF Canonical(list, pair.name) = name /\ pair.type = type
           THEN Append(ItemsOf(list, name, type), pair.items)
           ELSE ItemsOf(list, name, type)
<1> DEFINE s == list.pairs
           t == Append(s, pair)
           N == Len(s)
           M == N + 1
           P == QueuePlaces(list, name, type)
           Q == QueuePlaces(new, name, type)
           here == Canonical(list, pair.name) = name /\ pair.type = type
<1>1. s \in Seq(Pairs) /\ N \in Nat /\ new.pairs = t /\ new.flags = list.flags
  BY DEF Lists
<1>2. /\ DOMAIN s = 1..N /\ DOMAIN t = 1..M /\ Len(t) = M
      /\ t[M] = pair /\ M = N + 1 /\ \A j \in 1..N : t[j] = s[j]
  BY <1>1
<1>3. PICK u : Grows(u, s, P) /\ ItemsOf(list, name, type) = u[N]
  BY ItemsGrow
<1>4. PICK w : Grows(w, t, Q) /\ ItemsOf(new, name, type) = w[M]
  <2>1. PICK w : Grows(w, new.pairs, Q) /\ ItemsOf(new, name, type) = w[Len(new.pairs)]
    BY <1>1, ItemsGrow
  <2> QED
    BY <1>1, <1>2, <2>1
<1>5. \A m \in 1..N : m \in Q <=> m \in P
  BY <1>1, <1>2 DEF QueuePlaces, Canonical
<1>6. M \in Q <=> here
  BY <1>1, <1>2 DEF QueuePlaces, Canonical
<1> HIDE DEF s, t, N, M, P, Q, here
<1>7. u[N] = w[N]
  <2>1. \A m \in 1..N : (m \in P <=> m \in Q) /\ (m \in P => s[m].items = t[m].items)
    BY <1>2, <1>5
  <2>2. \A n \in 0..N : u[n] = w[n]
    BY <1>1, <1>3, <1>4, <2>1, Agreement
  <2> QED
    BY <1>1, <2>2
<1>8. CASE here
  <2>1. w[M] = Append(w[N], t[M].items)
    BY <1>1, <1>2, <1>4, <1>6, <1>8, GrowsHere
  <2> QED
    BY <1>2, <1>3, <1>4, <1>7, <1>8, <2>1 DEF here
<1>9. CASE ~ here
  <2>1. w[M] = w[N]
    BY <1>1, <1>2, <1>4, <1>6, <1>9, GrowsElsewhere
  <2> QED
    BY <1>3, <1>4, <1>7, <1>9, <2>1 DEF here
<1> QED
  BY <1>8, <1>9

\* The pair at place old leaves the list.
LEMMA QueueRemoved ==
  ASSUME NEW list \in Lists, NEW old \in DOMAIN list.pairs, NEW new,
         new = nvlist_remove(list, old), NEW name, NEW type
  PROVE  /\ Least(old, QueuePlaces(list, name, type)) =>
              ItemsOf(new, name, type) = Tail(ItemsOf(list, name, type))
         /\ old \notin QueuePlaces(list, name, type) =>
              ItemsOf(new, name, type) = ItemsOf(list, name, type)
<1> DEFINE s == list.pairs
           t == RemoveAt(s, old)
           N == Len(s)
           M == N - 1
           P == QueuePlaces(list, name, type)
           Q == QueuePlaces(new, name, type)
<1>1. s \in Seq(Pairs) /\ N \in Nat /\ old \in 1..N /\ DOMAIN s = 1..N
  BY DEF Lists
<1>2. /\ t \in Seq(Pairs) /\ Len(t) = M /\ DOMAIN t = 1..M
      /\ \A j \in 1..M : t[j] = IF j < old THEN s[j] ELSE s[j+1]
  <2> HIDE DEF s
  <2>1. /\ t \in Seq(Pairs) /\ Len(t) = M
        /\ \A j \in 1..M : t[j] = IF j < old THEN s[j] ELSE s[j+1]
    BY <1>1, RemoveAtElements
  <2> HIDE DEF t
  <2> QED
    BY <1>1, <2>1
<1>3. new \in Lists /\ new.pairs = t /\ new.flags = list.flags
  <2>1. new = [list EXCEPT !.pairs = t]
    BY DEF nvlist_remove
  <2> HIDE DEF t
  <2> QED
    BY <1>2, <2>1 DEF Lists
<1>4. M \in Nat /\ N = M + 1 /\ M >= old - 1 /\ old \in Nat \ {0}
  BY <1>1
<1>5. PICK u : Grows(u, s, P) /\ ItemsOf(list, name, type) = u[N]
  BY ItemsGrow
<1>6. PICK w : Grows(w, t, Q) /\ ItemsOf(new, name, type) = w[M]
  <2>1. PICK w : Grows(w, new.pairs, Q) /\ ItemsOf(new, name, type) = w[Len(new.pairs)]
    BY <1>3, ItemsGrow
  <2> QED
    BY <1>2, <1>3, <2>1
<1>7. Proper(s, P)
  BY ItemsGrow
<1>8. /\ P = {j \in 1..N : Canonical(list, s[j].name) = name /\ s[j].type = type}
      /\ Q = {j \in 1..M : Canonical(list, t[j].name) = name /\ t[j].type = type}
  BY <1>1, <1>2, <1>3 DEF QueuePlaces, Canonical
<1> HIDE DEF s, t, N, M, P, Q
<1>9. Closing(s, P, t, Q, old)
  <2>1. ASSUME NEW m \in Nat, m < old
        PROVE  (m \in Q <=> m \in P) /\ (m \in P => t[m].items = s[m].items)
    <3>1. m \in 1..M => t[m] = s[m]
      BY <1>2, <2>1
    <3>2. m \in 1..M <=> m \in 1..N
      BY <1>1, <1>4, <2>1
    <3> QED
      BY <1>8, <3>1, <3>2
  <2>2. ASSUME NEW m \in Nat, m >= old
        PROVE  (m \in Q <=> m + 1 \in P) /\ (m \in Q => t[m].items = s[m+1].items)
    <3>1. m \in 1..M => t[m] = s[m+1]
      BY <1>1, <1>2, <2>2
    <3>2. m \in 1..M <=> m + 1 \in 1..N
      BY <1>1, <1>4, <2>2
    <3> QED
      BY <1>8, <3>1, <3>2
  <2> QED
    BY <2>1, <2>2 DEF Closing
<1>10. ASSUME Least(old, P)
       PROVE  w[M] = Tail(u[N])
  <2>1. \A n \in Nat : n >= old - 1 => w[n] = Tail(u[n+1])
    BY <1>5, <1>6, <1>7, <1>9, <1>10, FirstRemoved
  <2> QED
    BY <1>4, <2>1
<1>11. ASSUME old \notin P
       PROVE  w[M] = u[N]
  <2>1. \A n \in Nat : n >= old - 1 => w[n] = u[n+1]
    BY <1>4, <1>5, <1>6, <1>9, <1>11, OtherRemoved
  <2> QED
    BY <1>4, <2>1
<1> QED
  BY <1>5, <1>6, <1>10, <1>11 DEF P

\* The pair at place i, and no other, has another value.
Revalued(list, new, i) ==
  /\ new \in Lists /\ new.flags = list.flags /\ new.error = list.error
  /\ DOMAIN new.pairs = DOMAIN list.pairs
  /\ \A j \in DOMAIN list.pairs : j # i => new.pairs[j] = list.pairs[j]
  /\ new.pairs[i].name = list.pairs[i].name
  /\ new.pairs[i].type = list.pairs[i].type

\* Only the value of the pair at place old is another one.
LEMMA QueueReplaced ==
  ASSUME NEW list \in Lists, NEW old \in DOMAIN list.pairs, NEW new,
         Revalued(list, new, old), NEW name, NEW type
  PROVE  /\ Least(old, QueuePlaces(list, name, type)) =>
              /\ ItemsOf(new, name, type) # <<>>
              /\ Tail(ItemsOf(new, name, type)) = Tail(ItemsOf(list, name, type))
              /\ Head(ItemsOf(new, name, type)) = new.pairs[old].items
         /\ old \notin QueuePlaces(list, name, type) =>
              ItemsOf(new, name, type) = ItemsOf(list, name, type)
<1> DEFINE s == list.pairs
           t == new.pairs
           N == Len(s)
           P == QueuePlaces(list, name, type)
<1>1. /\ s \in Seq(Pairs) /\ N \in Nat /\ old \in 1..N /\ DOMAIN s = 1..N
      /\ t \in Seq(Pairs) /\ Len(t) = N /\ DOMAIN t = 1..N
  BY DEF Lists, Revalued
<1>2. /\ \A j \in 1..N : t[j].name = s[j].name /\ t[j].type = s[j].type
      /\ \A j \in 1..N : j # old => t[j] = s[j]
  BY <1>1 DEF Revalued
<1>6. QueuePlaces(new, name, type) = P
  BY <1>1, <1>2 DEF QueuePlaces, Canonical, Revalued
<1>7. PICK u : Grows(u, s, P) /\ ItemsOf(list, name, type) = u[N]
  BY ItemsGrow
<1>8. PICK w : Grows(w, t, P) /\ ItemsOf(new, name, type) = w[N]
  BY <1>1, <1>6, ItemsGrow DEF Revalued
<1>9. Proper(s, P) /\ Proper(t, P) /\ P \subseteq 1..N
  <2>1. Proper(s, P) /\ P \subseteq 1..N
    BY ItemsGrow
  <2>2. Proper(new.pairs, QueuePlaces(new, name, type))
    BY ItemsGrow DEF Revalued
  <2> QED
    BY <1>6, <2>1, <2>2
<1> HIDE DEF s, t, N, P
<1>10. EqualBut(s, t, P, old)
  BY <1>2, <1>9 DEF EqualBut
<1>11. ASSUME Least(old, P)
       PROVE  w[N] # <<>> /\ Tail(w[N]) = Tail(u[N]) /\ Head(w[N]) = t[old].items
  <2>1. \A n \in Nat : n >= old =>
           w[n] # <<>> /\ Tail(w[n]) = Tail(u[n]) /\ Head(w[n]) = t[old].items
    BY <1>7, <1>8, <1>9, <1>10, <1>11, FirstReplaced
  <2>2. N >= old
    BY <1>1
  <2> QED
    BY <1>1, <2>1, <2>2
<1>12. ASSUME old \notin P
       PROVE  w[N] = u[N]
  <2>1. \A m \in 1..N : (m \in P <=> m \in P) /\ (m \in P => s[m].items = t[m].items)
    BY <1>2, <1>12
  <2>2. \A n \in 0..N : u[n] = w[n]
    BY <1>1, <1>7, <1>8, <2>1, Agreement
  <2> QED
    BY <1>1, <2>2
<1> QED
  BY <1>7, <1>8, <1>11, <1>12 DEF P, t
-----------------------------------------------------------------------------
(* The dictionary of a list *)

LEMMA DictAt ==
  ASSUME NEW list, NEW name \in Keys, NEW type \in UsedTypes
  PROVE  DictOf(list)[<<name, type>>] = ItemsOf(list, name, type)
<1>1. /\ <<name, type>> \in Keys \X UsedTypes
      /\ <<name, type>>[1] = name /\ <<name, type>>[2] = type
  OBVIOUS
<1> QED
  BY <1>1 DEF DictOf

LEMMA DictSame ==
  ASSUME NEW list, NEW new, new.pairs = list.pairs, new.flags = list.flags
  PROVE  DictOf(new) = DictOf(list)
<1>1. \A name, type : QueuePlaces(new, name, type) = QueuePlaces(list, name, type)
  BY DEF QueuePlaces, Canonical
<1>2. \A name, type : ItemsOf(new, name, type) = ItemsOf(list, name, type)
  BY <1>1 DEF ItemsOf
<1> QED
  BY <1>2 DEF DictOf

LEMMA DictUpdate ==
  ASSUME NEW list, NEW new, NEW name \in Keys, NEW type \in UsedTypes, NEW queue,
         ItemsOf(new, name, type) = queue,
         \A n \in Keys, t \in UsedTypes :
           ~ (n = name /\ t = type) => ItemsOf(new, n, t) = ItemsOf(list, n, t)
  PROVE  DictOf(new) = [DictOf(list) EXCEPT ![<<name, type>>] = queue]
<1> DEFINE D == DictOf(list)
           E == DictOf(new)
           F == [D EXCEPT ![<<name, type>>] = queue]
<1>1. /\ D = [x \in Keys \X UsedTypes |-> D[x]]
      /\ E = [x \in Keys \X UsedTypes |-> E[x]]
  BY DEF DictOf
<1>2. ASSUME NEW x \in Keys \X UsedTypes
      PROVE  E[x] = IF x = <<name, type>> THEN queue ELSE D[x]
  <2>1. PICK n \in Keys, t \in UsedTypes : x = <<n, t>>
    OBVIOUS
  <2>2. E[x] = ItemsOf(new, n, t) /\ D[x] = ItemsOf(list, n, t)
    BY <2>1, DictAt
  <2> QED
    BY <2>1, <2>2
<1> HIDE DEF D, E
<1>3. E = F
  BY <1>1, <1>2
<1> QED
  BY <1>3 DEF D, E

LEMMA DictQueue ==
  ASSUME NEW key \in Keys, NEW type \in UsedTypes
  PROVE  Dict!Queue(key, type) = ItemsOf(nvl, Canonical(nvl, key), type)
<1>1. Canonical(nvl, key) \in Keys
  BY CanonicalIsAKey
<1>2. Dict!Queue(key, type) = DictOf(nvl)[<<Canonical(nvl, key), type>>]
  BY DEF Dict!Queue, Dict!Name, Canonical
<1> QED
  BY <1>1, <1>2, DictAt

\* The dictionary holds what nvlist_exists_type() finds.
LEMMA DictHeld ==
  ASSUME TypeOK, UsedOnly(nvl), NEW key \in Keys, NEW type \in UsedTypes \cup {AnyType}
  PROVE  Dict!Held(key, type) <=> nvlist_exists_type(nvl, key, type)
<1> DEFINE name == Canonical(nvl, key)
<1>1. nvl \in Lists /\ AnyType \notin UsedTypes
  BY UsedTypesAssumption DEF TypeOK, Types, ScalarTypes, ArrayTypes, AnyType
<1>2. \A t \in UsedTypes : Dict!Queue(key, t) # <<>> <=> QueuePlaces(nvl, name, t) # {}
  BY <1>1, DictQueue, QueueEmpty
<1>3. CASE type = AnyType
  <2>1. Dict!Held(key, type) <=> \E t \in UsedTypes : Dict!Queue(key, t) # <<>>
    BY <1>3 DEF Dict!Held, Dict!AnyType, AnyType
  <2>2. Matches(nvl, key, type) = UNION {QueuePlaces(nvl, name, t) : t \in UsedTypes}
    BY <1>3, MatchesOfAnyType
  <2> HIDE DEF name
  <2>3. Matches(nvl, key, type) # {} <=> \E t \in UsedTypes : QueuePlaces(nvl, name, t) # {}
    BY <2>2
  <2> QED
    BY <1>2, <2>1, <2>3 DEF nvlist_exists_type
<1>4. CASE type \in UsedTypes
  <2>1. Dict!Held(key, type) <=> Dict!Queue(key, type) # <<>>
    BY <1>1, <1>4 DEF Dict!Held, Dict!AnyType, AnyType
  <2>2. Matches(nvl, key, type) = QueuePlaces(nvl, name, type)
    BY <1>4, UsedTypesAssumption, MatchesAreAQueue
  <2> QED
    BY <1>2, <1>4, <2>1, <2>2 DEF nvlist_exists_type
<1> QED
  BY <1>3, <1>4

\* The first match is the first of one queue and in no other.
LEMMA FoundIsFirst ==
  ASSUME NEW list \in Lists, UsedOnly(list), NEW key \in Keys, NEW type,
         NEW i \in nvlist_find(list, key, type)
  PROVE  /\ i \in DOMAIN list.pairs /\ list.pairs[i].type \in UsedTypes
         /\ type \in {AnyType, list.pairs[i].type}
         /\ Least(i, QueuePlaces(list, Canonical(list, key), list.pairs[i].type))
         /\ \A n, t : ~ (n = Canonical(list, key) /\ t = list.pairs[i].type) =>
              i \notin QueuePlaces(list, n, t)
<1>1. /\ i \in DOMAIN list.pairs /\ Canonical(list, list.pairs[i].name) = Canonical(list, key)
      /\ type \in {AnyType, list.pairs[i].type}
  BY SameNameIsSameCanonical DEF nvlist_find, Matches
<1>2. QueuePlaces(list, Canonical(list, key), list.pairs[i].type)
        \subseteq Matches(list, key, type)
  BY <1>1, SameNameIsSameCanonical DEF QueuePlaces, Matches
<1>3. \A j \in Matches(list, key, type) : i <= j
  BY DEF nvlist_find
<1>4. i \in QueuePlaces(list, Canonical(list, key), list.pairs[i].type)
  BY <1>1 DEF QueuePlaces
<1>5. \A n, t : i \in QueuePlaces(list, n, t) =>
        n = Canonical(list, key) /\ t = list.pairs[i].type
  BY <1>1 DEF QueuePlaces
<1> QED
  BY <1>1, <1>2, <1>3, <1>4, <1>5 DEF Least, UsedOnly
-----------------------------------------------------------------------------
(* One step of the dictionary for each way a member function can end *)

LEMMA FailedStep ==
  ASSUME nvl.error # NoError, UNCHANGED nvl,
         call'.op = "error" \/ call'.outcome = "nv_error_state"
  PROVE  Dict!Next
BY DEF Dict!Next, Dict!Failed, Dict!Unchanged

\* The call was refused, or asked a question of the list.
LEMMA QuietStep ==
  ASSUME nvl.error = NoError, UNCHANGED nvl
  PROVE  Dict!Unchanged /\ nvl'.flags = nvl.flags
BY DEF Dict!Unchanged

LEMMA RefuseStep ==
  ASSUME nvl.error = NoError, UNCHANGED nvl, call'.outcome \in {"runtime_error", "bad_alloc"}
  PROVE  Dict!Next
BY QuietStep DEF Dict!Next, Dict!Refuse

LEMMA HealthyStep ==
  ASSUME nvl.error = NoError, UNCHANGED nvl, call'.op = "error", call'.outcome = "false"
  PROVE  Dict!Next
BY QuietStep DEF Dict!Next, Dict!Healthy, Dict!Reply

LEMMA ReplyFields ==
  ASSUME NEW op, NEW key, NEW type, NEW outcome, NEW items,
         Returns(Call(op, key, type), outcome, items)
  PROVE  /\ type \in UsedTypes \cup {AnyType}
         /\ call'.op = op /\ call'.key = key /\ call'.type = type
         /\ call'.outcome = outcome /\ call'.items = items
BY DEF Returns, Call

LEMMA ExistsReply ==
  ASSUME TypeOK, UsedOnly(nvl), nvl.error = NoError, UNCHANGED nvl, NEW key \in Keys, NEW type,
         Returns(Call("exists", key, type), Truth(nvlist_exists_type(nvl, key, type)), <<>>)
  PROVE  Dict!Next
<1>1. /\ call'.op = "exists" /\ call'.key = key /\ call'.type = type
      /\ call'.outcome = Truth(nvlist_exists_type(nvl, key, type))
      /\ type \in UsedTypes \cup {AnyType}
  BY ReplyFields
<1>2. call'.outcome = IF Dict!Held(key, type) THEN "true" ELSE "false"
  BY <1>1, DictHeld DEF Truth
<1>3. Dict!Exists(key, call'.type)
  BY <1>1, <1>2, QuietStep DEF Dict!Exists, Dict!Reply
<1> QED
  BY <1>1, <1>3, QuietStep DEF Dict!Next

LEMMA NotFoundReply ==
  ASSUME TypeOK, UsedOnly(nvl), nvl.error = NoError, UNCHANGED nvl, NEW key \in Keys, NEW type,
         NEW op \in {"get", "take", "free"}, NEW outcome \in {"nv_key_not_found", "abort"},
         Returns(Call(op, key, type), outcome, <<>>), ~ nvlist_exists_type(nvl, key, type)
  PROVE  Dict!Next
<1>1. /\ call'.op = op /\ call'.key = key /\ call'.type = type
      /\ call'.outcome = outcome /\ type \in UsedTypes \cup {AnyType}
  BY ReplyFields
<1>2. ~ Dict!Held(key, type)
  BY <1>1, DictHeld
<1>3. Dict!NotFound(key, call'.type)
  BY <1>1, <1>2, QuietStep DEF Dict!NotFound, Dict!Reply
<1> QED
  BY <1>1, <1>3, QuietStep DEF Dict!Next

\* Only pairs of the types in use are in the list, and each is in a queue.
LEMMA QueuesOfPairs ==
  ASSUME TypeOK, UsedOnly(nvl), NEW S \in SUBSET UsedTypes
  PROVE  (\A n \in Keys, t \in S : DictOf(nvl)[<<n, t>>] = <<>>)
           <=> ~ \E i \in DOMAIN nvl.pairs : nvl.pairs[i].type \in S
<1>1. nvl \in Lists /\ nvl.pairs \in Seq(Pairs)
  BY DEF TypeOK, Lists
<1>2. ASSUME NEW n \in Keys, NEW t \in S
      PROVE  DictOf(nvl)[<<n, t>>] = <<>> <=> QueuePlaces(nvl, n, t) = {}
  <2>1. DictOf(nvl)[<<n, t>>] = ItemsOf(nvl, n, t)
    BY DictAt
  <2> QED
    BY <1>1, <2>1, QueueEmpty
<1>3. \A i \in DOMAIN nvl.pairs : Canonical(nvl, nvl.pairs[i].name) \in Keys
  BY <1>1, ItemsAt, CanonicalIsAKey
<1>4. (\A n \in Keys, t \in S : QueuePlaces(nvl, n, t) = {})
        <=> ~ \E i \in DOMAIN nvl.pairs : nvl.pairs[i].type \in S
  <2>1. ASSUME NEW n \in Keys, NEW t \in S, NEW i \in QueuePlaces(nvl, n, t)
        PROVE  i \in DOMAIN nvl.pairs /\ nvl.pairs[i].type \in S
    BY DEF QueuePlaces
  <2>2. ASSUME NEW i \in DOMAIN nvl.pairs, nvl.pairs[i].type \in S
        PROVE  \E n \in Keys, t \in S : i \in QueuePlaces(nvl, n, t)
    BY <1>3, <2>2 DEF QueuePlaces
  <2> QED
    BY <2>1, <2>2
<1> QED
  BY <1>2, <1>4

LEMMA EmptyReply ==
  ASSUME TypeOK, UsedOnly(nvl), nvl.error = NoError, UNCHANGED nvl,
         Returns(Call("empty", NoKey, AnyType), Truth(nvl.pairs = <<>>), <<>>)
  PROVE  Dict!Next
<1>1. call'.op = "empty" /\ call'.outcome = Truth(nvl.pairs = <<>>)
  BY ReplyFields
<1>2. nvl.pairs \in Seq(Pairs)
  BY DEF TypeOK, Lists
<1>3. nvl.pairs = <<>> <=> ~ \E i \in DOMAIN nvl.pairs : nvl.pairs[i].type \in UsedTypes
  BY <1>2 DEF UsedOnly
<1>4. nvl.pairs = <<>> <=> \A n \in Keys, t \in UsedTypes : DictOf(nvl)[<<n, t>>] = <<>>
  BY <1>3, QueuesOfPairs
<1>5. Dict!IsEmpty
  BY <1>1, <1>4, QuietStep DEF Dict!IsEmpty, Dict!Reply, Truth
<1> QED
  BY <1>5, QuietStep DEF Dict!Next

LEMMA PackReply ==
  ASSUME TypeOK, UsedOnly(nvl), nvl.error = NoError, UNCHANGED nvl,
         NEW outcome \in {"ok", "system_error", "bad_alloc"}, outcome = "ok" => ~ HasDescriptors,
         Returns(Call("pack", NoKey, AnyType), outcome, <<>>)
  PROVE  Dict!Next
<1> DEFINE S == UsedTypes \cap {"descriptor", "descriptor_array"}
<1>1. call'.op = "pack" /\ call'.outcome = outcome
  BY ReplyFields
<1>2. ~ HasDescriptors => \A n \in Keys, t \in S : DictOf(nvl)[<<n, t>>] = <<>>
  BY QueuesOfPairs DEF HasDescriptors
<1>3. Dict!Pack
  BY <1>1, <1>2, QuietStep DEF Dict!Pack, Dict!Reply
<1> QED
  BY <1>3, QuietStep DEF Dict!Next

LEMMA GetReply ==
  ASSUME TypeOK, UsedOnly(nvl), nvl.error = NoError, UNCHANGED nvl, NEW key \in Keys,
         NEW type \in Types, NEW i \in nvlist_find(nvl, key, type),
         Returns(Call("get", key, type), "ok", nvl.pairs[i].items)
  PROVE  Dict!Next
<1>1. /\ call'.op = "get" /\ call'.key = key /\ call'.type = type /\ call'.outcome = "ok"
      /\ call'.items = nvl.pairs[i].items /\ type \in UsedTypes
  BY ReplyFields, UsedTypesAssumption DEF Types, ScalarTypes, ArrayTypes, AnyType
<1>2. /\ nvl.pairs[i].type = type
      /\ Least(i, QueuePlaces(nvl, Canonical(nvl, key), type))
  BY <1>1, UsedTypesAssumption, FoundIsFirst DEF TypeOK, Types, ScalarTypes, ArrayTypes, AnyType
<1>3. Head(Dict!Queue(key, type)) = nvl.pairs[i].items
  BY <1>1, <1>2, DictQueue, QueueFirst DEF TypeOK
<1>4. Dict!Held(key, type)
  BY <1>1, DictHeld DEF nvlist_exists_type, nvlist_find
<1>5. Dict!Get(key, type)
  BY <1>1, <1>3, <1>4, QuietStep DEF Dict!Get, Dict!Reply
<1> QED
  BY <1>1, <1>5, QuietStep DEF Dict!Next

LEMMA BreakReply ==
  ASSUME nvl.error = NoError, nvl'.error # NoError, nvl'.pairs = nvl.pairs,
         nvl'.flags = nvl.flags,
         \/ call'.op = "add" /\ call'.outcome \in {"nv_key_exists", "system_error"}
         \/ call'.op \in {"move", "append"} /\ call'.outcome = "ok"
         \/ call'.op = "set_error"
  PROVE  Dict!Next
<1>1. DictOf(nvl') = DictOf(nvl)
  BY DictSame
<1>2. CASE call'.op # "set_error"
  <2>1. Dict!Break
    BY <1>1, <1>2 DEF Dict!Break, Dict!Reply
  <2> QED
    BY <2>1 DEF Dict!Next
<1>3. CASE call'.op = "set_error"
  <2>1. Dict!SetError
    BY <1>1, <1>3 DEF Dict!SetError
  <2> QED
    BY <2>1 DEF Dict!Next
<1> QED
  BY <1>2, <1>3

LEMMA UpdateReply ==
  ASSUME nvl.error = NoError, nvl'.error = NoError, NEW key \in Keys, NEW type \in UsedTypes,
         NEW queue, ItemsOf(nvl', Canonical(nvl, key), type) = queue,
         \A n \in Keys, t \in UsedTypes : ~ (n = Canonical(nvl, key) /\ t = type) =>
           ItemsOf(nvl', n, t) = ItemsOf(nvl, n, t)
  PROVE  Dict!Update(key, type, queue)
<1>1. Canonical(nvl, key) \in Keys
  BY CanonicalIsAKey
<1>2. DictOf(nvl') = [DictOf(nvl) EXCEPT ![<<Canonical(nvl, key), type>>] = queue]
  BY <1>1, DictUpdate
<1> QED
  BY <1>2 DEF Dict!Update, Dict!Name, Canonical

\* A pair leaves the list: the first of its queue.
LEMMA RemovedQueues ==
  ASSUME TypeOK, UsedOnly(nvl), nvl.error = NoError, NEW key \in Keys, NEW type,
         NEW i \in nvlist_find(nvl, key, type), nvl' = nvlist_remove(nvl, i)
  PROVE  \E t \in UsedTypes :
           /\ type \in {AnyType, t} /\ nvl.pairs[i].type = t
           /\ Dict!Held(key, t) /\ Dict!Queue(key, t) # <<>>
           /\ Head(Dict!Queue(key, t)) = nvl.pairs[i].items
           /\ Dict!Update(key, t, Tail(Dict!Queue(key, t)))
           /\ nvl'.flags = nvl.flags
<1> DEFINE t == nvl.pairs[i].type
           name == Canonical(nvl, key)
           old == ItemsOf(nvl, name, t)
<1>1. /\ i \in DOMAIN nvl.pairs /\ t \in UsedTypes /\ type \in {AnyType, t}
      /\ Least(i, QueuePlaces(nvl, name, t))
      /\ \A n, u : ~ (n = name /\ u = t) => i \notin QueuePlaces(nvl, n, u)
      /\ nvl \in Lists
  BY FoundIsFirst DEF TypeOK
<1>2. nvl'.flags = nvl.flags /\ nvl'.error = nvl.error
  BY <1>1 DEF nvlist_remove, Lists
<1>3. old # <<>> /\ Head(old) = nvl.pairs[i].items
  BY <1>1, QueueFirst
<1>4. ItemsOf(nvl', name, t) = Tail(old)
  BY <1>1, QueueRemoved
<1>5. \A n \in Keys, u \in UsedTypes :
        ~ (n = name /\ u = t) => ItemsOf(nvl', n, u) = ItemsOf(nvl, n, u)
  BY <1>1, QueueRemoved
<1>6. Dict!Queue(key, t) = old
  BY <1>1, DictQueue
<1> HIDE DEF old, name, t
<1>7. Dict!Update(key, t, Tail(old))
  BY <1>1, <1>2, <1>4, <1>5, UpdateReply DEF name
<1>8. Dict!Held(key, t)
  <2>1. t # AnyType
    BY <1>1, UsedTypesAssumption DEF Types, ScalarTypes, ArrayTypes, AnyType
  <2> QED
    BY <1>3, <1>6, <2>1 DEF Dict!Held, Dict!AnyType, AnyType
<1> QED
  BY <1>1, <1>2, <1>3, <1>6, <1>7, <1>8 DEF t

LEMMA RemovedUsed ==
  ASSUME TypeOK, UsedOnly(nvl), NEW i \in DOMAIN nvl.pairs, nvl' = nvlist_remove(nvl, i)
  PROVE  UsedOnly(nvl')
<1> DEFINE s == nvl.pairs
           t == RemoveAt(s, i)
<1>1. s \in Seq(Pairs) /\ i \in 1..Len(s) /\ Len(s) \in Nat /\ nvl'.pairs = t
  BY DEF TypeOK, Lists, nvlist_remove
<1>2. \A j \in 1..Len(s) : s[j].type \in UsedTypes
  BY <1>1 DEF UsedOnly
<1> HIDE DEF s
<1>3. /\ t \in Seq(Pairs) /\ Len(t) = Len(s) - 1
      /\ \A j \in 1..Len(s)-1 : t[j] = IF j < i THEN s[j] ELSE s[j+1]
  BY <1>1, RemoveAtElements
<1> HIDE DEF t
<1>4. DOMAIN t = 1..Len(s)-1
  BY <1>1, <1>3
<1>5. \A j \in 1..Len(s)-1 : t[j].type \in UsedTypes
  BY <1>1, <1>2, <1>3
<1> QED
  BY <1>1, <1>4, <1>5 DEF UsedOnly

LEMMA TakeReply ==
  ASSUME TypeOK, UsedOnly(nvl), nvl.error = NoError, NEW key \in Keys, NEW type \in Types,
         NEW i \in nvlist_find(nvl, key, type), nvl' = nvlist_remove(nvl, i),
         \/ Returns(Call("take", key, type), "ok", nvl.pairs[i].items)
         \/ Returns(Call("take", key, type), "bad_alloc", <<>>)
  PROVE  Dict!Next
<1>1. /\ call'.op = "take" /\ call'.key = key /\ call'.type = type
      /\ call'.outcome \in {"ok", "bad_alloc"}
      /\ call'.outcome = "ok" => call'.items = nvl.pairs[i].items
  BY ReplyFields
<1>2. /\ type \in UsedTypes /\ Dict!Held(key, type)
      /\ Head(Dict!Queue(key, type)) = nvl.pairs[i].items
      /\ Dict!Update(key, type, Tail(Dict!Queue(key, type)))
      /\ nvl'.flags = nvl.flags
  BY RemovedQueues DEF Types, ScalarTypes, ArrayTypes, AnyType
<1>3. Dict!Take(key, type)
  BY <1>1, <1>2 DEF Dict!Take, Dict!Reply
<1> QED
  BY <1>1, <1>2, <1>3 DEF Dict!Next

LEMMA FreeReply ==
  ASSUME TypeOK, UsedOnly(nvl), nvl.error = NoError, NEW key \in Keys,
         NEW type \in Types \cup {AnyType},
         NEW i \in nvlist_find(nvl, key, type), nvl' = nvlist_remove(nvl, i),
         Returns(Call("free", key, type), "ok", <<>>)
  PROVE  Dict!Next
<1>1. call'.op = "free" /\ call'.key = key /\ call'.type = type /\ call'.outcome = "ok"
  BY ReplyFields
<1>2. PICK t \in UsedTypes :
        /\ type \in {AnyType, t} /\ Dict!Held(key, t)
        /\ Dict!Update(key, t, Tail(Dict!Queue(key, t)))
        /\ nvl'.flags = nvl.flags
  BY RemovedQueues
<1>3. t \in IF type = Dict!AnyType THEN UsedTypes ELSE {type}
  BY <1>2 DEF Dict!AnyType, AnyType
<1>4. Dict!Free(key, type)
  BY <1>1, <1>2, <1>3 DEF Dict!Free, Dict!Reply
<1> QED
  BY <1>1, <1>2, <1>4 DEF Dict!Next

\* A pair joins the list at its end.
LEMMA PutReply ==
  ASSUME TypeOK, UsedOnly(nvl), nvl.error = NoError, NEW key \in Keys, NEW type \in UsedTypes,
         NEW items \in Seq(Scalars), ~ Clashes(nvl, key),
         nvl' \in Lists, nvl'.error = NoError, nvl'.flags = nvl.flags,
         nvl'.pairs = Append(nvl.pairs, [name |-> key, type |-> type, items |-> items]),
         call'.op \in {"add", "move", "append"}, call'.outcome = "ok",
         call'.key = key, call'.type = type, call'.items = items
  PROVE  Dict!Next /\ UsedOnly(nvl')
<1> DEFINE pair == [name |-> key, type |-> type, items |-> items]
           name == Canonical(nvl, key)
           old == ItemsOf(nvl, name, type)
           queue == Append(old, items)
<1>1. nvl \in Lists /\ nvl.pairs \in Seq(Pairs)
  BY DEF TypeOK, Lists
<1>2. /\ pair \in Pairs /\ pair.name = key /\ pair.type = type /\ pair.items = items
      /\ items \in Values
  BY UsedTypesAssumption DEF Pairs, Values
<1> HIDE DEF pair
<1>3. nvl'.pairs = Append(nvl.pairs, pair)
  BY DEF pair
<1>4. \A n, t : ItemsOf(nvl', n, t) = IF name = n /\ type = t
                                     THEN Append(ItemsOf(nvl, n, t), items) ELSE ItemsOf(nvl, n, t)
  BY <1>1, <1>2, <1>3, QueueAppended
<1>6. ItemsOf(nvl', name, type) = queue
  BY <1>4
<1>7. \A n \in Keys, t \in UsedTypes :
        ~ (n = name /\ t = type) => ItemsOf(nvl', n, t) = ItemsOf(nvl, n, t)
  BY <1>4
<1>8. Dict!Queue(key, type) = old
  BY DictQueue
<1> HIDE DEF queue, old, name
<1>10. Dict!Update(key, type, queue)
  BY <1>6, <1>7, UpdateReply DEF name
<1>11. "NO_UNIQUE" \in nvl.flags \/ ~ Dict!Held(key, AnyType)
  BY DictHeld DEF Clashes
<1>12. Dict!Put(key, type)
  BY <1>8, <1>10, <1>11 DEF Dict!Put, Dict!Reply, Dict!AnyType, AnyType, queue
<1>13. UsedOnly(nvl')
  <2>1. /\ DOMAIN nvl'.pairs = 1..Len(nvl.pairs) + 1 /\ Len(nvl.pairs) \in Nat
        /\ \A i \in 1..Len(nvl.pairs) : nvl'.pairs[i] = nvl.pairs[i]
        /\ nvl'.pairs[Len(nvl.pairs) + 1] = pair
        /\ DOMAIN nvl.pairs = 1..Len(nvl.pairs)
    BY <1>1, <1>2, <1>3
  <2>2. ASSUME NEW i \in 1..Len(nvl.pairs) + 1
        PROVE  nvl'.pairs[i].type \in UsedTypes
    <3>1. CASE i \in 1..Len(nvl.pairs)
      BY <2>1, <3>1 DEF UsedOnly
    <3>2. CASE i = Len(nvl.pairs) + 1
      BY <1>2, <2>1, <3>2
    <3> QED
      BY <2>1, <3>1, <3>2
  <2> QED
    BY <2>1, <2>2 DEF UsedOnly
<1>14. Dict!Next
  BY <1>12 DEF Dict!Next
<1> QED
  BY <1>13, <1>14

LEMMA ExtendedList ==
  ASSUME NEW list \in Lists, NEW i \in DOMAIN list.pairs, NEW item \in Scalars, NEW new,
         new = [list EXCEPT !.pairs[i].items = Append(@, item)]
  PROVE  Revalued(list, new, i) /\ new.pairs[i].items = Append(list.pairs[i].items, item)
<1> DEFINE s == list.pairs
           pair == [s[i] EXCEPT !.items = Append(s[i].items, item)]
           t == [s EXCEPT ![i] = pair]
<1>1. s \in Seq(Pairs)
  BY DEF Lists
<1>2. s[i] \in Pairs /\ s[i].items \in Seq(Scalars)
  <2>1. s[i] \in Pairs
    BY <1>1, ElementOfSeq
  <2> QED
    BY <2>1 DEF Pairs
<1>3. /\ pair \in Pairs /\ pair.items = Append(s[i].items, item)
      /\ pair.name = s[i].name /\ pair.type = s[i].type
  <2>1. Append(s[i].items, item) \in Seq(Scalars)
    BY <1>2
  <2> QED
    BY <1>2, <2>1 DEF Pairs
<1>4. /\ t \in Seq(Pairs) /\ DOMAIN t = DOMAIN s
      /\ \A j \in DOMAIN s : t[j] = IF j = i THEN pair ELSE s[j]
  <2> HIDE DEF pair
  <2> QED
    BY <1>1, <1>3, ExceptSeq
<1>5. new = [list EXCEPT !.pairs = t]
  BY <1>1, <1>2 DEF Lists, Pairs
<1> HIDE DEF t, pair
<1>6. /\ new \in Lists /\ new.flags = list.flags /\ new.error = list.error /\ new.pairs = t
  BY <1>1, <1>4, <1>5 DEF Lists
<1> QED
  BY <1>3, <1>4, <1>6 DEF Revalued

\* The value of the first pair of a queue grows.
LEMMA ExtendReply ==
  ASSUME TypeOK, UsedOnly(nvl), nvl.error = NoError, NEW key \in Keys, NEW type \in UsedTypes,
         NEW i \in nvlist_find(nvl, key, type), NEW item \in Scalars,
         Revalued(nvl, nvl', i), nvl'.pairs[i].items = Append(nvl.pairs[i].items, item),
         call'.op = "append", call'.outcome = "ok", call'.key = key, call'.type = type,
         call'.items = <<item>>
  PROVE  Dict!Next /\ UsedOnly(nvl')
<1> DEFINE name == Canonical(nvl, key)
           old == ItemsOf(nvl, name, type)
           queue == ItemsOf(nvl', name, type)
           items == nvl.pairs[i].items
<1>1. /\ i \in DOMAIN nvl.pairs /\ Least(i, QueuePlaces(nvl, name, type))
      /\ \A n, u : ~ (n = name /\ u = type) => i \notin QueuePlaces(nvl, n, u)
      /\ nvl \in Lists
  BY FoundIsFirst, UsedTypesAssumption DEF TypeOK, Types, ScalarTypes, ArrayTypes, AnyType
<1>2. Append(items, item) = items \o <<item>>
  <2>1. nvl.pairs[i] \in Pairs
    <3>1. nvl.pairs \in Seq(Pairs)
      BY <1>1 DEF Lists
    <3> QED
      BY <1>1, <3>1, ElementOfSeq
  <2>2. items \in Seq(Scalars)
    BY <2>1 DEF Pairs
  <2> HIDE DEF items
  <2> QED
    BY <2>2, AppendIsConcat
<1>3. nvl' \in Lists /\ nvl'.flags = nvl.flags /\ nvl'.error = NoError
  BY DEF Revalued
<1>4. /\ queue # <<>> /\ Tail(queue) = Tail(old)
      /\ Head(queue) = Append(items, item)
  BY <1>1, <1>3, QueueReplaced
<1>5. \A n \in Keys, u \in UsedTypes :
        ~ (n = name /\ u = type) => ItemsOf(nvl', n, u) = ItemsOf(nvl, n, u)
  BY <1>1, <1>3, QueueReplaced
<1>6. UsedOnly(nvl')
  BY <1>1 DEF UsedOnly, Revalued
<1>7. Head(old) = items
  BY <1>1, QueueFirst
<1>8. Dict!Update(key, type, queue)
  BY <1>3, <1>5, UpdateReply
<1>9. Dict!Queue(key, type) = old
  BY DictQueue
<1>10. queue \in Seq(Values)
  BY <1>3, QueueType
<1>11. Dict!Held(key, type)
  BY DictHeld DEF nvlist_exists_type, nvlist_find
<1> HIDE DEF queue, old, items
<1>12. Dict!Extend(key, type)
  <2>1. queue = <<Head(queue)>> \o Tail(queue)
    BY <1>4, <1>10, HeadAndTail
  <2>2. queue = <<Head(old) \o call'.items>> \o Tail(old)
    BY <1>2, <1>4, <1>7, <2>1
  <2> QED
    BY <1>8, <1>9, <1>11, <2>2 DEF Dict!Extend, Dict!Reply
<1>13. Dict!Next
  BY <1>3, <1>12 DEF Dict!Next
<1> QED
  BY <1>6, <1>13
-----------------------------------------------------------------------------
(* The member functions *)

\* What is inductive: of all pairs only types in use are in the list.
DInv == IInv /\ UsedOnly(nvl)

\* A member function does what the dictionary may do.
Simulated == Dict!Next /\ UsedOnly(nvl')

LEMMA DInvType == DInv => TypeOK /\ UsedOnly(nvl) /\ nvl \in Lists
BY DEF DInv, IInv, TypeOK

LEMMA QuietUsed ==
  ASSUME DInv, UNCHANGED nvl
  PROVE  UsedOnly(nvl')
BY DEF DInv

LEMMA RefusesSimulated ==
  ASSUME DInv, NEW c, Refuses(c)
  PROVE  Simulated
<1>1. UNCHANGED nvl /\ UsedOnly(nvl')
  BY QuietUsed DEF Refuses, throw_if_error, check_string_null, Throws
<1>2. CASE throw_if_error(c)
  <2>1. nvl.error # NoError /\ call'.outcome = "nv_error_state"
    BY <1>2 DEF throw_if_error, Throws, Returns
  <2> QED
    BY <1>1, <2>1, FailedStep DEF Simulated
<1>3. CASE check_string_null(c)
  <2>1. nvl.error = NoError /\ call'.outcome = "runtime_error"
    BY <1>3 DEF check_string_null, Throws, Returns
  <2> QED
    BY <1>1, <2>1, RefuseStep DEF Simulated
<1> QED
  BY <1>2, <1>3 DEF Refuses

LEMMA RefuseSimulated ==
  ASSUME DInv, NEW c, Accepts(c), NEW e \in {"runtime_error", "bad_alloc"}, Throws(c, e)
  PROVE  Simulated
<1>1. UNCHANGED nvl /\ UsedOnly(nvl')
  BY QuietUsed DEF Throws
<1>2. nvl.error = NoError /\ call'.outcome = e
  BY DEF Accepts, Throws, Returns
<1> QED
  BY <1>1, <1>2, RefuseStep DEF Simulated

LEMMA RejectSimulated ==
  ASSUME DInv, NEW c, Rejects(c)
  PROVE  Simulated
BY RefusesSimulated, RefuseSimulated DEF Rejects, CannotCopy

LEMMA MissingSimulated ==
  ASSUME DInv, NEW key \in Keys, NEW type, NEW op \in {"get", "take", "free"},
         Accepts(Call(op, key, type)), Missing(Call(op, key, type)),
         NEW outcome \in {"nv_key_not_found", "abort"}, Throws(Call(op, key, type), outcome)
  PROVE  Simulated
<1>1. UNCHANGED nvl /\ UsedOnly(nvl') /\ Returns(Call(op, key, type), outcome, <<>>)
  BY QuietUsed DEF Throws
<1>2. nvl.error = NoError /\ ~ nvlist_exists_type(nvl, key, type)
  BY DEF Accepts, Missing, Call
<1>3. Dict!Next
  BY <1>1, <1>2, DInvType, NotFoundReply
<1> QED
  BY <1>1, <1>3 DEF Simulated

LEMMA ExistsSimulated ==
  ASSUME DInv, NEW key \in Keys, NEW type, exists_type(key, type)
  PROVE  Simulated
<1> DEFINE c == Call("exists", key, type)
<1>1. CASE Rejects(c)
  BY <1>1, RejectSimulated
<1>2. CASE /\ Accepts(c) /\ UNCHANGED nvl
           /\ Returns(c, Truth(nvlist_exists_type(nvl, key, type)), <<>>)
  <2>1. nvl.error = NoError /\ UsedOnly(nvl')
    BY <1>2, QuietUsed DEF Accepts
  <2>2. Dict!Next
    BY <1>2, <2>1, DInvType, ExistsReply
  <2> QED
    BY <2>1, <2>2 DEF Simulated
<1> QED
  BY <1>1, <1>2 DEF exists_type

LEMMA GetSimulated ==
  ASSUME DInv, NEW key \in Keys, NEW type \in Types, get(key, type)
  PROVE  Simulated
<1> DEFINE c == Call("get", key, type)
<1>1. CASE Rejects(c)
  BY <1>1, RejectSimulated
<1>2. CASE Accepts(c) /\ Missing(c) /\ Throws(c, "nv_key_not_found")
  BY <1>2, MissingSimulated
<1>3. ASSUME Accepts(c), UNCHANGED nvl, NEW i \in nvlist_find(nvl, key, type),
             Returns(c, "ok", nvl.pairs[i].items)
      PROVE  Simulated
  <2>1. nvl.error = NoError /\ UsedOnly(nvl')
    BY <1>3, QuietUsed DEF Accepts
  <2>2. Dict!Next
    BY <1>3, <2>1, DInvType, GetReply
  <2> QED
    BY <2>1, <2>2 DEF Simulated
<1> QED
  BY <1>1, <1>2, <1>3 DEF get

LEMMA FreeSimulated ==
  ASSUME DInv, NEW key \in Keys, NEW type \in Types \cup {AnyType}, free_type(key, type)
  PROVE  Simulated
<1> DEFINE c == Call("free", key, type)
<1>1. CASE Rejects(c)
  BY <1>1, RejectSimulated
<1>2. CASE Accepts(c) /\ Missing(c) /\ Throws(c, "nv_key_not_found")
  BY <1>2, MissingSimulated
<1>3. ASSUME Accepts(c), Returns(c, "ok", <<>>), NEW i \in nvlist_find(nvl, key, type),
             nvl' = nvlist_remove(nvl, i)
      PROVE  Simulated
  <2>1. nvl.error = NoError
    BY <1>3 DEF Accepts
  <2>2. UsedOnly(nvl')
    <3>1. i \in DOMAIN nvl.pairs
      BY DEF nvlist_find, Matches
    <3> QED
      BY <1>3, <3>1, DInvType, RemovedUsed
  <2>3. Dict!Next
    BY <1>3, <2>1, DInvType, FreeReply
  <2> QED
    BY <2>2, <2>3 DEF Simulated
<1> QED
  BY <1>1, <1>2, <1>3 DEF free_type

LEMMA HandOverSimulated ==
  ASSUME DInv, NEW key \in Keys, NEW type \in Types, NEW copies \in BOOLEAN,
         HandsOver(Call("take", key, type), copies)
  PROVE  Simulated
<1> DEFINE c == Call("take", key, type)
<1>1. c.key = key /\ c.type = type
  BY DEF Call
<1>2. PICK i \in nvlist_find(nvl, key, type) :
        /\ nvl' = nvlist_remove(nvl, i)
        /\ Returns(c, "ok", nvl.pairs[i].items) \/ Returns(c, "bad_alloc", <<>>)
  BY <1>1 DEF HandsOver
<1>3. nvl.error = NoError /\ i \in DOMAIN nvl.pairs
  BY DEF HandsOver, Accepts, nvlist_find, Matches
<1>4. UsedOnly(nvl')
  BY <1>2, <1>3, DInvType, RemovedUsed
<1>5. Dict!Next
  BY <1>2, <1>3, DInvType, TakeReply
<1> QED
  BY <1>4, <1>5 DEF Simulated

LEMMA TakeSimulated ==
  ASSUME DInv, NEW key \in Keys, NEW type \in Types, NEW copies \in BOOLEAN,
         take_checked(key, type, copies) \/ take_unchecked(key, type, copies)
  PROVE  Simulated
BY RejectSimulated, MissingSimulated, HandOverSimulated DEF take_checked, take_unchecked

LEMMA TakeDescriptorArraySimulated ==
  ASSUME DInv, NEW key \in Keys, take_descriptor_array(key)
  PROVE  Simulated
<1> DEFINE c == Call("take", key, "descriptor_array")
<1>1. "descriptor_array" \in Types
  BY DEF Types, ArrayTypes
<1>2. CASE Rejects(c)
  BY <1>2, RejectSimulated
<1>3. CASE Accepts(c) /\ Missing(c) /\ Throws(c, "abort")
  BY <1>3, MissingSimulated
<1>4. CASE HandsOver(c, FALSE)
  BY <1>1, <1>4, HandOverSimulated
<1>5. CASE Accepts(c) /\ ~ Missing(c) /\ Throws(c, "bad_alloc")
  BY <1>5, RefuseSimulated
<1> QED
  BY <1>2, <1>3, <1>4, <1>5 DEF take_descriptor_array

\* libnv could not make or insert the pair.
LEMMA BrokenSimulated ==
  ASSUME DInv, nvl.error = NoError, NEW e \in Errnos, nvl' = nvlist_set_error(nvl, e),
         \/ call'.op = "add" /\ call'.outcome \in {"nv_key_exists", "system_error"}
         \/ call'.op \in {"move", "append"} /\ call'.outcome = "ok"
         \/ call'.op = "set_error"
  PROVE  Simulated
<1>1. nvl'.error # NoError /\ nvl'.pairs = nvl.pairs /\ nvl'.flags = nvl.flags
  BY DInvType DEF nvlist_set_error, Lists, Errnos, NoError
<1>2. UsedOnly(nvl')
  BY <1>1 DEF DInv, UsedOnly
<1> QED
  BY <1>1, <1>2, BreakReply DEF Simulated

\* What nvlist_add_* makes of a healthy list.
LEMMA AddResults ==
  ASSUME NEW list \in Lists, list.error = NoError, NEW key \in Keys, NEW type \in Types,
         NEW items \in Seq(Scalars), NEW new \in nvlist_add(list, key, type, items)
  PROVE  \/ \E e \in Errnos : new = nvlist_set_error(list, e)
         \/ /\ ~ Clashes(list, key)
            /\ new \in Lists /\ new.error = NoError /\ new.flags = list.flags
            /\ new.pairs = Append(list.pairs, [name |-> key, type |-> type, items |-> items])
<1> DEFINE pair == [name |-> key, type |-> type, items |-> items]
<1>1. BuildErrors(type, items) \cup {"ENOMEM", "EEXIST"} \subseteq Errnos
  BY ItemErrnoAssumption DEF BuildErrors, Errnos, NoError
<1>2. pair \in Pairs /\ list.pairs \in Seq(Pairs)
  BY DEF Pairs, Lists
<1> HIDE DEF pair
<1>3. Append(list.pairs, pair) \in Seq(Pairs)
  BY <1>2
<1>4. CASE new = [list EXCEPT !.pairs = Append(@, pair)] /\ ~ Clashes(list, key)
  BY <1>3, <1>4 DEF Lists, pair
<1>5. \/ \E e \in Errnos : new = nvlist_set_error(list, e)
      \/ new = [list EXCEPT !.pairs = Append(@, pair)] /\ ~ Clashes(list, key)
  BY <1>1 DEF nvlist_add, pair
<1> QED
  BY <1>4, <1>5

LEMMA InsertSimulated ==
  ASSUME DInv, NEW key \in Keys, NEW type \in Types, NEW items \in Seq(Scalars),
         nvl.error = NoError, nvl' \in nvlist_add(nvl, key, type, items),
         NEW op, NEW outcome, Returns(Call(op, key, type), outcome, items),
         \/ op = "add" /\ outcome = Reported(nvl'.error)
         \/ op \in {"move", "append"} /\ outcome = "ok"
  PROVE  Simulated
<1>1. /\ call'.op = op /\ call'.key = key /\ call'.type = type /\ call'.outcome = outcome
      /\ call'.items = items /\ type \in UsedTypes
  BY ReplyFields, UsedTypesAssumption DEF Types, ScalarTypes, ArrayTypes, AnyType
<1>2. CASE \E e \in Errnos : nvl' = nvlist_set_error(nvl, e)
  <2>1. PICK e \in Errnos : nvl' = nvlist_set_error(nvl, e)
    BY <1>2
  <2>2. nvl'.error = e
    BY <2>1, DInvType DEF nvlist_set_error, Lists
  <2>3. op = "add" => outcome \in {"nv_key_exists", "system_error"}
    BY <2>2 DEF Reported, Errnos, NoError
  <2> QED
    BY <1>1, <2>1, <2>3, BrokenSimulated
<1>3. CASE /\ ~ Clashes(nvl, key)
           /\ nvl' \in Lists /\ nvl'.error = NoError /\ nvl'.flags = nvl.flags
           /\ nvl'.pairs = Append(nvl.pairs, [name |-> key, type |-> type, items |-> items])
  <2>1. op \in {"add", "move", "append"} /\ outcome = "ok"
    BY <1>3 DEF Reported
  <2>2. Dict!Next /\ UsedOnly(nvl')
    BY <1>1, <1>3, <2>1, DInvType, PutReply
  <2> QED
    BY <2>2 DEF Simulated
<1> QED
  BY <1>2, <1>3, DInvType, AddResults

LEMMA AddSimulated ==
  ASSUME DInv, NEW key \in Keys, NEW type \in Types, NEW items \in Seq(Scalars),
         add(key, type, items)
  PROVE  Simulated
<1> DEFINE c == Call("add", key, type)
<1>1. CASE Rejects(c)
  BY <1>1, RejectSimulated
<1>2. CASE /\ Accepts(c) /\ nvl' \in nvlist_add(nvl, key, type, items)
           /\ Returns(c, Reported(nvl'.error), items)
  <2>1. nvl.error = NoError
    BY <1>2 DEF Accepts
  <2> QED
    BY <1>2, <2>1, InsertSimulated
<1> QED
  BY <1>1, <1>2 DEF add

LEMMA AddStringSimulated ==
  ASSUME DInv, NEW key \in Keys, NEW type \in Types, NEW items \in Seq(Scalars),
         add_string(key, type, items)
  PROVE  Simulated
BY RefusesSimulated, RefuseSimulated, AddSimulated DEF add_string

LEMMA MoveSimulated ==
  ASSUME DInv, NEW key \in Keys, NEW type \in Types, NEW items \in Seq(Scalars),
         move(key, type, items)
  PROVE  Simulated
<1> DEFINE c == Call("move", key, type)
<1>1. CASE Rejects(c)
  BY <1>1, RejectSimulated
<1>2. CASE /\ Accepts(c) /\ nvl' \in nvlist_add(nvl, key, type, items)
           /\ Returns(c, "ok", items)
  <2>1. nvl.error = NoError
    BY <1>2 DEF Accepts
  <2> QED
    BY <1>2, <2>1, InsertSimulated
<1> QED
  BY <1>1, <1>2 DEF move

\* What nvlist_append_* makes of a healthy list that has the array.
LEMMA ExtendResults ==
  ASSUME NEW list \in Lists, NEW key \in Keys, NEW type \in Types, NEW item \in Scalars,
         nvlist_exists_type(list, key, type), NEW new \in nvlist_append(list, key, type, item)
  PROVE  \/ \E e \in Errnos : new = nvlist_set_error(list, e)
         \/ \E i \in nvlist_find(list, key, type) :
              new = [list EXCEPT !.pairs[i].items = Append(@, item)]
<1>1. BuildErrors(type, <<item>>) \cup {"ENOMEM"} \subseteq Errnos
  BY ItemErrnoAssumption DEF BuildErrors, Errnos, NoError
<1> QED
  BY <1>1 DEF nvlist_append

LEMMA AppendSimulated ==
  ASSUME DInv, NEW key \in Keys, NEW type \in Types, NEW item \in Scalars,
         append(key, type, item)
  PROVE  Simulated
<1> DEFINE c == Call("append", key, type)
<1>1. CASE Rejects(c)
  BY <1>1, RejectSimulated
<1>2. CASE /\ Accepts(c) /\ nvl' \in nvlist_append(nvl, key, type, item)
           /\ Returns(c, "ok", <<item>>)
  <2>1. /\ nvl.error = NoError /\ call'.op = "append" /\ call'.outcome = "ok"
        /\ call'.key = key /\ call'.type = type /\ type \in UsedTypes
        /\ call'.items = <<item>>
    BY <1>2, ReplyFields, UsedTypesAssumption DEF Accepts, Types, ScalarTypes, ArrayTypes, AnyType
  <2>2. CASE ~ nvlist_exists_type(nvl, key, type)
    <3>1. nvl' \in nvlist_add(nvl, key, type, <<item>>) /\ <<item>> \in Seq(Scalars)
      BY <1>2, <2>2 DEF nvlist_append
    <3> QED
      BY <1>2, <2>1, <3>1, InsertSimulated
  <2>3. CASE nvlist_exists_type(nvl, key, type)
    <3>1. ASSUME NEW e \in Errnos, nvl' = nvlist_set_error(nvl, e)
          PROVE  Simulated
      BY <2>1, <3>1, BrokenSimulated
    <3>2. ASSUME NEW i \in nvlist_find(nvl, key, type),
                 nvl' = [nvl EXCEPT !.pairs[i].items = Append(@, item)]
          PROVE  Simulated
      <4>1. i \in DOMAIN nvl.pairs
        BY DEF nvlist_find, Matches
      <4>2. Revalued(nvl, nvl', i) /\ nvl'.pairs[i].items = Append(nvl.pairs[i].items, item)
        BY <3>2, <4>1, DInvType, ExtendedList
      <4>3. Dict!Next /\ UsedOnly(nvl')
        BY <2>1, <4>2, DInvType, ExtendReply
      <4> QED
        BY <4>3 DEF Simulated
    <3> QED
      BY <1>2, <2>3, <3>1, <3>2, DInvType, ExtendResults
  <2> QED
    BY <2>2, <2>3
<1> QED
  BY <1>1, <1>2 DEF append

LEMMA AppendStringSimulated ==
  ASSUME DInv, NEW key \in Keys, NEW item \in Scalars, append_string(key, item)
  PROVE  Simulated
<1>1. "string_array" \in Types
  BY DEF Types, ArrayTypes
<1> QED
  BY <1>1, RefusesSimulated, RefuseSimulated, AppendSimulated DEF append_string

LEMMA SetErrorSimulated ==
  ASSUME DInv, NEW errno \in Errnos, set_error(errno)
  PROVE  Simulated
<1> DEFINE c == Call("set_error", NoKey, AnyType)
<1>1. CASE throw_if_error(c)
  BY <1>1, RefusesSimulated DEF Refuses
<1>2. CASE nvl.error = NoError /\ nvl' = nvlist_set_error(nvl, errno) /\ Returns(c, "ok", <<>>)
  BY <1>2, ReplyFields, BrokenSimulated
<1> QED
  BY <1>1, <1>2 DEF set_error

LEMMA EmptySimulated ==
  ASSUME DInv, empty
  PROVE  Simulated
<1> DEFINE c == Call("empty", NoKey, AnyType)
<1>1. CASE throw_if_error(c)
  BY <1>1, RefusesSimulated DEF Refuses
<1>2. CASE nvl.error = NoError /\ Returns(c, Truth(nvl.pairs = <<>>), <<>>) /\ UNCHANGED nvl
  BY <1>2, DInvType, QuietUsed, EmptyReply DEF Simulated
<1> QED
  BY <1>1, <1>2 DEF empty

LEMMA ErrorSimulated ==
  ASSUME DInv, error
  PROVE  Simulated
<1>1. /\ UNCHANGED nvl /\ UsedOnly(nvl')
      /\ call'.op = "error" /\ call'.outcome = Truth(nvl.error # NoError)
  BY QuietUsed, ReplyFields DEF error
<1>2. CASE nvl.error # NoError
  BY <1>1, <1>2, FailedStep DEF Simulated
<1>3. CASE nvl.error = NoError
  <2>1. call'.outcome = "false"
    BY <1>1, <1>3 DEF Truth
  <2> QED
    BY <1>1, <1>3, <2>1, HealthyStep DEF Simulated
<1> QED
  BY <1>2, <1>3

LEMMA PackSimulated ==
  ASSUME DInv, pack
  PROVE  Simulated
<1> DEFINE c == Call("pack", NoKey, AnyType)
<1>1. CASE throw_if_error(c)
  BY <1>1, RefusesSimulated DEF Refuses
<1>2. ASSUME nvl.error = NoError, UNCHANGED nvl, NEW outcome \in {"ok", "system_error", "bad_alloc"},
             outcome = "ok" => ~ HasDescriptors, Returns(c, outcome, <<>>)
      PROVE  Simulated
  BY <1>2, DInvType, QuietUsed, PackReply DEF Simulated
<1> QED
  BY <1>1, <1>2 DEF pack, Throws

LEMMA SendSimulated ==
  ASSUME DInv, send
  PROVE  Simulated
<1> DEFINE c == Call("send", NoKey, AnyType)
<1>1. CASE throw_if_error(c)
  BY <1>1, RefusesSimulated DEF Refuses
<1>2. ASSUME nvl.error = NoError, UNCHANGED nvl, NEW outcome \in {"ok", "system_error"},
             Returns(c, outcome, <<>>)
      PROVE  Simulated
  <2>1. call'.op = "send" /\ call'.outcome = outcome
    BY <1>2, ReplyFields
  <2>2. Dict!Send
    BY <1>2, <2>1, QuietStep DEF Dict!Send, Dict!Reply
  <2>3. Dict!Next
    BY <1>2, <2>2, QuietStep DEF Dict!Next
  <2> QED
    BY <1>2, <2>3, QuietUsed DEF Simulated
<1> QED
  BY <1>1, <1>2 DEF send, Throws
-----------------------------------------------------------------------------
(* The sections of nv_list.cc and const_nv_list.cc *)

LEMMA OperationsSimulated ==
  ASSUME DInv, NEW key \in Keys, KeyOperations(key)
  PROVE  Simulated
<1>1. CASE null_operations(key)
  <2>1. "null" \in Types
    BY DEF Types, ScalarTypes
  <2> QED
    BY <1>1, <2>1, NoItems, AddSimulated, FreeSimulated DEF null_operations
<1>2. CASE bool_operations(key)
  <2>1. {"bool", "bool_array"} \subseteq Types
    BY DEF Types, ScalarTypes, ArrayTypes
  <2> QED
    BY <1>2, <2>1, ArgumentTypes, AddSimulated, MoveSimulated, AppendSimulated, TakeSimulated,
       FreeSimulated DEF bool_operations
<1>3. CASE number_operations(key)
  <2>1. {"number", "number_array"} \subseteq Types
    BY DEF Types, ScalarTypes, ArrayTypes
  <2> QED
    BY <1>3, <2>1, ArgumentTypes, AddSimulated, MoveSimulated, AppendSimulated, TakeSimulated,
       FreeSimulated DEF number_operations
<1>4. CASE string_operations(key)
  <2>1. {"string", "string_array"} \subseteq Types
    BY DEF Types, ScalarTypes, ArrayTypes
  <2>2. \A args : Moved(args) \subseteq args
    BY DEF Moved
  <2> QED
    BY <1>4, <2>1, <2>2, ArgumentTypes, AddStringSimulated, MoveSimulated,
       AppendStringSimulated, TakeSimulated, FreeSimulated DEF string_operations
<1>5. CASE nvlist_operations(key)
  <2>1. {"nvlist", "nvlist_array"} \subseteq Types
    BY DEF Types, ScalarTypes, ArrayTypes
  <2> QED
    BY <1>5, <2>1, ArgumentTypes, AddSimulated, MoveSimulated, AppendSimulated, TakeSimulated,
       FreeSimulated DEF nvlist_operations
<1>6. CASE descriptor_operations(key)
  <2>1. {"descriptor", "descriptor_array"} \subseteq Types
    BY DEF Types, ScalarTypes, ArrayTypes
  <2> QED
    BY <1>6, <2>1, ArgumentTypes, AddSimulated, MoveSimulated, AppendSimulated, TakeSimulated,
       TakeDescriptorArraySimulated, FreeSimulated DEF descriptor_operations
<1>7. CASE binary_operations(key)
  <2>1. "binary" \in Types
    BY DEF Types, ScalarTypes
  <2> QED
    BY <1>7, <2>1, NoItems, ArgumentTypes, AddSimulated, MoveSimulated, TakeSimulated,
       FreeSimulated DEF binary_operations
<1>8. CASE \/ reads_of_null_bool_number(key)
           \/ reads_of_string_nvlist(key)
           \/ reads_of_descriptor_binary(key)
  <2>1. \A types \in SUBSET Types : Observes(key, types) => Simulated
    BY ExistsSimulated, GetSimulated DEF Observes
  <2> QED
    BY <1>8, <2>1 DEF reads_of_null_bool_number, reads_of_string_nvlist,
                      reads_of_descriptor_binary, Types, ScalarTypes, ArrayTypes
<1> QED
  BY <1>1, <1>2, <1>3, <1>4, <1>5, <1>6, <1>7, <1>8, ExistsSimulated, FreeSimulated
  DEF KeyOperations

LEMMA NextSimulated == DInv /\ Next => Simulated
<1> SUFFICES ASSUME DInv, Next
             PROVE  Simulated
  OBVIOUS
<1> QED
  BY OperationsSimulated, EmptySimulated, ErrorSimulated, PackSimulated, SendSimulated,
     SetErrorSimulated
  DEF Next

LEMMA InitSimulated == Init => Dict!Init /\ UsedOnly(nvl)
<1> SUFFICES ASSUME Init
             PROVE  Dict!Init /\ UsedOnly(nvl)
  OBVIOUS
<1>1. PICK f \in FlagChoices, e \in Errnos \cup {NoError} :
        nvl = [flags |-> f, error |-> e, pairs |-> <<>>]
  BY DEF Init
<1>2. /\ nvl.flags \subseteq Flags /\ nvl.pairs = <<>>
      /\ nvl \in Lists
  BY <1>1, InitInvariant, FlagChoicesAssumption DEF IInv, TypeOK
<1>3. UsedOnly(nvl)
  BY <1>2 DEF UsedOnly
<1>4. ASSUME NEW n \in Keys, NEW t \in UsedTypes
      PROVE  ItemsOf(nvl, n, t) = <<>>
  <2>1. QueuePlaces(nvl, n, t) = {}
    BY <1>2 DEF QueuePlaces
  <2> QED
    BY <1>2, <2>1, QueueEmpty
<1>5. DictOf(nvl) = [n \in Keys \X UsedTypes |-> <<>>]
  BY <1>4 DEF DictOf
<1> QED
  BY <1>2, <1>3, <1>5 DEF Dict!Init, Dict!Flags, Flags

\* Whatever the names, values and flags, every behaviour of the list is one of
\* the dictionary of queues.
THEOREM RefinesNvDictHolds == Spec => RefinesNvDict
<1>1. Init => Dict!Init /\ UsedOnly(nvl)
  BY InitSimulated
<1>2. IInv /\ UsedOnly(nvl) /\ [Next]_vars => [Dict!Next]_(Dict!vars) /\ UsedOnly(nvl)'
  <2>1. CASE UNCHANGED vars
    BY <2>1 DEF vars, Dict!vars, UsedOnly
  <2>2. DInv /\ Next => Dict!Next /\ UsedOnly(nvl')
    BY NextSimulated DEF Simulated
  <2> QED
    BY <2>1, <2>2 DEF DInv
<1> QED
  BY <1>1, <1>2, Invariant, PTL DEF Spec, RefinesNvDict, Dict!Spec
=============================================================================
