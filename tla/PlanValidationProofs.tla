------------------------- MODULE PlanValidationProofs -------------------------
(***************************************************************************)
(* What find_cycle computes for any dependencies, and what a plan that was *)
(* validated and prepared promises for any draft, any tools and any        *)
(* catalogue of policies.                                                  *)
(***************************************************************************)
EXTENDS PlanValidation, FiniteSetTheorems, SequenceTheorems,
        WellFoundedInduction, TLAPS

-----------------------------------------------------------------------------
(* Numbers and sorted sequences.                                           *)

\* A nonempty set of numbers has a least one.
LEMMA LeastNumber ==
    ASSUME NEW S \in SUBSET Nat, S # {}
    PROVE  \E m \in S : \A n \in S : m <= n
<1>1. \E m \in S : \A n \in S : ~(<<n, m>> \in OpToRel(<, Nat))
  BY WFMin, NatLessThanWellFounded, Zenon
<1>2. \A m, n \in Nat : ~(<<n, m>> \in OpToRel(<, Nat)) => m <= n
  BY DEF OpToRel
<1> QED
  BY <1>1, <1>2, Zenon

\* Induction over the natural numbers, for a set of them.
LEMMA SetInduction ==
    ASSUME NEW N, 0 \in N, \A n \in Nat : n \in N => n + 1 \in N
    PROVE  Nat \subseteq N
<1> DEFINE Rest == Nat \ N
<1> SUFFICES ASSUME Rest # {} PROVE FALSE
  OBVIOUS
<1>1. PICK m \in Rest : \A n \in Rest : m <= n
  BY LeastNumber
<1>2. m - 1 \in Nat /\ (m - 1) + 1 = m
  BY <1>1
<1> QED
  BY <1>1, <1>2

Sorts(q, S) ==
    /\ q \in [1..Cardinality(S) -> S]
    /\ \A i, k \in DOMAIN q : i < k => q[i] < q[k]

\* Every finite set of numbers can be sorted: its least element comes first.
LEMMA SortExists ==
    ASSUME NEW S \in SUBSET Nat, IsFiniteSet(S)
    PROVE  \E q : Sorts(q, S)
<1> DEFINE N == {n \in Nat : \A R \in SUBSET Nat :
                                (IsFiniteSet(R) /\ Cardinality(R) = n) => \E q : Sorts(q, R)}
<1>1. 0 \in N
  <2> SUFFICES ASSUME NEW R \in SUBSET Nat, IsFiniteSet(R), Cardinality(R) = 0
               PROVE  Sorts(<<>>, R)
    OBVIOUS
  <2> QED
    BY DEF Sorts
<1>2. ASSUME NEW n \in Nat, n \in N
      PROVE  n + 1 \in N
  <2> SUFFICES ASSUME NEW R \in SUBSET Nat, IsFiniteSet(R), Cardinality(R) = n + 1
               PROVE  \E q : Sorts(q, R)
    OBVIOUS
  <2>1. R # {}
    BY FS_EmptySet
  <2>2. PICK m \in R : \A k \in R : m <= k
    BY <2>1, LeastNumber
  <2>3. IsFiniteSet(R \ {m}) /\ Cardinality(R \ {m}) = n
    <3>1. IsFiniteSet(R \ {m}) /\ Cardinality(R \ {m}) = Cardinality(R) - 1
      BY FS_RemoveElement, Zenon
    <3> QED
      BY <3>1
  <2>4. PICK q : Sorts(q, R \ {m})
    BY <1>2, <2>3
  <2>5. /\ q \in [1..n -> R \ {m}]
        /\ \A i, k \in 1..n : i < k => q[i] < q[k]
    BY <2>3, <2>4 DEF Sorts
  <2> DEFINE more == [i \in 1..(n + 1) |-> IF i = 1 THEN m ELSE q[i - 1]]
  <2>6. more \in [1..(n + 1) -> R]
    BY <2>5
  <2>7. ASSUME NEW i \in 1..(n + 1), NEW k \in 1..(n + 1), i < k
        PROVE  more[i] < more[k]
    <3>1. k # 1 /\ k - 1 \in 1..n /\ q[k - 1] \in R \ {m}
      BY <2>5, <2>7
    <3>2. CASE i = 1
      <4>1. more[i] = m /\ more[k] = q[k - 1]
        BY <3>1, <3>2
      <4>2. m \in Nat /\ q[k - 1] \in Nat /\ m <= q[k - 1] /\ m # q[k - 1]
        BY <2>2, <3>1
      <4> HIDE DEF more
      <4> QED
        BY <4>1, <4>2
    <3>3. CASE i # 1
      BY <2>5, <2>7, <3>1, <3>3
    <3> QED
      BY <3>2, <3>3
  <2> HIDE DEF more
  <2>8. Sorts(more, R)
    BY <2>6, <2>7 DEF Sorts
  <2> QED
    BY <2>8
<1>3. Cardinality(S) \in N
  <2> HIDE DEF N
  <2> QED
    BY <1>1, <1>2, SetInduction, FS_CardinalityType
<1> QED
  BY <1>3

\* sorted(S) lists the elements of S, each of them once.
LEMMA OrderedLists ==
    ASSUME NEW S \in SUBSET Nat, IsFiniteSet(S)
    PROVE  /\ Ordered(S) \in Seq(S)
           /\ Len(Ordered(S)) = Cardinality(S)
           /\ \A i, k \in 1..Len(Ordered(S)) : Ordered(S)[i] = Ordered(S)[k] => i = k
           /\ \A s \in S : \E i \in 1..Len(Ordered(S)) : Ordered(S)[i] = s
<1> DEFINE q == Ordered(S)
           n == Cardinality(S)
<1>1. Sorts(q, S)
  <2>1. \E r \in [1..n -> S] : \A i, k \in DOMAIN r : i < k => r[i] < r[k]
    BY SortExists DEF Sorts
  <2> QED
    BY <2>1 DEF Ordered, Sorts
<1>2. n \in Nat
  BY FS_CardinalityType
<1>3. q \in [1..n -> S] /\ \A i, k \in 1..n : i < k => q[i] < q[k]
  BY <1>1 DEF Sorts
<1> HIDE DEF q
<1>4. q \in Seq(S) /\ Len(q) = n
  BY <1>2, <1>3
<1>5. \A i, k \in 1..n : q[i] = q[k] => i = k
  <2> SUFFICES ASSUME NEW i \in 1..n, NEW k \in 1..n, q[i] = q[k], i # k
               PROVE  FALSE
    OBVIOUS
  <2>1. i < k \/ k < i
    BY <1>2
  <2>2. q[i] < q[k] \/ q[k] < q[i]
    BY <1>3, <2>1
  <2>3. q[i] \in Nat
    BY <1>3
  <2> QED
    BY <2>2, <2>3
<1>6. \A s \in S : \E i \in 1..n : q[i] = s
  <2>1. q \in Injection(1..n, S)
    BY <1>3, <1>5 DEF Injection, IsInjective
  <2>2. Cardinality(1..n) = n
    BY <1>2, FS_Interval
  <2>3. q \in Surjection(1..n, S)
    BY <2>1, <2>2, FS_Injection
  <2> QED
    BY <2>3 DEF Surjection
<1> QED
  BY <1>4, <1>5, <1>6 DEF q

-----------------------------------------------------------------------------
(* The search.                                                             *)

\* Every step of U waits for one of them.
Waits(deps, U) == \A s \in U : deps[s] \cap U # {}

Holds(queue, t) == \E i \in 1..Len(queue) : queue[i] = t

(***************************************************************************)
(* After the steps V have been visited: the queue lists, without repeats,  *)
(* the others that wait for no other, degree counts what each one still    *)
(* waits for, and V meets no set of steps that wait for each other.        *)
(***************************************************************************)
QueueIsReady(deps, V, queue) ==
    /\ queue \in Seq(DOMAIN deps)
    /\ \A i, k \in 1..Len(queue) : queue[i] = queue[k] => i = k
    /\ \A t \in DOMAIN deps : Holds(queue, t) <=> (t \notin V /\ deps[t] \subseteq V)

Explored(deps, V, search) ==
    /\ V \subseteq DOMAIN deps
    /\ \A t \in V : deps[t] \subseteq V
    /\ QueueIsReady(deps, V, search.queue)
    /\ search.degree = [t \in DOMAIN deps |-> Cardinality(deps[t] \ V)]
    /\ search.visited = Cardinality(V)
    /\ \A U \in SUBSET DOMAIN deps : Waits(deps, U) => U \cap V = {}

\* The search begins with the steps that depend on nothing.
LEMMA SearchBegins ==
    ASSUME NEW D \in SUBSET Nat, IsFiniteSet(D), NEW deps \in [D -> SUBSET D]
    PROVE  Explored(deps, {}, Unvisited(deps))
<1> DEFINE Free == {s \in D : deps[s] = {}}
           search == Unvisited(deps)
<1>1. Free \in SUBSET Nat /\ IsFiniteSet(Free)
  BY FS_Subset
<1>2. search.queue = Ordered(Free)
  BY DEF Unvisited
<1>3. QueueIsReady(deps, {}, Ordered(Free))
  <2> HIDE DEF Free
  <2>1. Ordered(Free) \in Seq(Free)
    BY <1>1, OrderedLists
  <2>2. Free \subseteq D
    BY DEF Free
  <2>3. Ordered(Free) \in Seq(D)
    BY <2>1, <2>2, SeqMonotonic
  <2>4. \A i \in 1..Len(Ordered(Free)) : Ordered(Free)[i] \in Free
    BY <2>1
  <2>5. \A t \in D : Holds(Ordered(Free), t) <=> t \in Free
    BY <1>1, <2>4, OrderedLists DEF Holds
  <2>6. \A t \in D : t \in Free <=> (t \notin {} /\ deps[t] \subseteq {})
    BY DEF Free
  <2>7. \A i, k \in 1..Len(Ordered(Free)) : Ordered(Free)[i] = Ordered(Free)[k] => i = k
    BY <1>1, OrderedLists
  <2>8. DOMAIN deps = D
    OBVIOUS
  <2> HIDE DEF Free
  <2> QED
    BY <2>3, <2>5, <2>6, <2>7, <2>8, Zenon DEF QueueIsReady
<1>4. search.degree = [t \in DOMAIN deps |-> Cardinality(deps[t] \ {})]
  BY DEF Unvisited
<1>5. search.visited = Cardinality({})
  BY FS_EmptySet DEF Unvisited
<1> HIDE DEF Free, search
<1> QED
  BY <1>2, <1>3, <1>4, <1>5 DEF Explored, search

\* The head of a queue without repeats leaves, and others are put behind it.
LEMMA QueueMoves ==
    ASSUME NEW D, NEW q \in Seq(D), q # <<>>, NEW p \in Seq(D),
           \A i, k \in 1..Len(q) : q[i] = q[k] => i = k,
           \A i, k \in 1..Len(p) : p[i] = p[k] => i = k,
           \A t \in D : ~(Holds(q, t) /\ Holds(p, t))
    PROVE  LET r == Tail(q) \o p
           IN  /\ r \in Seq(D)
               /\ \A i, k \in 1..Len(r) : r[i] = r[k] => i = k
               /\ \A t \in D : Holds(r, t) <=> (Holds(q, t) /\ t # Head(q)) \/ Holds(p, t)
<1> DEFINE r == Tail(q) \o p
           n == Len(q)
<1>1. n \in Nat /\ n > 0 /\ Len(p) \in Nat /\ Head(q) = q[1]
  BY EmptySeq
<1>2. /\ Tail(q) \in Seq(D) /\ Len(Tail(q)) = n - 1
      /\ \A i \in 1..(n - 1) : Tail(q)[i] = q[i + 1]
  BY HeadTailProperties
<1>3. /\ r \in Seq(D) /\ Len(r) = (n - 1) + Len(p)
      /\ \A i \in 1..Len(r) : r[i] = IF i <= n - 1 THEN Tail(q)[i] ELSE p[i - (n - 1)]
  BY <1>2, ConcatProperties
<1> HIDE DEF r, n
<1>4. \A i \in 1..Len(r) : \/ i <= n - 1 /\ i + 1 \in 2..n /\ r[i] = q[i + 1]
                           \/ i > n - 1 /\ i - (n - 1) \in 1..Len(p) /\ r[i] = p[i - (n - 1)]
  BY <1>1, <1>2, <1>3
<1>5. \A i \in 1..n : q[i] \in D /\ Holds(q, q[i])
  BY DEF Holds, n
<1>6. \A i \in 1..Len(p) : p[i] \in D /\ Holds(p, p[i])
  BY DEF Holds
<1>7. ASSUME NEW i \in 1..Len(r), NEW k \in 1..Len(r), r[i] = r[k]
      PROVE  i = k
  <2>1. CASE i <= n - 1 /\ k <= n - 1
    <3>1. i + 1 \in 1..n /\ k + 1 \in 1..n /\ q[i + 1] = q[k + 1]
      BY <1>1, <1>4, <1>7, <2>1
    <3>2. i + 1 = k + 1
      BY <3>1 DEF n
    <3> QED
      BY <3>2
  <2>2. CASE i > n - 1 /\ k > n - 1
    <3>1. i - (n - 1) = k - (n - 1)
      BY <1>1, <1>4, <1>7, <2>2
    <3> QED
      BY <1>1, <3>1
  <2>3. CASE i <= n - 1 /\ k > n - 1
    <3>1. i + 1 \in 1..n /\ k - (n - 1) \in 1..Len(p) /\ q[i + 1] = p[k - (n - 1)]
      BY <1>1, <1>4, <1>7, <2>3
    <3> QED
      BY <1>5, <1>6, <3>1
  <2>4. CASE i > n - 1 /\ k <= n - 1
    <3>1. k + 1 \in 1..n /\ i - (n - 1) \in 1..Len(p) /\ q[k + 1] = p[i - (n - 1)]
      BY <1>1, <1>4, <1>7, <2>4
    <3> QED
      BY <1>5, <1>6, <3>1
  <2> QED
    BY <1>1, <1>3, <2>1, <2>2, <2>3, <2>4
<1>8. ASSUME NEW t \in D, Holds(r, t)
      PROVE  (Holds(q, t) /\ t # Head(q)) \/ Holds(p, t)
  <2>1. PICK i \in 1..Len(r) : r[i] = t
    BY <1>8 DEF Holds
  <2>2. CASE i + 1 \in 2..n /\ t = q[i + 1]
    <3>1. i + 1 \in 1..n /\ 1 \in 1..n /\ i + 1 # 1
      BY <1>1, <2>2
    <3>2. q[i + 1] # q[1]
      BY <3>1 DEF n
    <3> QED
      BY <1>1, <1>5, <2>2, <3>1, <3>2
  <2>3. CASE i - (n - 1) \in 1..Len(p) /\ t = p[i - (n - 1)]
    BY <1>6, <2>3
  <2> QED
    BY <1>4, <2>1, <2>2, <2>3
<1>9. ASSUME NEW t \in D, Holds(q, t), t # Head(q)
      PROVE  Holds(r, t)
  <2>1. PICK i \in 1..n : q[i] = t
    BY <1>9 DEF Holds, n
  <2>2. i # 1
    BY <1>1, <1>9, <2>1
  <2>3. i - 1 \in 1..Len(r) /\ i - 1 <= n - 1 /\ i - 1 \in 1..(n - 1) /\ (i - 1) + 1 = i
    BY <1>1, <1>3, <2>1, <2>2
  <2>4. r[i - 1] = q[i]
    BY <1>2, <1>3, <2>3
  <2> QED
    BY <2>1, <2>3, <2>4 DEF Holds
<1>10. ASSUME NEW t \in D, Holds(p, t)
       PROVE  Holds(r, t)
  <2>1. PICK i \in 1..Len(p) : p[i] = t
    BY <1>10 DEF Holds
  <2>2. /\ i + (n - 1) \in 1..Len(r) /\ ~(i + (n - 1) <= n - 1)
        /\ (i + (n - 1)) - (n - 1) = i
    BY <1>1, <1>3, <2>1
  <2>3. r[i + (n - 1)] = p[i]
    BY <1>3, <2>2
  <2> QED
    BY <2>1, <2>2, <2>3 DEF Holds
<1> QED
  BY <1>3, <1>7, <1>8, <1>9, <1>10 DEF r
\* Visiting the head of the queue explores it.
LEMMA VisitExplores ==
    ASSUME NEW D \in SUBSET Nat, IsFiniteSet(D), NEW deps \in [D -> SUBSET D],
           NEW V, NEW search, Explored(deps, V, search), search.queue # <<>>
    PROVE  LET s == Head(search.queue)
           IN  s \notin V /\ Explored(deps, V \cup {s}, Visit(deps, search))
<1> DEFINE q == search.queue
           s == Head(q)
           W == V \cup {s}
           F == Freed(deps, search.degree, s)
           p == Ordered(F)
           next == Visit(deps, search)
<1>1. /\ V \in SUBSET D
      /\ \A t \in V : deps[t] \subseteq V
      /\ q \in Seq(D) /\ q # <<>>
      /\ \A i, k \in 1..Len(q) : q[i] = q[k] => i = k
      /\ \A t \in D : Holds(q, t) <=> (t \notin V /\ deps[t] \subseteq V)
      /\ search.degree = [t \in DOMAIN deps |-> Cardinality(deps[t] \ V)]
      /\ search.visited = Cardinality(V)
      /\ \A U \in SUBSET D : Waits(deps, U) => U \cap V = {}
  BY DEF Explored, QueueIsReady
<1>2. /\ next.queue = Tail(q) \o p
      /\ next.degree = [t \in DOMAIN deps |->
                           search.degree[t] - (IF s \in deps[t] THEN 1 ELSE 0)]
      /\ next.visited = search.visited + 1
  BY DEF Visit
<1> HIDE DEF q, next
<1>3. s \in D /\ Holds(q, s)
  <2>1. Len(q) \in Nat \ {0} /\ s = q[1]
    BY <1>1, EmptySeq
  <2> QED
    BY <1>1, <2>1, ElementOfSeq DEF Holds
<1>4. s \in D \ V /\ deps[s] \subseteq V
  BY <1>1, <1>3
<1> HIDE DEF s
<1>5. \A t \in D : t \in F <=> (t \notin V /\ s \in deps[t] /\ deps[t] \subseteq W)
  <2> SUFFICES ASSUME NEW t \in D, s \in deps[t]
               PROVE  search.degree[t] = 1 <=> (t \notin V /\ deps[t] \subseteq W)
    BY DEF Freed
  <2>1. t \notin V /\ s \in deps[t] \ V
    BY <1>1, <1>4
  <2>2. IsFiniteSet(deps[t] \ V)
    <3>1. deps[t] \ V \in SUBSET D
      OBVIOUS
    <3> QED
      BY <3>1, FS_Subset
  <2>3. search.degree[t] = 1 <=> \E x : deps[t] \ V = {x}
    BY <1>1, <2>2, FS_Singleton
  <2>4. (\E x : deps[t] \ V = {x}) <=> deps[t] \subseteq W
    BY <2>1
  <2> QED
    BY <2>1, <2>3, <2>4
<1>6. F \in SUBSET D
  BY DEF Freed
<1> HIDE DEF F, W
<1>7. QueueIsReady(deps, W, next.queue)
  <2>1. F \in SUBSET Nat /\ IsFiniteSet(F)
    BY <1>6, FS_Subset
  <2>2. /\ p \in Seq(F)
        /\ \A i, k \in 1..Len(p) : p[i] = p[k] => i = k
        /\ \A t \in F : Holds(p, t)
    BY <2>1, OrderedLists DEF Holds
  <2> HIDE DEF p
  <2>3. p \in Seq(D)
    BY <1>6, <2>2, SeqMonotonic
  <2>4. \A t \in D : Holds(p, t) <=> t \in F
    BY <2>2, ElementOfSeq DEF Holds
  <2>5. \A t \in D : ~(Holds(q, t) /\ Holds(p, t))
    BY <1>1, <1>4, <1>5, <2>4
  <2>6. /\ next.queue \in Seq(D)
        /\ \A i, k \in 1..Len(next.queue) : next.queue[i] = next.queue[k] => i = k
        /\ \A t \in D : Holds(next.queue, t) <=> (Holds(q, t) /\ t # s) \/ Holds(p, t)
    <3> DEFINE r == Tail(q) \o p
    <3>1. /\ r \in Seq(D)
          /\ \A i, k \in 1..Len(r) : r[i] = r[k] => i = k
          /\ \A t \in D : Holds(r, t) <=> (Holds(q, t) /\ t # Head(q)) \/ Holds(p, t)
      BY <1>1, <2>2, <2>3, <2>5, QueueMoves, Zenon
    <3> HIDE DEF r
    <3> QED
      BY <1>2, <3>1 DEF r, s
  <2>7. \A t \in D : (t \notin V /\ deps[t] \subseteq V /\ t # s) \/ t \in F
                     <=> (t \notin W /\ deps[t] \subseteq W)
    BY <1>4, <1>5 DEF W
  <2>8. DOMAIN deps = D
    OBVIOUS
  <2>9. \A t \in D : Holds(next.queue, t) <=> (t \notin W /\ deps[t] \subseteq W)
    BY <1>1, <2>4, <2>6, <2>7
  <2> QED
    BY <2>6, <2>8, <2>9, Zenon DEF QueueIsReady
<1>8. next.degree = [t \in DOMAIN deps |-> Cardinality(deps[t] \ W)]
  <2>1. ASSUME NEW t \in D
        PROVE  Cardinality(deps[t] \ V) - (IF s \in deps[t] THEN 1 ELSE 0)
               = Cardinality(deps[t] \ W)
    <3>1. deps[t] \ V \in SUBSET D
      OBVIOUS
    <3>2. IsFiniteSet(deps[t] \ V) /\ Cardinality(deps[t] \ V) \in Nat
      BY <3>1, FS_Subset, FS_CardinalityType
    <3>3. deps[t] \ W = (deps[t] \ V) \ {s}
      BY DEF W
    <3>4. CASE s \in deps[t]
      <4>1. s \in deps[t] \ V
        BY <1>4, <3>4
      <4>2. Cardinality((deps[t] \ V) \ {s}) = Cardinality(deps[t] \ V) - 1
        BY <3>2, <4>1, FS_RemoveElement, Zenon
      <4> QED
        BY <3>3, <3>4, <4>2, Zenon
    <3>5. CASE s \notin deps[t]
      <4>1. (deps[t] \ V) \ {s} = deps[t] \ V
        BY <3>5
      <4>2. Cardinality(deps[t] \ V) - 0 = Cardinality(deps[t] \ V)
        BY <3>2
      <4> QED
        BY <3>3, <3>5, <4>1, <4>2, Zenon
    <3> QED
      BY <3>4, <3>5
  <2>2. \A t \in D : search.degree[t] = Cardinality(deps[t] \ V)
    BY <1>1
  <2>3. \A t \in D : search.degree[t] - (IF s \in deps[t] THEN 1 ELSE 0)
                     = Cardinality(deps[t] \ W)
    BY <2>1, <2>2, Zenon
  <2>4. DOMAIN deps = D
    OBVIOUS
  <2> QED
    BY <1>2, <2>3, <2>4, Zenon
<1>9. next.visited = Cardinality(W)
  <2>1. IsFiniteSet(V)
    BY <1>1, FS_Subset
  <2>2. Cardinality(V \cup {s}) = Cardinality(V) + 1
    BY <1>4, <2>1, FS_AddElement
  <2> QED
    BY <1>1, <1>2, <2>2 DEF W
<1>10. ASSUME NEW U \in SUBSET D, Waits(deps, U)
       PROVE  U \cap W = {}
  <2>1. U \cap V = {}
    BY <1>1, <1>10
  <2>2. s \notin U
    BY <1>4, <1>10, <2>1 DEF Waits
  <2> QED
    BY <2>1, <2>2 DEF W
<1>11. W \subseteq DOMAIN deps /\ \A t \in W : deps[t] \subseteq W
  BY <1>1, <1>4 DEF W
<1>12. Explored(deps, W, next)
  BY <1>7, <1>8, <1>9, <1>10, <1>11 DEF Explored
<1> QED
  BY <1>4, <1>12 DEF W, next, s, q

IsSearch(deps, after) ==
    after = [n \in 0..Cardinality(DOMAIN deps) |->
                IF n = 0 THEN Unvisited(deps) ELSE Visited(deps, after[n - 1])]

\* The search by the number of steps is well defined.
LEMMA SearchExists ==
    ASSUME NEW deps, Cardinality(DOMAIN deps) \in Nat
    PROVE  \E after : IsSearch(deps, after)
<1> DEFINE Turn(after, k) == IF k = 0 THEN Unvisited(deps) ELSE Visited(deps, after[k - 1])
           N == {n \in Nat : \E after : after = [k \in 0..n |-> Turn(after, k)]}
<1>1. 0 \in N
  <2> DEFINE after == [k \in 0..0 |-> Unvisited(deps)]
  <2>1. after = [k \in 0..0 |-> Turn(after, k)]
    OBVIOUS
  <2> QED
    BY <2>1
<1>2. ASSUME NEW n \in Nat, n \in N
      PROVE  n + 1 \in N
  <2>1. PICK after : after = [k \in 0..n |-> Turn(after, k)]
    BY <1>2
  <2> DEFINE more == [k \in 0..(n + 1) |-> IF k <= n THEN after[k]
                                           ELSE Visited(deps, after[n])]
  <2>2. ASSUME NEW k \in 0..(n + 1)
        PROVE  more[k] = Turn(more, k)
    <3>1. CASE k = 0
      BY <2>1, <3>1
    <3>2. CASE k # 0 /\ k <= n
      <4>1. k - 1 \in 0..n /\ k \in 0..n
        BY <3>2
      <4>2. more[k] = after[k] /\ more[k - 1] = after[k - 1]
        BY <4>1
      <4>3. after[k] = Visited(deps, after[k - 1])
        BY <2>1, <3>2, <4>1
      <4> QED
        BY <3>2, <4>2, <4>3
    <3>3. CASE k = n + 1
      <4>1. more[k] = Visited(deps, after[n]) /\ more[k - 1] = after[n] /\ k # 0
        BY <3>3
      <4> QED
        BY <4>1
    <3> QED
      BY <3>1, <3>2, <3>3
  <2>3. more = [k \in 0..(n + 1) |-> more[k]]
    OBVIOUS
  <2> HIDE DEF more
  <2>4. more = [k \in 0..(n + 1) |-> Turn(more, k)]
    BY <2>2, <2>3
  <2> QED
    BY <2>4
<1>3. Cardinality(DOMAIN deps) \in N
  <2> HIDE DEF N
  <2> QED
    BY <1>1, <1>2, SetInduction
<1> QED
  BY <1>3 DEF IsSearch

\* The search explores steps until nothing is left of its queue or of them.
LEMMA SearchEnds ==
    ASSUME NEW D \in SUBSET Nat, IsFiniteSet(D), NEW deps \in [D -> SUBSET D]
    PROVE  \E V : /\ Explored(deps, V, Search(deps))
                  /\ Search(deps).queue = <<>> \/ Cardinality(V) = Cardinality(D)
<1> DEFINE c == Cardinality(D)
<1>1. c \in Nat /\ DOMAIN deps = D
  BY FS_CardinalityType
<1>2. PICK after : IsSearch(deps, after) /\ Search(deps) = after[c]
  <2> DEFINE after == CHOOSE f : IsSearch(deps, f)
  <2>1. IsSearch(deps, after)
    BY <1>1, SearchExists
  <2>2. Search(deps) = after[c]
    BY <1>1, Zenon DEF Search, IsSearch
  <2> QED
    BY <2>1, <2>2
<1>3. /\ after[0] = Unvisited(deps)
      /\ \A n \in Nat : n + 1 <= c => after[n + 1] = Visited(deps, after[n])
  <2>1. \A n \in 0..c : after[n] = IF n = 0 THEN Unvisited(deps) ELSE Visited(deps, after[n - 1])
    BY <1>1, <1>2 DEF IsSearch
  <2>2. ASSUME NEW n \in Nat, n + 1 <= c
        PROVE  after[n + 1] = Visited(deps, after[n])
    <3>1. n + 1 \in 0..c /\ n + 1 # 0 /\ (n + 1) - 1 = n
      BY <1>1, <2>2
    <3> QED
      BY <2>1, <3>1
  <2> QED
    BY <1>1, <2>1, <2>2
<1> DEFINE Done(n, V) == /\ Explored(deps, V, after[n])
                         /\ after[n].queue = <<>> \/ Cardinality(V) = n
           N == {n \in Nat : n <= c => \E V : Done(n, V)}
<1>4. 0 \in N
  BY <1>3, SearchBegins, FS_EmptySet
<1>5. ASSUME NEW n \in Nat, n \in N
      PROVE  n + 1 \in N
  <2> SUFFICES ASSUME n + 1 <= c
               PROVE  \E V : Done(n + 1, V)
    OBVIOUS
  <2>1. PICK V : Done(n, V)
    BY <1>1, <1>5
  <2>2. after[n + 1] = Visited(deps, after[n])
    BY <1>3
  <2>3. CASE after[n].queue = <<>>
    BY <2>1, <2>2, <2>3 DEF Visited
  <2>4. CASE after[n].queue # <<>>
    <3> DEFINE s == Head(after[n].queue)
    <3>1. s \notin V /\ Explored(deps, V \cup {s}, Visit(deps, after[n]))
      BY <2>1, <2>4, VisitExplores
    <3>2. after[n + 1] = Visit(deps, after[n])
      BY <2>2, <2>4 DEF Visited
    <3>3. IsFiniteSet(V)
      BY <1>1, <2>1, FS_Subset DEF Explored
    <3>4. Cardinality(V \cup {s}) = n + 1
      BY <2>1, <2>4, <3>1, <3>3, FS_AddElement
    <3>5. Done(n + 1, V \cup {s})
      BY <3>1, <3>2, <3>4
    <3> QED
      BY <3>5
  <2> QED
    BY <2>3, <2>4
<1>6. c \in N
  <2> HIDE DEF N
  <2> QED
    BY <1>1, <1>4, <1>5, SetInduction
<1>7. PICK V : Done(c, V)
  BY <1>1, <1>6
<1> QED
  BY <1>2, <1>7

(***************************************************************************)
(* For any dependencies among any finite number of steps, find_cycle       *)
(* reports exactly the steps that could never run.                         *)
(***************************************************************************)
THEOREM CycleIsStuck ==
    ASSUME NEW D \in SUBSET Nat, IsFiniteSet(D), NEW deps \in [D -> SUBSET D]
    PROVE  FindCycle(deps) = Stuck(deps)
<1> DEFINE search == Search(deps)
<1>1. PICK V : /\ Explored(deps, V, search)
               /\ search.queue = <<>> \/ Cardinality(V) = Cardinality(D)
  BY SearchEnds
<1> HIDE DEF search
<1>2. /\ V \in SUBSET D
      /\ \A t \in V : deps[t] \subseteq V
      /\ \A t \in D : Holds(search.queue, t) <=> (t \notin V /\ deps[t] \subseteq V)
      /\ search.degree = [t \in D |-> Cardinality(deps[t] \ V)]
      /\ search.visited = Cardinality(V)
      /\ \A U \in SUBSET D : Waits(deps, U) => U \cap V = {}
  BY <1>1 DEF Explored, QueueIsReady
<1>3. IsFiniteSet(V) /\ (Cardinality(V) = Cardinality(D) <=> V = D)
  BY <1>2, FS_Subset
<1>4. Stuck(deps) = D \ V
  <2>1. Stuck(deps) \subseteq D \ V
    <3>1. SUFFICES ASSUME NEW t \in Stuck(deps)
                   PROVE  t \in D \ V
      OBVIOUS
    <3>2. PICK U \in SUBSET D : Waits(deps, U) /\ t \in U
      BY <3>1 DEF Stuck, Waits
    <3>3. U \cap V = {}
      BY <1>2, <3>2
    <3> QED
      BY <3>2, <3>3
  <2>2. Waits(deps, D \ V)
    <3>1. SUFFICES ASSUME NEW t \in D \ V
                   PROVE  deps[t] \cap (D \ V) # {}
      BY DEF Waits
    <3>2. search.queue = <<>>
      BY <1>1, <1>3, <3>1
    <3>3. ~Holds(search.queue, t)
      BY <3>2 DEF Holds
    <3> QED
      BY <1>2, <3>1, <3>3
  <2>3. D \ V \subseteq Stuck(deps)
    BY <2>2 DEF Stuck, Waits
  <2> QED
    BY <2>1, <2>3
<1>5. {t \in D : search.degree[t] > 0} = D \ V
  <2>1. ASSUME NEW t \in D
        PROVE  search.degree[t] > 0 <=> t \notin V
    <3>1. deps[t] \ V \in SUBSET D
      OBVIOUS
    <3>2. /\ IsFiniteSet(deps[t] \ V) /\ Cardinality(deps[t] \ V) \in Nat
          /\ Cardinality(deps[t] \ V) = 0 <=> deps[t] \ V = {}
      BY <3>1, FS_Subset, FS_CardinalityType, FS_EmptySet
    <3>3. search.degree[t] > 0 <=> deps[t] \ V # {}
      BY <1>2, <3>2
    <3>4. t \in V => deps[t] \ V = {}
      BY <1>2
    <3>5. t \notin V => deps[t] \ V # {}
      <4>1. t \notin V => search.queue = <<>>
        BY <1>1, <1>3
      <4>2. t \notin V => ~Holds(search.queue, t)
        BY <4>1 DEF Holds
      <4> QED
        BY <1>2, <4>2
    <3> QED
      BY <3>3, <3>4, <3>5
  <2> QED
    BY <2>1
<1>6. FindCycle(deps) = IF V = D THEN {} ELSE D \ V
  BY <1>2, <1>3, <1>5 DEF FindCycle, search
<1> QED
  BY <1>4, <1>6

-----------------------------------------------------------------------------
(* What is known of a claim.                                               *)

\* A claim is what the schema of PlanStep lets through.
WellFormed(c) ==
    /\ c = [tool |-> c.tool, risk |-> c.risk, asks |-> c.asks, undo |-> c.undo,
            intends |-> c.intends, cites |-> c.cites, argumentsFit |-> c.argumentsFit]
    /\ c.risk \in Risks

\* Validation raises the risk and changes nothing else a policy looks at.
Raises(claim, c) ==
    /\ WellFormed(c)
    /\ c.tool = claim.tool /\ c.undo = claim.undo /\ c.cites = claim.cites
    /\ c.intends = claim.intends /\ c.argumentsFit = claim.argumentsFit
    /\ claim.risk <= c.risk

\* The claim c obeys the catalogue of version v.
Obeys(v, c) ==
    /\ c.tool \in Tools /\ c.argumentsFit
    /\ DescriptorRisk[c.tool] <= c.risk
    /\ c.cites \subseteq Retrieved
    /\ c.tool \in DOMAIN Policies[v] =>
          /\ Policies[v][c.tool].minimumRisk <= c.risk
          /\ Policies[v][c.tool].compensationRequired => c.undo \in Tools /\ c.intends
          /\ c.cites \cap Conflicted = {}
          /\ Policies[v][c.tool].sideEffecting => c.cites \cap Trusted # {}

LEMMA MaxOfRisks ==
    ASSUME NEW a \in Risks, NEW b \in Risks, NEW c \in Risks
    PROVE  /\ MaxRisk({a, b, c}) \in Risks
           /\ a <= MaxRisk({a, b, c}) /\ b <= MaxRisk({a, b, c}) /\ c <= MaxRisk({a, b, c})
           /\ (b <= a /\ c <= a) => MaxRisk({a, b, c}) = a
<1> DEFINE S == {a, b, c}
           m == MaxRisk(S)
<1>1. a \in Int /\ b \in Int /\ c \in Int
  BY DEF Risks, Low, High
<1>2. \E r \in S : \A other \in S : other <= r
  BY <1>1
<1>3. m \in S /\ \A other \in S : other <= m
  <2> HIDE DEF S
  <2> QED
    BY <1>2, Zenon DEF MaxRisk
<1> HIDE DEF m
<1>4. m \in Risks /\ a <= m /\ b <= m /\ c <= m
  BY <1>3
<1>5. (b <= a /\ c <= a) => m = a
  BY <1>1, <1>3
<1> QED
  BY <1>4, <1>5 DEF m

\* The risk a claim is given.
LEMMA RiskIsRaised ==
    ASSUME NEW claim, WellFormed(claim), claim.tool \in Tools, catalog \in Versions
    PROVE  /\ FinalRisk(claim) \in Risks
           /\ claim.risk <= FinalRisk(claim)
           /\ DescriptorRisk[claim.tool] <= FinalRisk(claim)
           /\ Governed(claim.tool) => Policy(claim.tool).minimumRisk <= FinalRisk(claim)
           /\ (/\ DescriptorRisk[claim.tool] <= claim.risk
               /\ Governed(claim.tool) => Policy(claim.tool).minimumRisk <= claim.risk)
              => FinalRisk(claim) = claim.risk
<1> DEFINE least == IF Governed(claim.tool) THEN Policy(claim.tool).minimumRisk
                                            ELSE DescriptorRisk[claim.tool]
<1>1. claim.risk \in Risks /\ DescriptorRisk[claim.tool] \in Risks
  BY ValidationAssumption DEF WellFormed
<1>2. least \in Risks
  BY <1>1, ValidationAssumption DEF Governed, Policy, Versions
<1>3. FinalRisk(claim) = MaxRisk({claim.risk, DescriptorRisk[claim.tool], least})
  BY DEF FinalRisk
<1>4. /\ Governed(claim.tool) => least = Policy(claim.tool).minimumRisk
      /\ ~Governed(claim.tool) => least = DescriptorRisk[claim.tool]
  OBVIOUS
<1> HIDE DEF least
<1>5. /\ FinalRisk(claim) \in Risks /\ claim.risk <= FinalRisk(claim)
      /\ DescriptorRisk[claim.tool] <= FinalRisk(claim) /\ least <= FinalRisk(claim)
      /\ (DescriptorRisk[claim.tool] <= claim.risk /\ least <= claim.risk)
         => FinalRisk(claim) = claim.risk
  BY <1>1, <1>2, <1>3, MaxOfRisks
<1> QED
  BY <1>4, <1>5

\* A claim without an issue is normalized to one that obeys the catalogue.
LEMMA NormalizedObeys ==
    ASSUME NEW claim, WellFormed(claim), ~StepIssue(claim), catalog \in Versions
    PROVE  Raises(claim, Normalized(claim)) /\ Obeys(catalog, Normalized(claim))
<1> DEFINE c == Normalized(claim)
           r == FinalRisk(claim)
           asks == claim.asks \/ r = High
<1>1. c = [tool |-> claim.tool, risk |-> r, asks |-> asks, undo |-> claim.undo,
           intends |-> claim.intends, cites |-> claim.cites,
           argumentsFit |-> claim.argumentsFit]
  <2>1. c = [claim EXCEPT !.risk = r, !.asks = asks]
    BY Zenon DEF Normalized
  <2> HIDE DEF c, r, asks
  <2> QED
    BY <2>1 DEF WellFormed
<1>2. /\ c.tool = claim.tool /\ c.risk = r /\ c.undo = claim.undo
      /\ c.intends = claim.intends /\ c.cites = claim.cites
      /\ c.argumentsFit = claim.argumentsFit
  BY <1>1
<1> HIDE DEF c, r, asks
<1>3. claim.tool \in Tools /\ claim.argumentsFit
  BY DEF StepIssue
<1>4. /\ r \in Risks /\ claim.risk <= r /\ DescriptorRisk[claim.tool] <= r
      /\ Governed(claim.tool) => Policy(claim.tool).minimumRisk <= r
  BY <1>3, RiskIsRaised DEF r
<1>5. claim.cites \subseteq Retrieved
  BY DEF StepIssue, EvidenceIssue, CitationIssue
<1>6. Governed(claim.tool) =>
          /\ Policy(claim.tool).compensationRequired => claim.undo \in Tools /\ claim.intends
          /\ claim.cites \cap Conflicted = {}
          /\ Policy(claim.tool).sideEffecting => claim.cites \cap Trusted # {}
  BY DEF StepIssue, CompensationIssue, EvidenceIssue
<1>7. Raises(claim, c)
  BY <1>1, <1>2, <1>4 DEF Raises, WellFormed
<1>8. Obeys(catalog, c)
  BY <1>2, <1>3, <1>4, <1>5, <1>6 DEF Obeys, Governed, Policy
<1> QED
  BY <1>7, <1>8 DEF c

\* A claim that obeys the catalogue has no issue and keeps its risk.
LEMMA ObeysHasNoIssue ==
    ASSUME NEW c, WellFormed(c), Obeys(catalog, c), catalog \in Versions
    PROVE  ~StepIssue(c) /\ FinalRisk(c) = c.risk
<1>1. ~StepIssue(c)
  BY DEF Obeys, StepIssue, CompensationIssue, EvidenceIssue, CitationIssue, Governed, Policy
<1>2. FinalRisk(c) = c.risk
  BY RiskIsRaised DEF Obeys, Governed, Policy
<1> QED
  BY <1>1, <1>2

-----------------------------------------------------------------------------
(* The invariant.                                                          *)

DraftInv ==
    /\ draft.deps \in [PlanSteps -> SUBSET (PlanSteps \cup Strangers)]
    /\ DOMAIN draft.claims = PlanSteps
    /\ \A s \in PlanSteps : WellFormed(draft.claims[s])

\* A plan was raised from the draft, and obeys the catalogue it was made under.
PlanInv ==
    plan # Empty =>
        /\ plan.version \in Versions
        /\ ~UnknownDependency(plan.deps) /\ FindCycle(plan.deps) = {}
        /\ \A s \in PlanSteps :
              /\ Raises(draft.claims[s], plan.claims[s])
              /\ Obeys(plan.version, plan.claims[s])

ValidationInv == ValidationTypeOK /\ DraftInv /\ PlanInv /\ PreparedIsGoverned

\* FindCycle on the dependencies of the draft.
LEMMA DraftCycle ==
    ASSUME DraftInv, ~UnknownDependency(draft.deps)
    PROVE  FindCycle(draft.deps) = Stuck(draft.deps)
<1>1. draft.deps \in [PlanSteps -> SUBSET PlanSteps]
  BY DEF DraftInv, UnknownDependency
<1>2. PlanSteps \in SUBSET Nat /\ IsFiniteSet(PlanSteps)
  BY ValidationAssumption
<1> QED
  BY <1>1, <1>2, CycleIsStuck

LEMMA InitValidation == Init => ValidationInv
<1> SUFFICES ASSUME Init PROVE ValidationInv
  OBVIOUS
<1>1. ValidationTypeOK
  BY DEF Init, ValidationTypeOK, Stages
<1>2. DraftInv
  <2>1. /\ draft.deps \in [PlanSteps -> SUBSET (PlanSteps \cup Strangers)]
        /\ draft.claims \in [PlanSteps -> UNION {Claims[s] : s \in PlanSteps}]
        /\ \A s \in PlanSteps : draft.claims[s] \in Claims[s]
    BY DEF Init
  <2>2. \A s \in PlanSteps : WellFormed(draft.claims[s])
    BY <2>1, ValidationAssumption DEF WellFormed
  <2> QED
    BY <2>1, <2>2 DEF DraftInv
<1>3. PlanInv /\ PreparedIsGoverned
  BY DEF Init, PlanInv, PreparedIsGoverned
<1> QED
  BY <1>1, <1>2, <1>3 DEF ValidationInv

LEMMA ValidateKeeps ==
    ASSUME ValidationInv, Validate
    PROVE  ValidationInv'
<1>1. /\ stage = "drafted" /\ plan = Empty /\ definition = Empty
      /\ draft' = draft /\ catalog' = catalog /\ definition' = definition
      /\ catalog \in Versions /\ DraftInv
  BY DEF Validate, ValidationInv, ValidationTypeOK
<1>2. DraftInv'
  BY <1>1 DEF DraftInv
<1>3. CASE stage' = "rejected" /\ plan' = plan
  <2>1. ValidationTypeOK'
    BY <1>1, <1>3 DEF ValidationTypeOK, Stages
  <2>2. PlanInv' /\ PreparedIsGoverned'
    BY <1>1, <1>3 DEF PlanInv, PreparedIsGoverned
  <2> QED
    BY <1>2, <2>1, <2>2 DEF ValidationInv
<1>4. CASE /\ ~Invalid(draft.deps, draft.claims, catalog)
           /\ stage' = "ready"
           /\ plan' = [deps |-> draft.deps, claims |-> NormalizedSteps(draft.claims),
                       version |-> catalog]
  <2>1. /\ plan'.deps = draft.deps /\ plan'.version = catalog
        /\ plan'.claims = NormalizedSteps(draft.claims)
    BY <1>4
  <2>2. plan' # Empty
    BY <1>4 DEF Empty
  <2>3. /\ DOMAIN plan'.claims = PlanSteps
        /\ \A s \in PlanSteps : plan'.claims[s] = Normalized(draft.claims[s])
    BY <1>1, <2>1 DEF NormalizedSteps, DraftInv
  <2>4. /\ ~UnknownDependency(draft.deps) /\ FindCycle(draft.deps) = {}
        /\ \A s \in PlanSteps : ~StepIssue(draft.claims[s])
    BY <1>1, <1>4 DEF Invalid, DraftInv
  <2>5. \A s \in PlanSteps : /\ Raises(draft.claims[s], plan'.claims[s])
                             /\ Obeys(catalog, plan'.claims[s])
    BY <1>1, <2>3, <2>4, NormalizedObeys DEF DraftInv
  <2>6. PlanInv'
    BY <1>1, <2>1, <2>4, <2>5 DEF PlanInv
  <2>7. \A s \in PlanSteps : plan'.claims[s].tool = draft.claims[s].tool
    BY <2>5 DEF Raises
  <2>8. ValidationTypeOK'
    BY <1>1, <1>4, <2>1, <2>2, <2>3, <2>7 DEF ValidationTypeOK, Stages
  <2>9. PreparedIsGoverned'
    BY <1>4 DEF PreparedIsGoverned
  <2> QED
    BY <1>2, <2>6, <2>8, <2>9 DEF ValidationInv
<1> QED
  BY <1>3, <1>4 DEF Validate

\* The definition made of a plan that passed both checks is governed.
LEMMA DefinitionIsGoverned ==
    ASSUME ValidationInv, plan # Empty, stage' = "prepared",
           UNCHANGED <<draft, catalog, plan>>,
           ~Invalid(plan.deps, plan.claims, plan.version),
           ~DefinitionError(plan.deps, NormalizedSteps(plan.claims)),
           definition' = [s \in PlanSteps |-> Mapped(NormalizedSteps(plan.claims)[s])]
    PROVE  PreparedIsGoverned'
<1> DEFINE claims == NormalizedSteps(plan.claims)
<1>1. /\ catalog \in Versions /\ plan.deps = draft.deps
      /\ DOMAIN plan.claims = PlanSteps
  BY DEF ValidationInv, ValidationTypeOK
<1>2. /\ ~UnknownDependency(plan.deps) /\ FindCycle(plan.deps) = {}
      /\ \A s \in PlanSteps : ~StepIssue(plan.claims[s])
      /\ plan.version = catalog
  BY <1>1 DEF Invalid
<1>3. Stuck(plan.deps) = {}
  BY <1>1, <1>2, DraftCycle DEF ValidationInv
<1>4. DOMAIN claims = PlanSteps /\ \A s \in PlanSteps : claims[s] = Normalized(plan.claims[s])
  BY <1>1 DEF NormalizedSteps
<1>5. \A s \in PlanSteps : claims[s].undo \in Tools \cup {NoTool}
  BY <1>4 DEF DefinitionError
<1> HIDE DEF claims
<1>6. ASSUME NEW s \in PlanSteps
      PROVE  LET step  == definition'[s]
                 claim == draft.claims[s]
             IN  /\ step.tool \in Tools
                 /\ step.risk >= claim.risk
                 /\ step.risk >= DescriptorRisk[step.tool]
                 /\ step.undo \in Tools \cup {NoTool}
                 /\ claim.cites \subseteq Retrieved
                 /\ step.tool \in DOMAIN Policies[catalog] =>
                        LET policy == Policies[catalog][step.tool]
                        IN  /\ step.risk >= policy.minimumRisk
                            /\ policy.minimumRisk = High => RequiresApproval(step)
                            /\ policy.compensationRequired =>
                                   step.undo # NoTool /\ claim.intends
                            /\ policy.sideEffecting => claim.cites \cap Trusted # {}
  <2> DEFINE step == definition'[s]
             claim == draft.claims[s]
             made == plan.claims[s]
             c == claims[s]
  <2>1. /\ Raises(claim, made)
        /\ WellFormed(claim)
    BY DEF ValidationInv, PlanInv, DraftInv
  <2>2. Raises(made, c) /\ Obeys(catalog, c)
    BY <1>1, <1>2, <1>4, <2>1, NormalizedObeys DEF Raises
  <2>3. step = [tool |-> c.tool, risk |-> c.risk, undo |-> c.undo]
    BY DEF Mapped, claims
  <2> HIDE DEF step, claim, made, c
  <2>4. step.tool = c.tool /\ step.risk = c.risk /\ step.undo = c.undo
    BY <2>3
  <2>5. /\ c.undo \in Tools \cup {NoTool} /\ claim.cites = c.cites /\ claim.intends = c.intends
        /\ claim.risk \in Risks /\ made.risk \in Risks /\ c.risk \in Risks
        /\ claim.risk <= made.risk /\ made.risk <= c.risk
    BY <1>5, <2>1, <2>2 DEF Raises, WellFormed, c
  <2>6. c.tool \in Tools /\ DescriptorRisk[c.tool] \in Risks
    BY <2>2, ValidationAssumption DEF Obeys
  <2>7. ASSUME c.tool \in DOMAIN Policies[catalog]
        PROVE  /\ c.risk >= Policies[catalog][c.tool].minimumRisk
               /\ Policies[catalog][c.tool].minimumRisk = High => RequiresApproval(step)
               /\ Policies[catalog][c.tool].compensationRequired =>
                      c.undo # NoTool /\ c.intends
               /\ Policies[catalog][c.tool].sideEffecting => c.cites \cap Trusted # {}
    <3> DEFINE least == Policies[catalog][c.tool].minimumRisk
    <3>1. least \in Risks /\ least <= c.risk
      BY <1>1, <2>2, <2>7, ValidationAssumption DEF Obeys
    <3>2. /\ Policies[catalog][c.tool].compensationRequired =>
                      c.undo # NoTool /\ c.intends
          /\ Policies[catalog][c.tool].sideEffecting => c.cites \cap Trusted # {}
      BY <2>2, <2>7, ValidationAssumption DEF Obeys
    <3> HIDE DEF least
    <3>3. c.risk >= least
      BY <2>5, <3>1 DEF Risks, Low, High
    <3>4. least = High => c.risk = High
      BY <2>5, <3>1 DEF Risks, Low, High
    <3> QED
      BY <2>4, <3>2, <3>3, <3>4 DEF RequiresApproval, least
  <2>8. c.risk >= claim.risk /\ c.risk >= DescriptorRisk[c.tool]
    BY <2>2, <2>5, <2>6 DEF Risks, Low, High, Obeys
  <2>9. claim.cites \subseteq Retrieved
    BY <2>2, <2>5 DEF Obeys
  <2>10. /\ step.tool \in Tools
         /\ step.risk >= claim.risk
         /\ step.risk >= DescriptorRisk[step.tool]
         /\ step.undo \in Tools \cup {NoTool}
         /\ claim.cites \subseteq Retrieved
         /\ step.tool \in DOMAIN Policies[catalog] =>
              /\ step.risk >= Policies[catalog][step.tool].minimumRisk
              /\ Policies[catalog][step.tool].minimumRisk = High => RequiresApproval(step)
              /\ Policies[catalog][step.tool].compensationRequired =>
                     step.undo # NoTool /\ claim.intends
              /\ Policies[catalog][step.tool].sideEffecting => claim.cites \cap Trusted # {}
    BY <2>4, <2>5, <2>6, <2>7, <2>8, <2>9
  <2> QED
    BY <2>10 DEF step, claim
<1>7. ~UnknownDependency(plan'.deps) /\ Stuck(plan'.deps) = {}
  BY <1>2, <1>3
<1> QED
  BY <1>6, <1>7 DEF PreparedIsGoverned

LEMMA PrepareKeeps ==
    ASSUME ValidationInv, Prepare
    PROVE  ValidationInv'
<1>1. /\ stage = "ready" /\ plan # Empty /\ definition = Empty
      /\ UNCHANGED <<draft, catalog, plan>>
      /\ \/ stage' = "refused" /\ definition' = definition
         \/ /\ stage' = "prepared"
            /\ ~Invalid(plan.deps, plan.claims, plan.version)
            /\ ~DefinitionError(plan.deps, NormalizedSteps(plan.claims))
            /\ definition' = [s \in PlanSteps |-> Mapped(NormalizedSteps(plan.claims)[s])]
  BY DEF Prepare, ValidationInv, ValidationTypeOK
<1>2. DraftInv'
  BY <1>1 DEF DraftInv, ValidationInv
<1>3. PlanInv'
  BY <1>1 DEF PlanInv, ValidationInv
<1>4. ValidationTypeOK'
  BY <1>1 DEF ValidationTypeOK, ValidationInv, Stages
<1>5. PreparedIsGoverned'
  <2>1. CASE stage' = "refused"
    BY <2>1 DEF PreparedIsGoverned
  <2>2. CASE stage' = "prepared"
    BY <1>1, <2>2, DefinitionIsGoverned
  <2> QED
    BY <1>1, <2>1, <2>2
<1> QED
  BY <1>2, <1>3, <1>4, <1>5 DEF ValidationInv

LEMMA NextValidation == ValidationInv /\ [Next]_validationVars => ValidationInv'
<1> SUFFICES ASSUME ValidationInv, [Next]_validationVars PROVE ValidationInv'
  OBVIOUS
<1>1. CASE Validate
  BY <1>1, ValidateKeeps
<1>2. CASE ChangeCatalog
  <2>1. /\ stage = "ready" /\ stage' = "ready" /\ catalog' \in Versions
        /\ UNCHANGED <<draft, plan, definition>>
    BY <1>2 DEF ChangeCatalog
  <2>2. DraftInv' /\ PlanInv'
    BY <2>1 DEF DraftInv, PlanInv, ValidationInv
  <2>3. ValidationTypeOK' /\ PreparedIsGoverned'
    BY <2>1 DEF ValidationTypeOK, PreparedIsGoverned, ValidationInv
  <2> QED
    BY <2>2, <2>3 DEF ValidationInv
<1>3. CASE Prepare
  BY <1>3, PrepareKeeps
<1>4. CASE UNCHANGED validationVars
  <2>1. UNCHANGED <<draft, catalog, stage, plan, definition>>
    BY <1>4 DEF validationVars
  <2>2. DraftInv' /\ PlanInv'
    BY <2>1 DEF DraftInv, PlanInv, ValidationInv
  <2>3. ValidationTypeOK' /\ PreparedIsGoverned'
    BY <2>1 DEF ValidationTypeOK, PreparedIsGoverned, RequiresApproval, ValidationInv
  <2> QED
    BY <2>2, <2>3 DEF ValidationInv
<1> QED
  BY <1>1, <1>2, <1>3, <1>4 DEF Next

LEMMA ValidationInvAlways == ValidationSpec => []ValidationInv
<1>1. Init => ValidationInv
  BY InitValidation
<1>2. ValidationInv /\ [Next]_validationVars => ValidationInv'
  BY NextValidation
<1> QED
  BY <1>1, <1>2, PTL DEF ValidationSpec

\* Types.
THEOREM ValidationTyped == ValidationSpec => []ValidationTypeOK
<1>1. ValidationInv => ValidationTypeOK
  BY DEF ValidationInv
<1> QED
  BY <1>1, ValidationInvAlways, PTL

\* find_cycle tells the steps that could never run, whatever the draft.
THEOREM CyclesFound == ValidationSpec => []CycleFound
<1>1. ValidationInv => CycleFound
  BY DraftCycle DEF ValidationInv, CycleFound
<1> QED
  BY <1>1, ValidationInvAlways, PTL

\* A prepared definition obeys the policies in force.
THEOREM PreparedObeys == ValidationSpec => []PreparedIsGoverned
<1>1. ValidationInv => PreparedIsGoverned
  BY DEF ValidationInv
<1> QED
  BY <1>1, ValidationInvAlways, PTL

\* The validator and from_mapping agree on a plan made under the same policies.
THEOREM ReadyPlansPrepare == ValidationSpec => ReadyIsPrepared
<1> DEFINE Agrees ==
        (stage = "ready" /\ stage' # "ready" /\ plan.version = catalog) =>
          IF TooLarge(plan.deps) \/ \E s \in PlanSteps : UncheckedCompensation(plan.claims[s])
          THEN stage' = "refused"
          ELSE /\ stage' = "prepared"
               /\ \A s \in PlanSteps :
                      definition'[s].risk = plan.claims[s].risk
<1>1. ASSUME ValidationInv, Next PROVE Agrees
  <2> SUFFICES ASSUME stage = "ready", stage' # "ready", plan.version = catalog
               PROVE  IF TooLarge(plan.deps)
                         \/ \E s \in PlanSteps : UncheckedCompensation(plan.claims[s])
                      THEN stage' = "refused"
                      ELSE /\ stage' = "prepared"
                           /\ \A s \in PlanSteps :
                                 definition'[s].risk = plan.claims[s].risk
    OBVIOUS
  <2> DEFINE claims == NormalizedSteps(plan.claims)
  <2>1. Prepare
    BY <1>1 DEF Next, Validate, ChangeCatalog
  <2>2. /\ plan # Empty /\ DOMAIN plan.claims = PlanSteps /\ catalog \in Versions
        /\ ~UnknownDependency(plan.deps) /\ FindCycle(plan.deps) = {}
        /\ \A s \in PlanSteps : WellFormed(plan.claims[s]) /\ Obeys(catalog, plan.claims[s])
    BY <1>1 DEF ValidationInv, ValidationTypeOK, PlanInv, Raises
  <2>3. \A s \in PlanSteps : /\ ~StepIssue(plan.claims[s])
                             /\ FinalRisk(plan.claims[s]) = plan.claims[s].risk
    BY <2>2, ObeysHasNoIssue
  <2>4. ~Invalid(plan.deps, plan.claims, plan.version)
    BY <2>2, <2>3 DEF Invalid
  <2>5. /\ DOMAIN claims = PlanSteps
        /\ \A s \in PlanSteps : claims[s] = Normalized(plan.claims[s])
    BY <2>2 DEF NormalizedSteps
  <2> HIDE DEF claims
  <2>6. \A s \in PlanSteps : Raises(plan.claims[s], claims[s]) /\ Obeys(catalog, claims[s])
    BY <2>2, <2>3, <2>5, NormalizedObeys
  <2>7. \A s \in PlanSteps : claims[s].risk = plan.claims[s].risk
    <3> SUFFICES ASSUME NEW s \in PlanSteps
                 PROVE  claims[s].risk = plan.claims[s].risk
      OBVIOUS
    <3> DEFINE made == plan.claims[s]
               asks == made.asks \/ FinalRisk(made) = High
    <3>1. /\ made = [tool |-> made.tool, risk |-> made.risk, asks |-> made.asks, undo |-> made.undo,
                     intends |-> made.intends, cites |-> made.cites, argumentsFit |-> made.argumentsFit]
          /\ FinalRisk(made) = made.risk
      BY <2>2, <2>3 DEF WellFormed
    <3>2. claims[s] = [made EXCEPT !.risk = FinalRisk(made), !.asks = asks]
      BY <2>5, Zenon DEF Normalized
    <3> HIDE DEF made, asks
    <3>3. claims[s].risk = FinalRisk(made)
      BY <3>1, <3>2
    <3> QED
      BY <3>1, <3>3 DEF made
  <2>8. \A s \in PlanSteps : UncheckedCompensation(plan.claims[s]) <=>
                                claims[s].undo \notin Tools \cup {NoTool}
    BY <2>2, <2>6 DEF UncheckedCompensation, Raises, Obeys, Governed, Policy
  <2>9. DefinitionError(plan.deps, claims) <=>
            TooLarge(plan.deps) \/ \E s \in PlanSteps : UncheckedCompensation(plan.claims[s])
    BY <2>2, <2>5, <2>6, <2>8 DEF DefinitionError, Obeys
  <2>10. IF DefinitionError(plan.deps, claims)
         THEN stage' = "refused"
         ELSE stage' = "prepared" /\ definition' = [s \in PlanSteps |-> Mapped(claims[s])]
    BY <2>1, <2>4 DEF Prepare, claims
  <2> QED
    BY <2>7, <2>9, <2>10 DEF Mapped
<1>2. ASSUME ValidationInv, UNCHANGED validationVars PROVE Agrees
  BY <1>2 DEF validationVars
<1>3. ValidationInv /\ [Next]_validationVars => [Agrees]_validationVars
  <2> HIDE DEF Agrees
  <2> QED
    BY <1>1
<1> QED
  BY <1>3, ValidationInvAlways, PTL DEF ValidationSpec, ReadyIsPrepared

==============================================================================
