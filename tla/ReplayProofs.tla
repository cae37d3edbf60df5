----------------------------- MODULE ReplayProofs -----------------------------
(***************************************************************************)
(* Proofs about Replay and the algorithms of Lineage, for any finite graph *)
(* with cycles and loops: the search finds a shortest path, without cycles *)
(* a node is judged again after all that influenced it, and what a saved   *)
(* node carries came from upstream.                                        *)
(*                                                                         *)
(* IInv says of the search that the nodes seen lie in layers around the    *)
(* root, whose numbers the program does not keep: Layers asks for one way  *)
(* to number them.  Of the sort it says that indeg counts the edges from   *)
(* nodes that are not sorted yet, so that what is queued waits for none.   *)
(***************************************************************************)
EXTENDS Replay, FiniteSetTheorems, SequenceTheorems, WellFoundedInduction, TLAPS

Tasks == {"idle", "search", "walk back", "path found", "sort", "sorted"}
Distinct(s) == \A i, j \in DOMAIN s : s[i] = s[j] => i = j

(* What no step changes, and what is there before a task begins.           *)
Started ==
    /\ edges \subseteq Ids \X Ids
    /\ carries \in [Ids -> SUBSET Entities] /\ calls \subseteq Ids
    /\ task \in Tasks
    /\ task # "idle" => root \in Ids
    /\ task \in {"search", "walk back", "path found"} => target \in Ids /\ indeg = << >>
    /\ task \in {"idle", "sort", "sorted"} => path = << >>
    /\ task \notin {"sort", "sorted"} => sorted = << >>
    /\ task = "idle" => queue = << >> /\ indeg = << >>
    /\ task # "sorted" => corrected = << >> /\ after = {}

(* The nodes on the deque and on the path.                                 *)
Inside == Range(queue) \subseteq Ids /\ Range(path) \subseteq Ids

-----------------------------------------------------------------------------
(* The search: every node seen but the root is one layer behind the node   *)
(* it was reached from.                                                    *)
Rooted(d) ==
    /\ d \in [Ids -> Nat]
    /\ Seen \subseteq Ids /\ root \in Seen /\ d[root] = 0
    /\ \A n \in Seen \ {root} :
          prev[n] \in Seen /\ <<prev[n], n>> \in edges /\ d[n] = d[prev[n]] + 1

(* The queue holds the end of a layer and the beginning of the next, and   *)
(* all successors of a node that left it have been seen.                   *)
Layers(d) ==
    /\ Rooted(d)
    /\ queue \in Seq(Seen)
    /\ \A i, j \in DOMAIN queue : i < j => d[queue[i]] <= d[queue[j]]
    /\ \A i \in DOMAIN queue : d[queue[i]] <= d[queue[1]] + 1
    /\ \A n \in Seen \ Range(queue) :
          /\ n # target
          /\ \A m \in Succs(n) : m \in Seen /\ d[m] <= d[n] + 1
          /\ \A i \in DOMAIN queue : d[n] <= d[queue[i]]

(* The path so far goes down layer by layer to the target.                 *)
Descends(d) ==
    /\ Rooted(d)
    /\ path \in Seq(Seen) /\ path # << >>
    /\ IsPath(path) /\ path[Len(path)] = target
    /\ \A i \in DOMAIN path : d[path[i]] = d[path[1]] + i - 1
    /\ \A p \in Paths(root, target) : d[target] < Len(p)

SearchInv ==
    /\ task = "search" => root # target /\ \E d : Layers(d)
    /\ task = "walk back" => \E d : Descends(d)

-----------------------------------------------------------------------------
(* The sort.                                                               *)
Acyclic == \A c \in Scope : ~OnCycle(c)
Pending(n) == {e \in InScope(Scope) : e[2] = n /\ e[1] \notin Range(sorted)}
(* Nothing in scope that influences a node comes after it.                 *)
Ordered == \A j \in DOMAIN sorted : \A p \in Preds(sorted[j]) \cap Scope :
              \E i \in 1..(j - 1) : sorted[i] = p

Sorting ==
    task = "sort" =>
        /\ indeg \in [Scope -> Nat]
        /\ queue \in Seq(Scope) /\ sorted \in Seq(Scope)
        /\ Distinct(queue) /\ Distinct(sorted) /\ Range(queue) \cap Range(sorted) = {}
        /\ \A n \in Scope : indeg[n] = Cardinality(Pending(n))
        /\ \A n \in Scope : indeg[n] = 0 <=> n \in Range(queue) \cup Range(sorted)
        /\ Ordered

Sorted ==
    task = "sorted" =>
        /\ queue = << >> /\ indeg \in [Scope -> Nat]
        /\ sorted \in Seq(Scope) /\ Distinct(sorted) /\ Range(sorted) = Scope
        /\ Acyclic => Ordered

-----------------------------------------------------------------------------
(* The preview: the nodes judged again are the first ones of the order,    *)
(* and those it cleared had nothing of their own.                          *)
Previewing ==
    task = "sorted" =>
        /\ DOMAIN corrected \subseteq Scope
        /\ after \subseteq DOMAIN corrected
        /\ \E k \in 0..Len(ReplayOrder) : DOMAIN corrected = {ReplayOrder[i] : i \in 1..k}
        /\ \A n \in DOMAIN corrected : n \in after \/ (Clean(n) = {} /\ n \notin calls)

IInv == Started /\ Inside /\ SearchInv /\ PathShortest /\ Sorting /\ Sorted /\ Previewing

-----------------------------------------------------------------------------
(* Least elements, and orders of finite sets.                              *)
LEMMA LeastNatural ==
    ASSUME NEW S \in SUBSET Nat, S # {}
    PROVE  \E x \in S : \A y \in S : x <= y
<1>1. PICK x \in S : \A y \in S : <<y, x>> \notin OpToRel(<, Nat)
  BY NatLessThanWellFounded, WFMin
<1>2. \A y \in S : ~(y < x)
  <2>1. ASSUME NEW y \in S, y < x PROVE <<y, x>> \in OpToRel(<, Nat)
    BY <2>1 DEF OpToRel
  <2> QED
    BY <1>1, <2>1
<1> QED
  BY <1>2

(* Whatever the order, each member of S has one place in it.               *)
LEMMA OrderType ==
    ASSUME NEW S, IsFiniteSet(S), NEW o \in Orders(S)
    PROVE  o \in Seq(S) /\ Len(o) = Cardinality(S) /\ Range(o) = S /\ Distinct(o)
<1> DEFINE n == Cardinality(S)
<1>1. n \in Nat /\ o \in [1..n -> S] /\ Range(o) = S
  BY FS_CardinalityType DEF Orders
<1>2. IsFiniteSet(1..n) /\ Cardinality(1..n) = n
  BY <1>1, FS_Interval
<1>3. o \in Surjection(1..n, S)
  BY <1>1 DEF Surjection, Range
<1>4. o \in Injection(1..n, S)
  <2> HIDE DEF n
  <2>1. Cardinality(1..n) = Cardinality(S)
    BY <1>2 DEF n
  <2> QED
    BY <1>2, <1>3, <2>1, FS_SurjSameCardinalityImpliesInj
<1> QED
  BY <1>1, <1>4 DEF Injection, IsInjective, Distinct

(* A finite set of numbers can be put in increasing order: each goes to    *)
(* the place that counts the members up to it.                             *)
LEMMA OrderOfIdType ==
    ASSUME NEW S \in SUBSET Nat, IsFiniteSet(S)
    PROVE  InOrderOfId(S) \in Orders(S)
<1> DEFINE n == Cardinality(S)
           UpTo(x) == {y \in S : y <= x}
           f == [x \in S |-> Cardinality(UpTo(x))]
<1>1. n \in Nat /\ IsFiniteSet(1..n) /\ Cardinality(1..n) = n
  BY FS_CardinalityType, FS_Interval
<1> \A x \in S : x \in Nat
  OBVIOUS
<1>2. \A x \in S : IsFiniteSet(UpTo(x)) /\ f[x] \in Nat /\ f[x] <= n
  BY FS_Subset, FS_CardinalityType
<1>3. \A x \in S : f[x] # 0
  <2> TAKE x \in S
  <2>1. x \in UpTo(x)
    OBVIOUS
  <2> QED
    BY <1>2, <2>1, FS_EmptySet
<1>4. \A x, y \in S : x < y => f[x] < f[y]
  <2> SUFFICES ASSUME NEW x \in S, NEW y \in S, x < y PROVE f[x] < f[y]
    OBVIOUS
  <2>1. UpTo(x) \subseteq UpTo(y) /\ y \in UpTo(y) /\ y \notin UpTo(x)
    <3>1. x \in Nat /\ y \in Nat /\ y <= y /\ ~(y <= x)
      OBVIOUS
    <3>2. \A z \in S : z <= x => z <= y
      BY <3>1
    <3> QED
      BY <3>1, <3>2
  <2>2. f[x] <= f[y] /\ f[y] # f[x]
    BY <1>2, <2>1, FS_Subset
  <2> QED
    BY <1>2, <2>2
<1> HIDE DEF f, n
<1>5. f \in Injection(S, 1..n)
  <2>1. f \in [S -> 1..n]
    BY <1>1, <1>2, <1>3 DEF f
  <2>2. \A x, y \in S : f[x] = f[y] => x = y
    <3> SUFFICES ASSUME NEW x \in S, NEW y \in S, f[x] = f[y], x # y PROVE FALSE
      OBVIOUS
    <3>1. x \in Nat /\ y \in Nat
      OBVIOUS
    <3>2. x < y \/ y < x
      BY <3>1
    <3>3. f[x] \in Nat /\ (f[x] < f[y] \/ f[y] < f[x])
      BY <1>2, <1>4, <3>2
    <3> QED
      BY <1>2, <3>3
  <2> QED
    BY <2>1, <2>2 DEF Injection, IsInjective
<1>6. f \in Surjection(S, 1..n)
  BY <1>1, <1>5, FS_Injection DEF n
<1> DEFINE o == [k \in 1..n |-> CHOOSE x \in S : f[x] = k]
<1>7. \A k \in 1..n : o[k] \in S /\ f[o[k]] = k
  BY <1>6 DEF Surjection
<1>8. \A x \in S : f[x] \in 1..n /\ o[f[x]] = x
  BY <1>5, <1>7 DEF Injection, IsInjective
<1> HIDE DEF o
<1>9. o \in Orders(S)
  <2>1. o \in [1..n -> S]
    BY <1>7 DEF o
  <2> QED
    BY <1>8, <2>1 DEF Orders, Range, n
<1>10. \A i, j \in DOMAIN o : i < j => o[i] < o[j]
  <2> SUFFICES ASSUME NEW i \in 1..n, NEW j \in 1..n, i < j, ~(o[i] < o[j]) PROVE FALSE
    BY DEF o
  <2>1. o[i] \in S /\ o[j] \in S /\ f[o[i]] = i /\ f[o[j]] = j /\ i \in Nat /\ j \in Nat
    BY <1>1, <1>7
  <2>2. o[j] = o[i] \/ o[j] < o[i]
    <3>1. o[i] \in Nat /\ o[j] \in Nat
      BY <2>1
    <3> QED
      BY <3>1
  <2>3. i = j \/ j < i
    BY <1>4, <2>1, <2>2
  <2> QED
    BY <2>1, <2>3
<1> QED
  BY <1>9, <1>10 DEF InOrderOfId

-----------------------------------------------------------------------------
(* The graph.                                                              *)
IsGraph == edges \subseteq Ids \X Ids

LEMMA Neighbours ==
    ASSUME IsGraph, NEW m, NEW n
    PROVE  /\ m \in Succs(n) <=> <<n, m>> \in edges
           /\ n \in Preds(m) <=> <<n, m>> \in edges
           /\ <<n, m>> \in edges => n \in Ids /\ m \in Ids
BY DEF IsGraph, Succs, Preds

LEMMA ReachableIs ==
    ASSUME IsGraph, NEW n
    PROVE  /\ Reachable(n) \subseteq Ids /\ Succs(n) \subseteq Reachable(n)
           /\ \A x \in Reachable(n) : Succs(x) \subseteq Reachable(n)
           /\ \A R \in SUBSET Ids : Succs(n) \subseteq R /\ Closed(R) => Reachable(n) \subseteq R
<1>1. Reachable(n) \subseteq Ids
  BY DEF Reachable
<1>2. Succs(n) \subseteq Reachable(n)
  BY Neighbours DEF Reachable
<1>3. ASSUME NEW x \in Reachable(n), NEW y \in Succs(x) PROVE y \in Reachable(n)
  <2>1. <<x, y>> \in edges /\ y \in Ids
    BY <1>3, Neighbours
  <2>2. ASSUME NEW R \in SUBSET Ids, Succs(n) \subseteq R, Closed(R) PROVE y \in R
    <3>1. x \in R
      BY <1>3, <2>2 DEF Reachable
    <3> QED
      BY <2>1, <2>2, <3>1 DEF Closed
  <2> QED
    BY <2>1, <2>2 DEF Reachable
<1> QED
  BY <1>1, <1>2, <1>3 DEF Reachable

LEMMA ReachableOn ==
    ASSUME IsGraph, NEW n, NEW m \in Reachable(n)
    PROVE  Reachable(m) \subseteq Reachable(n)
<1>1. Closed(Reachable(n))
  BY ReachableIs, Neighbours DEF Closed, IsGraph
<1> QED
  BY <1>1, ReachableIs

(* What can be reached is a successor, or can be reached from one.         *)
LEMMA ReachableFirst ==
    ASSUME IsGraph, NEW n, NEW x \in Reachable(n), x \notin Succs(n)
    PROVE  \E m \in Succs(n) : x \in Reachable(m)
<1> DEFINE R == Succs(n) \cup UNION {Reachable(m) : m \in Succs(n)}
<1>1. R \in SUBSET Ids
  BY ReachableIs, Neighbours
<1>2. Closed(R)
  <2> SUFFICES ASSUME NEW e \in edges, e[1] \in R PROVE e[2] \in R
    BY DEF Closed
  <2>1. e[2] \in Succs(e[1])
    BY DEF Succs
  <2>2. \A m : Succs(m) \subseteq Reachable(m) /\ \A y \in Reachable(m) : Succs(y) \subseteq Reachable(m)
    BY ReachableIs
  <2> QED
    BY <2>1, <2>2
<1>3. x \in R
  <2> HIDE DEF R
  <2>1. Succs(n) \subseteq R
    BY DEF R
  <2> QED
    BY <1>1, <1>2, <2>1, ReachableIs
<1> QED
  BY <1>3

LEMMA CycleIs ==
    ASSUME IsGraph, NEW n, n \in Reachable(n)
    PROVE  OnCycle(n)
<1>1. CASE n \in Succs(n)
  BY <1>1 DEF OnCycle
<1>2. CASE n \notin Succs(n)
  <2>1. PICK m \in Succs(n) : n \in Reachable(m)
    BY <1>2, ReachableFirst
  <2>2. n \in BlastRadius(m)
    BY <1>2, <2>1 DEF BlastRadius
  <2> QED
    BY <2>2 DEF OnCycle
<1> QED
  BY <1>1, <1>2

(* A set in which each node has an input holds one that is on a cycle: the *)
(* one with the fewest members of the set before it.                       *)
LEMMA SomeCycle ==
    ASSUME IsGraph, NEW S \in SUBSET Ids, S # {},
           \A n \in S : \E m \in S : <<m, n>> \in edges
    PROVE  \E c \in S : OnCycle(c)
<1> SUFFICES ASSUME \A c \in S : c \notin Reachable(c) PROVE FALSE
  BY CycleIs
<1> DEFINE Behind(n) == {m \in S : n \in Reachable(m)}
           C == {Cardinality(Behind(n)) : n \in S}
<1>1. \A n \in S : IsFiniteSet(Behind(n)) /\ Cardinality(Behind(n)) \in Nat
  <2> TAKE n \in S
  <2>1. Behind(n) \in SUBSET Ids
    OBVIOUS
  <2> HIDE DEF Behind
  <2> QED
    BY <2>1, IdAssumption, FS_Subset, FS_CardinalityType
<1>2. PICK n \in S : \A m \in S : Cardinality(Behind(n)) <= Cardinality(Behind(m))
  <2>1. C \in SUBSET Nat /\ C # {}
    BY <1>1
  <2> HIDE DEF Behind
  <2>2. PICK c \in C : \A y \in C : c <= y
    BY <2>1, LeastNatural
  <2> QED
    BY <2>2
<1>3. PICK m \in S : <<m, n>> \in edges
  OBVIOUS
<1>4. n \in Reachable(m)
  BY <1>3, Neighbours, ReachableIs
<1>5. m \in Behind(n) /\ m \notin Behind(m)
  BY <1>4
<1>6. Behind(m) \subseteq Behind(n)
  BY <1>4, ReachableOn
<1> HIDE DEF Behind
<1>7. Cardinality(Behind(m)) <= Cardinality(Behind(n))
      /\ Cardinality(Behind(m)) # Cardinality(Behind(n))
  BY <1>1, <1>5, <1>6, FS_Subset
<1> QED
  BY <1>1, <1>2, <1>7

LEMMA ScopeIs ==
    ASSUME IsGraph, root \in Ids
    PROVE  /\ Scope \subseteq Ids /\ IsFiniteSet(Scope) /\ root \in Scope
           /\ \A x \in Scope : Succs(x) \subseteq Scope
           /\ \A x \in Scope \ {root} : x \in Reachable(root)
<1>1. Scope = Reachable(root) \cup {root}
  BY DEF Scope, BlastRadius
<1>2. Scope \subseteq Ids
  BY <1>1, ReachableIs
<1> QED
  BY <1>1, <1>2, ReachableIs, IdAssumption, FS_Subset

-----------------------------------------------------------------------------
(* Init and the variables that only one task touches.                      *)
LEMMA InitIInv == Init => IInv
<1> SUFFICES ASSUME Init PROVE IInv
  OBVIOUS
<1>1. Started
  <2>1. edges \subseteq Ids \X Ids /\ calls \subseteq Ids /\ carries \in [Ids -> SUBSET Entities]
    BY IdAssumption, RootAssumption DEF Init, LineageInit
  <2> QED
    BY <2>1 DEF Init, LineageInit, Started, Tasks
<1>2. Inside
  BY DEF Init, LineageInit, Inside, Range
<1> QED
  BY <1>1, <1>2 DEF Init, LineageInit, IInv, SearchInv, PathShortest, Sorting, Sorted, Previewing

LEMMA NextStarted ==
    ASSUME Started, [Next]_vars
    PROVE  Started'
<1>1. CASE \E r \in Roots, t \in Ids : PathBegin(r, t) /\ UNCHANGED <<data, judged>>
  BY <1>1, RootAssumption DEF Started, Tasks, PathBegin, sort, data, judged
<1>2. CASE Search /\ UNCHANGED <<data, judged>>
  BY <1>2 DEF Started, Tasks, Search, args, sort, data, judged
<1>3. CASE SearchEnd /\ UNCHANGED <<data, judged>>
  BY <1>3 DEF Started, Tasks, SearchEnd, args, sort, data, judged
<1>4. CASE WalkBack /\ UNCHANGED <<data, judged>>
  BY <1>4 DEF Started, Tasks, WalkBack, args, sort, data, judged
<1>5. CASE \E r \in Roots : SortBegin(r) /\ UNCHANGED <<data, judged>>
  BY <1>5, RootAssumption DEF Started, Tasks, SortBegin, search, data, judged
<1>6. CASE (Sort \/ SortEnd) /\ UNCHANGED <<data, judged>>
  BY <1>6 DEF Started, Tasks, Sort, SortEnd, args, search, data, judged
<1>7. CASE Rejudge
  BY <1>7 DEF Started, Tasks, Rejudge, args, search, sort, data
<1>8. CASE UNCHANGED vars
  BY <1>8 DEF Started, vars, args, search, sort, data, judged
<1> QED
  BY <1>1, <1>2, <1>3, <1>4, <1>5, <1>6, <1>7, <1>8 DEF Next

-----------------------------------------------------------------------------
(* Paths and layers.                                                       *)

(* From layer to layer a path to a node at the head of the queue, or to    *)
(* one not seen by a search that has nothing left, cannot be shorter: each *)
(* of its nodes is seen, in the layer of its place or before.              *)
LEMMA PathStays ==
    ASSUME Started, NEW d, Layers(d), NEW p \in Paths(root, target),
           queue # << >> => queue[1] = target
    PROVE  target \in Seen /\ d[target] < Len(p)
<1> DEFINE Off == {i \in DOMAIN p : ~(p[i] \in Seen /\ d[p[i]] < i)}
<1>1. /\ p # << >> /\ DOMAIN p = 1..Len(p) /\ Len(p) \in Nat /\ \A i \in DOMAIN p : p[i] \in Ids
      /\ p[1] = root /\ p[Len(p)] = target
      /\ \A i \in 1..(Len(p) - 1) : <<p[i], p[i + 1]>> \in edges
  <2>1. PICK k \in 1..Cardinality(Ids) : p \in [1..k -> Ids]
    BY DEF Paths
  <2>2. k \in Nat /\ k >= 1 /\ Len(p) = k
    BY <2>1, IdAssumption, FS_CardinalityType
  <2>3. IsPath(p) /\ Head(p) = root /\ Last(p) = target
    BY DEF Paths
  <2> QED
    BY <2>1, <2>2, <2>3 DEF IsPath, Last
<1>2. \A n \in Seen : d[n] \in Nat
  BY DEF Layers, Rooted
<1>3. CASE Off = {}
  BY <1>1, <1>3
<1>4. CASE Off # {}
  <2>1. Off \in SUBSET Nat
    BY <1>1
  <2>2. PICK j \in Off : \A i \in Off : j <= i
    BY <1>4, <2>1, LeastNatural
  <2>3. j # 1
    BY <1>1, <2>2 DEF Layers, Rooted
  <2> DEFINE i == j - 1
  <2>4. i \in Nat /\ i >= 1 /\ i < Len(p) /\ i + 1 = j /\ i \notin Off /\ i \in DOMAIN p
    BY <1>1, <2>1, <2>2, <2>3
  <2> HIDE DEF i
  <2>5. p[i] \in Seen /\ d[p[i]] < i /\ p[j] \in Succs(p[i])
    <3>1. i \in 1..(Len(p) - 1)
      BY <1>1, <2>4
    <3>2. <<p[i], p[j]>> \in edges
      BY <1>1, <2>4, <3>1
    <3> QED
      BY <2>4, <3>2, Neighbours DEF Started, IsGraph
  <2>6. CASE p[i] \notin Range(queue)
    <3>1. p[j] \in Seen /\ d[p[j]] <= d[p[i]] + 1
      BY <2>5, <2>6 DEF Layers
    <3>2. d[p[j]] < j
      BY <1>2, <2>4, <2>5, <3>1
    <3> QED
      BY <2>2, <3>1, <3>2
  <2>7. CASE p[i] \in Range(queue)
    <3>1. PICK k \in DOMAIN queue : p[i] = queue[k]
      BY <2>7 DEF Range
    <3>2. queue \in Seq(Seen) /\ queue # << >> /\ 1 \in DOMAIN queue /\ k \in Nat
      BY <3>1 DEF Layers
    <3>3. queue[1] = target /\ target \in Seen
      BY <3>2
    <3>4. d[target] <= d[p[i]]
      <4>1. CASE k = 1
        BY <1>2, <3>1, <3>3, <4>1
      <4>2. CASE 1 < k
        BY <3>1, <3>2, <3>3, <4>2 DEF Layers
      <4> QED
        BY <3>1, <3>2, <4>1, <4>2
    <3> QED
      BY <1>1, <1>2, <2>4, <2>5, <3>3, <3>4
  <2> QED
    BY <2>6, <2>7
<1> QED
  BY <1>3, <1>4

LEMMA BeginSearch ==
    ASSUME Started, NEW r \in Roots, NEW t \in Ids, PathBegin(r, t)
    PROVE  SearchInv' /\ PathShortest'
<1>1. r \in Ids /\ root' = r /\ target' = t /\ edges' = edges
  BY RootAssumption DEF PathBegin, args
<1>2. CASE r = t
  <2>1. task' = "path found" /\ path' = <<r>>
    BY <1>2 DEF PathBegin
  <2>2. <<r>> \in Paths(r, r)'
    <3>1. 1 \in 1..Cardinality(Ids) /\ <<r>> \in [1..1 -> Ids]
      BY <1>1, IdAssumption, FS_CardinalityType, FS_EmptySet
    <3>2. IsPath(<<r>>)' /\ Head(<<r>>) = r /\ Last(<<r>>) = r
      BY DEF IsPath, Last
    <3> QED
      BY <3>1, <3>2 DEF Paths
  <2>3. \A p \in Paths(r, r)' : 1 <= Len(p)
    <3> TAKE p \in Paths(r, r)'
    <3>1. PICK k \in 1..Cardinality(Ids) : p \in [1..k -> Ids]
      BY DEF Paths
    <3> QED
      BY <3>1, IdAssumption, FS_CardinalityType
  <2> QED
    BY <1>1, <1>2, <2>1, <2>2, <2>3 DEF SearchInv, PathShortest, Paths
<1>3. CASE r # t
  <2>1. task' = "search" /\ queue' = <<r>> /\ prev' = [n \in {r} |-> r]
    BY <1>3 DEF PathBegin
  <2>2. PICK d : d = [n \in Ids |-> 0]
    OBVIOUS
  <2>3. Rooted(d)'
    BY <1>1, <2>1, <2>2 DEF Rooted, Seen
  <2>4. queue' \in Seq(Seen') /\ DOMAIN queue' = {1} /\ queue'[1] = r /\ Seen' \ Range(queue') = {}
    BY <2>1 DEF Seen, Range
  <2>5. Layers(d)'
    BY <1>1, <2>2, <2>3, <2>4 DEF Layers
  <2> QED
    BY <1>1, <1>3, <2>1, <2>5 DEF SearchInv, PathShortest
<1> QED
  BY <1>2, <1>3

LEMMA SearchStep ==
    ASSUME Started, SearchInv, Search
    PROVE  SearchInv' /\ PathShortest'
<1>1. PICK d : Layers(d)
  BY DEF Search, SearchInv
<1> DEFINE cur == Head(queue)
           N == New(cur)
           c == d[cur]
<1>2. /\ root \in Ids /\ root # target /\ queue # << >> /\ cur # target
      /\ prev' = [n \in Seen \cup N |-> IF n \in N THEN cur ELSE prev[n]]
      /\ UNCHANGED <<edges, root, target, task>> /\ task = "search"
  BY DEF Search, args, SearchInv, Started
<1>3. queue \in Seq(Seen) /\ queue[1] = cur /\ cur \in Seen /\ Seen \subseteq Ids /\ d \in [Ids -> Nat]
  BY <1>1, <1>2 DEF Layers, Rooted
<1>4. N = Succs(cur) \ Seen /\ N \subseteq Ids /\ IsFiniteSet(N)
  <2>1. N \in SUBSET Ids
    BY Neighbours DEF New, Started, IsGraph
  <2> HIDE DEF cur
  <2>2. IsFiniteSet(N)
    BY <2>1, IdAssumption, FS_Subset
  <2> QED
    BY <2>1, <2>2 DEF New
<1>5. PICK o \in Seq(N) : queue' = Tail(queue) \o o /\ Range(o) = N
  <2>1. PICK o \in Orders(N) : queue' = Tail(queue) \o o
    BY DEF Search
  <2> HIDE DEF N
  <2> QED
    BY <1>4, <2>1, OrderType
<1>6. Seen' = Seen \cup N
  BY <1>2 DEF Seen
<1>7. PICK e : e = [n \in Ids |-> IF n \in N THEN c + 1 ELSE d[n]]
  OBVIOUS
<1>8. c \in Nat /\ (\A n \in Seen : d[n] \in Nat /\ e[n] = d[n]) /\ (\A n \in N : e[n] = c + 1)
      /\ e \in [Ids -> Nat]
  BY <1>3, <1>4, <1>7
<1>9. \A k \in DOMAIN queue : c <= d[queue[k]] /\ d[queue[k]] <= c + 1
  <2> SUFFICES ASSUME NEW k \in DOMAIN queue PROVE c <= d[queue[k]] /\ d[queue[k]] <= c + 1
    OBVIOUS
  <2>1. k \in Nat /\ (k = 1 \/ 1 < k) /\ 1 \in DOMAIN queue
    BY <1>2, <1>3
  <2> QED
    BY <1>1, <1>3, <1>8, <2>1 DEF Layers
<1> DEFINE old == Len(queue) - 1
<1>10. old \in Nat /\ DOMAIN queue = 1..(old + 1)
  BY <1>2, <1>3
<1>11. queue' \in Seq(Seen') /\ DOMAIN queue' = 1..(old + Len(o)) /\ Len(o) \in Nat
       /\ \A i \in DOMAIN queue' :
             IF i <= old THEN i + 1 \in DOMAIN queue /\ queue'[i] = queue[i + 1]
             ELSE queue'[i] \in N
  <2>1. Tail(queue) \in Seq(Seen) /\ Len(Tail(queue)) = old
        /\ \A i \in 1..old : Tail(queue)[i] = queue[i + 1]
    BY <1>2, <1>3
  <2>2. Tail(queue) \in Seq(Seen') /\ o \in Seq(Seen')
    BY <1>6, <2>1
  <2>3. queue' \in Seq(Seen') /\ DOMAIN queue' = 1..(old + Len(o))
        /\ \A i \in DOMAIN queue' : queue'[i] = IF i <= old THEN Tail(queue)[i] ELSE o[i - old]
    BY <1>5, <1>10, <2>1, <2>2
  <2>4. \A i \in DOMAIN queue' : i > old => i - old \in DOMAIN o
    BY <1>10, <2>3, <1>5
  <2> HIDE DEF N, old
  <2>5. \A i \in DOMAIN o : o[i] \in N
    BY <1>5
  <2>6. \A i \in DOMAIN queue' : i \in Nat /\ (i <= old => i \in 1..old /\ i + 1 \in DOMAIN queue)
    BY <1>10, <2>3, <1>5
  <2> QED
    BY <1>5, <1>10, <2>1, <2>3, <2>4, <2>5, <2>6
<1> HIDE DEF old, N, cur, c
<1>12. Rooted(e)'
  <2>1. ASSUME NEW n \in Seen' \ {root'}
        PROVE  prev'[n] \in Seen' /\ <<prev'[n], n>> \in edges' /\ e[n] = e[prev'[n]] + 1
    <3>1. CASE n \in Seen
      <4>1. prev'[n] = prev[n] /\ prev[n] \in Seen /\ <<prev[n], n>> \in edges /\ d[n] = d[prev[n]] + 1
        BY <1>1, <1>2, <1>4, <2>1, <3>1 DEF Layers, Rooted
      <4> QED
        BY <1>2, <1>6, <1>8, <3>1, <4>1
    <3>2. CASE n \notin Seen
      <4>1. n \in N /\ prev'[n] = cur
        BY <1>2, <1>6, <3>2
      <4>2. <<cur, n>> \in edges
        BY <1>4, <4>1, Neighbours DEF Started, IsGraph
      <4>3. e[n] = c + 1 /\ e[cur] = c
        BY <1>3, <1>8, <4>1 DEF c
      <4> QED
        BY <1>2, <1>3, <1>6, <4>1, <4>2, <4>3
    <3> QED
      BY <3>1, <3>2
  <2>2. root' \in Seen' /\ e[root'] = 0 /\ Seen' \subseteq Ids
    BY <1>1, <1>2, <1>3, <1>4, <1>6, <1>8 DEF Layers, Rooted
  <2> QED
    BY <1>8, <2>1, <2>2 DEF Rooted
<1>13. \A i \in DOMAIN queue' :
          /\ e[queue'[i]] \in Nat
          /\ IF i <= old THEN e[queue'[i]] = d[queue[i + 1]] /\ i + 1 \in DOMAIN queue
             ELSE e[queue'[i]] = c + 1
          /\ c <= e[queue'[i]] /\ e[queue'[i]] <= c + 1
  <2> TAKE i \in DOMAIN queue'
  <2>1. CASE i <= old
    <3>1. i + 1 \in DOMAIN queue /\ queue'[i] = queue[i + 1] /\ queue[i + 1] \in Seen
      BY <1>3, <1>11, <2>1
    <3> QED
      BY <1>8, <1>9, <2>1, <3>1
  <2>2. CASE ~(i <= old)
    <3>1. e[queue'[i]] = c + 1
      BY <1>8, <1>11, <2>2
    <3>2. c + 1 \in Nat /\ c <= c + 1 /\ c + 1 <= c + 1
      BY <1>8
    <3> QED
      BY <2>2, <3>1, <3>2
  <2> QED
    BY <2>1, <2>2
<1>14. \A i, j \in DOMAIN queue' : i < j => e[queue'[i]] <= e[queue'[j]]
  <2> SUFFICES ASSUME NEW i \in DOMAIN queue', NEW j \in DOMAIN queue', i < j
               PROVE  e[queue'[i]] <= e[queue'[j]]
    OBVIOUS
  <2>1. i \in Nat /\ j \in Nat
    BY <1>10, <1>11
  <2>2. CASE j <= old
    <3>1. i <= old /\ i + 1 < j + 1
      BY <1>10, <2>1, <2>2
    <3>2. d[queue[i + 1]] <= d[queue[j + 1]]
      BY <1>1, <1>13, <2>2, <3>1 DEF Layers
    <3> QED
      BY <1>13, <2>2, <3>1, <3>2
  <2>3. CASE ~(j <= old)
    BY <1>13, <2>3
  <2> QED
    BY <2>2, <2>3
<1>15. \A i \in DOMAIN queue' : e[queue'[i]] <= e[queue'[1]] + 1
  <2> TAKE i \in DOMAIN queue'
  <2>1. 1 \in DOMAIN queue'
    BY <1>10, <1>11
  <2>2. e[queue'[i]] \in Nat /\ e[queue'[1]] \in Nat /\ c \in Nat
        /\ e[queue'[i]] <= c + 1 /\ c <= e[queue'[1]]
    BY <1>8, <1>13, <2>1
  <2> QED
    BY <2>2
<1>16. ASSUME NEW n \in Seen' \ Range(queue')
       PROVE  /\ n # target'
              /\ \A m \in Succs(n)' : m \in Seen' /\ e[m] <= e[n] + 1
              /\ \A i \in DOMAIN queue' : e[n] <= e[queue'[i]]
  <2>1. n \notin N
    <3>1. \A i \in DOMAIN o : old + i \in DOMAIN queue' /\ queue'[old + i] = o[i]
      <4>1. Tail(queue) \in Seq(Seen) /\ Len(Tail(queue)) = old
        BY <1>2, <1>3 DEF old
      <4> QED
        BY <1>5, <1>10, <1>11, <4>1
    <3> QED
      BY <1>5, <1>16, <3>1 DEF Range
  <2>2. n \in Seen /\ e[n] = d[n] /\ d[n] \in Nat /\ Succs(n)' = Succs(n)
    BY <1>2, <1>6, <1>8, <2>1 DEF Succs
  <2>3. CASE n \in Range(queue)
    <3>1. PICK k \in DOMAIN queue : n = queue[k]
      BY <2>3 DEF Range
    <3>2. k = 1
      <4>1. SUFFICES ASSUME k # 1 PROVE FALSE
        OBVIOUS
      <4>2. k - 1 \in 1..old /\ k - 1 + 1 = k
        BY <1>10, <4>1
      <4>3. k - 1 \in DOMAIN queue' /\ queue'[k - 1] = queue[k]
        BY <1>10, <1>11, <4>2
      <4> QED
        BY <1>16, <3>1, <4>3 DEF Range
    <3>3. n = cur /\ d[n] = c
      BY <1>3, <3>1, <3>2 DEF c
    <3>4. ASSUME NEW m \in Succs(n) PROVE m \in Seen' /\ e[m] <= c + 1
      <4>1. CASE m \in N
        BY <1>6, <1>8, <4>1
      <4>2. CASE m \in Range(queue) /\ m \in Seen
        BY <1>6, <1>8, <1>9, <4>2 DEF Range
      <4>3. CASE m \in Seen \ Range(queue)
        <5>1. 1 \in DOMAIN queue
          BY <1>10
        <5>2. d[m] <= d[queue[1]]
          BY <1>1, <4>3, <5>1 DEF Layers
        <5>3. d[queue[1]] = c
          BY <1>3 DEF c
        <5> QED
          BY <1>6, <1>8, <4>3, <5>2, <5>3
      <4> QED
        BY <1>4, <3>3, <3>4, <4>1, <4>2, <4>3
    <3> QED
      BY <1>2, <1>13, <2>2, <3>3, <3>4
  <2>4. CASE n \notin Range(queue)
    <3>1. /\ n # target
          /\ \A m \in Succs(n) : m \in Seen /\ d[m] <= d[n] + 1
          /\ \A i \in DOMAIN queue : d[n] <= d[queue[i]]
      BY <1>1, <2>2, <2>4 DEF Layers
    <3>2. d[n] <= c
      BY <1>3, <1>10, <3>1 DEF c
    <3>3. \A i \in DOMAIN queue' : d[n] <= e[queue'[i]]
      BY <1>8, <1>13, <2>2, <3>2
    <3> QED
      BY <1>2, <1>6, <1>8, <2>2, <3>1, <3>3
  <2> QED
    BY <2>3, <2>4
<1>17. Layers(e)'
  BY <1>11, <1>12, <1>14, <1>15, <1>16 DEF Layers
<1> QED
  BY <1>2, <1>17 DEF SearchInv, PathShortest

LEMMA SearchEndStep ==
    ASSUME Started, SearchInv, SearchEnd
    PROVE  SearchInv' /\ PathShortest'
<1>1. PICK d : Layers(d)
  BY DEF SearchEnd, SearchInv
<1>2. /\ target \in Ids /\ UNCHANGED <<edges, root, target, prev>>
      /\ IF target \in Seen THEN task' = "walk back" /\ path' = <<target>>
                            ELSE task' = "path found" /\ path' = << >>
  BY DEF SearchEnd, args, Started
<1>3. queue # << >> => queue[1] = target
  <2>1. queue \in Seq(Seen)
    BY <1>1 DEF Layers
  <2>2. queue # << >> => Head(queue) = target
    BY DEF SearchEnd
  <2> QED
    BY <2>1, <2>2
<1>4. \A p \in Paths(root, target) : target \in Seen /\ d[target] < Len(p)
  BY <1>1, <1>3, PathStays
<1>5. Paths(root, target)' = Paths(root, target) /\ Seen' = Seen
  BY <1>2 DEF Paths, IsPath, Seen
<1>6. CASE target \in Seen
  <2>1. path' \in Seq(Seen') /\ path' # << >> /\ DOMAIN path' = {1} /\ Len(path') = 1 /\ path'[1] = target
    <3>1. path' = <<target>>
      BY <1>2, <1>6
    <3>2. <<target>> \in Seq(Seen)
      BY <1>6
    <3> QED
      BY <1>5, <3>1, <3>2
  <2>2. IsPath(path)' /\ path'[Len(path')] = target'
    <3>1. 1..(Len(path') - 1) = {}
      BY <2>1
    <3> QED
      BY <1>2, <2>1, <3>1 DEF IsPath
  <2>3. \A i \in DOMAIN path' : d[path'[i]] = d[path'[1]] + i - 1
    BY <1>1, <1>6, <2>1 DEF Layers, Rooted
  <2>4. Rooted(d)'
    BY <1>1, <1>2, <1>5 DEF Layers, Rooted
  <2>5. Descends(d)'
    BY <1>2, <1>4, <1>5, <2>1, <2>2, <2>3, <2>4 DEF Descends
  <2> QED
    BY <1>2, <1>6, <2>5 DEF SearchInv, PathShortest
<1>7. CASE target \notin Seen
  <2>1. Paths(root, target)' = {}
    BY <1>4, <1>5, <1>7
  <2> QED
    BY <1>2, <1>7, <2>1 DEF SearchInv, PathShortest
<1> QED
  BY <1>6, <1>7

LEMMA WalkBackStep ==
    ASSUME Started, SearchInv, WalkBack
    PROVE  SearchInv' /\ PathShortest'
<1>1. PICK d : Descends(d)
  BY DEF WalkBack, SearchInv
<1>2. UNCHANGED <<edges, root, target, prev>> /\ task = "walk back" /\ root \in Ids
  BY DEF WalkBack, args, Started
<1>3. /\ Paths(root, target)' = Paths(root, target) /\ Seen' = Seen
      /\ path \in Seq(Seen) /\ path # << >> /\ Seen \subseteq Ids /\ d \in [Ids -> Nat]
      /\ DOMAIN path = 1..Len(path) /\ Len(path) \in Nat /\ Len(path) >= 1 /\ Head(path) = path[1]
  <2>1. Paths(root, target)' = Paths(root, target) /\ Seen' = Seen
    BY <1>2 DEF Paths, IsPath, Seen
  <2>2. path \in Seq(Seen) /\ path # << >> /\ Seen \subseteq Ids /\ d \in [Ids -> Nat]
    BY <1>1 DEF Descends, Rooted
  <2>3. DOMAIN path = 1..Len(path) /\ Len(path) \in Nat /\ Len(path) >= 1 /\ Head(path) = path[1]
    BY <2>2
  <2> QED
    BY <2>1, <2>2, <2>3
<1>4. \A i \in DOMAIN path : path[i] \in Seen /\ d[path[i]] \in Nat /\ d[path[i]] = d[path[1]] + i - 1
  BY <1>1, <1>3 DEF Descends
<1>5. CASE path[1] = root
  <2>1. task' = "path found" /\ path' = path
    BY <1>3, <1>5 DEF WalkBack
  <2>2. Len(path) = d[target] + 1
    <3>1. Len(path) \in DOMAIN path /\ path[Len(path)] = target /\ d[root] = 0
      BY <1>1, <1>3 DEF Descends, Rooted
    <3> QED
      BY <1>3, <1>4, <1>5, <3>1
  <2>3. path \in [1..Len(path) -> Ids]
    BY <1>3
  <2>4. Len(path) <= Cardinality(Ids)
    <3>1. \A i, j \in 1..Len(path) : path[i] = path[j] => i = j
      BY <1>3, <1>4
    <3>2. path \in Injection(1..Len(path), Ids)
      BY <2>3, <3>1 DEF Injection, IsInjective
    <3>3. Cardinality(1..Len(path)) = Len(path)
      BY <1>3, FS_Interval
    <3> QED
      BY <3>2, <3>3, IdAssumption, FS_Injection
  <2>5. path \in Paths(root, target)
    <3>1. Len(path) \in 1..Cardinality(Ids)
      BY <1>3, <2>4, IdAssumption, FS_CardinalityType
    <3>2. IsPath(path) /\ Last(path) = target
      BY <1>1 DEF Descends, Last
    <3> QED
      BY <1>3, <1>5, <2>3, <3>1, <3>2 DEF Paths
  <2>6. \A p \in Paths(root, target) : Len(path) <= Len(p)
    <3> TAKE p \in Paths(root, target)
    <3>1. d[target] < Len(p) /\ Len(p) \in Nat
      <4>1. PICK k \in 1..Cardinality(Ids) : p \in [1..k -> Ids]
        BY DEF Paths
      <4> QED
        BY <1>1, <4>1, IdAssumption, FS_CardinalityType DEF Descends
    <3>2. d[target] \in Nat
      BY <1>1, <1>3, <1>4 DEF Descends
    <3> QED
      BY <2>2, <3>1, <3>2
  <2> QED
    BY <1>2, <1>3, <2>1, <2>5, <2>6 DEF SearchInv, PathShortest
<1>6. CASE path[1] # root
  <2> DEFINE x == prev[path[1]]
             q == <<x>> \o path
  <2>1. task' = "walk back" /\ path' = q
    BY <1>2, <1>3, <1>6 DEF WalkBack
  <2>2. x \in Seen /\ <<x, path[1]>> \in edges /\ d[path[1]] = d[x] + 1
    BY <1>1, <1>3, <1>4, <1>6 DEF Descends, Rooted
  <2>3. /\ q \in Seq(Seen) /\ q # << >> /\ Len(q) = Len(path) + 1 /\ q[1] = x
        /\ \A i \in DOMAIN path : q[i + 1] = path[i]
    <3> HIDE DEF x
    <3> QED
      BY <1>3, <2>2
  <2> HIDE DEF x, q
  <2>4. q[Len(q)] = target
    BY <1>1, <1>3, <2>3 DEF Descends
  <2>5. \A i \in DOMAIN q : i \in Nat /\ (i = 1 \/ (i - 1 \in DOMAIN path /\ q[i] = path[i - 1] /\ i - 1 + 1 = i))
    <3> TAKE i \in DOMAIN q
    <3>1. i \in 1..(Len(path) + 1)
      BY <2>3
    <3>2. i = 1 \/ (i - 1 \in DOMAIN path /\ i - 1 + 1 = i)
      BY <1>3, <3>1
    <3> QED
      BY <2>3, <3>1, <3>2
  <2>6. \A i \in DOMAIN q : d[q[i]] = d[q[1]] + i - 1
    <3> TAKE i \in DOMAIN q
    <3>1. d[x] \in Nat
      BY <1>3, <2>2
    <3>2. CASE i = 1
      BY <2>3, <3>1, <3>2
    <3>3. CASE i # 1
      <4>1. i \in Nat /\ i - 1 \in DOMAIN path /\ q[i] = path[i - 1]
        BY <2>5, <3>3
      <4>2. d[path[i - 1]] = d[path[1]] + (i - 1) - 1
        BY <1>4, <4>1
      <4> QED
        BY <2>2, <2>3, <3>1, <4>1, <4>2
    <3> QED
      BY <3>2, <3>3
  <2>7. \A i \in 1..(Len(q) - 1) : <<q[i], q[i + 1]>> \in edges
    <3> TAKE i \in 1..(Len(q) - 1)
    <3>1. i \in DOMAIN path /\ q[i + 1] = path[i] /\ i \in DOMAIN q
      <4>1. i \in 1..Len(path)
        BY <1>3, <2>3
      <4>2. DOMAIN q = 1..(Len(path) + 1)
        BY <2>3
      <4>3. i \in DOMAIN q
        BY <1>3, <4>1, <4>2
      <4> QED
        BY <1>3, <2>3, <4>1, <4>3
    <3>2. CASE i = 1
      BY <2>2, <2>3, <3>1, <3>2
    <3>3. CASE i # 1
      <4>1. i - 1 \in DOMAIN path /\ q[i] = path[i - 1] /\ i - 1 + 1 = i
        BY <2>5, <3>1, <3>3
      <4>2. i - 1 \in 1..(Len(path) - 1)
        BY <1>3, <3>1, <4>1
      <4>3. <<path[i - 1], path[i - 1 + 1]>> \in edges
        BY <1>1, <4>2 DEF Descends, IsPath
      <4> QED
        BY <3>1, <4>1, <4>3
    <3> QED
      BY <3>2, <3>3
  <2>8. IsPath(path)'
    BY <1>2, <2>1, <2>3, <2>7 DEF IsPath
  <2>9. Rooted(d)'
    BY <1>1, <1>2, <1>3 DEF Descends, Rooted
  <2>10. Descends(d)'
    BY <1>1, <1>2, <1>3, <2>1, <2>3, <2>4, <2>6, <2>8, <2>9 DEF Descends
  <2> QED
    BY <2>1, <2>10 DEF SearchInv, PathShortest
<1> QED
  BY <1>5, <1>6

-----------------------------------------------------------------------------
(* Queues and orders without repetitions.                                  *)
LEMMA SeqWithin ==
    ASSUME NEW S, NEW T, S \subseteq T, NEW s \in Seq(S)
    PROVE  s \in Seq(T)
OBVIOUS

LEMMA TailDistinct ==
    ASSUME NEW S, NEW s \in Seq(S), s # << >>, Distinct(s)
    PROVE  /\ Tail(s) \in Seq(S) /\ Distinct(Tail(s))
           /\ Head(s) = s[1] /\ s[1] \in Range(s)
           /\ Range(Tail(s)) = Range(s) \ {s[1]}
<1> DEFINE n == Len(s) - 1
           t == Tail(s)
<1>1. n \in Nat /\ DOMAIN s = 1..(n + 1) /\ 1 \in DOMAIN s /\ Head(s) = s[1]
  OBVIOUS
<1>2. t \in Seq(S) /\ DOMAIN t = 1..n /\ \A i \in 1..n : t[i] = s[i + 1]
  OBVIOUS
<1> HIDE DEF t, n
<1>3. \A i \in 1..n : i \in Nat /\ i + 1 \in DOMAIN s /\ i + 1 # 1
  BY <1>1
<1>4. \A j \in DOMAIN s : j = 1 \/ (j - 1 \in 1..n /\ j - 1 + 1 = j)
  BY <1>1
<1>5. Distinct(t)
  <2> SUFFICES ASSUME NEW i \in 1..n, NEW j \in 1..n, t[i] = t[j] PROVE i = j
    BY <1>2 DEF Distinct
  <2>1. i + 1 = j + 1
    BY <1>2, <1>3 DEF Distinct
  <2> QED
    BY <1>3, <2>1
<1>6. Range(t) \subseteq Range(s) \ {s[1]}
  BY <1>1, <1>2, <1>3 DEF Range, Distinct
<1>7. ASSUME NEW x \in Range(s), x # s[1] PROVE x \in Range(t)
  <2>1. PICK j \in DOMAIN s : x = s[j]
    BY DEF Range
  <2>2. j - 1 \in DOMAIN t /\ t[j - 1] = x
    BY <1>2, <1>4, <1>7, <2>1
  <2> QED
    BY <2>2 DEF Range
<1> QED
  BY <1>1, <1>2, <1>5, <1>6, <1>7 DEF t, Range

LEMMA JoinDistinct ==
    ASSUME NEW S, NEW s \in Seq(S), NEW o \in Seq(S), Distinct(s), Distinct(o),
           Range(s) \cap Range(o) = {}
    PROVE  /\ s \o o \in Seq(S) /\ Distinct(s \o o) /\ Len(s \o o) = Len(s) + Len(o)
           /\ Range(s \o o) = Range(s) \cup Range(o)
           /\ \A i \in DOMAIN s : i \in DOMAIN (s \o o) /\ (s \o o)[i] = s[i]
           /\ \A i \in DOMAIN o : Len(s) + i \in DOMAIN (s \o o) /\ (s \o o)[Len(s) + i] = o[i]
<1> DEFINE t == s \o o
           m == Len(s)
           n == Len(o)
<1>1. m \in Nat /\ n \in Nat /\ DOMAIN s = 1..m /\ DOMAIN o = 1..n
  OBVIOUS
<1>2. t \in Seq(S) /\ Len(t) = m + n /\ DOMAIN t = 1..(m + n)
      /\ \A i \in 1..(m + n) : t[i] = IF i <= m THEN s[i] ELSE o[i - m]
  OBVIOUS
<1> HIDE DEF t, m, n
<1>3. \A i \in DOMAIN s : i \in DOMAIN t /\ t[i] = s[i]
  <2> TAKE i \in DOMAIN s
  <2>1. i \in 1..(m + n) /\ i <= m
    BY <1>1
  <2> QED
    BY <1>2, <2>1
<1>4. \A i \in DOMAIN o : m + i \in DOMAIN t /\ t[m + i] = o[i]
  <2> TAKE i \in DOMAIN o
  <2>1. m + i \in 1..(m + n) /\ ~(m + i <= m) /\ (m + i) - m = i
    BY <1>1
  <2> QED
    BY <1>2, <2>1
<1>5. \A i \in DOMAIN t : \/ i \in DOMAIN s /\ t[i] = s[i]
                          \/ \E k \in DOMAIN o : i = m + k /\ t[i] = o[k]
  <2> TAKE i \in DOMAIN t
  <2>1. i \in 1..(m + n)
    BY <1>2
  <2>2. CASE i <= m
    <3>1. i \in DOMAIN s
      BY <1>1, <2>1, <2>2
    <3> QED
      BY <1>3, <3>1
  <2>3. CASE ~(i <= m)
    <3>1. i - m \in DOMAIN o /\ i = m + (i - m)
      BY <1>1, <2>1, <2>3
    <3> QED
      BY <1>2, <2>1, <2>3, <3>1
  <2> QED
    BY <2>2, <2>3
<1>6. Range(t) = Range(s) \cup Range(o)
  BY <1>3, <1>4, <1>5 DEF Range
<1>7. Distinct(t)
  <2> SUFFICES ASSUME NEW i \in DOMAIN t, NEW j \in DOMAIN t, t[i] = t[j] PROVE i = j
    BY DEF Distinct
  <2>1. \A k \in DOMAIN s, l \in DOMAIN o : s[k] # o[l]
    BY DEF Range
  <2>2. CASE i \in DOMAIN s /\ t[i] = s[i]
    BY <1>5, <2>1, <2>2 DEF Distinct
  <2>3. CASE \E k \in DOMAIN o : i = m + k /\ t[i] = o[k]
    BY <1>5, <2>1, <2>3 DEF Distinct
  <2> QED
    BY <1>5, <2>2, <2>3
<1> QED
  BY <1>2, <1>3, <1>4, <1>6, <1>7 DEF t, m, n

(* No step moves the graph while something is computed on it.              *)
LEMMA SortBeginStep ==
    ASSUME Started, NEW r \in Roots, SortBegin(r)
    PROVE  Sorting' /\ Inside'
<1> DEFINE Z == {n \in DOMAIN indeg' : indeg'[n] = 0}
<1>1. /\ r \in Ids /\ root' = r /\ UNCHANGED <<edges, path>> /\ task' = "sort"
      /\ sorted' = << >> /\ path = << >>
      /\ indeg' = [n \in Scope' |-> Cardinality({e \in InScope(Scope)' : e[2] = n})]
      /\ queue' = InOrderOfId(Z)
  BY RootAssumption DEF SortBegin, Started, search, Scope, BlastRadius, Reachable, Succs, Closed, InScope
<1>2. Scope' \subseteq Ids /\ IsFiniteSet(Scope') /\ IsGraph'
  <2>1. IsGraph'
    BY <1>1 DEF Started, IsGraph
  <2>2. (IsGraph /\ root \in Ids => Scope \subseteq Ids /\ IsFiniteSet(Scope))'
    BY ScopeIs, PTL
  <2> QED
    BY <1>1, <2>1, <2>2
<1>3. \A n \in Scope' : Pending(n)' = {e \in InScope(Scope)' : e[2] = n}
  BY <1>1 DEF Pending, Range
<1>4. \A n \in Scope' : indeg'[n] = Cardinality(Pending(n)') /\ indeg'[n] \in Nat
  <2> TAKE n \in Scope'
  <2>1. Pending(n)' \in SUBSET (Ids \X Ids) /\ IsFiniteSet(Ids \X Ids)
    BY <1>2, IdAssumption, FS_Product DEF Pending, InScope, IsGraph
  <2>2. Cardinality(Pending(n)') \in Nat
    BY <2>1, FS_Subset, FS_CardinalityType
  <2> QED
    BY <1>1, <1>3, <2>2
<1>5. Z \in SUBSET Scope' /\ IsFiniteSet(Z) /\ Z \in SUBSET Nat
  <2>1. Z \in SUBSET Scope'
    BY <1>1
  <2> QED
    BY <1>2, <2>1, FS_Subset, IdAssumption
<1>6. queue' \in Seq(Z) /\ Range(queue') = Z /\ Distinct(queue')
  <2> HIDE DEF Z
  <2> QED
    BY <1>1, <1>5, OrderOfIdType, OrderType
<1>7. queue' \in Seq(Scope')
  <2> HIDE DEF Z
  <2> QED
    BY <1>5, <1>6, SeqWithin
<1>8. indeg' \in [Scope' -> Nat] /\ \A n \in Scope' : indeg'[n] = 0 <=> n \in Range(queue')
  BY <1>1, <1>4, <1>6
<1>9. /\ sorted' \in Seq(Scope') /\ Distinct(sorted') /\ Range(sorted') = {} /\ Ordered'
      /\ Range(path') = {}
  BY <1>1 DEF Distinct, Range, Ordered
<1>10. Range(queue') \subseteq Ids
  BY <1>2, <1>5, <1>6
<1>11. Sorting'
  BY <1>4, <1>6, <1>7, <1>8, <1>9 DEF Sorting, Distinct
<1> QED
  BY <1>9, <1>10, <1>11 DEF Inside

(* One round of Kahn's algorithm: taking cur removes its edges from those  *)
(* its successors wait for, and nothing else.                              *)
LEMMA SortStep ==
    ASSUME Started, Sorting, Sort
    PROVE  Sorting' /\ Inside'
<1> DEFINE cur == Head(queue)
           S == Scope
<1>1. /\ task = "sort" /\ queue # << >> /\ UNCHANGED <<edges, root, task, path>> /\ path = << >>
      /\ sorted' = Append(sorted, cur)
      /\ indeg' = [m \in DOMAIN indeg |-> IF m \in Succs(cur) THEN indeg[m] - 1 ELSE indeg[m]]
      /\ root \in Ids
  BY DEF Sort, args, search, Started
<1>2. /\ indeg \in [S -> Nat]
      /\ queue \in Seq(S) /\ sorted \in Seq(S)
      /\ Distinct(queue) /\ Distinct(sorted) /\ Range(queue) \cap Range(sorted) = {}
      /\ \A n \in S : indeg[n] = Cardinality(Pending(n))
      /\ \A n \in S : indeg[n] = 0 <=> n \in Range(queue) \cup Range(sorted)
      /\ Ordered
  BY <1>1 DEF Sorting
<1>3. /\ S \subseteq Ids /\ IsFiniteSet(S) /\ Scope' = S /\ InScope(S)' = InScope(S)
      /\ \A x \in S : Succs(x) \subseteq S
      /\ \A m, n : m \in Succs(n) <=> <<n, m>> \in edges
  <2>1. IsGraph
    BY DEF Started, IsGraph
  <2>2. Scope' = Scope /\ InScope(Scope)' = InScope(Scope)
    BY <1>1 DEF Scope, BlastRadius, Reachable, Succs, Closed, InScope
  <2> QED
    BY <1>1, <2>1, <2>2, ScopeIs, Neighbours
<1> HIDE DEF S
<1>4. /\ Tail(queue) \in Seq(S) /\ Distinct(Tail(queue)) /\ cur = queue[1] /\ cur \in Range(queue)
      /\ Range(Tail(queue)) = Range(queue) \ {cur}
  BY <1>1, <1>2, TailDistinct
<1> HIDE DEF cur
<1>5. \A i \in DOMAIN queue : queue[i] \in S
  BY <1>2
<1>6. cur \in S /\ cur \notin Range(sorted) /\ indeg[cur] = 0
  BY <1>2, <1>4, <1>5 DEF Range
<1>7. sorted' \in Seq(S) /\ Len(sorted') = Len(sorted) + 1 /\ sorted'[Len(sorted) + 1] = cur
      /\ (\A i \in DOMAIN sorted : i \in DOMAIN sorted' /\ sorted'[i] = sorted[i])
      /\ (\A i \in DOMAIN sorted' : i \in Nat /\ (i \in DOMAIN sorted \/ i = Len(sorted) + 1))
      /\ Range(sorted') = Range(sorted) \cup {cur} /\ Distinct(sorted')
  <2>1. /\ sorted' \in Seq(S) /\ Len(sorted') = Len(sorted) + 1 /\ sorted'[Len(sorted) + 1] = cur
        /\ Len(sorted) \in Nat /\ DOMAIN sorted = 1..Len(sorted)
        /\ DOMAIN sorted' = 1..(Len(sorted) + 1)
        /\ \A i \in 1..Len(sorted) : sorted'[i] = sorted[i]
    BY <1>1, <1>2, <1>6
  <2>2. \A i \in DOMAIN sorted : i \in DOMAIN sorted' /\ sorted'[i] = sorted[i]
    BY <2>1
  <2>3. \A i \in DOMAIN sorted' : i \in Nat /\ (i \in DOMAIN sorted \/ i = Len(sorted) + 1)
    BY <2>1
  <2>4. Len(sorted) + 1 \in DOMAIN sorted'
    BY <2>1
  <2>5. Range(sorted') = Range(sorted) \cup {cur}
    BY <2>1, <2>2, <2>3, <2>4 DEF Range
  <2>6. Distinct(sorted')
    <3> SUFFICES ASSUME NEW i \in DOMAIN sorted', NEW j \in DOMAIN sorted', sorted'[i] = sorted'[j]
                 PROVE  i = j
      BY DEF Distinct
    <3>1. \A k \in DOMAIN sorted : sorted'[k] = sorted[k] /\ sorted[k] # cur
      BY <1>6, <2>2 DEF Range
    <3>2. \A k, l \in DOMAIN sorted : sorted[k] = sorted[l] => k = l
      BY <1>2 DEF Distinct
    <3> QED
      BY <2>1, <2>3, <3>1, <3>2
  <2> QED
    BY <2>1, <2>2, <2>3, <2>5, <2>6
<1>8. \A n : IsFiniteSet(Pending(n)) /\ Cardinality(Pending(n)) \in Nat
  <2> TAKE n
  <2>1. Pending(n) \in SUBSET (Ids \X Ids) /\ IsFiniteSet(Ids \X Ids)
    BY IdAssumption, FS_Product DEF Pending, InScope, Started
  <2> QED
    BY <2>1, FS_Subset, FS_CardinalityType
<1>9. Pending(cur) = {}
  BY <1>2, <1>6, <1>8, FS_EmptySet
<1>10. \A e \in edges : e = <<e[1], e[2]>>
  <2>1. edges \subseteq Ids \X Ids
    BY DEF Started
  <2> QED
    BY <2>1
<1>11. cur \notin Succs(cur)
  <2> SUFFICES ASSUME <<cur, cur>> \in edges PROVE FALSE
    BY <1>3
  <2>1. <<cur, cur>> \in Pending(cur)
    BY <1>6 DEF Pending, InScope, S
  <2> QED
    BY <1>9, <2>1
<1>12. \A m \in S : IF m \in Succs(cur) THEN /\ <<cur, m>> \in Pending(m)
                                            /\ Pending(m)' = Pending(m) \ {<<cur, m>>}
                    ELSE Pending(m)' = Pending(m)
  <2> TAKE m \in S
  <2>1. Pending(m)' = {e \in Pending(m) : e[1] # cur}
    BY <1>3, <1>7 DEF Pending, S
  <2>2. \A e \in Pending(m) : e \in edges /\ e[2] = m /\ (e[1] = cur => e = <<cur, m>>)
    BY <1>10 DEF Pending, InScope
  <2>3. CASE m \in Succs(cur)
    <3>1. <<cur, m>> \in Pending(m)
      BY <1>3, <1>6, <2>3 DEF Pending, InScope, S
    <3>2. Pending(m)' = Pending(m) \ {<<cur, m>>}
      BY <2>1, <2>2
    <3> QED
      BY <2>3, <3>1, <3>2
  <2>4. CASE m \notin Succs(cur)
    <3>1. \A e \in Pending(m) : e[1] # cur
      BY <1>3, <2>2, <2>4
    <3> QED
      BY <2>1, <2>4, <3>1
  <2> QED
    BY <2>3, <2>4
<1>13. \A m \in S : indeg[m] \in Nat /\ indeg'[m] \in Nat /\ indeg'[m] = Cardinality(Pending(m)')
                    /\ IF m \in Succs(cur) THEN indeg[m] # 0 /\ indeg'[m] = indeg[m] - 1
                       ELSE indeg'[m] = indeg[m]
  <2> TAKE m \in S
  <2>1. indeg[m] = Cardinality(Pending(m)) /\ indeg[m] \in Nat
    BY <1>2
  <2>2. CASE m \in Succs(cur)
    <3>1. Cardinality(Pending(m)') = Cardinality(Pending(m)) - 1 /\ Cardinality(Pending(m)') \in Nat
      <4>1. Pending(m)' = Pending(m) \ {<<cur, m>>} /\ <<cur, m>> \in Pending(m)
        BY <1>12, <2>2
      <4>2. IsFiniteSet(Pending(m)')
        BY <1>8, <4>1, FS_RemoveElement
      <4> QED
        BY <1>8, <4>1, <4>2, FS_RemoveElement, FS_CardinalityType
    <3>2. indeg'[m] = indeg[m] - 1
      BY <1>1, <1>2, <2>2
    <3> QED
      BY <2>1, <2>2, <3>1, <3>2
  <2>3. CASE m \notin Succs(cur)
    BY <1>1, <1>2, <1>12, <2>1, <2>3
  <2> QED
    BY <2>2, <2>3
<1>14. indeg' \in [S -> Nat]
  BY <1>1, <1>2, <1>13
<1> DEFINE R == Ready(cur)
<1>15. R \in SUBSET S /\ IsFiniteSet(R) /\ R \cap (Range(queue) \cup Range(sorted)) = {}
       /\ \A m \in S : m \in R <=> m \in Succs(cur) /\ indeg[m] = 1
  <2>1. R \in SUBSET S /\ \A m \in S : m \in R <=> m \in Succs(cur) /\ indeg[m] = 1
    BY <1>3, <1>6 DEF Ready
  <2>2. IsFiniteSet(R)
    BY <1>3, <2>1, FS_Subset
  <2>3. \A m \in R : indeg[m] # 0
    BY <2>1
  <2> QED
    BY <1>2, <2>1, <2>2, <2>3
<1>16. PICK o \in Orders(R) : queue' = Tail(queue) \o o
  BY DEF Sort, cur
<1> HIDE DEF R
<1>17. o \in Seq(S) /\ Range(o) = R /\ Distinct(o)
  <2>1. o \in Seq(R) /\ Range(o) = R /\ Distinct(o)
    BY <1>15, <1>16, OrderType
  <2> QED
    BY <1>15, <2>1, SeqWithin
<1>18. queue' \in Seq(S) /\ Distinct(queue') /\ Range(queue') = (Range(queue) \ {cur}) \cup R
  <2> DEFINE left == Tail(queue)
  <2>1. /\ left \in Seq(S) /\ Distinct(left) /\ Range(left) = Range(queue) \ {cur}
        /\ queue' = left \o o
    BY <1>4, <1>16
  <2> HIDE DEF left
  <2>2. Range(left) \cap Range(o) = {}
    BY <1>15, <1>17, <2>1
  <2>3. queue' \in Seq(S) /\ Distinct(queue') /\ Range(queue') = Range(left) \cup Range(o)
    BY <1>17, <2>1, <2>2, JoinDistinct
  <2> QED
    BY <1>17, <2>1, <2>3
<1>19. \A n \in S : indeg'[n] = 0 <=> n \in Range(queue') \cup Range(sorted')
  <2> TAKE n \in S
  <2>1. n \in Range(queue') \cup Range(sorted') <=> n \in Range(queue) \cup Range(sorted) \cup R
    BY <1>4, <1>7, <1>18
  <2>2. n \in Range(queue) \cup Range(sorted) <=> indeg[n] = 0
    BY <1>2
  <2>3. n \in R <=> n \in Succs(cur) /\ indeg[n] = 1
    BY <1>15
  <2>4. indeg'[n] = 0 <=> indeg[n] = 0 \/ (n \in Succs(cur) /\ indeg[n] = 1)
    BY <1>13
  <2> QED
    BY <2>1, <2>2, <2>3, <2>4
<1>20. Range(queue') \cap Range(sorted') = {}
  BY <1>2, <1>6, <1>7, <1>11, <1>15, <1>18 
<1>21. Ordered'
  <2> SUFFICES ASSUME NEW j \in DOMAIN sorted', NEW p \in Preds(sorted'[j]) \cap S
               PROVE  \E i \in 1..(j - 1) : sorted'[i] = p
    BY <1>1, <1>3 DEF Ordered, Preds
  <2>1. <<p, sorted'[j]>> \in edges
    BY <1>10 DEF Preds
  <2>2. CASE j \in DOMAIN sorted
    <3>1. sorted'[j] = sorted[j]
      BY <1>7, <2>2
    <3>2. PICK i \in 1..(j - 1) : sorted[i] = p
      BY <1>2, <2>1, <2>2, <3>1 DEF Ordered, S
    <3>3. i \in DOMAIN sorted
      BY <1>2, <2>2, <3>2
    <3> QED
      BY <1>7, <3>2, <3>3
  <2>3. CASE j = Len(sorted) + 1
    <3>1. p \in Range(sorted)
      <4>1. sorted'[j] = cur
        BY <1>7, <2>3
      <4>2. <<p, cur>> \in InScope(Scope)
        BY <1>6, <2>1, <4>1 DEF InScope, S
      <4> QED
        BY <1>9, <4>2 DEF Pending
    <3>2. PICK i \in DOMAIN sorted : sorted[i] = p
      BY <3>1 DEF Range
    <3>3. i \in 1..(j - 1)
      BY <1>2, <2>3, <3>2
    <3> QED
      BY <1>7, <3>2, <3>3
  <2> QED
    BY <1>7, <2>2, <2>3
<1>22. Range(queue') \subseteq Ids /\ Range(path') \subseteq Ids
  <2>1. \A i \in DOMAIN queue' : queue'[i] \in S
    BY <1>18
  <2> QED
    BY <1>1, <1>3, <2>1 DEF Range
<1> QED
  BY <1>3, <1>7, <1>13, <1>14, <1>18, <1>19, <1>20, <1>21, <1>22 DEF Sorting, Inside, S

(* The end of the sort: what no round took is appended.  Each of those     *)
(* nodes still waits for another of them, so there is a cycle.             *)
LEMMA SortEndStep ==
    ASSUME Started, Sorting, SortEnd
    PROVE  Sorted' /\ Inside'
<1> DEFINE S == Scope
           R == S \ Range(sorted)
           o == InOrderOfId(R)
<1>1. /\ task = "sort" /\ task' = "sorted" /\ queue = << >> /\ path = << >>
      /\ UNCHANGED <<edges, root, queue, path, indeg>>
      /\ sorted' = sorted \o InOrderOfId(DOMAIN indeg \ Range(sorted))
      /\ root \in Ids
  BY DEF SortEnd, args, search, Started
<1>2. /\ indeg \in [S -> Nat] /\ sorted \in Seq(S) /\ Distinct(sorted)
      /\ \A n \in S : indeg[n] = Cardinality(Pending(n))
      /\ \A n \in S : indeg[n] = 0 <=> n \in Range(queue) \cup Range(sorted)
      /\ Ordered
  BY <1>1 DEF Sorting
<1>3. IsGraph
  BY DEF Started, IsGraph
<1>4. /\ S \subseteq Ids /\ IsFiniteSet(S) /\ Scope' = S
      /\ \A x \in S : OnCycle(x)' <=> OnCycle(x)
  <2>1. Scope' = Scope
    BY <1>1 DEF Scope, BlastRadius, Reachable, Succs, Closed
  <2>2. \A x \in S : OnCycle(x)' <=> OnCycle(x)
    BY <1>1 DEF OnCycle, BlastRadius, Reachable, Succs, Closed
  <2> QED
    BY <1>1, <1>3, <2>1, <2>2, ScopeIs
<1> HIDE DEF S
<1>5. sorted' = sorted \o o
  BY <1>1, <1>2
<1>6. R \in SUBSET S /\ R \in SUBSET Ids /\ IsFiniteSet(R) /\ R \in SUBSET Nat
      /\ Range(sorted) \cap R = {}
  <2>1. R \in SUBSET S
    OBVIOUS
  <2> QED
    BY <1>4, <2>1, FS_Subset, IdAssumption
<1>7. \A i \in DOMAIN sorted : sorted[i] \in S
  BY <1>2
<1>8. Range(sorted) \cup R = S
  BY <1>7 DEF Range
<1> HIDE DEF R
<1>9. o \in Orders(R)
  BY <1>6, OrderOfIdType
<1> HIDE DEF o
<1>10. o \in Seq(S) /\ Len(o) = Cardinality(R) /\ Range(o) = R /\ Distinct(o)
  <2>1. o \in Seq(R) /\ Len(o) = Cardinality(R) /\ Range(o) = R /\ Distinct(o)
    BY <1>6, <1>9, OrderType
  <2> QED
    BY <1>6, <2>1, SeqWithin
<1>11. sorted' \in Seq(S) /\ Distinct(sorted') /\ Range(sorted') = S
  <2>1. Range(sorted) \cap Range(o) = {} /\ Range(sorted) \cup Range(o) = S
    BY <1>6, <1>8, <1>10
  <2>2. /\ sorted \o o \in Seq(S) /\ Distinct(sorted \o o)
        /\ Range(sorted \o o) = Range(sorted) \cup Range(o)
    BY <1>2, <1>10, <2>1, JoinDistinct
  <2> QED
    BY <1>5, <2>1, <2>2
<1>12. ASSUME \A c \in S : ~OnCycle(c) PROVE R = {}
  <2> SUFFICES ASSUME R # {} PROVE FALSE
    OBVIOUS
  <2>1. ASSUME NEW n \in R PROVE \E m \in R : <<m, n>> \in edges
    <3>1. n \in S /\ n \notin Range(sorted)
      BY DEF R
    <3>2. Cardinality(Pending(n)) # 0
      BY <1>1, <1>2, <3>1 DEF Range
    <3>3. PICK e \in Pending(n) : TRUE
      BY <3>2, FS_EmptySet
    <3>4. e \in edges /\ e[1] \in S /\ e[1] \notin Range(sorted) /\ e[2] = n
      BY <3>3 DEF Pending, InScope, S
    <3>5. e = <<e[1], n>>
      <4>1. edges \subseteq Ids \X Ids
        BY <1>3 DEF IsGraph
      <4> QED
        BY <3>4, <4>1
    <3> QED
      BY <3>4, <3>5 DEF R
  <2>2. \E c \in R : OnCycle(c)
    BY <1>3, <1>6, <2>1, SomeCycle
  <2> QED
    BY <1>6, <1>12, <2>2
<1>13. ASSUME Acyclic' PROVE Ordered'
  <2>1. \A c \in S : ~OnCycle(c)
    BY <1>4, <1>13 DEF Acyclic
  <2>2. R = {}
    BY <1>12, <2>1
  <2>3. o \in Seq({})
    BY <1>6, <1>9, <2>2, OrderType
  <2>4. o = << >>
    BY <2>3
  <2>5. sorted' = sorted
    BY <1>2, <1>5, <2>4
  <2>6. \A j \in DOMAIN sorted : \A p \in Preds(sorted[j]) \cap S :
            \E i \in 1..(j - 1) : sorted[i] = p
    BY <1>2 DEF Ordered, S
  <2> SUFFICES ASSUME NEW j \in DOMAIN sorted', NEW p \in Preds(sorted'[j]) \cap S
               PROVE  \E i \in 1..(j - 1) : sorted'[i] = p
    BY <1>1, <1>4 DEF Ordered, Preds
  <2> QED
    BY <2>5, <2>6
<1>14. Range(queue') \subseteq Ids /\ Range(path') \subseteq Ids
  BY <1>1 DEF Range
<1> QED
  BY <1>1, <1>2, <1>4, <1>11, <1>13, <1>14 DEF Sorted, Inside

-----------------------------------------------------------------------------
(* The preview takes the root first and leaves the others in their order:  *)
(* its i-th node is the one sorted at this place, if the root is at r.     *)
Place(i, r) == IF i = 1 THEN r ELSE IF i <= r THEN i - 1 ELSE i

LEMMA ReplayOrderIs ==
    ASSUME NEW S, sorted \in Seq(S), Distinct(sorted), root \in Range(sorted)
    PROVE  /\ ReplayOrder \in Seq(S) /\ Len(ReplayOrder) = Len(sorted) /\ Len(sorted) \in Nat
           /\ \E r \in DOMAIN sorted :
                 /\ sorted[r] = root
                 /\ \A i \in DOMAIN ReplayOrder :
                       Place(i, r) \in DOMAIN sorted /\ ReplayOrder[i] = sorted[Place(i, r)]
<1> DEFINE r == CHOOSE i \in DOMAIN sorted : sorted[i] = root
           n == Len(sorted)
           t == RemoveAt(sorted, r)
           a == SubSeq(sorted, 1, r - 1)
           b == SubSeq(sorted, r + 1, n)
<1>1. r \in DOMAIN sorted /\ sorted[r] = root
  BY DEF Range
<1>2. n \in Nat /\ DOMAIN sorted = 1..n /\ \A i \in 1..n : sorted[i] \in S
  OBVIOUS
<1>3. ReplayOrder = <<root>> \o t /\ t = a \o b
  BY DEF ReplayOrder, RemoveAt
<1> HIDE DEF r, t
<1>4. r \in Int /\ 1 <= r /\ r <= n /\ root \in S
  BY <1>1, <1>2
<1>5. a \in Seq(S) /\ Len(a) = r - 1 /\ \A i \in 1..(r - 1) : a[i] = sorted[i]
  BY <1>2, <1>4
<1>6. b \in Seq(S) /\ Len(b) = n - r /\ \A i \in 1..(n - r) : b[i] = sorted[r + i]
  <2>1. r + 1 \in 1..(n + 1) /\ n - (r + 1) + 1 = n - r /\ n - r \in Nat
    BY <1>2, <1>4
  <2>2. b = [i \in 1..(n - (r + 1) + 1) |-> sorted[i + (r + 1) - 1]]
    BY <1>2, <1>4
  <2>3. \A i \in 1..(n - r) : i + (r + 1) - 1 = r + i /\ r + i \in 1..n
    BY <1>2, <1>4
  <2> HIDE DEF b
  <2>4. b = [i \in 1..(n - r) |-> sorted[r + i]]
    BY <2>1, <2>2, <2>3
  <2> QED
    BY <1>2, <2>1, <2>3, <2>4
<1> HIDE DEF a, b, n
<1>7. t \in Seq(S) /\ Len(t) = n - 1
      /\ \A i \in 1..(n - 1) : t[i] = IF i < r THEN sorted[i] ELSE sorted[i + 1]
  <2>1. t \in Seq(S) /\ Len(t) = (r - 1) + (n - r)
        /\ \A i \in 1..((r - 1) + (n - r)) : t[i] = IF i <= r - 1 THEN a[i] ELSE b[i - (r - 1)]
    BY <1>3, <1>5, <1>6
  <2>2. (r - 1) + (n - r) = n - 1
    BY <1>2, <1>4
  <2>3. ASSUME NEW i \in 1..(n - 1) PROVE t[i] = IF i < r THEN sorted[i] ELSE sorted[i + 1]
    <3>1. CASE i < r
      <4>1. i \in 1..(r - 1) /\ i <= r - 1
        BY <1>2, <1>4, <3>1
      <4> QED
        BY <1>5, <2>1, <2>2, <3>1, <4>1
    <3>2. CASE ~(i < r)
      <4>1. i - (r - 1) \in 1..(n - r) /\ ~(i <= r - 1) /\ r + (i - (r - 1)) = i + 1
        BY <1>2, <1>4, <3>2
      <4> QED
        BY <1>6, <2>1, <2>2, <3>2, <4>1
    <3> QED
      BY <3>1, <3>2
  <2> QED
    BY <2>1, <2>2, <2>3
<1>8. /\ ReplayOrder \in Seq(S) /\ Len(ReplayOrder) = n /\ DOMAIN ReplayOrder = 1..n
      /\ \A i \in 1..n : ReplayOrder[i] = IF i = 1 THEN root ELSE t[i - 1]
  <2>1. <<root>> \in Seq(S) /\ Len(<<root>>) = 1 /\ <<root>>[1] = root
    BY <1>4
  <2> DEFINE u == <<root>>
  <2> HIDE DEF u
  <2>2. /\ u \o t \in Seq(S) /\ Len(u \o t) = 1 + (n - 1) /\ DOMAIN (u \o t) = 1..(1 + (n - 1))
        /\ \A i \in 1..(1 + (n - 1)) : (u \o t)[i] = IF i <= 1 THEN u[i] ELSE t[i - 1]
    BY <1>7, <2>1 DEF u
  <2>3. 1 + (n - 1) = n /\ \A i \in 1..n : i <= 1 <=> i = 1
    BY <1>2
  <2> QED
    BY <1>3, <2>1, <2>2, <2>3 DEF u
<1>9. ASSUME NEW i \in 1..n
      PROVE  Place(i, r) \in 1..n /\ ReplayOrder[i] = sorted[Place(i, r)]
  <2>1. CASE i = 1
    BY <1>1, <1>2, <1>8, <2>1 DEF Place
  <2>2. CASE i # 1
    <3>1. i - 1 \in 1..(n - 1) /\ (i - 1) + 1 = i /\ (i - 1 < r <=> i <= r) /\ i - 1 \in 1..n
      BY <1>2, <1>4, <2>2
    <3> QED
      BY <1>7, <1>8, <2>2, <3>1 DEF Place
  <2> QED
    BY <2>1, <2>2
<1> QED
  BY <1>1, <1>2, <1>8, <1>9 DEF n

(* It takes every node in scope once, the first ones being one more with   *)
(* each step.                                                              *)
LEMMA ReplayOrderOnce ==
    ASSUME NEW S, sorted \in Seq(S), Distinct(sorted), root \in Range(sorted)
    PROVE  Distinct(ReplayOrder) /\ Range(ReplayOrder) = Range(sorted)
<1>1. PICK r \in DOMAIN sorted :
          \A i \in DOMAIN ReplayOrder : Place(i, r) \in DOMAIN sorted
                                        /\ ReplayOrder[i] = sorted[Place(i, r)]
  BY ReplayOrderIs
<1>2. DOMAIN sorted = 1..Len(sorted) /\ DOMAIN ReplayOrder = 1..Len(sorted) /\ Len(sorted) \in Nat
  <2>1. ReplayOrder \in Seq(S) /\ Len(ReplayOrder) = Len(sorted)
    BY ReplayOrderIs
  <2> QED
    BY <2>1
<1>3. \A i, j \in 1..Len(sorted) : Place(i, r) = Place(j, r) => i = j
  BY <1>2 DEF Place
<1>4. Distinct(ReplayOrder)
  BY <1>1, <1>2, <1>3 DEF Distinct
<1>5. \A j \in 1..Len(sorted) : \E i \in 1..Len(sorted) : Place(i, r) = j
  <2> TAKE j \in 1..Len(sorted)
  <2>1. CASE j = r
    <3>1. Place(1, r) = j /\ 1 \in 1..Len(sorted)
      BY <1>2, <2>1 DEF Place
    <3> QED
      BY <3>1
  <2>2. CASE j < r
    <3>1. Place(j + 1, r) = j /\ j + 1 \in 1..Len(sorted)
      BY <1>2, <2>2 DEF Place
    <3> QED
      BY <3>1
  <2>3. CASE j > r
    <3>1. Place(j, r) = j
      BY <1>2, <2>3 DEF Place
    <3> QED
      BY <3>1
  <2> QED
    BY <1>2, <2>1, <2>2, <2>3
<1>6. /\ Range(ReplayOrder) = {ReplayOrder[i] : i \in 1..Len(sorted)}
      /\ Range(sorted) = {sorted[i] : i \in 1..Len(sorted)}
  BY <1>2 DEF Range
<1>7. \A i \in 1..Len(sorted) : /\ Place(i, r) \in 1..Len(sorted)
                                /\ ReplayOrder[i] = sorted[Place(i, r)]
  BY <1>1, <1>2
<1>8. Range(ReplayOrder) = Range(sorted)
  <2>1. \A i \in 1..Len(sorted) : ReplayOrder[i] \in Range(sorted)
    BY <1>6, <1>7
  <2>2. \A j \in 1..Len(sorted) : sorted[j] \in Range(ReplayOrder)
    BY <1>5, <1>6, <1>7
  <2> QED
    BY <1>6, <2>1, <2>2
<1> QED
  BY <1>4, <1>8

LEMMA OrderIs ==
    ASSUME Started, Sorted, task = "sorted"
    PROVE  /\ ReplayOrder \in Seq(Scope) /\ Len(ReplayOrder) = Len(sorted) /\ Len(sorted) \in Nat
           /\ Distinct(ReplayOrder) /\ Range(ReplayOrder) = Scope
           /\ DOMAIN ReplayOrder = 1..Len(sorted)
<1>1. sorted \in Seq(Scope) /\ Distinct(sorted) /\ Range(sorted) = Scope /\ root \in Range(sorted)
  BY DEF Sorted, Scope
<1>2. /\ ReplayOrder \in Seq(Scope) /\ Len(ReplayOrder) = Len(sorted) /\ Len(sorted) \in Nat
  BY <1>1, ReplayOrderIs
<1>3. Distinct(ReplayOrder) /\ Range(ReplayOrder) = Scope
  BY <1>1, ReplayOrderOnce
<1> QED
  BY <1>2, <1>3

LEMMA FirstOnes ==
    ASSUME NEW S, NEW o \in Seq(S), Distinct(o), NEW k \in 0..Len(o)
    PROVE  Cardinality({o[i] : i \in 1..k}) = k
<1> DEFINE T == {o[i] : i \in 1..k}
           f == [i \in 1..k |-> o[i]]
<1>1. k \in Nat /\ \A i \in 1..k : i \in DOMAIN o
  OBVIOUS
<1>2. f \in Bijection(1..k, T)
  <2>1. f \in [1..k -> T]
    OBVIOUS
  <2>2. \A i, j \in 1..k : f[i] = f[j] => i = j
    BY <1>1 DEF Distinct
  <2>3. \A x \in T : \E i \in 1..k : f[i] = x
    OBVIOUS
  <2> HIDE DEF f, T
  <2> QED
    BY <2>1, <2>2, <2>3 DEF Bijection, Injection, IsInjective, Surjection
<1>3. IsFiniteSet(1..k) /\ Cardinality(1..k) = k
  BY <1>1, FS_Interval
<1> HIDE DEF f, T
<1>4. Cardinality(T) = k
  <2>1. f \in Surjection(1..k, T) /\ f \in Injection(1..k, T)
    BY <1>2 DEF Bijection
  <2> QED
    BY <1>3, <2>1, FS_Surjection
<1> QED
  BY <1>4 DEF T

LEMMA OrderLength ==
    ASSUME Started, Sorted, task = "sorted"
    PROVE  Len(ReplayOrder) \in Nat
BY OrderIs

LEMMA PreviewBegin ==
    ASSUME Started, SortEnd, UNCHANGED <<data, judged>>, Started', Sorted'
    PROVE  Previewing'
<1>1. corrected' = << >> /\ after' = {} /\ task' = "sorted"
  BY DEF Started, SortEnd, judged
<1>2. Len(ReplayOrder') \in Nat
  <2>1. (Started /\ Sorted /\ task = "sorted" => Len(ReplayOrder) \in Nat)'
    BY OrderLength, PTL
  <2> QED
    BY <1>1, <2>1
<1>3. 0 \in 0..Len(ReplayOrder') /\ DOMAIN corrected' = {ReplayOrder'[i] : i \in 1..0}
  BY <1>1, <1>2
<1> QED
  BY <1>1, <1>3 DEF Previewing

(* A step of the preview judges the next node of the order again.          *)
LEMMA RejudgeStep ==
    ASSUME Started, Sorted, Inside, Previewing, Rejudge
    PROVE  Sorted' /\ Inside' /\ Previewing'
<1> DEFINE n == NextNode
           o == ReplayOrder
<1>1. /\ task = "sorted" /\ UNCHANGED <<edges, root, task, queue, path, indeg, sorted, carries, calls>>
      /\ Cardinality(DOMAIN corrected) < Len(o)
      /\ corrected' = [m \in DOMAIN corrected \cup {n} |->
                         IF m = n THEN PassedOn(n) ELSE corrected[m]]
      /\ after' = IF Clean(n) # {} \/ n \in calls THEN after \cup {n} ELSE after
  BY DEF Rejudge, args, search, sort, data
<1>2. Sorted' /\ Inside'
  <2>1. Scope' = Scope /\ (Acyclic' <=> Acyclic)
    BY <1>1 DEF Acyclic, OnCycle, Scope, BlastRadius, Reachable, Succs, Closed
  <2>2. Ordered' <=> Ordered
    BY <1>1, <2>1 DEF Ordered, Preds
  <2> QED
    BY <1>1, <2>1, <2>2 DEF Sorted, Inside, Distinct, Range
<1>3. /\ o \in Seq(Scope) /\ Len(o) \in Nat /\ Distinct(o)
  BY <1>1, OrderIs
<1>4. o' = o /\ Scope' = Scope /\ \A m : Clean(m)' = Clean(m)
  <2>1. o' = o
    BY <1>1 DEF ReplayOrder
  <2>2. Scope' = Scope
    BY <1>1 DEF Scope, BlastRadius, Reachable, Succs, Closed
  <2>3. \A m : Clean(m)' = Clean(m)
    BY <1>1 DEF Clean, OwnFault, Inherited, Intrinsic, Upstream, Preds
  <2> QED
    BY <2>1, <2>2, <2>3
<1>5. PICK k \in 0..Len(o) : DOMAIN corrected = {o[i] : i \in 1..k}
  BY <1>1 DEF Previewing
<1>6. k < Len(o) /\ n = o[k + 1]
  <2>1. Cardinality(DOMAIN corrected) = k
    BY <1>3, <1>5, FirstOnes
  <2> QED
    BY <1>1, <2>1 DEF NextNode
<1> HIDE DEF n, o
<1>7. k \in Nat /\ k + 1 \in 0..Len(o) /\ k + 1 \in DOMAIN o /\ n \in Scope
  BY <1>3, <1>5, <1>6
<1>8. DOMAIN corrected' = {o[i] : i \in 1..(k + 1)}
  <2>1. DOMAIN corrected' = DOMAIN corrected \cup {n}
    BY <1>1
  <2>2. \A i \in 1..(k + 1) : i \in 1..k \/ i = k + 1
    BY <1>7
  <2>3. \A i \in 1..k : i \in 1..(k + 1)
    BY <1>7
  <2>4. k + 1 \in 1..(k + 1)
    BY <1>7
  <2> QED
    BY <1>5, <1>6, <2>1, <2>2, <2>3, <2>4
<1>9. DOMAIN corrected' = DOMAIN corrected \cup {n} /\ after \subseteq after' /\ after' \subseteq after \cup {n}
      /\ (n \in after' \/ (Clean(n) = {} /\ n \notin calls))
  BY <1>1
<1>10. /\ DOMAIN corrected \subseteq Scope /\ after \subseteq DOMAIN corrected
       /\ \A m \in DOMAIN corrected : m \in after \/ (Clean(m) = {} /\ m \notin calls)
  BY <1>1 DEF Previewing
<1>11. \A m \in DOMAIN corrected' : m \in after' \/ (Clean(m) = {} /\ m \notin calls)
  BY <1>9, <1>10
<1>12. DOMAIN corrected' \subseteq Scope /\ after' \subseteq DOMAIN corrected'
  BY <1>7, <1>9, <1>10
<1>13. \E l \in 0..Len(o') : DOMAIN corrected' = {o'[i] : i \in 1..l}
  BY <1>4, <1>7, <1>8
<1> QED
  BY <1>1, <1>2, <1>4, <1>11, <1>12, <1>13 DEF Previewing, o

-----------------------------------------------------------------------------
(* The inductive invariant and the theorems.                               *)
LEMMA SearchInside ==
    ASSUME Started, Inside, SearchInv, SearchInv',
           \/ \E r \in Roots, t \in Ids : PathBegin(r, t)
           \/ Search \/ SearchEnd \/ WalkBack
    PROVE  Inside'
<1>1. CASE \E r \in Roots, t \in Ids : PathBegin(r, t)
  <2>1. PICK r \in Roots, t \in Ids : PathBegin(r, t)
    BY <1>1
  <2>2. r \in Ids /\ Range(<<r>>) = {r}
    BY RootAssumption DEF Range
  <2>3. queue' \in {queue, <<r>>} /\ path' \in {path, <<r>>}
    <3>1. queue = << >> /\ path = << >>
      BY <2>1 DEF PathBegin, Started
    <3> QED
      BY <2>1, <3>1 DEF PathBegin
  <2> QED
    BY <2>2, <2>3 DEF Inside
<1>2. CASE Search
  <2>1. task' = "search" /\ path' = path
    BY <1>2 DEF Search
  <2>2. PICK d : Layers(d)'
    BY <2>1 DEF SearchInv
  <2>3. queue' \in Seq(Seen') /\ Seen' \subseteq Ids
    BY <2>2 DEF Layers, Rooted
  <2>4. \A i \in DOMAIN queue' : queue'[i] \in Ids
    BY <2>3
  <2>5. Range(queue') \subseteq Ids
    BY <2>4 DEF Range
  <2> QED
    BY <2>1, <2>5 DEF Inside
<1>3. CASE SearchEnd
  <2>1. PICK d : Layers(d)
    BY <1>3 DEF SearchEnd, SearchInv
  <2>2. queue' = queue /\ (path' = << >> \/ (path' = <<target>> /\ target \in Seen))
    BY <1>3 DEF SearchEnd
  <2>3. Seen \subseteq Ids
    BY <2>1 DEF Layers, Rooted
  <2>4. Range(path') \subseteq Ids
    BY <2>2, <2>3 DEF Range
  <2> QED
    BY <2>2, <2>4 DEF Inside
<1>4. CASE WalkBack
  <2>1. queue' = queue /\ (path' = path \/ task' = "walk back")
    BY <1>4 DEF WalkBack
  <2>2. ASSUME task' = "walk back" PROVE Range(path') \subseteq Ids
    <3>1. PICK d : Descends(d)'
      BY <2>2 DEF SearchInv
    <3>2. path' \in Seq(Seen') /\ Seen' \subseteq Ids
      BY <3>1 DEF Descends, Rooted
    <3>3. \A i \in DOMAIN path' : path'[i] \in Ids
      BY <3>2
    <3> QED
      BY <3>3 DEF Range
  <2> QED
    BY <2>1, <2>2 DEF Inside
<1> QED
  BY <1>1, <1>2, <1>3, <1>4

LEMMA NextIInv == IInv /\ [Next]_vars => IInv'
<1> SUFFICES ASSUME IInv, [Next]_vars PROVE IInv'
  OBVIOUS
<1> USE DEF IInv
<1>0. Started'
  BY NextStarted
<1>1. CASE \/ \E r \in Roots, t \in Ids : PathBegin(r, t)
           \/ Search \/ SearchEnd \/ WalkBack
  <2>1. SearchInv' /\ PathShortest'
    BY <1>1, BeginSearch, SearchStep, SearchEndStep, WalkBackStep
  <2>2. Inside'
    BY <1>1, <2>1, SearchInside
  <2>3. task' \notin {"sort", "sorted"}
    BY <1>1 DEF PathBegin, Search, SearchEnd, WalkBack
  <2> QED
    BY <1>0, <2>1, <2>2, <2>3 DEF Sorting, Sorted, Previewing
<1>2. CASE (\E r \in Roots : SortBegin(r)) \/ Sort
  <2>1. task' = "sort"
    BY <1>2 DEF SortBegin, Sort
  <2>2. Sorting' /\ Inside'
    BY <1>2, SortBeginStep, SortStep
  <2> QED
    BY <1>0, <2>1, <2>2 DEF SearchInv, PathShortest, Sorted, Previewing
<1>3. CASE SortEnd /\ UNCHANGED <<data, judged>>
  <2>1. task' = "sorted"
    BY <1>3 DEF SortEnd
  <2>2. Sorted' /\ Inside'
    BY <1>3, SortEndStep
  <2>3. Previewing'
    BY <1>0, <1>3, <2>2, PreviewBegin
  <2> QED
    BY <1>0, <2>1, <2>2, <2>3 DEF SearchInv, PathShortest, Sorting
<1>4. CASE Rejudge
  <2>1. task' = "sorted"
    BY <1>4 DEF Rejudge
  <2>2. Sorted' /\ Inside' /\ Previewing'
    BY <1>4, RejudgeStep
  <2> QED
    BY <1>0, <2>1, <2>2 DEF SearchInv, PathShortest, Sorting
<1>5. CASE UNCHANGED vars
  <2>1. UNCHANGED <<edges, task, root, target, queue, prev, path, indeg, sorted, carries, calls, corrected, after>>
    BY <1>5 DEF vars, args, search, sort, data, judged
  <2>2. Inside' /\ SearchInv'
    BY <2>1 DEF Inside, SearchInv, Layers, Descends, Rooted, Seen, Succs, Paths, IsPath
  <2>3. PathShortest'
    BY <2>1 DEF PathShortest, Paths, IsPath
  <2>4. /\ Scope' = Scope /\ (Acyclic' <=> Acyclic) /\ (Ordered' <=> Ordered)
        /\ \A n : Pending(n)' = Pending(n)
    BY <2>1 DEF Acyclic, OnCycle, Ordered, Preds, Pending, InScope,
                Scope, BlastRadius, Reachable, Succs, Closed
  <2>5. Sorting' /\ Sorted'
    BY <2>1, <2>4 DEF Sorting, Sorted
  <2>6. ReplayOrder' = ReplayOrder /\ \A m : Clean(m)' = Clean(m)
    BY <2>1 DEF ReplayOrder, Clean, OwnFault, Inherited, Intrinsic, Upstream, Preds
  <2>7. ASSUME task = "sorted"
        PROVE  \A n \in DOMAIN corrected' : n \in after' \/ (Clean(n)' = {} /\ n \notin calls')
    BY <2>1, <2>6, <2>7 DEF Previewing
  <2>8. ASSUME task = "sorted"
        PROVE  \E k \in 0..Len(ReplayOrder') : DOMAIN corrected' = {ReplayOrder'[i] : i \in 1..k}
    <3>1. PICK k \in 0..Len(ReplayOrder) : DOMAIN corrected = {ReplayOrder[i] : i \in 1..k}
      BY <2>8 DEF Previewing
    <3>2. DOMAIN corrected' = {ReplayOrder'[i] : i \in 1..k} /\ k \in 0..Len(ReplayOrder')
      BY <2>1, <2>6, <3>1
    <3> QED
      BY <3>2
  <2>9. Previewing'
    BY <2>1, <2>4, <2>7, <2>8 DEF Previewing
  <2> QED
    BY <1>0, <2>2, <2>3, <2>5, <2>9
<1> QED
  BY <1>1, <1>2, <1>3, <1>4, <1>5 DEF Next

(* IInv holds in every state of the queries of store.py and of the preview *)
(* in replay.py, for any finite graph.                                     *)
THEOREM ReplayInvariant == Spec => []IInv
BY InitIInv, NextIInv, PTL DEF Spec

LEMMA ScopeFacts ==
    ASSUME IInv, task # "idle"
    PROVE  /\ IsGraph /\ Scope \subseteq Ids /\ IsFiniteSet(Scope) /\ root \in Scope
           /\ \A x \in Scope \ {root} : x \in Reachable(root)
<1>1. IsGraph /\ root \in Ids
  BY DEF IInv, Started, IsGraph
<1> QED
  BY <1>1, ScopeIs

LEMMA NotMore ==
    ASSUME NEW S \in SUBSET Ids, sorted \in Seq(S), Distinct(sorted)
    PROVE  Len(sorted) <= Cardinality(Ids)
<1> DEFINE n == Len(sorted)
           T == {sorted[i] : i \in 1..n}
<1>1. n \in 0..n /\ \A i \in 1..n : sorted[i] \in S
  OBVIOUS
<1>2. Cardinality(T) = n
  BY <1>1, FirstOnes
<1>3. T \in SUBSET Ids
  BY <1>1
<1> HIDE DEF T
<1> QED
  BY <1>2, <1>3, IdAssumption, FS_Subset

(* The variables stay in their types, for any finite set of nodes, links   *)
(* and entities: nothing outside the graph is queued, sorted or judged.    *)
THEOREM ReplayTypeOK == Spec => []TypeOK
<1>1. ASSUME IInv PROVE TypeOK
  <2>1. /\ carries \in [Ids -> SUBSET Entities] /\ calls \subseteq Ids
        /\ Range(queue) \subseteq Ids /\ Range(path) \subseteq Ids
    BY <1>1 DEF IInv, Started, Inside
  <2>2. CASE task \in {"sort", "sorted"}
    <3>1. Scope \in SUBSET Ids
      BY <1>1, <2>2, ScopeFacts
    <3>2. indeg \in [Scope -> Nat] /\ sorted \in Seq(Scope) /\ Distinct(sorted)
      BY <1>1, <2>2 DEF IInv, Sorting, Sorted
    <3>3. Len(sorted) <= Cardinality(Ids)
      BY <3>1, <3>2, NotMore
    <3>4. DOMAIN corrected \subseteq Ids /\ after \subseteq DOMAIN corrected
      <4>1. task = "sort" => corrected = << >> /\ after = {}
        BY <1>1 DEF IInv, Started
      <4>2. task = "sorted" => DOMAIN corrected \subseteq Scope /\ after \subseteq DOMAIN corrected
        BY <1>1 DEF IInv, Previewing
      <4> QED
        BY <2>2, <3>1, <4>1, <4>2
    <3> QED
      BY <2>1, <3>1, <3>2, <3>3, <3>4 DEF TypeOK
  <2>3. CASE task \notin {"sort", "sorted"}
    <3>1. indeg = << >> /\ sorted = << >> /\ corrected = << >> /\ after = {}
      BY <1>1, <2>3 DEF IInv, Started, Tasks
    <3>2. Cardinality(Ids) \in Nat
      BY IdAssumption, FS_CardinalityType
    <3> QED
      BY <2>1, <3>1, <3>2 DEF TypeOK
  <2> QED
    BY <2>2, <2>3
<1> QED
  BY <1>1, ReplayInvariant, PTL

(* The breadth-first search answers with a shortest path from the root to  *)
(* the target, and with none exactly if none exists, in any finite graph   *)
(* and whatever the order in which the neighbours of a node are met.       *)
THEOREM LineageShortest == Spec => []PathShortest
<1>1. IInv => PathShortest
  BY DEF IInv
<1> QED
  BY <1>1, ReplayInvariant, PTL

LEMMA PlaceBefore ==
    ASSUME NEW r \in Nat \ {0}, NEW k \in Nat \ {0}, NEW i \in Nat \ {0}, i < Place(k + 1, r)
    PROVE  \E j \in 1..k : Place(j, r) = i
<1>1. CASE i = r
  <2>1. 1 \in 1..k /\ Place(1, r) = i
    BY <1>1 DEF Place
  <2> QED
    BY <2>1
<1>2. CASE i < r
  <2>1. i + 1 \in 1..k /\ Place(i + 1, r) = i
    BY <1>2 DEF Place
  <2> QED
    BY <2>1
<1>3. CASE i > r
  <2>1. i \in 1..k /\ Place(i, r) = i
    BY <1>3 DEF Place
  <2> QED
    BY <2>1
<1> QED
  BY <1>1, <1>2, <1>3

LEMMA RootFirst ==
    ASSUME IInv, task = "sorted", Acyclic
    PROVE  Preds(root) \cap Scope = {}
<1> SUFFICES ASSUME NEW p \in Preds(root) \cap Scope PROVE FALSE
  OBVIOUS
<1>1. IsGraph /\ root \in Scope /\ \A x \in Scope \ {root} : x \in Reachable(root)
  BY ScopeFacts
<1>2. root \in Succs(p)
  BY <1>1, Neighbours
<1>3. root \in Reachable(root)
  BY <1>1, <1>2, ReachableIs
<1> QED
  BY <1>1, <1>3, CycleIs DEF Acyclic

(* Without a cycle in the blast radius, every node in it is judged again   *)
(* only after all its predecessors there, for every graph and every order  *)
(* Kahn's algorithm may produce.                                           *)
THEOREM ReplayCorrected == Spec => []CorrectedInputs
<1>1. ASSUME IInv PROVE CorrectedInputs
  <2> DEFINE o == ReplayOrder
             n == NextNode
  <2> SUFFICES ASSUME task = "sorted", DOMAIN corrected # Scope, Acyclic,
                      NEW p \in Preds(n) \cap Scope
               PROVE  p \in DOMAIN corrected
    BY DEF CorrectedInputs, Replayed, Acyclic
  <2>1. /\ o \in Seq(Scope) /\ Len(o) = Len(sorted) /\ Len(sorted) \in Nat
        /\ Distinct(o) /\ Range(o) = Scope /\ DOMAIN o = 1..Len(sorted)
    BY <1>1, OrderIs DEF IInv
  <2>2. /\ sorted \in Seq(Scope) /\ Distinct(sorted) /\ Range(sorted) = Scope /\ Ordered
    BY <1>1 DEF IInv, Sorted
  <2>3. PICK k \in 0..Len(o) : DOMAIN corrected = {o[i] : i \in 1..k}
    BY <1>1 DEF IInv, Previewing
  <2>4. Cardinality(DOMAIN corrected) = k
    BY <2>1, <2>3, FirstOnes
  <2>5. k # Len(o)
    BY <2>1, <2>3 DEF Range
  <2>6. n = o[k + 1] /\ k + 1 \in DOMAIN o /\ k \in Nat
    <3>1. k \in Nat /\ k + 1 \in 1..Len(sorted)
      BY <2>1, <2>3, <2>5
    <3>2. n = o[k + 1]
      BY <2>4 DEF NextNode
    <3> QED
      BY <2>1, <3>1, <3>2
  <2>7. PICK r \in DOMAIN sorted :
            /\ sorted[r] = root
            /\ \A i \in DOMAIN o : Place(i, r) \in DOMAIN sorted /\ o[i] = sorted[Place(i, r)]
    <3>1. root \in Range(sorted)
      BY <2>2 DEF Scope
    <3> QED
      BY <2>2, <3>1, ReplayOrderIs
  <2> HIDE DEF o, n
  <2>8. CASE k = 0
    <3>1. n = root
      BY <2>6, <2>7, <2>8 DEF Place
    <3> QED
      BY <1>1, <3>1, RootFirst
  <2>9. CASE k # 0
    <3> DEFINE q == Place(k + 1, r)
    <3>1. q \in DOMAIN sorted /\ n = sorted[q]
      BY <2>6, <2>7
    <3>2. PICK i \in 1..(q - 1) : sorted[i] = p
      BY <2>2, <3>1 DEF Ordered
    <3>3. i \in Nat \ {0} /\ i < q /\ r \in Nat \ {0}
      <4>1. q \in 1..Len(sorted) /\ r \in 1..Len(sorted)
        BY <2>2, <2>7, <3>1
      <4> HIDE DEF q
      <4> QED
        BY <2>1, <3>2, <4>1
    <3>4. PICK j \in 1..k : Place(j, r) = i
      BY <2>6, <2>9, <3>3, PlaceBefore
    <3>5. j \in DOMAIN o
      BY <2>1, <2>3, <3>4
    <3> QED
      BY <2>3, <2>7, <3>2, <3>4, <3>5
  <2> QED
    BY <2>8, <2>9
<1> QED
  BY <1>1, ReplayInvariant, PTL

(* An entity in a node's text that is not its own has come down a chain of *)
(* carriers; where nothing is on a cycle, the chain begins with a node     *)
(* that brought the entity in.                                             *)
LEMMA Origin ==
    ASSUME IInv, \A m \in Ids : ~OnCycle(m),
           NEW n \in Ids, NEW e \in carries[n], e \in Upstream(n)
    PROVE  \E m \in Ids : n \in BlastRadius(m) /\ e \in Intrinsic(m)
<1> DEFINE A == {m \in Ids : e \in carries[m] /\ n \in Reachable(m)}
<1>1. IsGraph
  BY DEF IInv, Started, IsGraph
<1>2. \A m \in Ids : m \notin Reachable(m)
  BY <1>1, CycleIs
<1>3. ASSUME NEW x \in Ids, e \in Upstream(x), x = n \/ n \in Reachable(x)
      PROVE  \E m \in A : <<m, x>> \in edges
  <2>1. PICK m \in Preds(x) : e \in carries[m]
    BY <1>3 DEF Upstream
  <2>2. <<m, x>> \in edges /\ m \in Ids /\ x \in Reachable(m)
    BY <1>1, <2>1, Neighbours, ReachableIs
  <2>3. n \in Reachable(m)
    BY <1>1, <1>3, <2>2, ReachableOn
  <2> QED
    BY <2>1, <2>2, <2>3
<1>4. \E m \in A : e \in Intrinsic(m)
  <2> SUFFICES ASSUME \A m \in A : e \notin Intrinsic(m) PROVE FALSE
    OBVIOUS
  <2>1. A # {}
    BY <1>3
  <2>2. \A x \in A : \E m \in A : <<m, x>> \in edges
    <3> TAKE x \in A
    <3>1. e \in Upstream(x)
      BY DEF Intrinsic
    <3> QED
      BY <1>3, <3>1
  <2>3. A \in SUBSET Ids
    OBVIOUS
  <2> HIDE DEF A
  <2> QED
    BY <1>1, <2>1, <2>2, <2>3, SomeCycle
<1> QED
  BY <1>2, <1>4 DEF BlastRadius

(* A node the preview counts as saved carries nothing but what a node      *)
(* before it brought in: no culprit is cleared, whatever the graph, the    *)
(* entities and the order of the replay.                                   *)
THEOREM ReplaySaved == Spec => []SavedIsInherited
<1>1. ASSUME IInv PROVE SavedIsInherited
  <2> SUFFICES ASSUME Replayed, NEW n \in Saved, NEW e \in carries[n]
               PROVE  /\ e \in Upstream(n)
                      /\ (\A m \in Ids : ~OnCycle(m)) =>
                            \E m \in Ids : n \in BlastRadius(m) /\ e \in Intrinsic(m)
    BY DEF SavedIsInherited
  <2>1. n \in Scope \ {root} /\ n \notin after /\ n \in DOMAIN corrected /\ task = "sorted"
    BY DEF Saved, DoNothing, Replayed
  <2>2. Clean(n) = {} /\ n \notin calls
    BY <1>1, <2>1 DEF IInv, Previewing
  <2>3. Intrinsic(n) = {}
    <3> SUFFICES ASSUME Intrinsic(n) # {} PROVE FALSE
      OBVIOUS
    <3>1. Clean(n) = carries[n] \ Inherited(n)
      BY <2>1 DEF Clean, OwnFault
    <3> QED
      BY <2>2, <3>1 DEF Inherited, Intrinsic
  <2>4. e \in Upstream(n)
    BY <2>3 DEF Intrinsic
  <2>5. n \in Ids
    BY <1>1, <2>1, ScopeFacts
  <2> QED
    BY <1>1, <2>4, <2>5, Origin
<1> QED
  BY <1>1, ReplayInvariant, PTL

-----------------------------------------------------------------------------
(* What there is left to do: nodes to be seen and left by the search, to   *)
(* be put on the path, to be sorted, to be judged again.                   *)
Left ==
    LET all == Cardinality(Ids) IN
    CASE task = "idle" -> 2 * all + 3
      [] task = "search" -> Cardinality(Ids \ Seen) + Len(queue) + all + 2
      [] task = "walk back" -> all - Len(path) + 1
      [] task = "path found" -> 0
      [] task = "sort" -> Cardinality(Scope) - Len(sorted) + all + 1
      [] task = "sorted" -> Cardinality(Scope) - Cardinality(DOMAIN corrected)

LEMMA LeftPerTask ==
    /\ task = "idle" => Left = 2 * Cardinality(Ids) + 3
    /\ task = "search" => Left = Cardinality(Ids \ Seen) + Len(queue) + Cardinality(Ids) + 2
    /\ task = "walk back" => Left = Cardinality(Ids) - Len(path) + 1
    /\ task = "path found" => Left = 0
    /\ task = "sort" => Left = Cardinality(Scope) - Len(sorted) + Cardinality(Ids) + 1
    /\ task = "sorted" => Left = Cardinality(Scope) - Cardinality(DOMAIN corrected)
BY DEF Left

LEMMA LeftNext ==
    /\ task' = "search" => Left' = Cardinality(Ids \ Seen') + Len(queue') + Cardinality(Ids) + 2
    /\ task' = "walk back" => Left' = Cardinality(Ids) - Len(path') + 1
    /\ task' = "path found" => Left' = 0
    /\ task' = "sort" => Left' = Cardinality(Scope') - Len(sorted') + Cardinality(Ids) + 1
    /\ task' = "sorted" => Left' = Cardinality(Scope') - Cardinality(DOMAIN corrected')
BY DEF Left

LEMMA SizeOf ==
    ASSUME NEW S \in SUBSET Ids
    PROVE  /\ IsFiniteSet(S) /\ Cardinality(S) \in Nat /\ Cardinality(Ids) \in Nat
           /\ Cardinality(S) <= Cardinality(Ids)
BY IdAssumption, FS_Subset, FS_CardinalityType

(* The nodes of a path that descends are different.                        *)
LEMMA PathLength ==
    ASSUME NEW d, Descends(d)
    PROVE  Len(path) \in 1..Cardinality(Ids)
<1>1. path \in Seq(Seen) /\ path # << >> /\ Seen \subseteq Ids /\ d \in [Ids -> Nat]
      /\ \A i \in DOMAIN path : d[path[i]] = d[path[1]] + i - 1
  BY DEF Descends, Rooted
<1>2. Len(path) \in Nat /\ Len(path) >= 1 /\ DOMAIN path = 1..Len(path)
      /\ \A i \in 1..Len(path) : path[i] \in Ids /\ d[path[i]] \in Nat
  BY <1>1
<1>3. path \in [1..Len(path) -> Ids]
  BY <1>1, <1>2
<1>4. \A i, j \in 1..Len(path) : path[i] = path[j] => i = j
  <2> TAKE i, j \in 1..Len(path)
  <2> 1 \in 1..Len(path)
    BY <1>2
  <2>1. d[path[1]] \in Nat /\ d[path[i]] = d[path[1]] + i - 1 /\ d[path[j]] = d[path[1]] + j - 1
    BY <1>1, <1>2
  <2> QED
    BY <2>1
<1>5. path \in Injection(1..Len(path), Ids)
  BY <1>3, <1>4 DEF Injection, IsInjective
<1>6. Cardinality(1..Len(path)) = Len(path)
  BY <1>2, FS_Interval
<1>7. Len(path) <= Cardinality(Ids)
  BY <1>5, <1>6, IdAssumption, FS_Injection
<1> QED
  BY <1>2, <1>7, SizeOf

LEMMA SortedLength ==
    ASSUME NEW S \in SUBSET Ids, sorted \in Seq(S), Distinct(sorted)
    PROVE  Len(sorted) \in Nat /\ Len(sorted) <= Cardinality(S)
<1> DEFINE n == Len(sorted)
           T == {sorted[i] : i \in 1..n}
<1>1. n \in Nat /\ n \in 0..n /\ T \subseteq S
  OBVIOUS
<1>2. Cardinality(T) = n
  BY <1>1, FirstOnes
<1>3. IsFiniteSet(S)
  BY SizeOf
<1> HIDE DEF T
<1> QED
  BY <1>1, <1>2, <1>3, FS_Subset

LEMMA LeftIs ==
    ASSUME IInv
    PROVE  /\ Left \in Nat
           /\ task \in {"search", "sort"} => Left > Cardinality(Ids)
           /\ task = "walk back" => Left \in 1..Cardinality(Ids)
           /\ task = "sorted" => Left <= Cardinality(Ids)
<1>1. Cardinality(Ids) \in Nat /\ task \in Tasks
  BY SizeOf DEF IInv, Started
<1>2. ASSUME task = "search"
      PROVE  Cardinality(Ids \ Seen) \in Nat /\ Len(queue) \in Nat
  <2>1. PICK d : Layers(d)
    BY <1>2 DEF IInv, SearchInv
  <2>2. queue \in Seq(Seen)
    BY <2>1 DEF Layers
  <2> QED
    BY <2>2, SizeOf
<1>3. ASSUME task = "walk back" PROVE Len(path) \in 1..Cardinality(Ids)
  BY <1>3, PathLength DEF IInv, SearchInv
<1>4. ASSUME task \in {"sort", "sorted"}
      PROVE  /\ Cardinality(Scope) \in Nat /\ Cardinality(Scope) <= Cardinality(Ids)
             /\ Len(sorted) \in Nat /\ Len(sorted) <= Cardinality(Scope)
  <2>1. Scope \in SUBSET Ids
    BY <1>4, ScopeFacts
  <2>2. sorted \in Seq(Scope) /\ Distinct(sorted)
    BY <1>4 DEF IInv, Sorting, Sorted
  <2> QED
    BY <2>1, <2>2, SizeOf, SortedLength
<1>5. ASSUME task = "sorted"
      PROVE  Cardinality(DOMAIN corrected) \in Nat /\ Cardinality(DOMAIN corrected) <= Cardinality(Scope)
  <2>1. IsFiniteSet(Scope) /\ DOMAIN corrected \in SUBSET Scope
    BY <1>5, ScopeFacts DEF IInv, Previewing
  <2> QED
    BY <2>1, FS_Subset, FS_CardinalityType
<1>6. CASE task = "idle"
  BY <1>1, <1>6, LeftPerTask
<1>7. CASE task = "search"
  BY <1>1, <1>2, <1>7, LeftPerTask
<1>8. CASE task = "walk back"
  <2>1. Left = Cardinality(Ids) - Len(path) + 1
    BY <1>8, LeftPerTask
  <2>2. Len(path) \in 1..Cardinality(Ids)
    BY <1>3, <1>8
  <2>3. \A a \in Nat : \A l \in 1..a : a - l + 1 \in 1..a /\ a - l + 1 \in Nat
    OBVIOUS
  <2>4. Left \in 1..Cardinality(Ids) /\ Left \in Nat
    BY <1>1, <2>1, <2>2, <2>3
  <2> QED
    BY <1>8, <2>4
<1>9. CASE task = "path found"
  <2>1. Left = 0
    BY <1>9, LeftPerTask
  <2>2. Left \in Nat
    BY <2>1
  <2> QED
    BY <1>9, <2>2
<1>10. CASE task = "sort"
  <2>1. Left = Cardinality(Scope) - Len(sorted) + Cardinality(Ids) + 1
    BY <1>10, LeftPerTask
  <2>2. /\ Cardinality(Scope) \in Nat
        /\ Len(sorted) \in Nat /\ Len(sorted) <= Cardinality(Scope)
    BY <1>4, <1>10
  <2>3. Left \in Nat /\ Left > Cardinality(Ids)
    BY <1>1, <2>1, <2>2
  <2> QED
    BY <1>10, <2>3
<1>11. CASE task = "sorted"
  BY <1>1, <1>4, <1>5, <1>11, LeftPerTask
<1> QED
  BY <1>1, <1>6, <1>7, <1>8, <1>9, <1>10, <1>11 DEF Tasks

LEMMA LeftWalking == IInv /\ task = "walk back" => Left \in 1..Cardinality(Ids)
BY LeftIs

LEMMA LeftSorted == IInv /\ task = "sorted" => Left <= Cardinality(Ids)
BY LeftIs

LEMMA SearchLowers ==
    ASSUME IInv, Search
    PROVE  Left' < Left
<1>1. PICK d : Layers(d)
  BY DEF Search, IInv, SearchInv
<1> DEFINE cur == Head(queue)
           N == New(cur)
           U == Ids \ Seen
<1>2. /\ task = "search" /\ task' = "search" /\ queue # << >>
      /\ prev' = [n \in Seen \cup N |-> IF n \in N THEN cur ELSE prev[n]]
  BY DEF Search
<1>3. queue \in Seq(Seen) /\ N \subseteq U
  <2>1. IsGraph
    BY DEF IInv, Started, IsGraph
  <2> QED
    BY <1>1, <2>1, Neighbours DEF Layers, New
<1>4. PICK o \in Orders(N) : queue' = Tail(queue) \o o
  BY DEF Search
<1> HIDE DEF cur, N, U
<1>5. /\ IsFiniteSet(N) /\ IsFiniteSet(U) /\ U \subseteq Ids
      /\ Cardinality(N) \in Nat /\ Cardinality(U) \in Nat /\ Cardinality(Ids) \in Nat
  <2>1. U \in SUBSET Ids /\ N \in SUBSET Ids
    BY <1>3 DEF U
  <2> QED
    BY <2>1, SizeOf
<1>6. o \in Seq(N) /\ Len(o) = Cardinality(N)
  BY <1>4, <1>5, OrderType
<1>7. Len(queue') = Len(queue) - 1 + Cardinality(N) /\ Len(queue) \in Nat
  <2>1. Tail(queue) \in Seq(Seen) /\ Len(Tail(queue)) = Len(queue) - 1 /\ Len(queue) \in Nat
    BY <1>2, <1>3
  <2>2. Tail(queue) \in Seq(Seen \cup N) /\ o \in Seq(Seen \cup N)
    BY <1>6, <2>1
  <2>3. Len(Tail(queue) \o o) = Len(Tail(queue)) + Len(o)
    BY <2>2
  <2> QED
    BY <1>4, <1>6, <2>1, <2>3
<1>8. Cardinality(U \ N) = Cardinality(U) - Cardinality(N)
  <2>1. U \cap N = N
    BY <1>3
  <2> QED
    BY <1>5, <2>1, FS_Difference
<1>9. Ids \ Seen' = U \ N
  BY <1>2 DEF Seen, U
<1>10. Left' = Cardinality(U \ N) + Len(queue') + Cardinality(Ids) + 2
  BY <1>2, <1>9, LeftNext
<1>11. Left = Cardinality(U) + Len(queue) + Cardinality(Ids) + 2
  BY <1>2, LeftPerTask DEF U
<1>12. \A u, n, q, a \in Nat : (u - n) + (q - 1 + n) + a + 2 < u + q + a + 2
  OBVIOUS
<1> QED
  BY <1>5, <1>7, <1>8, <1>10, <1>11, <1>12

LEMMA SortLowers ==
    ASSUME IInv, IInv', Sort
    PROVE  Left' < Left
<1>1. /\ task = "sort" /\ task' = "sort" /\ sorted' = Append(sorted, Head(queue))
      /\ UNCHANGED <<edges, root>>
  BY DEF Sort, args
<1>2. Scope' = Scope
  BY <1>1 DEF Scope, BlastRadius, Reachable, Succs, Closed
<1>3. Len(sorted') = Len(sorted) + 1 /\ Len(sorted) \in Nat
  BY <1>1 DEF IInv, Sorting
<1>4. Cardinality(Scope) \in Nat /\ Cardinality(Ids) \in Nat
  <2>1. Scope \in SUBSET Ids
    BY <1>1, ScopeFacts
  <2> QED
    BY <2>1, SizeOf
<1> QED
  BY <1>1, <1>2, <1>3, <1>4, LeftPerTask, LeftNext

LEMMA RejudgeLowers ==
    ASSUME IInv, Rejudge
    PROVE  Left' < Left
<1> DEFINE n == NextNode
           o == ReplayOrder
           C == DOMAIN corrected
<1>1. /\ task = "sorted" /\ task' = "sorted" /\ UNCHANGED <<edges, root>>
      /\ Cardinality(C) < Len(o) /\ DOMAIN corrected' = C \cup {n}
  BY DEF Rejudge, args
<1>2. o \in Seq(Scope) /\ Len(o) \in Nat /\ Distinct(o)
  BY <1>1, OrderIs DEF IInv
<1>3. PICK k \in 0..Len(o) : C = {o[i] : i \in 1..k}
  BY <1>1 DEF IInv, Previewing
<1>4. Cardinality(C) = k
  BY <1>2, <1>3, FirstOnes
<1>5. k < Len(o) /\ n = o[k + 1]
  BY <1>1, <1>4 DEF NextNode
<1>6. n \notin C
  <2>1. k \in Nat /\ k + 1 \in DOMAIN o /\ \A i \in 1..k : i \in DOMAIN o /\ i # k + 1
    BY <1>2, <1>5
  <2> HIDE DEF o, n
  <2> QED
    BY <1>2, <1>3, <1>5, <2>1 DEF Distinct
<1>7. Scope' = Scope
  BY <1>1 DEF Scope, BlastRadius, Reachable, Succs, Closed
<1>8. IsFiniteSet(Scope) /\ Cardinality(Scope) \in Nat /\ C \subseteq Scope
  BY <1>1, ScopeFacts, FS_CardinalityType DEF IInv, Previewing
<1>9. IsFiniteSet(C) /\ Cardinality(C) \in Nat
  BY <1>8, FS_Subset, FS_CardinalityType
<1> HIDE DEF n, o
<1>10. Cardinality(C \cup {n}) = Cardinality(C) + 1
  BY <1>6, <1>9, FS_AddElement
<1>11. Left' = Cardinality(Scope) - Cardinality(C \cup {n})
  BY <1>1, <1>7, LeftNext
<1>12. Left = Cardinality(Scope) - Cardinality(C)
  BY <1>1, LeftPerTask
<1> QED
  BY <1>8, <1>9, <1>10, <1>11, <1>12

(* Every search and every preview ends, whatever the graph: each step      *)
(* lowers Left, so that at most 2 * Cardinality(Ids) + 3 steps are taken.  *)
(* A cycle of influence keeps neither the loop of propagation_path going   *)
(* nor that of topo_order.                                                 *)
THEOREM ReplayEnds == Spec => [](Left \in Nat) /\ [][Left' < Left]_vars
<1>1. IInv => Left \in Nat
  BY LeftIs
<1>2. ASSUME IInv, IInv', Next PROVE Left' < Left
  <2>1. Left \in Nat /\ Left' \in Nat /\ Cardinality(Ids) \in Nat
    <3>1. (IInv => Left \in Nat)'
      BY <1>1, PTL
    <3> QED
      BY <1>1, <1>2, <3>1, SizeOf
  <2>2. CASE \E r \in Roots, t \in Ids : PathBegin(r, t)
    <3>1. PICK r \in Roots, t \in Ids : PathBegin(r, t)
      BY <2>2
    <3>2. Left = 2 * Cardinality(Ids) + 3
      BY <3>1, LeftPerTask DEF PathBegin
    <3>3. CASE r = t
      <4>1. Left' = 0
        BY <3>1, <3>3, LeftNext DEF PathBegin
      <4> QED
        BY <2>1, <3>2, <4>1
    <3>4. CASE r # t
      <4>1. task' = "search" /\ Len(queue') = 1 /\ Ids \ Seen' = Ids \ {r}
        BY <3>1, <3>4 DEF PathBegin, Seen
      <4>2. Left' = Cardinality(Ids \ {r}) + 1 + Cardinality(Ids) + 2
        BY <4>1, LeftNext
      <4>3. Cardinality(Ids \ {r}) = Cardinality(Ids) - 1
        BY IdAssumption, RootAssumption, FS_RemoveElement
      <4> QED
        BY <2>1, <3>2, <4>2, <4>3
    <3> QED
      BY <3>3, <3>4
  <2>3. CASE Search
    BY <1>2, <2>3, SearchLowers
  <2>4. CASE SearchEnd
    <3>1. task = "search" /\ Left > Cardinality(Ids) /\ task' \in {"walk back", "path found"}
      BY <1>2, <2>4, LeftIs DEF SearchEnd
    <3>2. task' = "walk back" => Left' <= Cardinality(Ids)
      <4>1. (IInv /\ task = "walk back" => Left \in 1..Cardinality(Ids))'
        BY LeftWalking, PTL
      <4>2. SUFFICES ASSUME task' = "walk back" PROVE Left' <= Cardinality(Ids)
        OBVIOUS
      <4>3. Left' \in 1..Cardinality(Ids)
        BY <1>2, <4>1, <4>2
      <4> QED
        BY <2>1, <4>3
    <3>3. CASE task' = "walk back"
      <4>1. Left' <= Cardinality(Ids) /\ Left > Cardinality(Ids)
        BY <3>1, <3>2, <3>3
      <4> QED
        BY <2>1, <4>1
    <3>4. CASE task' = "path found"
      <4>1. Left' = 0 /\ Left > Cardinality(Ids)
        BY <3>1, <3>4, LeftNext
      <4> QED
        BY <2>1, <4>1
    <3> QED
      BY <3>1, <3>3, <3>4
  <2>5. CASE WalkBack
    <3>1. CASE Head(path) = root
      <4>1. Left' = 0 /\ Left >= 1
        <5>1. task = "walk back" /\ task' = "path found"
          BY <2>5, <3>1 DEF WalkBack
        <5>2. Left \in 1..Cardinality(Ids)
          BY <1>2, <5>1, LeftIs
        <5>3. Left' = 0
          BY <5>1, LeftNext
        <5> QED
          BY <2>1, <5>2, <5>3
      <4> QED
        BY <2>1, <4>1
    <3>2. CASE Head(path) # root
      <4>1. PICK d : Descends(d)
        BY <1>2, <2>5 DEF WalkBack, IInv, SearchInv
      <4>2. path \in Seq(Seen) /\ path # << >>
        BY <4>1 DEF Descends
      <4>3. task = "walk back" /\ task' = "walk back" /\ path' = <<prev[Head(path)]>> \o path
        BY <2>5, <3>2 DEF WalkBack
      <4>4. Len(path') = Len(path) + 1 /\ Len(path) \in Nat
        <5>1. PICK x : x = prev[Head(path)]
          OBVIOUS
        <5>2. <<x>> \in Seq(Seen \cup {x}) /\ path \in Seq(Seen \cup {x})
          BY <4>2
        <5>3. Len(<<x>> \o path) = 1 + Len(path)
          BY <5>2
        <5>4. path' = <<x>> \o path
          BY <4>3, <5>1
        <5>5. Len(path) \in Nat /\ 1 + Len(path) = Len(path) + 1
          BY <4>2
        <5> QED
          BY <5>3, <5>4, <5>5
      <4>5. Left = Cardinality(Ids) - Len(path) + 1
        BY <4>3, LeftPerTask
      <4>6. Left' = Cardinality(Ids) - Len(path') + 1
        BY <4>3, LeftNext
      <4> QED
        BY <2>1, <4>4, <4>5, <4>6
    <3> QED
      BY <3>1, <3>2
  <2>6. CASE \E r \in Roots : SortBegin(r)
    <3>1. PICK r \in Roots : SortBegin(r)
      BY <2>6
    <3>2. task = "idle" /\ task' = "sort" /\ sorted' = << >>
      BY <1>2, <3>1 DEF SortBegin, IInv, Started
    <3>3. Cardinality(Scope') \in Nat /\ Cardinality(Scope') <= Cardinality(Ids)
      <4>1. (IInv /\ task # "idle" => Scope \subseteq Ids)'
        BY ScopeFacts, PTL
      <4>2. Scope' \in SUBSET Ids
        BY <1>2, <3>2, <4>1
      <4> QED
        BY <4>2, SizeOf
    <3>4. Left' = Cardinality(Scope') - 0 + Cardinality(Ids) + 1
      BY <3>2, LeftNext
    <3>5. Left = 2 * Cardinality(Ids) + 3
      BY <3>2, LeftPerTask
    <3> QED
      BY <2>1, <3>3, <3>4, <3>5
  <2>7. CASE Sort
    BY <1>2, <2>7, SortLowers
  <2>8. CASE SortEnd
    <3>1. Left > Cardinality(Ids) /\ task' = "sorted"
      BY <1>2, <2>8, LeftIs DEF SortEnd
    <3>2. (IInv /\ task = "sorted" => Left <= Cardinality(Ids))'
      BY LeftSorted, PTL
    <3> QED
      BY <1>2, <2>1, <3>1, <3>2
  <2>9. CASE Rejudge
    BY <1>2, <2>9, RejudgeLowers
  <2> QED
    BY <1>2, <2>2, <2>3, <2>4, <2>5, <2>6, <2>7, <2>8, <2>9 DEF Next
<1> QED
  BY <1>1, <1>2, ReplayInvariant, PTL DEF Spec
=============================================================================
