------------------------------ MODULE Lineage ------------------------------
(***************************************************************************)
(* The graph algorithms of twin/store.py: the recursive queries behind     *)
(* blast_radius and upstream, the breadth-first search of propagation_path *)
(* and Kahn's algorithm in topo_order.  The rows of a query come in an     *)
(* arbitrary order, so do the neighbours of a node.                        *)
(***************************************************************************)
EXTENDS Naturals, Sequences, FiniteSets, SequencesExt

CONSTANTS
    Ids,          \* node ids; as strings they sort like these numbers
    Links,        \* the pairs of nodes that may be linked
    MaxEdges      \* bound on the edges of the graph

ASSUME IdAssumption ==
    Ids \subseteq Nat /\ IsFiniteSet(Ids) /\ Links \subseteq Ids \X Ids

VARIABLES
    edges,        \* the edge table
    task,         \* what is being computed
    root, target, \* its arguments
    queue,        \* the deque of either algorithm
    prev,         \* search: from where each node seen was reached (the root
                  \* from itself, so that the domain is the set "seen")
    path,         \* search: the path, built from its end
    indeg,        \* sort: the edges into each node still to be taken
    sorted        \* sort: the nodes taken

search == <<prev, path>>
sort == <<indeg, sorted>>
args == <<edges, root, target>>

Succs(n) == {e[2] : e \in {f \in edges : f[1] = n}}
Preds(n) == {e[1] : e \in {f \in edges : f[2] = n}}

(* UNION keeps adding what one more step finds until nothing is new: the   *)
(* least set with the successors of n and those of its members.            *)
Closed(S) == \A e \in edges : e[1] \in S => e[2] \in S
Reachable(n) == {m \in Ids : \A R \in SUBSET Ids : Succs(n) \subseteq R /\ Closed(R) => m \in R}
BlastRadius(n) == Reachable(n) \ {n}

Scope == BlastRadius(root) \cup {root}
InScope(S) == {e \in edges : {e[1], e[2]} \subseteq S}     \* edges_for_nodes

(* All orders in which the members of S may be met.                        *)
Orders(S) == {o \in [1..Cardinality(S) -> S] : Range(o) = S}
InOrderOfId(S) == CHOOSE o \in Orders(S) :
    \A i, j \in DOMAIN o : i < j => o[i] < o[j]

LineageInit ==
    /\ edges \in {E \in SUBSET Links : Cardinality(E) <= MaxEdges}
    /\ task = "idle"
    /\ root = 0 /\ target = 0
    /\ queue = << >>
    /\ prev = << >> /\ path = << >>
    /\ indeg = << >> /\ sorted = << >>

-----------------------------------------------------------------------------
(* propagation_path                                                        *)
PathBegin(r, t) ==
    /\ task = "idle"
    /\ root' = r /\ target' = t
    /\ IF r = t THEN /\ task' = "path found" /\ path' = <<r>>
                     /\ UNCHANGED <<queue, prev>>
                ELSE /\ task' = "search" /\ queue' = <<r>> /\ prev' = [n \in {r} |-> r]
                     /\ UNCHANGED path
    /\ UNCHANGED <<edges, sort>>

Seen == DOMAIN prev
NewUnqueued(n) == Succs(n) \ Range(queue) \* mutant: forgets what it has left
New(n) == Succs(n) \ Seen

Search ==
    LET cur == Head(queue) IN
    /\ task = "search"
    /\ queue # << >> /\ cur # target
    /\ \E o \in Orders(New(cur)) : queue' = Tail(queue) \o o
    /\ prev' = [n \in Seen \cup New(cur) |-> IF n \in New(cur) THEN cur ELSE prev[n]]
    /\ UNCHANGED <<args, task, path, sort>>

SearchEnd ==
    /\ task = "search"
    /\ queue # << >> => Head(queue) = target
    /\ IF target \in Seen THEN task' = "walk back" /\ path' = <<target>>
                          ELSE task' = "path found" /\ path' = << >>
    /\ UNCHANGED <<args, queue, prev, sort>>

WalkBack ==
    /\ task = "walk back"
    /\ IF Head(path) = root
       THEN task' = "path found" /\ UNCHANGED path
       ELSE path' = <<prev[Head(path)]>> \o path /\ UNCHANGED task
    /\ UNCHANGED <<args, queue, prev, sort>>

-----------------------------------------------------------------------------
(* topo_order of the nodes in scope                                        *)
SortBegin(r) ==
    LET degree == [n \in BlastRadius(r) \cup {r} |->
                      Cardinality({e \in InScope(BlastRadius(r) \cup {r}) : e[2] = n})]
    IN  /\ task = "idle"
        /\ root' = r
        /\ indeg' = degree
        /\ queue' = InOrderOfId({n \in DOMAIN degree : degree[n] = 0})
        /\ task' = "sort"
        /\ UNCHANGED <<edges, target, search, sorted>>

ReadyEarly(n) == {m \in Succs(n) : indeg[m] > 0}
                                          \* mutant: the first edge will do
Ready(n) == {m \in Succs(n) : indeg[m] = 1}

Sort ==
    LET cur == Head(queue) IN
    /\ task = "sort"
    /\ queue # << >>
    /\ sorted' = Append(sorted, cur)
    /\ indeg' = [m \in DOMAIN indeg |-> IF m \in Succs(cur) THEN indeg[m] - 1
                                        ELSE indeg[m]]
    /\ \E o \in Orders(Ready(cur)) : queue' = Tail(queue) \o o
    /\ UNCHANGED <<args, task, search>>

(* What is on a cycle, or behind one, is appended in the order of the ids. *)
SortEnd ==
    /\ task = "sort"
    /\ queue = << >>
    /\ sorted' = sorted \o InOrderOfId(DOMAIN indeg \ Range(sorted))
    /\ task' = "sorted"
    /\ UNCHANGED <<args, queue, search, indeg>>

-----------------------------------------------------------------------------
(* Reference definitions, by paths.                                        *)
IsPath(p) == p # << >> /\ \A i \in 1..(Len(p) - 1) : <<p[i], p[i + 1]>> \in edges
Paths(a, b) == {p \in UNION {[1..k -> Ids] : k \in 1..Cardinality(Ids)} :
                   IsPath(p) /\ Head(p) = a /\ Last(p) = b}
OnCycle(n) == n \in Succs(n) \cup UNION {BlastRadius(m) : m \in Succs(n)}

(* The propagation path is a shortest path of influence from the root to   *)
(* the target, and empty exactly if there is none.                         *)
PathShortest ==
    task = "path found" =>
        IF path = << >> THEN Paths(root, target) = {}
        ELSE /\ path \in Paths(root, target)
             /\ \A p \in Paths(root, target) : Len(path) <= Len(p)
=============================================================================
