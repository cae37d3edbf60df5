------------------------------- MODULE Replay -------------------------------
(***************************************************************************)
(* The what-if preview of twin/replay.py on the graph of Lineage: the      *)
(* nodes of the blast radius are judged again one by one, in topological   *)
(* order, as if the root's own foreign content had been corrected.         *)
(*                                                                         *)
(* A text (output and effects) is reduced to the foreign entities in it.   *)
(* The preview calls assess_span without a judge, that is with StubJudge,  *)
(* which flags a span with an entity left in it (unless its intent and     *)
(* behaviour differ so much that the gap is put down to semantics) or with *)
(* an undeclared sensitive call; a span is taken to have been stored with  *)
(* the same verdict.  Other rules, schemas and confidence, are left out.   *)
(***************************************************************************)
EXTENDS Lineage

CONSTANTS Entities, Roots, Suspects   \* entities; roots asked for; nodes that
                                      \* may have made an undeclared call

ASSUME RootAssumption == Roots \subseteq Ids /\ Suspects \subseteq Ids

VARIABLES
    carries,      \* per node, the entities in its output and effects
    calls,        \* the nodes with an undeclared sensitive tool call
    corrected,    \* the entities left in the texts corrected so far
    after         \* the nodes still flagged when judged again

data == <<carries, calls>>
judged == <<corrected, after>>
vars == <<args, task, queue, search, sort, data, judged>>

TypeOK ==
    /\ carries \in [Ids -> SUBSET Entities] /\ calls \subseteq Ids
    /\ Range(queue) \subseteq Ids /\ Range(path) \subseteq Ids
    /\ DOMAIN indeg \subseteq Ids /\ \A n \in DOMAIN indeg : indeg[n] \in Nat
    /\ Len(sorted) <= Cardinality(Ids)
    /\ DOMAIN corrected \subseteq Ids /\ after \subseteq DOMAIN corrected

Init ==
    /\ LineageInit
    /\ carries \in [Ids -> SUBSET Entities]
    /\ calls \in SUBSET Suspects
    /\ corrected = << >> /\ after = {}

Flagged(n) == carries[n] # {} \/ n \in calls

(* The root first, then the others of its blast radius as they are sorted. *)
ReplayOrder == <<root>> \o RemoveAt(sorted, CHOOSE i \in DOMAIN sorted : sorted[i] = root)
NextNode == ReplayOrder[Cardinality(DOMAIN corrected) + 1]

(* What the inputs of a node say, originally and as corrected so far.      *)
Upstream(n) == UNION {carries[p] : p \in Preds(n)}
Intrinsic(n) == carries[n] \ Upstream(n)
Inherited(n) == carries[n] \cap Upstream(n)
OwnFaultCalls(n) == n \in calls           \* mutant: own entities are no fault
OwnFault(n) == n \in calls \/ (Intrinsic(n) # {} /\ n # root)

(* The entities left in a node's text when it is judged again ...          *)
Clean(n) ==
    CASE n = root -> carries[n] \ Intrinsic(n)
      [] n # root /\ OwnFault(n) -> carries[n] \ Inherited(n)
      [] n # root /\ ~OwnFault(n) -> {}

(* ... and in the text its successors are judged against: a node with a    *)
(* fault of its own passes on everything it did before.                    *)
PassedOn(n) == IF n # root /\ OwnFault(n) THEN carries[n] ELSE Clean(n)

Rejudge ==
    LET n == NextNode IN
    /\ task = "sorted"
    /\ Cardinality(DOMAIN corrected) < Len(ReplayOrder)
    /\ corrected' = [m \in DOMAIN corrected \cup {n} |->
                         IF m = n THEN PassedOn(n) ELSE corrected[m]]
    /\ after' = IF Clean(n) # {} \/ n \in calls THEN after \cup {n} ELSE after
    /\ UNCHANGED <<args, task, queue, search, sort, data>>

Replayed == task = "sorted" /\ DOMAIN corrected = Scope

Next ==
    \/ \E r \in Roots, t \in Ids : PathBegin(r, t) /\ UNCHANGED <<data, judged>>
    \/ (Search \/ SearchEnd \/ WalkBack) /\ UNCHANGED <<data, judged>>
    \/ \E r \in Roots : SortBegin(r) /\ UNCHANGED <<data, judged>>
    \/ (Sort \/ SortEnd) /\ UNCHANGED <<data, judged>>
    \/ Rejudge

Spec == Init /\ [][Next]_vars /\ WF_vars(Next)

-----------------------------------------------------------------------------
DoNothing == {n \in Scope \ {root} : Flagged(n)}
Saved == DoNothing \ after

(* A node is judged against corrected inputs only: without a cycle, every  *)
(* predecessor in the blast radius has been replayed before it.            *)
CorrectedInputs ==
    task = "sorted" /\ ~Replayed /\ (\A c \in Scope : ~OnCycle(c)) =>
        Preds(NextNode) \cap Scope \subseteq DOMAIN corrected

(* The preview never clears a culprit: every entity of a node that counts  *)
(* as saved came from upstream, and without cycles from a node that        *)
(* brought it in.                                                          *)
SavedIsInherited ==
    Replayed => \A n \in Saved : \A e \in carries[n] :
        /\ e \in Upstream(n)
        /\ (\A m \in Ids : ~OnCycle(m)) =>
              \E m \in Ids : n \in BlastRadius(m) /\ e \in Intrinsic(m)

(* Every preview and every search ends, also on a graph with cycles.       *)
Answered == task # "idle" ~> task = "path found" \/ Replayed
=============================================================================
