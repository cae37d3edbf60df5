---------------------------- MODULE Remediation ----------------------------
(***************************************************************************)
(* The remediation engine of twin/remediation.py: proposing, approving,    *)
(* rejecting and reverting containment actions on the nodes of the twin    *)
(* graph, by several operators at once, next to the retention job.         *)
(*                                                                         *)
(* Each request keeps one database session for the action row and the      *)
(* audit entries, which commit together at its end.  The nodes and edges   *)
(* are read and written through twin/store.py, which commits every call in *)
(* a session of its own: those writes are visible at once and stay when    *)
(* the request fails later.                                                *)
(*                                                                         *)
(* With RowLocks (PostgreSQL) the session holds the action's row from its  *)
(* first statement, and the head of the audit log from its first entry, to *)
(* its end.  A step whose only effect is inside the session, and which no  *)
(* other request can observe, is part of the commit.                       *)
(***************************************************************************)
EXTENDS Naturals, Sequences, FiniteSets, FiniteSetsExt, SequencesExt

CONSTANTS
    Operators,    \* concurrent requests to the remediation API
    Proposers,    \* those of them that propose (or ingest a flagged span)
    Nodes,        \* nodes of the twin; a node's checkpoint has its name
    StartNodes,   \* the nodes when the model starts
    StartEdges,   \* the influence edges then
    Agent,        \* the agent of each node
    Ts,           \* the time of each node's span
    SavedTs,      \* the time its checkpoint was saved
    Targets,      \* the nodes proposals are asked for (bound)
    Isolable,     \* nodes of medium or high privilege, or with two or more
                  \* nodes downstream
    RowLocks,     \* FOR UPDATE locks rows (PostgreSQL); SQLite ignores it
    MaxActions,   \* bound on the actions ever proposed
    MaxCrashes,   \* bound on the requests that fail half-way
    MaxPrunes,    \* bound on the runs of retention
    Absent        \* no node, no checkpoint, no action

Statuses == {"proposed", "rejected", "applied", "reverted"}
ActiveStatuses == {"proposed", "applied"}    \* "approved" is never stored
Kinds == {"rollback", "message_filter", "quarantine"}

(* What of a node remediation reads or writes; context stands for declared *)
(* intent, output and task, named by the node they were recorded from.     *)
DriftStatuses == {"ok", "watch", "flagged", "contained"}
NodeRecords == [status : DriftStatuses, quarantined : BOOLEAN,
                context : Nodes, score : Nat]

ASSUME StartAssumption ==
    /\ StartNodes \in [Nodes -> NodeRecords]
    /\ StartEdges \subseteq Nodes \X Nodes /\ IsFiniteSet(StartEdges)
    /\ Targets \subseteq Nodes
    /\ Ts \in [Nodes -> Nat] /\ SavedTs \in [Nodes -> Nat]
ASSUME AbsentAssumption == Absent \notin Nodes \cup NodeRecords

VARIABLES
    nodes,        \* the node table: a record or Absent
    weight,       \* the edge table: the edges present and their weight
    ckpts,        \* nodes whose checkpoint is in the checkpoint table
    table,        \* the committed rows of remediation_actions, in order
    trail,        \* per action, the committed audit entries about it (the
                  \* order of all entries is the business of AuditLog)
    req,          \* per operator, the request it is executing
    retention,    \* "idle", or "pruned": its audit entry is outstanding
    prunes, crashes,
    begun         \* history: the actions a revert of which has begun

store == <<nodes, weight, ckpts>>
rest == <<table, trail, retention, prunes, crashes, begun>>
vars == <<store, rest, req>>

Edges == DOMAIN weight

-----------------------------------------------------------------------------
(* Actions.  before is the part of before_state a revert reads.            *)
Keys == [node : Nodes, kind : Kinds, dst : Nodes \cup {Absent}]
Row(k, c) == [key |-> k, ckpt |-> c, status |-> "proposed", before |-> Absent]
Rows == [key : Keys, ckpt : Nodes \cup {Absent}, status : Statuses,
         before : NodeRecords \cup {Absent}]

(* Requests: pc, the action's number, the copies of the node and of the    *)
(* filtered edge's child that it read, and the rows it will propose.       *)
Pcs == {"idle", "register",
        "approve", "audited", "checkpoint", "edge", "child", "childwrite",
        "write", "save", "missing", "reject",
        "revert", "unfilter", "restore", "unsave"}
Requests == [pc : Pcs, act : Nat, node : NodeRecords \cup {Absent},
             child : NodeRecords \cup {Absent}, before : NodeRecords \cup {Absent},
             batch : SUBSET [key : Keys, ckpt : Nodes \cup {Absent}]]
Idle == [pc |-> "idle", act |-> 0, node |-> Absent, child |-> Absent,
         before |-> Absent, batch |-> {}]

Events == {"proposed", "approved", "applied", "quarantine", "rejected",
           "reverted"}

TypeOK ==
    /\ nodes \in [Nodes -> NodeRecords \cup {Absent}]
    /\ Edges \subseteq StartEdges /\ weight \in [Edges -> {0, 1}]
    /\ ckpts \subseteq Nodes
    /\ table \in Seq(Rows)
    /\ trail \in Seq(Seq(Events)) /\ Len(trail) = Len(table)
    /\ req \in [Operators -> Requests]
    /\ retention \in {"idle", "pruned"}
    /\ prunes \in Nat /\ crashes \in Nat
    /\ begun \subseteq DOMAIN table

-----------------------------------------------------------------------------
(* Locks.  A session holds its action's row while its request runs, and    *)
(* the head of the audit log from "audited" to its end.                    *)
Running(p) == req[p].pc \notin {"idle", "register"}
HasHead(p) == req[p].pc \in {"audited", "checkpoint", "edge", "child",
                             "childwrite", "write", "save", "missing"}

RowFreeIgnored(i) == TRUE                 \* mutant: the row is not locked
RowFree(i) == RowLocks => \A p \in Operators : ~(Running(p) /\ req[p].act = i)
HeadFreeIgnored(p) == TRUE                \* mutant: the head is not locked
HeadFreeEager(p) == \A q \in Operators \ {p} : ~Running(q)
                                          \* mutant: the head is held too soon
HeadFree(p) == RowLocks => \A q \in Operators \ {p} : ~HasHead(q)

-----------------------------------------------------------------------------
Init ==
    /\ nodes = StartNodes
    /\ weight = [e \in StartEdges |-> 1]
    /\ ckpts = Nodes
    /\ table = << >>
    /\ trail = << >>
    /\ req = [p \in Operators |-> Idle]
    /\ retention = "idle"
    /\ prunes = 0
    /\ crashes = 0
    /\ begun = {}

Goto(p, pc) == req' = [req EXCEPT ![p].pc = pc]
Finish(p) == req' = [req EXCEPT ![p] = Idle]
MyAct(p) == table[req[p].act]
MyKey(p) == MyAct(p).key

-----------------------------------------------------------------------------
(* Proposing: attribution.propose_remediation and register.                *)

(* The newest checkpoint of the agent of n saved before n's span.          *)
GoodCheckpoint(n) ==
    LET good == {m \in ckpts : Agent[m] = Agent[n] /\ SavedTs[m] < Ts[n]}
    IN  IF good = {} THEN Absent
        ELSE CHOOSE m \in good : \A o \in good : SavedTs[o] <= SavedTs[m]

Key(n, k, d) == [node |-> n, kind |-> k, dst |-> d]

Proposals(n) ==
    {[key |-> Key(n, "rollback", Absent), ckpt |-> GoodCheckpoint(n)]}
    \cup {[key |-> Key(n, "message_filter", e[2]), ckpt |-> Absent] :
             e \in {f \in Edges : f[1] = n}}
    \cup IF n \in Isolable
         THEN {[key |-> Key(n, "quarantine", Absent), ckpt |-> Absent]}
         ELSE {}

ActiveKeysUndecided ==                    \* mutant: applied actions forgotten
    {table[i].key : i \in {j \in DOMAIN table : table[j].status = "proposed"}}
ActiveKeys == {table[i].key : i \in {j \in DOMAIN table :
                                       table[j].status \in ActiveStatuses}}

NotActive(b) == b.key \notin ActiveKeys

(* The actions there are and those being inserted, for the bound.          *)
Drafted == Len(table) + MapThenSumSet(LAMBDA q : Cardinality(req[q].batch), Operators)

(* Read the root node, build its proposals and drop those whose key an     *)
(* active action already has.                                              *)
RegisterRead(p, n) ==
    /\ p \in Proposers
    /\ req[p].pc = "idle"
    /\ nodes[n] # Absent
    /\ LET batch == {b \in Proposals(n) : NotActive(b)} IN
          /\ Drafted + Cardinality(batch) <= MaxActions
          /\ req' = [req EXCEPT ![p].pc = "register", ![p].batch = batch]
    /\ UNCHANGED <<store, rest>>

(* Insert the rows and their audit entries in one transaction.             *)
RegisterCommit(p) ==
    LET new == SetToSeq(req[p].batch) IN
        /\ req[p].pc = "register"
        /\ new # << >> => HeadFree(p)
        /\ table' = table \o [i \in DOMAIN new |-> Row(new[i].key, new[i].ckpt)]
        /\ trail' = trail \o [i \in DOMAIN new |-> <<"proposed">>]
        /\ Finish(p)
        /\ UNCHANGED <<store, retention, prunes, crashes, begun>>

-----------------------------------------------------------------------------
(* _transition: lock the row and refuse the request unless the action is   *)
(* in the expected status (a refused request changes nothing).             *)
Begin(p, i, expected, pc) ==
    /\ req[p].pc = "idle"
    /\ table[i].status = expected
    /\ RowFree(i)
    /\ req' = [req EXCEPT ![p].pc = pc, ![p].act = i]
    /\ UNCHANGED <<store, table, trail, retention, prunes, crashes>>

(* _save, the audit entries of the session, commit and close.              *)
Save(p, status, before, events) ==
    LET i == req[p].act IN
    /\ table' = [table EXCEPT ![i].status = status, ![i].before = before]
    /\ trail' = [trail EXCEPT ![i] = @ \o events]
    /\ Finish(p)
    /\ UNCHANGED <<store, retention, prunes, crashes, begun>>

-----------------------------------------------------------------------------
(* approve and _apply                                                      *)

ApproveBegin(p, i) == Begin(p, i, "proposed", "approve") /\ UNCHANGED begun

(* The entry "remediation.approved" takes the head of the audit log.       *)
ApproveAudit(p) ==
    /\ req[p].pc = "approve"
    /\ HeadFree(p)
    /\ Goto(p, "audited")
    /\ UNCHANGED <<store, rest>>

Quarantined(n) == [n EXCEPT !.quarantined = TRUE, !.status = "contained"]
Cap(score, limit) == IF score < limit THEN score ELSE limit
RolledBack(n, c) ==
    [n EXCEPT !.context = IF c = Absent THEN @ ELSE c,
              !.status = "contained", !.score = Cap(@, 20)]
Contained(n) == [n EXCEPT !.status = "contained", !.score = Cap(@, 25)]

(* get_node, in a session of its own.                                      *)
ApplyRead(p) ==
    LET k == MyKey(p)
        n == nodes[k.node]
    IN  /\ req[p].pc = "audited"
        /\ req' = [req EXCEPT
              ![p].pc = CASE n = Absent -> "missing"
                          [] n # Absent /\ k.kind = "rollback" -> "checkpoint"
                          [] n # Absent /\ k.kind = "message_filter" -> "edge"
                          [] n # Absent /\ k.kind = "quarantine" -> "write",
              ![p].before = n,
              ![p].node = IF n # Absent /\ k.kind = "quarantine"
                          THEN Quarantined(n) ELSE n]
        /\ UNCHANGED <<store, rest>>

(* ROLLBACK reads the checkpoint, which may be gone by now.                *)
ReadCheckpoint(p) ==
    LET c == MyAct(p).ckpt IN
    /\ req[p].pc = "checkpoint"
    /\ req' = [req EXCEPT ![p].pc = "write",
          ![p].node = RolledBack(@, IF c \in ckpts THEN c ELSE Absent)]
    /\ UNCHANGED <<store, rest>>

(* MESSAGE_FILTER closes the edge, then contains the child.                *)
SetWeight(e, w) == weight' = IF e \in Edges THEN [weight EXCEPT ![e] = w] ELSE weight
MyEdgeBack(p) == <<MyKey(p).dst, MyKey(p).node>>    \* mutant: ends swapped
MyEdge(p) == <<MyKey(p).node, MyKey(p).dst>>

FilterEdge(p) ==
    /\ req[p].pc = "edge"
    /\ SetWeight(MyEdge(p), 0)
    /\ Goto(p, "child")
    /\ UNCHANGED <<nodes, ckpts, rest>>

ReadChild(p) ==
    LET c == nodes[MyKey(p).dst]
        drifted == c # Absent /\ c.status \in {"flagged", "watch"}
    IN  /\ req[p].pc = "child"
        /\ req' = [req EXCEPT ![p].pc = IF drifted THEN "childwrite" ELSE "write",
                              ![p].child = IF drifted THEN Contained(c) ELSE Absent]
        /\ UNCHANGED <<store, rest>>

WriteChild(p) ==
    /\ req[p].pc = "childwrite"
    /\ nodes' = [nodes EXCEPT ![MyKey(p).dst] = req[p].child]
    /\ Goto(p, "write")
    /\ UNCHANGED <<weight, ckpts, rest>>

(* upsert_node writes back the whole record that was read, and inserts it  *)
(* again when retention has deleted it meanwhile.                          *)
WriteNode(p) ==
    /\ req[p].pc = "write"
    /\ nodes' = [nodes EXCEPT ![MyKey(p).node] = req[p].node]
    /\ Goto(p, "save")
    /\ UNCHANGED <<weight, ckpts, rest>>

AppliedEvent(k) == IF k.kind = "quarantine" THEN "quarantine" ELSE "applied"

ApproveCommitUnsaved(p) ==                \* mutant: the status is not saved
    /\ req[p].pc = "save"
    /\ Save(p, "proposed", req[p].before, <<"approved", AppliedEvent(MyKey(p))>>)

ApproveCommit(p) ==
    /\ req[p].pc = "save"
    /\ Save(p, "applied", req[p].before, <<"approved", AppliedEvent(MyKey(p))>>)

ApproveMissingApplied(p) ==               \* mutant: saved as applied
    /\ req[p].pc = "missing"
    /\ Save(p, "applied", Absent, <<"approved">>)

(* The node is gone: the action ends rejected, the entry stays.            *)
ApproveMissing(p) ==
    /\ req[p].pc = "missing"
    /\ Save(p, "rejected", Absent, <<"approved">>)

-----------------------------------------------------------------------------
(* reject                                                                  *)

RejectBegin(p, i) == Begin(p, i, "proposed", "reject") /\ UNCHANGED begun

RejectCommit(p) ==
    /\ req[p].pc = "reject"
    /\ HeadFree(p)
    /\ Save(p, "rejected", Absent, <<"rejected">>)

-----------------------------------------------------------------------------
(* revert: the node is read and written before the audit log is locked.    *)

RevertBegin(p, i) ==
    /\ Begin(p, i, "applied", "revert")
    /\ begun' = begun \cup {i}

RestoredPartly(n, k, b) ==                \* mutant: the status is forgotten
    CASE k = "quarantine" -> [n EXCEPT !.quarantined = b.quarantined]
      [] k = "rollback" -> [n EXCEPT !.quarantined = b.quarantined,
                                     !.status = b.status, !.context = b.context]
      [] k = "message_filter" -> n

(* The score is left as the remediation made it.                           *)
Restored(n, k, b) ==
    CASE k = "quarantine" -> [n EXCEPT !.quarantined = b.quarantined,
                                       !.status = b.status]
      [] k = "rollback" -> [n EXCEPT !.quarantined = b.quarantined,
                                     !.status = b.status, !.context = b.context]
      [] k = "message_filter" -> n

RevertRead(p) ==
    LET k == MyKey(p)
        n == nodes[k.node]
    IN  /\ req[p].pc = "revert"
        /\ req' = [req EXCEPT
              ![p].pc = CASE n = Absent -> "unsave"
                          [] n # Absent /\ k.kind = "message_filter" -> "unfilter"
                          [] n # Absent /\ k.kind # "message_filter" -> "restore",
              ![p].node = IF n = Absent THEN Absent
                          ELSE Restored(n, k.kind, MyAct(p).before)]
        /\ UNCHANGED <<store, rest>>

(* The child and its status are not looked at again.                       *)
Unfilter(p) ==
    /\ req[p].pc = "unfilter"
    /\ SetWeight(MyEdge(p), 1)
    /\ Goto(p, "restore")
    /\ UNCHANGED <<nodes, ckpts, rest>>

RestoreNode(p) ==
    /\ req[p].pc = "restore"
    /\ nodes' = [nodes EXCEPT ![MyKey(p).node] = req[p].node]
    /\ Goto(p, "unsave")
    /\ UNCHANGED <<weight, ckpts, rest>>

RevertCommit(p) ==
    /\ req[p].pc = "unsave"
    /\ HeadFree(p)
    /\ Save(p, "reverted", MyAct(p).before, <<"reverted">>)

-----------------------------------------------------------------------------
(* The request fails or its process dies: the session is rolled back, what *)
(* the store has committed stays.                                          *)
Crash(p) ==
    /\ req[p].pc # "idle"
    /\ crashes < MaxCrashes
    /\ crashes' = crashes + 1
    /\ Finish(p)
    /\ UNCHANGED <<store, table, trail, retention, prunes, begun>>

(* run_retention: prune_older_than in one transaction ...                  *)
Prune(cutoff) ==
    LET old == {n \in Nodes : nodes[n] # Absent /\ Ts[n] < cutoff} IN
    /\ retention = "idle"
    /\ prunes < MaxPrunes
    /\ nodes' = [n \in Nodes |-> IF n \in old THEN Absent ELSE nodes[n]]
    /\ weight' = [e \in {f \in Edges : {f[1], f[2]} \cap old = {}} |-> weight[e]]
    /\ ckpts' = ckpts \ old
    /\ retention' = "pruned"
    /\ prunes' = prunes + 1
    /\ UNCHANGED <<table, trail, req, crashes, begun>>

(* ... and then its entry "retention.pruned" in another.                   *)
PruneAudit ==
    /\ retention = "pruned"
    /\ RowLocks => \A p \in Operators : ~HasHead(p)
    /\ retention' = "idle"
    /\ UNCHANGED <<store, table, trail, req, prunes, crashes, begun>>

PruneLost ==
    /\ retention = "pruned"
    /\ crashes < MaxCrashes
    /\ crashes' = crashes + 1
    /\ retention' = "idle"
    /\ UNCHANGED <<store, table, trail, req, prunes, begun>>

-----------------------------------------------------------------------------
Continue(p) ==
    \/ RegisterCommit(p)
    \/ ApproveAudit(p) \/ ApplyRead(p) \/ ReadCheckpoint(p) \/ FilterEdge(p)
    \/ ReadChild(p) \/ WriteChild(p) \/ WriteNode(p)
    \/ ApproveCommit(p) \/ ApproveMissing(p)
    \/ RejectCommit(p)
    \/ RevertRead(p) \/ Unfilter(p) \/ RestoreNode(p) \/ RevertCommit(p)

Next ==
    \/ \E p \in Operators :
          \/ \E n \in Targets : RegisterRead(p, n)
          \/ \E i \in DOMAIN table :
                ApproveBegin(p, i) \/ RejectBegin(p, i) \/ RevertBegin(p, i)
          \/ Continue(p)
          \/ Crash(p)
    \/ \E n \in Nodes : Prune(Ts[n] + 1)
    \/ PruneAudit
    \/ PruneLost

Spec == Init /\ [][Next]_vars

(* A request that runs is given its turns, and its turn for the lock of    *)
(* the audit head comes (PostgreSQL queues the waiters of a row lock).     *)
Fairness == \A p \in Operators : SF_vars(Continue(p))
FairSpec == Spec /\ Fairness

-----------------------------------------------------------------------------
StatusOf == [i \in DOMAIN table |-> table[i].status]
Lifecycle == INSTANCE RemediationLifecycle WITH status <- StatusOf, story <- trail

(* The detailed engine implements the lifecycle: whatever requests overlap *)
(* or crash, an action's status and its entries change in one step and by  *)
(* the allowed moves only (_transition, _save, record in one session).     *)
LifecycleSpec == Lifecycle!LifecycleSpec

(* The entries an action in its present status has.                        *)
History(a) ==
    LET applied == <<"proposed", "approved", AppliedEvent(a.key)>>
    IN  CASE a.status = "proposed" -> {<<"proposed">>}
          [] a.status = "rejected" -> {<<"proposed", "rejected">>, <<"proposed", "approved">>}
          [] a.status = "applied" -> {applied}
          [] a.status = "reverted" -> {Append(applied, "reverted")}

(* The audit entries of an action are exactly the story its status tells:  *)
(* no action is applied, rejected or reverted twice, none without an       *)
(* approval before it, and no status without its entries.                  *)
AuditMatchesStatus == \A i \in DOMAIN table : trail[i] \in History(table[i])

(* The proposals of one proposer never duplicate an active action: no two  *)
(* active actions have the same node, kind and edge (_dedupe_key).         *)
OneActivePerKey ==
    \A i, j \in DOMAIN table :
        /\ table[i].key = table[j].key
        /\ {table[i].status, table[j].status} \subseteq ActiveStatuses
        => i = j

(* Only a revert lifts a quarantine: while an applied quarantine stands    *)
(* and no revert of an action on its node has begun, the node is isolated, *)
(* whatever other approvals, crashes and prunes write to it.               *)
QuarantineHolds ==
    \A i \in DOMAIN table :
        LET n == table[i].key.node IN
        /\ table[i].key.kind = "quarantine" /\ table[i].status = "applied"
        /\ nodes[n] # Absent
        /\ \A j \in begun : table[j].key.node # n
        => nodes[n].quarantined /\ nodes[n].status = "contained"

(* An applied message filter keeps its edge closed until a revert of a     *)
(* filter of that edge begins.                                             *)
FilterHolds ==
    \A i \in DOMAIN table :
        LET e == <<table[i].key.node, table[i].key.dst>> IN
        /\ table[i].key.kind = "message_filter" /\ table[i].status = "applied"
        /\ e \in Edges
        /\ \A j \in begun : table[j].key # table[i].key
        => weight[e] = 0

(* Action i has an effect on node n, or may yet have one.                  *)
Touches(i, n) == n \in {table[i].key.node, table[i].key.dst}
Approving(i) == \E p \in Operators : HasHead(p) /\ req[p].act = i
Effective(i) == table[i].status \in {"applied", "reverted"} \/ Approving(i)

(* A node that was not contained at the start is contained only by an      *)
(* action the log says was approved and applied, or by an approval still   *)
(* running: a rejected proposal leaves no trace in the graph.              *)
ContainmentLogged ==
    \A n \in Nodes :
        /\ nodes[n] # Absent
        /\ nodes[n].status = "contained" /\ StartNodes[n].status # "contained"
        => \E i \in DOMAIN table : Touches(i, n) /\ Effective(i)

(* The same as far as no request has failed half-way.                      *)
ContainmentLoggedUnlessCrash == crashes = 0 => ContainmentLogged

Visible(n) == [status |-> n.status, quarantined |-> n.quarantined, context |-> n.context]

(* Reverting the only action that ever touched a node gives it back its    *)
(* status, its isolation and its context (the score stays lowered).        *)
LoneRevertRestores ==
    \A i \in DOMAIN table :
        LET n == table[i].key.node IN
        /\ table[i].status = "reverted" /\ table[i].key.kind # "message_filter"
        /\ nodes[n] # Absent
        /\ crashes = 0
        /\ \A j \in DOMAIN table \ {i} : Touches(j, n) => ~Effective(j)
        => Visible(nodes[n]) = Visible(StartNodes[n])

(* remediation.py:249 enters "reverted to prior state" in the log: once    *)
(* the rollbacks of a node are all reverted and no request runs, the node  *)
(* has its own context again.                                              *)
ContextRestored ==
    /\ crashes = 0
    /\ \A p \in Operators : ~Running(p)
    => \A n \in Nodes :
          /\ nodes[n] # Absent
          /\ \A i \in DOMAIN table : table[i].key.node = n /\ table[i].key.kind = "rollback"
                                     => table[i].status # "applied"
          => nodes[n].context = n

(* Every request that has begun ends: with the row locked before the head  *)
(* of the audit log by everyone, no two requests wait for each other.      *)
RequestsEnd == \A p \in Operators : req[p].pc # "idle" ~> req[p].pc = "idle"
=============================================================================
