--------------------------- MODULE RemediationProofs ---------------------------
(***************************************************************************)
(* Proofs about Remediation on a database that locks rows: its types, the  *)
(* agreement of statuses and audit entries, that it implements             *)
(* RemediationLifecycle, and that containment holds.                       *)
(*                                                                         *)
(* AuditMatchesStatus is not inductive: a commit publishes a status that   *)
(* its request was sure of when it began.  IInv adds what makes this still *)
(* true: the action has the status the request began with (SessionOk), no  *)
(* two requests have the same action, and one at most holds the head of    *)
(* the audit log (Apart).                                                  *)
(*                                                                         *)
(* The second half adds to IInv what the graph, and the copies that        *)
(* requests carry from their reads to their writes, have to satisfy: an    *)
(* applied filter keeps its edge closed, an applied quarantine keeps its   *)
(* node isolated, nothing is proposed twice, and without failures no node  *)
(* is contained by what the log does not tell and a lone revert restores   *)
(* its node.                                                               *)
(***************************************************************************)
EXTENDS Remediation, FiniteSetTheorems, SequenceTheorems, WellFoundedInduction, TLAPS

-----------------------------------------------------------------------------
(* What proposals are made of.                                             *)

LEMMA CheckpointType ==
    ASSUME TypeOK, NEW n \in Nodes
    PROVE  GoodCheckpoint(n) \in Nodes \cup {Absent}
<1> DEFINE good == {m \in ckpts : Agent[m] = Agent[n] /\ SavedTs[m] < Ts[n]}
           left(m) == Ts[n] - SavedTs[m]
           T == {left(m) : m \in good}
<1>1. CASE good = {}
  BY <1>1 DEF GoodCheckpoint
<1>2. CASE good # {}
  <2>1. good \subseteq Nodes /\ Ts[n] \in Nat /\ \A m \in Nodes : SavedTs[m] \in Nat
    BY StartAssumption DEF TypeOK
  <2>2. T \subseteq Nat /\ T # {}
    BY <1>2, <2>1
  <2>3. PICK x \in T : \A y \in T : ~(<<y, x>> \in OpToRel(<, Nat))
    BY <2>2, WFMin, NatLessThanWellFounded
  <2>4. \A y \in T : x <= y
    <3>1. OpToRel(<, Nat) = {ss \in Nat \X Nat : ss[1] < ss[2]}
      BY DEF OpToRel
    <3>2. SUFFICES ASSUME NEW y \in T, y < x PROVE FALSE
      BY <2>2
    <3>3. <<y, x>> \in {ss \in Nat \X Nat : ss[1] < ss[2]}
      BY <2>2, <3>2
    <3> QED
      BY <2>3, <3>1, <3>3
  <2>5. \E m \in good : \A o \in good : SavedTs[o] <= SavedTs[m]
    <3>1. PICK m \in good : x = left(m)
      OBVIOUS
    <3>2. \A o \in good : left(m) <= left(o)
      BY <2>4, <3>1
    <3> QED
      BY <2>1, <3>2
  <2>6. (CHOOSE m \in good : \A o \in good : SavedTs[o] <= SavedTs[m]) \in good
    BY <2>5
  <2> QED
    BY <1>2, <2>1, <2>6 DEF GoodCheckpoint
<1> QED
  BY <1>1, <1>2

(* A filter is proposed for an edge only.                                  *)
Sensible(k) == k.kind = "message_filter" => <<k.node, k.dst>> \in StartEdges
Drafts == [key : Keys, ckpt : Nodes \cup {Absent}]

LEMMA ProposalTypes ==
    ASSUME TypeOK, NEW n \in Nodes
    PROVE  /\ Proposals(n) \subseteq Drafts /\ IsFiniteSet(Proposals(n))
           /\ \A b \in Proposals(n) : Sensible(b.key)
<1> DEFINE F == {f \in Edges : f[1] = n}
           Filter(e) == [key |-> Key(n, "message_filter", e[2]), ckpt |-> Absent]
           A == {[key |-> Key(n, "rollback", Absent), ckpt |-> GoodCheckpoint(n)]}
           B == {Filter(e) : e \in F}
           C == {[key |-> Key(n, "quarantine", Absent), ckpt |-> Absent]}
<1>1. IsFiniteSet(A) /\ IsFiniteSet(C) /\ IsFiniteSet({})
  BY FS_Singleton, FS_EmptySet
<1>2. F \subseteq StartEdges /\ IsFiniteSet(F)
  BY FS_Subset, StartAssumption DEF TypeOK
<1>3. IsFiniteSet(B)
  <2>1. [e \in F |-> Filter(e)] \in Surjection(F, B)
    BY DEF Surjection
  <2> QED
    BY <1>2, <2>1, FS_Surjection
<1>4. IsFiniteSet(A \cup B) /\ IsFiniteSet((A \cup B) \cup C)
  BY <1>1, <1>3, FS_Union
<1>5. Proposals(n) = A \cup B \cup C \/ Proposals(n) = A \cup B
  BY DEF Proposals
<1>6. \A e \in F : e = <<n, e[2]>> /\ e[2] \in Nodes
  BY <1>2, StartAssumption
<1>7. A \subseteq Drafts /\ C \subseteq Drafts
  BY CheckpointType DEF Drafts, Key, Keys, Kinds
<1>8. B \subseteq Drafts
  BY <1>6 DEF Drafts, Key, Keys, Kinds
<1>9. \A b \in A \cup B \cup C : Sensible(b.key)
  BY <1>2, <1>6 DEF Sensible, Key
<1> QED
  BY <1>4, <1>5, <1>7, <1>8, <1>9

LEMMA InOrder ==
    ASSUME NEW S, IsFiniteSet(S)
    PROVE  /\ SetToSeq(S) \in [1..Cardinality(S) -> S] /\ Cardinality(S) \in Nat
           /\ \A i \in DOMAIN SetToSeq(S) : SetToSeq(S)[i] \in S
           /\ IsInjective(SetToSeq(S))
<1>1. Cardinality(S) \in Nat /\ ExistsBijection(1..Cardinality(S), S)
  BY FS_CardinalityType
<1>2. \E f \in [1..Cardinality(S) -> S] : IsInjective(f)
  BY <1>1, Zenon DEF ExistsBijection, Bijection, Injection, IsInjective, Surjection
<1>3. SetToSeq(S) \in [1..Cardinality(S) -> S] /\ IsInjective(SetToSeq(S))
  BY <1>2, Zenon DEF SetToSeq
<1> QED
  BY <1>1, <1>3
-----------------------------------------------------------------------------
(* The invariant.                                                          *)
DecidingPcs == {"approve", "audited", "checkpoint", "edge", "child",
                "childwrite", "write", "save", "missing", "reject"}
RevertingPcs == {"revert", "unfilter", "restore", "unsave"}
FilterPcs == {"edge", "child", "childwrite", "unfilter"}
ReadPcs == {"checkpoint", "edge", "child", "childwrite", "write", "save"}

RowsOk ==
    \A i \in DOMAIN table :
        /\ Sensible(table[i].key)
        /\ table[i].status = "applied" => table[i].before \in NodeRecords
        /\ trail[i] \in History(table[i])

BatchesOk ==
    \A p \in Operators :
        IsFiniteSet(req[p].batch) /\ \A b \in req[p].batch : Sensible(b.key)

(* A request's action has the status the request began with, and the       *)
(* copies it will write have been read.                                    *)
SessionOk(p) ==
    /\ req[p].pc \in DecidingPcs =>
          req[p].act \in DOMAIN table /\ table[req[p].act].status = "proposed"
    /\ req[p].pc \in RevertingPcs =>
          req[p].act \in begun /\ table[req[p].act].status = "applied"
    /\ req[p].pc \in ReadPcs =>
          req[p].node \in NodeRecords /\ req[p].before \in NodeRecords
    /\ req[p].pc = "checkpoint" => table[req[p].act].key.kind = "rollback"
    /\ req[p].pc \in FilterPcs => table[req[p].act].key.kind = "message_filter"
    /\ req[p].pc = "childwrite" => req[p].child \in NodeRecords

(* No two requests decide the same action, and one at most has the head.   *)
Apart ==
    \A p, q \in Operators : p # q =>
        /\ Running(p) /\ Running(q) => req[p].act # req[q].act
        /\ ~(HasHead(p) /\ HasHead(q))

Consistent == RowsOk /\ BatchesOk /\ (\A p \in Operators : SessionOk(p)) /\ Apart
IInv == TypeOK /\ Consistent

LEMMA IdleOk ==
    /\ Idle \in Requests
    /\ Idle.pc = "idle" /\ Idle.act = 0 /\ Idle.batch = {}
BY DEF Idle, Requests, Pcs

LEMMA InvInit == Init => IInv
<1> SUFFICES ASSUME Init PROVE IInv
  OBVIOUS
<1>1. \A p \in Operators : req[p] = Idle
  BY DEF Init
<1>2. TypeOK
  BY IdleOk, StartAssumption DEF Init, TypeOK, Edges
<1>3. BatchesOk /\ RowsOk
  <2>1. BatchesOk
    BY <1>1, IdleOk, FS_EmptySet DEF BatchesOk
  <2>2. RowsOk
    BY DEF Init, RowsOk
  <2> QED
    BY <2>1, <2>2
<1>4. \A p \in Operators : SessionOk(p)
  BY <1>1, IdleOk DEF SessionOk, DecidingPcs, RevertingPcs, FilterPcs, ReadPcs
<1>5. Apart
  BY <1>1, IdleOk DEF Apart, Running, HasHead
<1> QED
  BY <1>2, <1>3, <1>4, <1>5 DEF IInv, Consistent

(* A step of one request within its session.                               *)
LEMMA Onward ==
    ASSUME IInv, NEW p \in Operators, NEW r \in Requests,
           req' = [req EXCEPT ![p] = r], UNCHANGED <<table, trail, begun>>,
           r.act = req[p].act, r.batch = req[p].batch,
           \/ req[p].pc \in DecidingPcs /\ r.pc \in DecidingPcs
           \/ req[p].pc \in RevertingPcs /\ r.pc \in RevertingPcs,
           HasHead(p) \/ ~HasHead(p)' \/ \A q \in Operators \ {p} : ~HasHead(q),
           SessionOk(p)'
    PROVE  Consistent'
<1>0. TypeOK /\ req'[p] = r /\ \A q \in Operators \ {p} : req'[q] = req[q]
  BY DEF IInv, TypeOK
<1>1. RowsOk'
  BY DEF IInv, Consistent, RowsOk, History, AppliedEvent
<1>2. BatchesOk'
  BY <1>0 DEF IInv, Consistent, BatchesOk
<1>3. \A q \in Operators : SessionOk(q)'
  BY <1>0 DEF IInv, Consistent, SessionOk
<1>4. Running(p)
  BY DEF Running, DecidingPcs, RevertingPcs
<1>5. \A q \in Operators \ {p} : (Running(q)' <=> Running(q)) /\ (HasHead(q)' <=> HasHead(q))
  BY <1>0 DEF Running, HasHead
<1>6. Apart'
  BY <1>0, <1>4, <1>5 DEF IInv, Consistent, Apart
<1> QED
  BY <1>1, <1>2, <1>3, <1>6 DEF Consistent

(* The request is over: its row may change, and the row is its own.        *)
LEMMA Ending ==
    ASSUME IInv, NEW p \in Operators, req' = [req EXCEPT ![p] = Idle],
           UNCHANGED begun,
           DOMAIN table \subseteq DOMAIN table',
           \A i \in DOMAIN table : (Running(p) => i # req[p].act) => table'[i] = table[i],
           RowsOk'
    PROVE  Consistent'
<1>0. /\ TypeOK /\ req'[p] = Idle /\ \A q \in Operators \ {p} : req'[q] = req[q]
      /\ Consistent
  BY DEF IInv, TypeOK
<1>1. BatchesOk'
  BY <1>0, IdleOk, FS_EmptySet DEF Consistent, BatchesOk
<1>2. ~Running(p)' /\ ~HasHead(p)' /\ SessionOk(p)'
  BY <1>0, IdleOk DEF Running, HasHead, SessionOk, DecidingPcs, RevertingPcs, FilterPcs, ReadPcs
<1>3. ASSUME NEW q \in Operators \ {p} PROVE SessionOk(q)'
  <2>1. CASE Running(q)
    <3>1. Running(p) => req[q].act # req[p].act
      BY <1>0, <2>1 DEF Consistent, Apart
    <3>2. req[q].pc \in DecidingPcs \cup RevertingPcs => req[q].act \in DOMAIN table
      BY <1>0 DEF Consistent, SessionOk, TypeOK
    <3>3. req[q].pc \in DecidingPcs \cup RevertingPcs => table'[req[q].act] = table[req[q].act]
      BY <3>1, <3>2
    <3>4. FilterPcs \cup ReadPcs \cup {"checkpoint"} \subseteq DecidingPcs \cup RevertingPcs
      BY DEF DecidingPcs, RevertingPcs, FilterPcs, ReadPcs
    <3> QED
      BY <1>0, <3>2, <3>3, <3>4 DEF Consistent, SessionOk
  <2>2. CASE ~Running(q)
    BY <1>0, <2>2 DEF SessionOk, Running, DecidingPcs, RevertingPcs, FilterPcs, ReadPcs
  <2> QED
    BY <2>1, <2>2
<1>4. \A q \in Operators \ {p} : (Running(q)' <=> Running(q)) /\ (HasHead(q)' <=> HasHead(q))
  BY <1>0 DEF Running, HasHead
<1>5. Apart'
  BY <1>0, <1>2, <1>4 DEF Consistent, Apart
<1> QED
  BY <1>1, <1>2, <1>3, <1>5 DEF Consistent

-----------------------------------------------------------------------------
(* Proposing.                                                              *)
LEMMA RegisterReadStep ==
    ASSUME IInv, NEW p \in Operators, NEW n \in Targets, RegisterRead(p, n)
    PROVE  IInv'
<1> DEFINE batch == {b \in Proposals(n) : NotActive(b)}
           r == [req[p] EXCEPT !.pc = "register", !.batch = batch]
<1>0. TypeOK /\ Consistent /\ n \in Nodes /\ req[p] \in Requests
  BY StartAssumption DEF IInv, TypeOK
<1>1. batch \subseteq Drafts /\ IsFiniteSet(batch) /\ \A b \in batch : Sensible(b.key)
  BY <1>0, ProposalTypes, FS_Subset
<1>2. /\ req' = [req EXCEPT ![p] = r] /\ UNCHANGED <<store, rest>> /\ ~Running(p)
      /\ r.pc = "register" /\ r.batch = batch
  BY <1>0 DEF RegisterRead, Running, Requests
<1>3. r \in Requests
  BY <1>0, <1>1 DEF Requests, Drafts, Pcs
<1>4. req'[p] = r /\ \A q \in Operators \ {p} : req'[q] = req[q]
  BY <1>0, <1>2 DEF TypeOK
<1>5. TypeOK'
  BY <1>0, <1>2, <1>3 DEF TypeOK, store, rest, Edges
<1>6. RowsOk'
  BY <1>0, <1>2 DEF Consistent, RowsOk, rest, History, AppliedEvent
<1>7. BatchesOk'
  BY <1>0, <1>1, <1>2, <1>4 DEF Consistent, BatchesOk
<1>8. SessionOk(p)' /\ ~Running(p)' /\ ~HasHead(p)'
  BY <1>2, <1>4 DEF SessionOk, Running, HasHead, DecidingPcs, RevertingPcs, FilterPcs, ReadPcs
<1>9. \A q \in Operators \ {p} : SessionOk(q)' /\ (Running(q)' <=> Running(q))
                                  /\ (HasHead(q)' <=> HasHead(q))
  BY <1>0, <1>2, <1>4 DEF Consistent, SessionOk, Running, HasHead, rest
<1>10. Apart'
  BY <1>0, <1>8, <1>9, <1>4 DEF Consistent, Apart
<1> QED
  BY <1>5, <1>6, <1>7, <1>8, <1>9, <1>10 DEF IInv, Consistent

LEMMA RegisterCommitStep ==
    ASSUME IInv, NEW p \in Operators, RegisterCommit(p)
    PROVE  /\ IInv'
           /\ Len(table) <= Len(table') /\ Len(trail') = Len(table')
           /\ \A i \in 1..Len(table) : table'[i] = table[i] /\ trail'[i] = trail[i]
           /\ \A i \in (Len(table) + 1)..Len(table') :
                 table'[i].status = "proposed" /\ trail'[i] = <<"proposed">>
<1> DEFINE new == SetToSeq(req[p].batch)
           n == Cardinality(req[p].batch)
           added == [i \in DOMAIN new |-> Row(new[i].key, new[i].ckpt)]
           told == [i \in DOMAIN new |-> <<"proposed">>]
<1>0. TypeOK /\ Consistent /\ req[p] \in Requests /\ req[p].batch \subseteq Drafts
  BY DEF IInv, TypeOK, Requests, Drafts
<1>1. /\ DOMAIN new = 1..n /\ n \in Nat /\ \A i \in 1..n : new[i] \in req[p].batch
  BY <1>0, InOrder DEF Consistent, BatchesOk
<1>2. \A i \in 1..n : added[i] = Row(new[i].key, new[i].ckpt) /\ told[i] = <<"proposed">>
  BY <1>1
<1>3. \A d \in Drafts : Row(d.key, d.ckpt) \in Rows
  BY DEF Row, Rows, Drafts, Statuses
<1>4. \A i \in 1..n : added[i] \in Rows /\ Sensible(added[i].key) /\ added[i].status = "proposed"
  BY <1>0, <1>1, <1>2, <1>3 DEF Consistent, BatchesOk, Row
<1>5. added \in Seq(Rows) /\ Len(added) = n
  BY <1>1, <1>4
<1>6. <<"proposed">> \in Seq(Events)
  BY DEF Events
<1>7. told \in Seq(Seq(Events)) /\ Len(told) = n
  <2>1. \A i \in 1..n : told[i] \in Seq(Events)
    BY <1>2, <1>6
  <2> HIDE DEF told
  <2>2. DOMAIN told = 1..n /\ told = [i \in 1..n |-> told[i]]
    BY <1>1 DEF told
  <2> QED
    BY <1>1, <2>1, <2>2
<1>8. /\ table' = table \o added /\ trail' = trail \o told
      /\ req' = [req EXCEPT ![p] = Idle] /\ ~Running(p)
      /\ UNCHANGED <<store, retention, prunes, crashes, begun>>
  BY <1>0 DEF RegisterCommit, Finish, Running
<1>9. /\ table \in Seq(Rows) /\ trail \in Seq(Seq(Events)) /\ Len(trail) = Len(table)
  BY <1>0 DEF TypeOK
<1>10. /\ table' \in Seq(Rows) /\ Len(table') = Len(table) + n
       /\ \A i \in 1..Len(table) : table'[i] = table[i]
       /\ \A i \in (Len(table) + 1)..(Len(table) + n) : table'[i] = added[i - Len(table)]
  BY <1>1, <1>5, <1>8, <1>9
<1>11. /\ trail' \in Seq(Seq(Events)) /\ Len(trail') = Len(table) + n
       /\ \A i \in 1..Len(table) : trail'[i] = trail[i]
       /\ \A i \in (Len(table) + 1)..(Len(table) + n) : trail'[i] = told[i - Len(table)]
  BY <1>1, <1>7, <1>8, <1>9
<1>12. ASSUME NEW i \in (Len(table) + 1)..(Len(table) + n)
       PROVE  /\ table'[i].status = "proposed" /\ trail'[i] = <<"proposed">>
              /\ Sensible(table'[i].key)
  <2>1. i - Len(table) \in 1..n
    BY <1>1, <1>9
  <2> QED
    BY <1>2, <1>4, <1>10, <1>11, <2>1
<1>13. TypeOK'
  <2>1. begun \subseteq DOMAIN table'
    BY <1>0, <1>1, <1>9, <1>10 DEF TypeOK
  <2> QED
    BY <1>0, <1>8, <1>10, <1>11, <2>1, IdleOk DEF TypeOK, store, Edges
<1>14. RowsOk'
  <2> SUFFICES ASSUME NEW i \in DOMAIN table'
               PROVE  /\ Sensible(table'[i].key)
                      /\ table'[i].status = "applied" => table'[i].before \in NodeRecords
                      /\ trail'[i] \in History(table'[i])
    BY DEF RowsOk, History, AppliedEvent
  <2>1. CASE i \in DOMAIN table
    <3>1. table'[i] = table[i] /\ trail'[i] = trail[i]
      BY <1>9, <1>10, <1>11, <2>1
    <3> QED
      BY <1>0, <2>1, <3>1 DEF Consistent, RowsOk
  <2>2. CASE i \notin DOMAIN table
    <3>1. i \in (Len(table) + 1)..(Len(table) + n)
      BY <1>1, <1>9, <1>10, <2>2
    <3> QED
      BY <1>12, <3>1 DEF History
  <2> QED
    BY <2>1, <2>2
<1>15. DOMAIN table \subseteq DOMAIN table' /\ \A i \in DOMAIN table : table'[i] = table[i]
  BY <1>1, <1>9, <1>10
<1>16. Consistent'
  BY <1>8, <1>14, <1>15, Ending DEF IInv
<1>17. n \in Nat /\ Len(table) \in Nat
  BY <1>1, <1>9
<1> HIDE DEF n, new, added, told
<1>18. Len(table) <= Len(table') /\ Len(trail') = Len(table')
  BY <1>10, <1>11, <1>17
<1>19. \A i \in 1..Len(table) : table'[i] = table[i] /\ trail'[i] = trail[i]
  BY <1>10, <1>11
<1>20. \A i \in (Len(table) + 1)..Len(table') :
            table'[i].status = "proposed" /\ trail'[i] = <<"proposed">>
  BY <1>10, <1>12
<1> QED
  BY <1>13, <1>16, <1>18, <1>19, <1>20 DEF IInv

-----------------------------------------------------------------------------
(* Requests begin ...                                                      *)
LEMMA BeginStep ==
    ASSUME RowLocks, IInv, NEW p \in Operators, NEW i \in DOMAIN table,
           ApproveBegin(p, i) \/ RejectBegin(p, i) \/ RevertBegin(p, i)
    PROVE  IInv' /\ UNCHANGED <<table, trail>>
<1>0. TypeOK /\ Consistent /\ req[p] \in Requests
  BY DEF IInv, TypeOK
<1>1. PICK pc \in {"approve", "reject", "revert"} :
          /\ req' = [req EXCEPT ![p].pc = pc, ![p].act = i]
          /\ table[i].status = IF pc = "revert" THEN "applied" ELSE "proposed"
          /\ begun' = IF pc = "revert" THEN begun \cup {i} ELSE begun
          /\ RowFree(i) /\ ~Running(p)
          /\ UNCHANGED <<store, table, trail, retention, prunes, crashes>>
  BY DEF ApproveBegin, RejectBegin, RevertBegin, Begin, Running
<1>2. /\ req'[p] \in Requests /\ req'[p].pc = pc /\ req'[p].act = i
      /\ req'[p].batch = req[p].batch
      /\ \A q \in Operators \ {p} : req'[q] = req[q]
      /\ req' \in [Operators -> Requests]
  <2>1. i \in Nat
    BY <1>0 DEF TypeOK
  <2> QED
    BY <1>0, <1>1, <2>1 DEF TypeOK, Requests, Pcs
<1>3. TypeOK'
  BY <1>0, <1>1, <1>2 DEF TypeOK, store, Edges
<1>4. RowsOk'
  BY <1>0, <1>1 DEF Consistent, RowsOk, History, AppliedEvent
<1>5. BatchesOk'
  BY <1>0, <1>2 DEF Consistent, BatchesOk
<1>6. SessionOk(p)'
  BY <1>1, <1>2 DEF SessionOk, DecidingPcs, RevertingPcs, FilterPcs, ReadPcs
<1>7. \A q \in Operators \ {p} : SessionOk(q)' /\ (Running(q)' <=> Running(q))
                                  /\ (HasHead(q)' <=> HasHead(q))
  BY <1>0, <1>1, <1>2 DEF Consistent, SessionOk, Running, HasHead
<1>8. \A q \in Operators \ {p} : Running(q) => req[q].act # i
  BY <1>1 DEF RowFree
<1>9. ~HasHead(p)'
  BY <1>1, <1>2 DEF HasHead
<1>10. Apart'
  <2> SUFFICES ASSUME NEW q \in Operators, NEW v \in Operators, q # v
               PROVE  /\ Running(q)' /\ Running(v)' => req'[q].act # req'[v].act
                      /\ ~(HasHead(q)' /\ HasHead(v)')
    BY DEF Apart
  <2>1. CASE q # p /\ v # p
    BY <1>0, <1>2, <1>7, <2>1 DEF Consistent, Apart
  <2>2. CASE q = p
    BY <1>2, <1>7, <1>8, <1>9, <2>2
  <2>3. CASE v = p
    BY <1>2, <1>7, <1>8, <1>9, <2>3
  <2> QED
    BY <2>1, <2>2, <2>3
<1> QED
  BY <1>1, <1>3, <1>4, <1>5, <1>6, <1>7, <1>10 DEF IInv, Consistent

(* ... and end, with a new status and the entries that tell of it,         *)
LEMMA SaveStep ==
    ASSUME IInv, NEW p \in Operators, Running(p), req[p].act \in DOMAIN table,
           NEW status \in Statuses, NEW before \in NodeRecords \cup {Absent},
           NEW events \in Seq(Events),
           Save(p, status, before, events),
           status = "applied" => before \in NodeRecords,
           \A a \in Rows : /\ a.key = MyKey(p) /\ a.status = status
                           /\ trail[req[p].act] \in History(MyAct(p))
                           => trail[req[p].act] \o events \in History(a)
    PROVE  /\ IInv' /\ UNCHANGED <<store, begun>>
           /\ table' = [table EXCEPT ![req[p].act].status = status,
                                     ![req[p].act].before = before]
           /\ trail' = [trail EXCEPT ![req[p].act] = @ \o events]
           /\ req' = [req EXCEPT ![p] = Idle]
           /\ StatusOf[req[p].act] = MyAct(p).status
           /\ StatusOf' = [StatusOf EXCEPT ![req[p].act] = status]
<1> DEFINE i == req[p].act
<1>0. /\ TypeOK /\ Consistent /\ table \in Seq(Rows) /\ trail \in Seq(Seq(Events))
      /\ i \in DOMAIN table /\ i \in DOMAIN trail /\ DOMAIN trail = DOMAIN table
  BY DEF IInv, TypeOK
<1>1. /\ table' = [table EXCEPT ![i].status = status, ![i].before = before]
      /\ trail' = [trail EXCEPT ![i] = @ \o events]
      /\ req' = [req EXCEPT ![p] = Idle]
      /\ UNCHANGED <<store, retention, prunes, crashes, begun>>
  BY DEF Save, Finish
<1>2. /\ table'[i] \in Rows /\ table'[i].status = status /\ table'[i].before = before
      /\ table'[i].key = table[i].key
      /\ \A j \in DOMAIN table : j # i => table'[j] = table[j]
      /\ table' \in Seq(Rows) /\ Len(table') = Len(table) /\ DOMAIN table' = DOMAIN table
  <2>1. table[i] \in Rows
    BY <1>0
  <2>2. /\ table'[i] = [table[i] EXCEPT !.status = status, !.before = before]
        /\ \A j \in DOMAIN table : j # i => table'[j] = table[j]
        /\ DOMAIN table' = DOMAIN table
    BY <1>0, <1>1
  <2>3. table'[i] \in Rows /\ table'[i].status = status /\ table'[i].before = before
        /\ table'[i].key = table[i].key
    BY <2>1, <2>2 DEF Rows
  <2>4. \A j \in 1..Len(table) : table'[j] \in Rows
    BY <1>0, <2>2, <2>3
  <2>5. table' \in Seq(Rows) /\ Len(table') = Len(table)
    <3>1. DOMAIN table = 1..Len(table) /\ Len(table) \in Nat
      BY <1>0
    <3>2. table' = [j \in 1..Len(table) |-> table'[j]]
      BY <1>1, <3>1
    <3> QED
      BY <2>4, <3>1, <3>2
  <2> QED
    BY <2>2, <2>3, <2>5
<1>3. /\ trail'[i] = trail[i] \o events
      /\ \A j \in DOMAIN trail : j # i => trail'[j] = trail[j]
      /\ trail' \in Seq(Seq(Events)) /\ Len(trail') = Len(trail)
  <2>1. trail[i] \o events \in Seq(Events)
    BY <1>0
  <2> QED
    BY <1>0, <1>1, <2>1
<1>4. TypeOK'
  BY <1>0, <1>1, <1>2, <1>3, IdleOk DEF TypeOK, store, Edges
<1>5. RowsOk'
  <2> SUFFICES ASSUME NEW j \in DOMAIN table'
               PROVE  /\ Sensible(table'[j].key)
                      /\ table'[j].status = "applied" => table'[j].before \in NodeRecords
                      /\ trail'[j] \in History(table'[j])
    BY DEF RowsOk, History, AppliedEvent
  <2>1. CASE j = i
    <3>1. Sensible(table[i].key) /\ trail[i] \in History(table[i])
      BY <1>0 DEF Consistent, RowsOk
    <3> QED
      BY <1>2, <1>3, <2>1, <3>1 DEF MyKey, MyAct
  <2>2. CASE j # i
    BY <1>0, <1>2, <1>3, <2>2 DEF Consistent, RowsOk
  <2> QED
    BY <2>1, <2>2
<1>6. Consistent'
  <2>1. \A j \in DOMAIN table : (Running(p) => j # req[p].act) => table'[j] = table[j]
    BY <1>2
  <2> QED
    BY <1>1, <1>2, <1>5, <2>1, Ending
<1>7. StatusOf[i] = MyAct(p).status /\ StatusOf' = [StatusOf EXCEPT ![i] = status]
  <2>1. StatusOf' = [j \in DOMAIN table |-> table'[j].status]
    BY <1>2 DEF StatusOf
  <2>2. StatusOf[i] = MyAct(p).status
    BY <1>0 DEF StatusOf, MyAct
  <2>3. StatusOf' = [StatusOf EXCEPT ![i] = status]
    <3>1. StatusOf = [j \in DOMAIN table |-> table[j].status]
      BY DEF StatusOf
    <3> QED
      BY <1>0, <1>2, <2>1, <3>1
  <2> QED
    BY <2>2, <2>3
<1> QED
  BY <1>1, <1>4, <1>6, <1>7 DEF IInv

LEMMA Tuples ==
    ASSUME NEW u, NEW v, NEW w, NEW x
    PROVE  /\ <<u>> \o <<v>> = <<u, v>>
           /\ <<u>> \o <<v, w>> = <<u, v, w>>
           /\ <<u, v, w>> \o <<x>> = Append(<<u, v, w>>, x)
<1> DEFINE S == {u, v, w, x}
<1>1. {<<u>>, <<v>>, <<u, v>>, <<v, w>>, <<u, v, w>>} \subseteq Seq(S) /\ x \in S
  OBVIOUS
<1>2. <<u>> \o <<v>> = <<u, v>>
  <2> DEFINE a == <<u>> \o <<v>>
             b == <<u, v>>
  <2>1. a \in Seq(S) /\ Len(a) = 2 /\ b \in Seq(S) /\ Len(b) = 2
    BY <1>1, ConcatProperties
  <2>2. a[1] = b[1] /\ a[2] = b[2]
    BY <1>1, ConcatProperties
  <2> HIDE DEF a, b, S
  <2>3. \A i \in 1..Len(a) : a[i] = b[i]
    BY <2>1, <2>2
  <2>4. a = b
    BY <2>1, <2>3, SeqEqual, Zenon
  <2> QED
    BY <2>4 DEF a, b
<1>3. <<u>> \o <<v, w>> = <<u, v, w>>
  <2> DEFINE a == <<u>> \o <<v, w>>
             b == <<u, v, w>>
  <2>1. a \in Seq(S) /\ Len(a) = 3 /\ b \in Seq(S) /\ Len(b) = 3
    BY <1>1, ConcatProperties
  <2>2. a[1] = b[1] /\ a[2] = b[2] /\ a[3] = b[3]
    BY <1>1, ConcatProperties
  <2> HIDE DEF a, b, S
  <2>3. \A i \in 1..Len(a) : a[i] = b[i]
    BY <2>1, <2>2
  <2>4. a = b
    BY <2>1, <2>3, SeqEqual, Zenon
  <2> QED
    BY <2>4 DEF a, b
<1>4. <<u, v, w>> \o <<x>> = Append(<<u, v, w>>, x)
  BY <1>1, AppendIsConcat
<1> QED
  BY <1>2, <1>3, <1>4

LEMMA Histories ==
    ASSUME NEW a \in Rows, NEW b \in Rows, a.key = b.key,
           NEW t \in History(a)
    PROVE  /\ a.status = "proposed" => t = <<"proposed">>
           /\ a.status = "applied" => t = <<"proposed", "approved", AppliedEvent(a.key)>>
           /\ a.status = "proposed" /\ b.status = "applied" =>
                 t \o <<"approved", AppliedEvent(a.key)>> \in History(b)
           /\ a.status = "proposed" /\ b.status = "rejected" =>
                 t \o <<"approved">> \in History(b) /\ t \o <<"rejected">> \in History(b)
           /\ a.status = "applied" /\ b.status = "reverted" =>
                 t \o <<"reverted">> \in History(b)
<1> DEFINE x == AppliedEvent(a.key)
<1>1. /\ a.status = "proposed" => t = <<"proposed">>
      /\ a.status = "applied" => t = <<"proposed", "approved", x>>
  BY DEF History
<1>2. /\ b.status = "applied" => <<"proposed", "approved", x>> \in History(b)
      /\ b.status = "rejected" => /\ <<"proposed", "approved">> \in History(b)
                                 /\ <<"proposed", "rejected">> \in History(b)
      /\ b.status = "reverted" => Append(<<"proposed", "approved", x>>, "reverted") \in History(b)
  BY DEF History
<1>3. /\ <<"proposed">> \o <<"approved", x>> = <<"proposed", "approved", x>>
      /\ <<"proposed">> \o <<"approved">> = <<"proposed", "approved">>
      /\ <<"proposed">> \o <<"rejected">> = <<"proposed", "rejected">>
      /\ <<"proposed", "approved", x>> \o <<"reverted">>
            = Append(<<"proposed", "approved", x>>, "reverted")
  <2>1. <<"proposed">> \o <<"approved", x>> = <<"proposed", "approved", x>>
    BY Tuples, Zenon
  <2>2. <<"proposed">> \o <<"approved">> = <<"proposed", "approved">>
    BY Tuples, Zenon
  <2>3. <<"proposed">> \o <<"rejected">> = <<"proposed", "rejected">>
    BY Tuples, Zenon
  <2>4. <<"proposed", "approved", x>> \o <<"reverted">>
            = Append(<<"proposed", "approved", x>>, "reverted")
    <3> HIDE DEF x
    <3>1. \A u, v, w, e : <<u, v, w>> \o <<e>> = Append(<<u, v, w>>, e)
      BY Tuples
    <3> QED
      BY <3>1
  <2> QED
    BY <2>1, <2>2, <2>3, <2>4
<1> QED
  BY <1>1, <1>2, <1>3

(* the four ways there are, or by failing.                                 *)
LEMMA CommitSteps ==
    ASSUME IInv, NEW p \in Operators
    PROVE  /\ ApproveCommit(p) => IInv' /\ Lifecycle!Approve(req[p].act)
           /\ ApproveMissing(p) => IInv' /\ Lifecycle!Approve(req[p].act)
           /\ RejectCommit(p) => IInv' /\ Lifecycle!Reject(req[p].act)
           /\ RevertCommit(p) => IInv' /\ Lifecycle!Revert(req[p].act)
<1>0. /\ TypeOK /\ Consistent /\ req[p] \in Requests /\ table \in Seq(Rows)
      /\ trail \in Seq(Seq(Events)) /\ SessionOk(p) /\ RowsOk
  BY DEF IInv, TypeOK, Consistent
<1>1. AppliedEvent(MyKey(p)) \in Events
  BY DEF AppliedEvent, Events
<1>2. ASSUME ApproveCommit(p)
      PROVE  IInv' /\ Lifecycle!Approve(req[p].act)
  <2>1. /\ req[p].pc = "save" /\ req[p].act \in DOMAIN table /\ MyAct(p).status = "proposed"
        /\ req[p].before \in NodeRecords /\ Running(p) /\ MyAct(p) \in Rows
        /\ trail[req[p].act] \in History(MyAct(p))
    BY <1>0, <1>2 DEF ApproveCommit, SessionOk, DecidingPcs, ReadPcs, MyAct, Running, RowsOk
  <2>2. <<"approved", AppliedEvent(MyKey(p))>> \in Seq(Events)
    BY <1>1 DEF Events
  <2>3. Save(p, "applied", req[p].before, <<"approved", AppliedEvent(MyKey(p))>>)
    BY <1>2 DEF ApproveCommit
  <2>4. \A a \in Rows : a.key = MyKey(p) /\ a.status = "applied" =>
            trail[req[p].act] \o <<"approved", AppliedEvent(MyKey(p))>> \in History(a)
    BY <2>1, Histories DEF MyKey
  <2>5. /\ IInv' /\ StatusOf[req[p].act] = "proposed"
        /\ StatusOf' = [StatusOf EXCEPT ![req[p].act] = "applied"]
        /\ trail' = [trail EXCEPT ![req[p].act] = @ \o <<"approved", AppliedEvent(MyKey(p))>>]
    <3>1. IInv'
      BY <2>1, <2>2, <2>3, <2>4, SaveStep DEF Statuses
    <3>2. StatusOf[req[p].act] = "proposed"
      BY <2>1 DEF StatusOf, MyAct
    <3>3. StatusOf' = [StatusOf EXCEPT ![req[p].act] = "applied"]
      BY <2>1, <2>2, <2>3, <2>4, SaveStep DEF Statuses
    <3>4. trail' = [trail EXCEPT ![req[p].act] = @ \o <<"approved", AppliedEvent(MyKey(p))>>]
      BY <2>3 DEF Save
    <3> QED
      BY <3>1, <3>2, <3>3, <3>4
  <2>6. Lifecycle!Approve(req[p].act)
    BY <2>5 DEF Lifecycle!Approve, Lifecycle!Move, AppliedEvent
  <2> QED
    BY <2>5, <2>6
<1>3. ASSUME ApproveMissing(p)
      PROVE  IInv' /\ Lifecycle!Approve(req[p].act)
  <2>1. /\ req[p].pc = "missing" /\ req[p].act \in DOMAIN table /\ MyAct(p).status = "proposed"
        /\ Running(p) /\ MyAct(p) \in Rows
        /\ trail[req[p].act] \in History(MyAct(p))
    BY <1>0, <1>3 DEF ApproveMissing, SessionOk, DecidingPcs, MyAct, Running, RowsOk
  <2>2. <<"approved">> \in Seq(Events)
    BY DEF Events
  <2>3. Save(p, "rejected", Absent, <<"approved">>)
    BY <1>3 DEF ApproveMissing
  <2>4. \A a \in Rows : a.key = MyKey(p) /\ a.status = "rejected" =>
            trail[req[p].act] \o <<"approved">> \in History(a)
    BY <2>1, Histories DEF MyKey
  <2>5. /\ IInv' /\ StatusOf[req[p].act] = "proposed"
        /\ StatusOf' = [StatusOf EXCEPT ![req[p].act] = "rejected"]
        /\ trail' = [trail EXCEPT ![req[p].act] = @ \o <<"approved">>]
    <3>1. IInv'
      BY <2>1, <2>2, <2>3, <2>4, SaveStep DEF Statuses
    <3>2. StatusOf[req[p].act] = "proposed"
      BY <2>1 DEF StatusOf, MyAct
    <3>3. StatusOf' = [StatusOf EXCEPT ![req[p].act] = "rejected"]
      BY <2>1, <2>2, <2>3, <2>4, SaveStep DEF Statuses
    <3>4. trail' = [trail EXCEPT ![req[p].act] = @ \o <<"approved">>]
      BY <2>3 DEF Save
    <3> QED
      BY <3>1, <3>2, <3>3, <3>4
  <2>6. Lifecycle!Approve(req[p].act)
    BY <2>5 DEF Lifecycle!Approve, Lifecycle!Move
  <2> QED
    BY <2>5, <2>6
<1>4. ASSUME RejectCommit(p)
      PROVE  IInv' /\ Lifecycle!Reject(req[p].act)
  <2>1. /\ req[p].pc = "reject" /\ req[p].act \in DOMAIN table /\ MyAct(p).status = "proposed"
        /\ Running(p) /\ MyAct(p) \in Rows
        /\ trail[req[p].act] \in History(MyAct(p))
    BY <1>0, <1>4 DEF RejectCommit, SessionOk, DecidingPcs, MyAct, Running, RowsOk
  <2>2. <<"rejected">> \in Seq(Events)
    BY DEF Events
  <2>3. Save(p, "rejected", Absent, <<"rejected">>)
    BY <1>4 DEF RejectCommit
  <2>4. \A a \in Rows : a.key = MyKey(p) /\ a.status = "rejected" =>
            trail[req[p].act] \o <<"rejected">> \in History(a)
    BY <2>1, Histories DEF MyKey
  <2>5. /\ IInv' /\ StatusOf[req[p].act] = "proposed"
        /\ StatusOf' = [StatusOf EXCEPT ![req[p].act] = "rejected"]
        /\ trail' = [trail EXCEPT ![req[p].act] = @ \o <<"rejected">>]
    <3>1. IInv'
      BY <2>1, <2>2, <2>3, <2>4, SaveStep DEF Statuses
    <3>2. StatusOf[req[p].act] = "proposed"
      BY <2>1 DEF StatusOf, MyAct
    <3>3. StatusOf' = [StatusOf EXCEPT ![req[p].act] = "rejected"]
      BY <2>1, <2>2, <2>3, <2>4, SaveStep DEF Statuses
    <3>4. trail' = [trail EXCEPT ![req[p].act] = @ \o <<"rejected">>]
      BY <2>3 DEF Save
    <3> QED
      BY <3>1, <3>2, <3>3, <3>4
  <2>6. Lifecycle!Reject(req[p].act)
    BY <2>5 DEF Lifecycle!Reject, Lifecycle!Move
  <2> QED
    BY <2>5, <2>6
<1>5. ASSUME RevertCommit(p)
      PROVE  IInv' /\ Lifecycle!Revert(req[p].act)
  <2>1. /\ req[p].pc = "unsave" /\ req[p].act \in DOMAIN table /\ MyAct(p).status = "applied"
        /\ Running(p) /\ MyAct(p) \in Rows
        /\ trail[req[p].act] \in History(MyAct(p))
    BY <1>0, <1>5 DEF RevertCommit, SessionOk, RevertingPcs, MyAct, Running, RowsOk, TypeOK
  <2>2. <<"reverted">> \in Seq(Events) /\ MyAct(p).before \in NodeRecords \cup {Absent}
    BY <2>1 DEF Events, Rows
  <2>3. Save(p, "reverted", MyAct(p).before, <<"reverted">>)
    BY <1>5 DEF RevertCommit
  <2>4. \A a \in Rows : a.key = MyKey(p) /\ a.status = "reverted" =>
            trail[req[p].act] \o <<"reverted">> \in History(a)
    BY <2>1, Histories DEF MyKey
  <2>5. /\ IInv' /\ StatusOf[req[p].act] = "applied"
        /\ StatusOf' = [StatusOf EXCEPT ![req[p].act] = "reverted"]
        /\ trail' = [trail EXCEPT ![req[p].act] = @ \o <<"reverted">>]
    <3>1. IInv'
      BY <2>1, <2>2, <2>3, <2>4, SaveStep DEF Statuses
    <3>2. StatusOf[req[p].act] = "applied"
      BY <2>1 DEF StatusOf, MyAct
    <3>3. StatusOf' = [StatusOf EXCEPT ![req[p].act] = "reverted"]
      BY <2>1, <2>2, <2>3, <2>4, SaveStep DEF Statuses
    <3>4. trail' = [trail EXCEPT ![req[p].act] = @ \o <<"reverted">>]
      BY <2>3 DEF Save
    <3> QED
      BY <3>1, <3>2, <3>3, <3>4
  <2>6. Lifecycle!Revert(req[p].act)
    BY <2>5 DEF Lifecycle!Revert, Lifecycle!Move
  <2> QED
    BY <2>5, <2>6
<1> QED
  BY <1>2, <1>3, <1>4, <1>5

LEMMA CrashStep ==
    ASSUME IInv, NEW p \in Operators, Crash(p)
    PROVE  IInv' /\ UNCHANGED <<store, table, trail, begun>>
<1>0. TypeOK /\ Consistent
  BY DEF IInv
<1>1. /\ req' = [req EXCEPT ![p] = Idle] /\ UNCHANGED <<store, table, trail, retention, prunes, begun>>
      /\ crashes' = crashes + 1
  BY DEF Crash, Finish
<1>2. TypeOK'
  BY <1>0, <1>1, IdleOk DEF TypeOK, store, Edges
<1>3. RowsOk'
  BY <1>0, <1>1 DEF Consistent, RowsOk, History, AppliedEvent
<1>4. Consistent'
  BY <1>1, <1>3, Ending
<1> QED
  BY <1>1, <1>2, <1>4 DEF IInv

(* Retention touches the graph only.                                       *)
LEMMA PruneSteps ==
    ASSUME IInv, \/ \E n \in Nodes : Prune(Ts[n] + 1)
                 \/ PruneAudit \/ PruneLost
    PROVE  IInv' /\ UNCHANGED <<table, trail, begun, req>>
<1>0. TypeOK /\ Consistent
  BY DEF IInv
<1>1. UNCHANGED <<table, trail, begun, req>>
  BY DEF Prune, PruneAudit, PruneLost
<1>2. Consistent'
  BY <1>0, <1>1 DEF Consistent, RowsOk, BatchesOk, SessionOk, Apart, Running, HasHead,
     History, AppliedEvent
<1>3. ASSUME NEW n \in Nodes, Prune(Ts[n] + 1) PROVE TypeOK'
  <2>1. nodes' \in [Nodes -> NodeRecords \cup {Absent}]
    BY <1>0, <1>3 DEF Prune, TypeOK
  <2>2. Edges' \subseteq StartEdges /\ weight' \in [Edges' -> {0, 1}]
    BY <1>0, <1>3 DEF Prune, TypeOK, Edges
  <2> QED
    BY <1>0, <1>1, <1>3, <2>1, <2>2 DEF Prune, TypeOK
<1>4. ASSUME PruneAudit PROVE TypeOK'
  BY <1>0, <1>4 DEF PruneAudit, TypeOK, store, Edges
<1>5. ASSUME PruneLost PROVE TypeOK'
  BY <1>0, <1>5 DEF PruneLost, TypeOK, store, Edges
<1> QED
  BY <1>1, <1>2, <1>3, <1>4, <1>5 DEF IInv

-----------------------------------------------------------------------------
(* What is known of the row of a request that runs.                        *)
LEMMA MyRow ==
    ASSUME IInv, NEW p \in Operators, req[p].pc \in DecidingPcs \cup RevertingPcs
    PROVE  /\ req[p].act \in DOMAIN table /\ MyAct(p) \in Rows /\ MyKey(p) \in Keys
           /\ Sensible(MyKey(p)) /\ trail[req[p].act] \in History(MyAct(p))
           /\ req[p].pc \in DecidingPcs => MyAct(p).status = "proposed"
           /\ req[p].pc \in RevertingPcs =>
                 MyAct(p).status = "applied" /\ MyAct(p).before \in NodeRecords
<1>1. TypeOK /\ RowsOk /\ SessionOk(p)
  BY DEF IInv, Consistent
<1>2. req[p].act \in DOMAIN table
  BY <1>1 DEF SessionOk, TypeOK
<1>3. MyAct(p) \in Rows
  BY <1>1, <1>2 DEF TypeOK, MyAct
<1> QED
  BY <1>1, <1>2, <1>3 DEF SessionOk, RowsOk, MyAct, MyKey, Rows

(* A step of a session keeps the invariant when its request and what it    *)
(* writes to the graph are as they should be.                              *)
LEMMA SessionStep ==
    ASSUME IInv, NEW p \in Operators, NEW r \in Requests,
           req' = [req EXCEPT ![p] = r], UNCHANGED <<ckpts, rest>>,
           nodes' \in [Nodes -> NodeRecords \cup {Absent}],
           Edges' \subseteq StartEdges, weight' \in [Edges' -> {0, 1}],
           r.act = req[p].act, r.batch = req[p].batch,
           \/ req[p].pc \in DecidingPcs /\ r.pc \in DecidingPcs
           \/ req[p].pc \in RevertingPcs /\ r.pc \in RevertingPcs,
           HasHead(p) \/ ~HasHead(p)' \/ \A q \in Operators \ {p} : ~HasHead(q),
           SessionOk(p)'
    PROVE  IInv' /\ UNCHANGED <<table, trail, begun>>
<1>1. UNCHANGED <<table, trail, begun, retention, prunes, crashes>>
  BY DEF rest
<1>2. TypeOK /\ req' \in [Operators -> Requests]
  BY DEF IInv, TypeOK
<1>3. TypeOK'
  BY <1>1, <1>2 DEF TypeOK
<1>4. Consistent'
  BY <1>1, Onward
<1> QED
  BY <1>1, <1>3, <1>4 DEF IInv

(* What stands when a step leaves the graph alone.                         *)
LEMMA Graph ==
    ASSUME TypeOK
    PROVE  /\ nodes \in [Nodes -> NodeRecords \cup {Absent}]
           /\ Edges \subseteq StartEdges /\ weight \in [Edges -> {0, 1}]
           /\ req \in [Operators -> Requests]
           /\ UNCHANGED store =>
                 /\ UNCHANGED ckpts
                 /\ nodes' \in [Nodes -> NodeRecords \cup {Absent}]
                 /\ Edges' \subseteq StartEdges /\ weight' \in [Edges' -> {0, 1}]
BY DEF TypeOK, store, Edges

LEMMA ApproveAuditStep ==
    ASSUME RowLocks, IInv, NEW p \in Operators, ApproveAudit(p)
    PROVE  IInv' /\ UNCHANGED <<table, trail, begun>>
<1> DEFINE r == [req[p] EXCEPT !.pc = "audited"]
<1>0. TypeOK /\ Consistent /\ req[p] \in Requests /\ req[p].pc = "approve" /\ SessionOk(p)
  BY DEF IInv, TypeOK, Consistent, ApproveAudit
<1>1. req' = [req EXCEPT ![p] = r] /\ UNCHANGED <<store, rest>>
      /\ \A q \in Operators \ {p} : ~HasHead(q)
  BY <1>0 DEF ApproveAudit, Goto, HeadFree
<1>2. r \in Requests /\ r.pc = "audited" /\ r.act = req[p].act /\ r.batch = req[p].batch
  BY <1>0 DEF Requests, Pcs
<1>3. req'[p] = r
  BY <1>0, <1>1, Graph
<1>4. SessionOk(p)'
  BY <1>0, <1>1, <1>2, <1>3 DEF SessionOk, rest, DecidingPcs, RevertingPcs, FilterPcs, ReadPcs
<1>5. req[p].pc \in DecidingPcs /\ r.pc \in DecidingPcs
  BY <1>0, <1>2 DEF DecidingPcs
<1> HIDE DEF r
<1> QED
  BY <1>0, <1>1, <1>2, <1>4, <1>5, Graph, SessionStep

LEMMA ApplyReadStep ==
    ASSUME IInv, NEW p \in Operators, ApplyRead(p)
    PROVE  IInv' /\ UNCHANGED <<table, trail, begun>>
<1> DEFINE k == MyKey(p)
           n == nodes[k.node]
           pc == CASE n = Absent -> "missing"
                   [] n # Absent /\ k.kind = "rollback" -> "checkpoint"
                   [] n # Absent /\ k.kind = "message_filter" -> "edge"
                   [] n # Absent /\ k.kind = "quarantine" -> "write"
           copy == IF n # Absent /\ k.kind = "quarantine" THEN Quarantined(n) ELSE n
           r == [req[p] EXCEPT !.pc = pc, !.before = n, !.node = copy]
<1>0. /\ TypeOK /\ Consistent /\ req[p] \in Requests /\ req[p].pc = "audited"
      /\ SessionOk(p) /\ req[p].pc \in DecidingPcs
  BY DEF IInv, TypeOK, Consistent, ApplyRead, DecidingPcs
<1>1. req' = [req EXCEPT ![p] = r] /\ UNCHANGED <<store, rest>>
  <2>1. /\ req' = [req EXCEPT ![p].pc = pc, ![p].before = n, ![p].node = copy]
        /\ UNCHANGED <<store, rest>>
    BY DEF ApplyRead
  <2> HIDE DEF k, n, pc, copy
  <2> QED
    BY <1>0, <2>1, Graph
<1>2. k \in Keys /\ req[p].act \in DOMAIN table /\ MyAct(p).status = "proposed"
  BY <1>0, MyRow
<1>3. n \in NodeRecords \cup {Absent} /\ k.kind \in Kinds
  BY <1>0, <1>2, Graph DEF Keys
<1>4. copy \in NodeRecords \cup {Absent} /\ (n # Absent => copy \in NodeRecords)
  BY <1>3 DEF Quarantined, NodeRecords, DriftStatuses
<1>5. /\ pc \in {"missing", "checkpoint", "edge", "write"}
      /\ pc # "missing" => n # Absent
      /\ pc = "checkpoint" => k.kind = "rollback"
      /\ pc = "edge" => k.kind = "message_filter"
  BY <1>3 DEF Kinds
<1> HIDE DEF pc, copy, n
<1>6. /\ r \in Requests /\ r.pc = pc /\ r.act = req[p].act /\ r.batch = req[p].batch
      /\ r.before = n /\ r.node = copy
  BY <1>0, <1>3, <1>4, <1>5 DEF Requests, Pcs
<1>7. req'[p] = r
  BY <1>0, <1>1, Graph
<1>8. MyAct(p)' = MyAct(p) /\ MyKey(p)' = k /\ table' = table /\ begun' = begun
  BY <1>1, <1>6, <1>7 DEF MyAct, MyKey, rest
<1>9. SessionOk(p)'
  BY <1>2, <1>3, <1>4, <1>5, <1>6, <1>7, <1>8
     DEF SessionOk, MyAct, MyKey, DecidingPcs, RevertingPcs, FilterPcs, ReadPcs
<1>10. r.pc \in DecidingPcs /\ HasHead(p)
  BY <1>0, <1>5, <1>6 DEF DecidingPcs, HasHead
<1> HIDE DEF r, k
<1> QED
  BY <1>0, <1>1, <1>6, <1>9, <1>10, Graph, SessionStep

LEMMA ReadCheckpointStep ==
    ASSUME IInv, NEW p \in Operators, ReadCheckpoint(p)
    PROVE  IInv' /\ UNCHANGED <<table, trail, begun>>
<1> DEFINE c == IF MyAct(p).ckpt \in ckpts THEN MyAct(p).ckpt ELSE Absent
           copy == RolledBack(req[p].node, c)
           r == [req[p] EXCEPT !.pc = "write", !.node = copy]
<1>0. /\ TypeOK /\ Consistent /\ req[p] \in Requests /\ req[p].pc = "checkpoint"
      /\ SessionOk(p) /\ req[p].pc \in DecidingPcs
  BY DEF IInv, TypeOK, Consistent, ReadCheckpoint, DecidingPcs
<1>1. req' = [req EXCEPT ![p] = r] /\ UNCHANGED <<store, rest>>
  BY <1>0 DEF ReadCheckpoint
<1>2. /\ req[p].act \in DOMAIN table /\ MyAct(p).status = "proposed"
      /\ req[p].node \in NodeRecords /\ req[p].before \in NodeRecords
  BY <1>0, MyRow DEF SessionOk, ReadPcs
<1>3. c \in Nodes \cup {Absent}
  BY <1>0 DEF TypeOK
<1>4. copy \in NodeRecords
  BY <1>2, <1>3 DEF RolledBack, Cap, NodeRecords, DriftStatuses
<1> HIDE DEF c, copy
<1>6. /\ r \in Requests /\ r.pc = "write" /\ r.act = req[p].act /\ r.batch = req[p].batch
      /\ r.before = req[p].before /\ r.node = copy
  BY <1>0, <1>4 DEF Requests, Pcs
<1>7. req'[p] = r
  BY <1>0, <1>1, Graph
<1>9. SessionOk(p)'
  BY <1>1, <1>2, <1>4, <1>6, <1>7
     DEF SessionOk, MyAct, rest, DecidingPcs, RevertingPcs, FilterPcs, ReadPcs
<1>10. r.pc \in DecidingPcs /\ HasHead(p)
  BY <1>0, <1>6 DEF DecidingPcs, HasHead
<1> HIDE DEF r
<1> QED
  BY <1>0, <1>1, <1>6, <1>9, <1>10, Graph, SessionStep

LEMMA SetWeightType ==
    ASSUME TypeOK, NEW e, NEW w \in {0, 1}, SetWeight(e, w)
    PROVE  Edges' \subseteq StartEdges /\ weight' \in [Edges' -> {0, 1}]
<1>1. Edges \subseteq StartEdges /\ weight \in [Edges -> {0, 1}]
  BY DEF TypeOK
<1>2. CASE e \in Edges
  BY <1>1, <1>2 DEF SetWeight, Edges
<1>3. CASE e \notin Edges
  BY <1>1, <1>3 DEF SetWeight, Edges
<1> QED
  BY <1>2, <1>3

LEMMA FilterEdgeStep ==
    ASSUME IInv, NEW p \in Operators, FilterEdge(p)
    PROVE  IInv' /\ UNCHANGED <<table, trail, begun>>
<1> DEFINE r == [req[p] EXCEPT !.pc = "child"]
<1>0. /\ TypeOK /\ Consistent /\ req[p] \in Requests /\ req[p].pc = "edge" /\ SessionOk(p)
      /\ req[p].pc \in DecidingPcs
  BY DEF IInv, TypeOK, Consistent, FilterEdge, DecidingPcs
<1>1. req' = [req EXCEPT ![p] = r] /\ UNCHANGED <<nodes, ckpts, rest>>
  BY <1>0 DEF FilterEdge, Goto
<1>2. /\ r \in Requests /\ r.pc = "child" /\ r.act = req[p].act /\ r.batch = req[p].batch
      /\ r.node = req[p].node /\ r.before = req[p].before
  BY <1>0 DEF Requests, Pcs
<1>3. req'[p] = r
  BY <1>0, <1>1, Graph
<1>4. SessionOk(p)'
  BY <1>0, <1>1, <1>2, <1>3 DEF SessionOk, rest, DecidingPcs, RevertingPcs, FilterPcs, ReadPcs
<1>5. r.pc \in DecidingPcs /\ HasHead(p)
  BY <1>0, <1>2 DEF DecidingPcs, HasHead
<1>6. Edges' \subseteq StartEdges /\ weight' \in [Edges' -> {0, 1}]
  BY <1>0, SetWeightType DEF FilterEdge
<1>7. nodes' \in [Nodes -> NodeRecords \cup {Absent}]
  BY <1>0, <1>1, Graph
<1> HIDE DEF r
<1> QED
  BY <1>0, <1>1, <1>2, <1>4, <1>5, <1>6, <1>7, SessionStep

LEMMA ReadChildStep ==
    ASSUME IInv, NEW p \in Operators, ReadChild(p)
    PROVE  IInv' /\ UNCHANGED <<table, trail, begun>>
<1> DEFINE c == nodes[MyKey(p).dst]
           drifted == c # Absent /\ c.status \in {"flagged", "watch"}
           pc == IF drifted THEN "childwrite" ELSE "write"
           copy == IF drifted THEN Contained(c) ELSE Absent
           r == [req[p] EXCEPT !.pc = pc, !.child = copy]
<1>0. /\ TypeOK /\ Consistent /\ req[p] \in Requests /\ req[p].pc = "child"
      /\ SessionOk(p) /\ req[p].pc \in DecidingPcs
  BY DEF IInv, TypeOK, Consistent, ReadChild, DecidingPcs
<1>1. req' = [req EXCEPT ![p] = r] /\ UNCHANGED <<store, rest>>
  BY <1>0 DEF ReadChild
<1>2. /\ req[p].act \in DOMAIN table /\ MyAct(p).status = "proposed"
      /\ MyKey(p).kind = "message_filter" /\ Sensible(MyKey(p))
      /\ req[p].node \in NodeRecords /\ req[p].before \in NodeRecords
  BY <1>0, MyRow DEF SessionOk, ReadPcs, FilterPcs, MyKey, MyAct
<1>3. c \in NodeRecords \cup {Absent}
  BY <1>0, <1>2, StartAssumption, Graph DEF Sensible
<1>4. copy \in NodeRecords \cup {Absent} /\ (pc = "childwrite" => copy \in NodeRecords)
      /\ pc \in {"childwrite", "write"}
  BY <1>3 DEF Contained, Cap, NodeRecords, DriftStatuses
<1> HIDE DEF copy, pc, c, drifted
<1>6. /\ r \in Requests /\ r.pc = pc /\ r.act = req[p].act /\ r.batch = req[p].batch
      /\ r.before = req[p].before /\ r.node = req[p].node /\ r.child = copy
  BY <1>0, <1>4 DEF Requests, Pcs
<1>7. req'[p] = r
  BY <1>0, <1>1, Graph
<1>9. SessionOk(p)'
  BY <1>1, <1>2, <1>4, <1>6, <1>7
     DEF SessionOk, MyAct, MyKey, rest, DecidingPcs, RevertingPcs, FilterPcs, ReadPcs
<1>10. r.pc \in DecidingPcs /\ HasHead(p)
  BY <1>0, <1>4, <1>6 DEF DecidingPcs, HasHead
<1> HIDE DEF r
<1> QED
  BY <1>0, <1>1, <1>6, <1>9, <1>10, Graph, SessionStep

LEMMA WriteSteps ==
    ASSUME IInv, NEW p \in Operators, WriteChild(p) \/ WriteNode(p)
    PROVE  IInv' /\ UNCHANGED <<table, trail, begun>>
<1> DEFINE pc == IF req[p].pc = "childwrite" THEN "write" ELSE "save"
           r == [req[p] EXCEPT !.pc = pc]
<1>0. /\ TypeOK /\ Consistent /\ req[p] \in Requests /\ req[p].pc \in {"childwrite", "write"}
      /\ SessionOk(p) /\ req[p].pc \in DecidingPcs
  BY DEF IInv, TypeOK, Consistent, WriteChild, WriteNode, DecidingPcs
<1>1. req' = [req EXCEPT ![p] = r] /\ UNCHANGED <<weight, ckpts, rest>>
  BY <1>0 DEF WriteChild, WriteNode, Goto
<1>2. /\ r \in Requests /\ r.pc = pc /\ r.act = req[p].act /\ r.batch = req[p].batch
      /\ r.node = req[p].node /\ r.before = req[p].before /\ pc \in {"write", "save"}
  BY <1>0 DEF Requests, Pcs
<1>3. req'[p] = r
  BY <1>0, <1>1, Graph
<1>4. req[p].node \in NodeRecords /\ (req[p].pc = "childwrite" => req[p].child \in NodeRecords)
  BY <1>0 DEF SessionOk, ReadPcs
<1>5. SessionOk(p)'
  BY <1>0, <1>1, <1>2, <1>3 DEF SessionOk, rest, DecidingPcs, RevertingPcs, FilterPcs, ReadPcs
<1>6. r.pc \in DecidingPcs /\ HasHead(p)
  BY <1>0, <1>2 DEF DecidingPcs, HasHead
<1>7. nodes' \in [Nodes -> NodeRecords \cup {Absent}]
  BY <1>0, <1>4, Graph DEF WriteChild, WriteNode
<1>8. Edges' \subseteq StartEdges /\ weight' \in [Edges' -> {0, 1}]
  BY <1>0, <1>1, Graph DEF Edges
<1> HIDE DEF r, pc
<1> QED
  BY <1>0, <1>1, <1>2, <1>5, <1>6, <1>7, <1>8, SessionStep

LEMMA RestoredType ==
    ASSUME NEW n \in NodeRecords, NEW b \in NodeRecords, NEW k \in Kinds
    PROVE  Restored(n, k, b) \in NodeRecords
BY DEF Restored, Kinds, NodeRecords

LEMMA RevertReadStep ==
    ASSUME IInv, NEW p \in Operators, RevertRead(p)
    PROVE  IInv' /\ UNCHANGED <<table, trail, begun>>
<1> DEFINE k == MyKey(p)
           n == nodes[k.node]
           pc == CASE n = Absent -> "unsave"
                   [] n # Absent /\ k.kind = "message_filter" -> "unfilter"
                   [] n # Absent /\ k.kind # "message_filter" -> "restore"
           copy == IF n = Absent THEN Absent ELSE Restored(n, k.kind, MyAct(p).before)
           r == [req[p] EXCEPT !.pc = pc, !.node = copy]
<1>0. /\ TypeOK /\ Consistent /\ req[p] \in Requests /\ req[p].pc = "revert"
      /\ SessionOk(p) /\ req[p].pc \in RevertingPcs
  BY DEF IInv, TypeOK, Consistent, RevertRead, RevertingPcs
<1>1. req' = [req EXCEPT ![p] = r] /\ UNCHANGED <<store, rest>>
  BY <1>0 DEF RevertRead
<1>2. k \in Keys /\ req[p].act \in DOMAIN table /\ MyAct(p).before \in NodeRecords
  BY <1>0, MyRow
<1>3. n \in NodeRecords \cup {Absent} /\ k.kind \in Kinds
  BY <1>0, <1>2, Graph DEF Keys
<1>4. copy \in NodeRecords \cup {Absent} /\ (n # Absent => copy \in NodeRecords)
  BY <1>2, <1>3, RestoredType
<1>5. /\ pc \in {"unsave", "unfilter", "restore"}
      /\ pc # "unsave" => n # Absent
      /\ pc = "unfilter" => k.kind = "message_filter"
  BY <1>3 DEF Kinds
<1> HIDE DEF pc, copy, n
<1>6. /\ r \in Requests /\ r.pc = pc /\ r.act = req[p].act /\ r.batch = req[p].batch
      /\ r.node = copy
  BY <1>0, <1>4, <1>5 DEF Requests, Pcs
<1>7. req'[p] = r
  BY <1>0, <1>1, Graph
<1>8. MyKey(p)' = k /\ table' = table /\ begun' = begun
  BY <1>1, <1>6, <1>7 DEF MyAct, MyKey, rest
<1>9. SessionOk(p)'
  BY <1>0, <1>4, <1>5, <1>6, <1>7, <1>8
     DEF SessionOk, MyAct, MyKey, DecidingPcs, RevertingPcs, FilterPcs, ReadPcs
<1>10. r.pc \in RevertingPcs /\ ~HasHead(p)'
  BY <1>5, <1>6, <1>7 DEF RevertingPcs, HasHead
<1> HIDE DEF r, k
<1> QED
  BY <1>0, <1>1, <1>6, <1>9, <1>10, Graph, SessionStep

LEMMA RestoreSteps ==
    ASSUME IInv, NEW p \in Operators, Unfilter(p) \/ RestoreNode(p)
    PROVE  IInv' /\ UNCHANGED <<table, trail, begun>>
<1> DEFINE pc == IF req[p].pc = "unfilter" THEN "restore" ELSE "unsave"
           r == [req[p] EXCEPT !.pc = pc]
<1>0. /\ TypeOK /\ Consistent /\ req[p] \in Requests /\ req[p].pc \in {"unfilter", "restore"}
      /\ SessionOk(p) /\ req[p].pc \in RevertingPcs
  BY DEF IInv, TypeOK, Consistent, Unfilter, RestoreNode, RevertingPcs
<1>1. req' = [req EXCEPT ![p] = r] /\ UNCHANGED <<ckpts, rest>>
  BY <1>0 DEF Unfilter, RestoreNode, Goto
<1>2. /\ r \in Requests /\ r.pc = pc /\ r.act = req[p].act /\ r.batch = req[p].batch
      /\ pc \in {"restore", "unsave"}
  BY <1>0 DEF Requests, Pcs
<1>3. req'[p] = r
  BY <1>0, <1>1, Graph
<1>4. SessionOk(p)'
  BY <1>0, <1>1, <1>2, <1>3 DEF SessionOk, rest, DecidingPcs, RevertingPcs, FilterPcs, ReadPcs
<1>5. r.pc \in RevertingPcs /\ ~HasHead(p)'
  BY <1>2, <1>3 DEF RevertingPcs, HasHead
<1>6. req[p].node \in NodeRecords \cup {Absent}
  BY <1>0 DEF Requests
<1>7. nodes' \in [Nodes -> NodeRecords \cup {Absent}]
  BY <1>0, <1>6, Graph DEF Unfilter, RestoreNode
<1>8. Edges' \subseteq StartEdges /\ weight' \in [Edges' -> {0, 1}]
  <2>1. CASE Unfilter(p)
    BY <1>0, <2>1, SetWeightType DEF Unfilter
  <2>2. CASE RestoreNode(p)
    BY <1>0, <2>2, Graph DEF RestoreNode, Edges
  <2> QED
    BY <2>1, <2>2
<1> HIDE DEF r, pc
<1> QED
  BY <1>0, <1>1, <1>2, <1>4, <1>5, <1>7, <1>8, SessionStep

LEMMA IdleStep ==
    ASSUME IInv, UNCHANGED vars
    PROVE  IInv'
<1>1. UNCHANGED <<nodes, weight, ckpts, table, trail, retention, prunes, crashes, begun, req>>
  BY DEF vars, store, rest
<1>2. TypeOK'
  BY <1>1 DEF IInv, TypeOK, Edges
<1>3. Consistent'
  BY <1>1 DEF IInv, Consistent, RowsOk, BatchesOk, SessionOk, Apart, Running, HasHead,
     History, AppliedEvent
<1> QED
  BY <1>2, <1>3 DEF IInv

LEMMA InvStep ==
    ASSUME RowLocks, IInv, [Next]_vars
    PROVE  IInv'
<1>1. ASSUME NEW p \in Operators, NEW n \in Targets, RegisterRead(p, n) PROVE IInv'
  BY <1>1, RegisterReadStep
<1>2. ASSUME NEW p \in Operators, NEW i \in DOMAIN table,
             ApproveBegin(p, i) \/ RejectBegin(p, i) \/ RevertBegin(p, i)
      PROVE  IInv'
  BY <1>2, BeginStep
<1>3. ASSUME NEW p \in Operators, Continue(p) PROVE IInv'
  BY <1>3, RegisterCommitStep, ApproveAuditStep, ApplyReadStep, ReadCheckpointStep,
     FilterEdgeStep, ReadChildStep, WriteSteps, CommitSteps, RevertReadStep, RestoreSteps
     DEF Continue
<1>4. ASSUME NEW p \in Operators, Crash(p) PROVE IInv'
  BY <1>4, CrashStep
<1>5. CASE (\E n \in Nodes : Prune(Ts[n] + 1)) \/ PruneAudit \/ PruneLost
  BY <1>5, PruneSteps
<1>6. CASE UNCHANGED vars
  BY <1>6, IdleStep
<1> QED
  BY <1>1, <1>2, <1>3, <1>4, <1>5, <1>6 DEF Next


(* The invariant on a database that locks rows.                            *)
LEMMA Invariant ==
    ASSUME RowLocks
    PROVE  Spec => []IInv
<1>1. IInv /\ [Next]_vars => IInv'
  BY InvStep
<1> QED
  BY <1>1, InvInit, PTL DEF Spec

(* The variables of Remediation keep their types.                          *)
THEOREM RemediationTypeOK ==
    ASSUME RowLocks
    PROVE  Spec => []TypeOK
<1>1. IInv => TypeOK
  BY DEF IInv
<1> QED
  BY <1>1, Invariant, PTL

(* The entries about an action are the story its status tells: requests    *)
(* that overlap, crash or wait never decide an action twice.               *)
THEOREM RemediationAuditMatches ==
    ASSUME RowLocks
    PROVE  Spec => []AuditMatchesStatus
<1>1. IInv => AuditMatchesStatus
  BY DEF IInv, Consistent, RowsOk, AuditMatchesStatus
<1> QED
  BY <1>1, Invariant, PTL

-----------------------------------------------------------------------------
(* The refinement of RemediationLifecycle.                                 *)
LEMMA ProposeStep ==
    ASSUME IInv, NEW p \in Operators, RegisterCommit(p)
    PROVE  Lifecycle!Propose \/ UNCHANGED <<StatusOf, trail>>
<1>1. /\ IInv' /\ Len(table) <= Len(table') /\ Len(trail') = Len(table')
      /\ \A i \in 1..Len(table) : table'[i] = table[i] /\ trail'[i] = trail[i]
      /\ \A i \in (Len(table) + 1)..Len(table') :
            table'[i].status = "proposed" /\ trail'[i] = <<"proposed">>
  BY RegisterCommitStep
<1>2. /\ table \in Seq(Rows) /\ table' \in Seq(Rows)
      /\ trail \in Seq(Seq(Events)) /\ trail' \in Seq(Seq(Events)) /\ Len(trail) = Len(table)
  BY <1>1 DEF IInv, TypeOK
<1>3. /\ DOMAIN StatusOf = 1..Len(table) /\ \A i \in 1..Len(table) : StatusOf[i] = table[i].status
      /\ DOMAIN StatusOf' = 1..Len(table')
      /\ \A i \in 1..Len(table') : StatusOf'[i] = table'[i].status
  BY <1>2 DEF StatusOf
<1>4. /\ StatusOf \in Seq(Statuses) /\ Len(StatusOf) = Len(table)
      /\ StatusOf' \in Seq(Statuses) /\ Len(StatusOf') = Len(table')
  <2>0. /\ \A i \in 1..Len(table) : table[i] \in Rows
        /\ \A i \in 1..Len(table') : table'[i] \in Rows
    BY <1>2
  <2>1. \A i \in 1..Len(table) : table[i].status \in Statuses
    BY <2>0 DEF Rows
  <2>2. \A i \in 1..Len(table') : table'[i].status \in Statuses
    BY <2>0 DEF Rows
  <2>3. StatusOf = [i \in 1..Len(table) |-> table[i].status]
        /\ StatusOf' = [i \in 1..Len(table') |-> table'[i].status]
    BY <1>2 DEF StatusOf
  <2> QED
    BY <1>2, <2>1, <2>2, <2>3
<1>5. CASE Len(table) < Len(table')
  <2>1. Len(StatusOf') > Len(StatusOf) /\ Len(trail') = Len(StatusOf')
    BY <1>1, <1>2, <1>4, <1>5
  <2>2. \A i \in 1..Len(StatusOf) : StatusOf'[i] = StatusOf[i] /\ trail'[i] = trail[i]
    <3>1. 1..Len(table) \subseteq 1..Len(table')
      BY <1>2, <1>5
    <3> QED
      BY <1>1, <1>3, <1>4, <3>1
  <2>3. \A i \in (Len(StatusOf) + 1)..Len(StatusOf') :
            StatusOf'[i] = "proposed" /\ trail'[i] = <<"proposed">>
    <3>1. (Len(table) + 1)..Len(table') \subseteq 1..Len(table')
      BY <1>2
    <3> QED
      BY <1>1, <1>3, <1>4, <3>1
  <2> QED
    BY <2>1, <2>2, <2>3 DEF Lifecycle!Propose
<1>6. CASE Len(table) = Len(table')
  <2>1. \A i \in 1..Len(table) : table'[i] = table[i]
    BY <1>1
  <2>2. table' = table
    BY <1>2, <1>6, <2>1, SeqEqual, Zenon
  <2>3. trail' = trail
    <3>1. Len(trail') = Len(trail) /\ \A i \in 1..Len(trail) : trail'[i] = trail[i]
      BY <1>1, <1>2, <1>6
    <3> QED
      BY <1>2, <3>1, SeqEqual, Zenon
  <2> QED
    BY <2>2, <2>3 DEF StatusOf
<1> QED
  BY <1>1, <1>2, <1>5, <1>6

LEMMA LifecycleStep ==
    ASSUME RowLocks, IInv, [Next]_vars
    PROVE  [Lifecycle!LifecycleNext]_(Lifecycle!lvars)
<1>0. UNCHANGED <<table, trail>> => UNCHANGED Lifecycle!lvars
  BY DEF Lifecycle!lvars, StatusOf
<1>1. ASSUME NEW p \in Operators, NEW n \in Targets, RegisterRead(p, n)
      PROVE  UNCHANGED <<table, trail>>
  BY <1>1 DEF RegisterRead, rest
<1>2. ASSUME NEW p \in Operators, NEW i \in DOMAIN table,
             ApproveBegin(p, i) \/ RejectBegin(p, i) \/ RevertBegin(p, i)
      PROVE  UNCHANGED <<table, trail>>
  BY <1>2, BeginStep
<1>3. ASSUME NEW p \in Operators, Continue(p)
      PROVE  [Lifecycle!LifecycleNext]_(Lifecycle!lvars)
  <2>1. CASE RegisterCommit(p)
    BY <2>1, ProposeStep DEF Lifecycle!LifecycleNext, Lifecycle!lvars
  <2>2. CASE ApproveCommit(p) \/ ApproveMissing(p) \/ RejectCommit(p) \/ RevertCommit(p)
    <3>1. req[p].pc \in DecidingPcs \cup RevertingPcs
      BY <2>2 DEF ApproveCommit, ApproveMissing, RejectCommit, RevertCommit,
         DecidingPcs, RevertingPcs
    <3>2. req[p].act \in DOMAIN StatusOf
      BY <3>1, MyRow DEF StatusOf
    <3>3. \/ Lifecycle!Approve(req[p].act)
          \/ Lifecycle!Reject(req[p].act)
          \/ Lifecycle!Revert(req[p].act)
      BY <2>2, CommitSteps
    <3> QED
      BY <3>2, <3>3 DEF Lifecycle!LifecycleNext
  <2>3. CASE ApproveAudit(p) \/ ApplyRead(p) \/ ReadCheckpoint(p) \/ FilterEdge(p)
             \/ ReadChild(p) \/ WriteChild(p) \/ WriteNode(p)
             \/ RevertRead(p) \/ Unfilter(p) \/ RestoreNode(p)
    BY <1>0, <2>3 DEF ApproveAudit, ApplyRead, ReadCheckpoint, FilterEdge, ReadChild,
       WriteChild, WriteNode, RevertRead, Unfilter, RestoreNode, rest
  <2> QED
    BY <1>3, <2>1, <2>2, <2>3 DEF Continue
<1>4. ASSUME NEW p \in Operators, Crash(p) PROVE UNCHANGED <<table, trail>>
  BY <1>4, CrashStep
<1>5. CASE (\E n \in Nodes : Prune(Ts[n] + 1)) \/ PruneAudit \/ PruneLost
  BY <1>0, <1>5, PruneSteps
<1>6. CASE UNCHANGED vars
  BY <1>0, <1>6 DEF vars, rest
<1> QED
  BY <1>0, <1>1, <1>2, <1>3, <1>4, <1>5, <1>6 DEF Next

(* remediation.py implements the life cycle: the status of an action and   *)
(* its entries change in one step, by the allowed moves only.              *)
THEOREM RemediationRefines ==
    ASSUME RowLocks
    PROVE  Spec => LifecycleSpec
<1>1. Init => Lifecycle!LifecycleInit
  BY DEF Init, Lifecycle!LifecycleInit, StatusOf
<1>2. IInv /\ [Next]_vars => [Lifecycle!LifecycleNext]_(Lifecycle!lvars)
  BY LifecycleStep
<1> QED
  BY <1>1, <1>2, Invariant, PTL DEF Spec, LifecycleSpec, Lifecycle!LifecycleSpec

-----------------------------------------------------------------------------
(* An applied message filter keeps its edge closed.                        *)
FilterClosed == {"child", "childwrite", "write", "save"}

(* A filter with key k is applied, or its approval has closed the edge.    *)
Closing(k) ==
    \E i \in DOMAIN table :
        /\ table[i].key = k
        /\ \/ table[i].status = "applied"
           \/ \E p \in Operators : req[p].pc \in FilterClosed /\ req[p].act = i
Untouched(k) == \A j \in begun : table[j].key # k
EdgeOf(k) == <<k.node, k.dst>>

EdgesClosed ==
    \A k \in Keys :
        k.kind = "message_filter" /\ Closing(k) /\ Untouched(k) /\ EdgeOf(k) \in Edges
        => weight[EdgeOf(k)] = 0

(* What no step does: bring a filter in force without closing its edge,    *)
(* or forget that a revert has begun.                                      *)
LEMMA StaysClosed ==
    ASSUME IInv, EdgesClosed, NEW k \in Keys, k.kind = "message_filter",
           Closing(k)', Untouched(k)', EdgeOf(k) \in Edges',
           Edges' \subseteq Edges, Edges' = DOMAIN weight', \A e \in Edges' : weight'[e] = weight[e],
           begun \subseteq begun',
           \A i \in DOMAIN table : i \in DOMAIN table' /\ table'[i].key = table[i].key,
           \A i \in DOMAIN table' :
              \/ table'[i].status = "applied"
              \/ \E p \in Operators : req'[p].pc \in FilterClosed /\ req'[p].act = i
              => /\ i \in DOMAIN table
                 /\ \/ table[i].status = "applied"
                    \/ table[i].key.kind # "message_filter"
                    \/ \E p \in Operators : req[p].pc \in FilterClosed /\ req[p].act = i
    PROVE  weight'[EdgeOf(k)] = 0
<1>1. Closing(k)
  BY DEF Closing
<1>2. Untouched(k)
  BY DEF Untouched, IInv, TypeOK
<1> QED
  BY <1>1, <1>2 DEF EdgesClosed

(* One request moves and no weight changes.                                *)
LEMMA ClosedMove ==
    ASSUME IInv, EdgesClosed, NEW p \in Operators, NEW r \in Requests,
           req' = [req EXCEPT ![p] = r], UNCHANGED weight, begun \subseteq begun',
           \A i \in DOMAIN table : i \in DOMAIN table' /\ table'[i].key = table[i].key,
           r.pc \in FilterClosed =>
              /\ r.act = req[p].act /\ r.act \in DOMAIN table
              /\ req[p].pc \in FilterClosed \/ MyKey(p).kind # "message_filter",
           \A i \in DOMAIN table' : table'[i].status = "applied" =>
              /\ i \in DOMAIN table
              /\ \/ table[i].status = "applied"
                 \/ req[p].pc \in FilterClosed /\ req[p].act = i
    PROVE  EdgesClosed'
<1> SUFFICES ASSUME NEW k \in Keys, k.kind = "message_filter",
                    Closing(k)', Untouched(k)', EdgeOf(k) \in Edges'
             PROVE  weight'[EdgeOf(k)] = 0
  BY DEF EdgesClosed, EdgeOf
<1>1. req'[p] = r /\ \A q \in Operators \ {p} : req'[q] = req[q]
  BY DEF IInv, TypeOK
<1>2. ASSUME NEW i \in DOMAIN table', NEW q \in Operators,
             req'[q].pc \in FilterClosed, req'[q].act = i
      PROVE  /\ i \in DOMAIN table
             /\ \/ table[i].key.kind # "message_filter"
                \/ req[q].pc \in FilterClosed /\ req[q].act = i
  <2>1. CASE q = p
    BY <1>1, <1>2, <2>1 DEF MyKey, MyAct
  <2>2. CASE q # p
    <3>1. req[q].pc \in DecidingPcs /\ SessionOk(q)
      BY <1>1, <1>2, <2>2 DEF FilterClosed, DecidingPcs, IInv, Consistent
    <3> QED
      BY <1>1, <1>2, <2>2, <3>1 DEF SessionOk
  <2> QED
    BY <2>1, <2>2
<1>3. Edges' = Edges /\ Edges' = DOMAIN weight'
  BY DEF Edges
<1> QED
  BY <1>2, <1>3, StaysClosed

(* What _save leaves of the rows.                                          *)
LEMMA SavedRow ==
    ASSUME IInv, NEW p \in Operators, req[p].act \in DOMAIN table,
           NEW status, NEW before, NEW events, Save(p, status, before, events)
    PROVE  /\ DOMAIN table' = DOMAIN table
           /\ \A i \in DOMAIN table : table'[i].key = table[i].key
           /\ \A i \in DOMAIN table \ {req[p].act} : table'[i] = table[i]
           /\ table'[req[p].act].status = status
           /\ req' = [req EXCEPT ![p] = Idle] /\ UNCHANGED <<store, begun>>
<1> DEFINE i == req[p].act
<1>1. /\ table' = [table EXCEPT ![i].status = status, ![i].before = before]
      /\ req' = [req EXCEPT ![p] = Idle] /\ UNCHANGED <<store, begun>>
  BY DEF Save, Finish
<1>2. table \in Seq(Rows) /\ table[i] \in Rows
  BY DEF IInv, TypeOK
<1>3. /\ table'[i] = [table[i] EXCEPT !.status = status, !.before = before]
      /\ \A j \in DOMAIN table \ {i} : table'[j] = table[j]
      /\ DOMAIN table' = DOMAIN table
  BY <1>1, <1>2
<1>4. table'[i].key = table[i].key /\ table'[i].status = status
  BY <1>2, <1>3 DEF Rows
<1> QED
  BY <1>1, <1>3, <1>4

(* What register leaves of them.                                           *)
LEMMA RegisteredRows ==
    ASSUME IInv, NEW p \in Operators, RegisterCommit(p)
    PROVE  /\ DOMAIN table \subseteq DOMAIN table'
           /\ \A i \in DOMAIN table : table'[i] = table[i]
           /\ \A i \in DOMAIN table' \ DOMAIN table : table'[i].status = "proposed"
           /\ req' = [req EXCEPT ![p] = Idle] /\ UNCHANGED <<store, begun>>
<1>1. /\ IInv' /\ Len(table) <= Len(table')
      /\ \A i \in 1..Len(table) : table'[i] = table[i]
      /\ \A i \in (Len(table) + 1)..Len(table') : table'[i].status = "proposed"
  BY RegisterCommitStep
<1>2. table \in Seq(Rows) /\ table' \in Seq(Rows)
  BY <1>1 DEF IInv, TypeOK
<1>3. /\ DOMAIN table = 1..Len(table) /\ DOMAIN table' = 1..Len(table')
      /\ Len(table) \in Nat /\ Len(table') \in Nat
  BY <1>2
<1>4. 1..Len(table) \subseteq 1..Len(table')
      /\ \A i \in 1..Len(table') : i \in 1..Len(table) \/ i \in (Len(table) + 1)..Len(table')
  BY <1>1, <1>3
<1>5. req' = [req EXCEPT ![p] = Idle] /\ UNCHANGED <<store, begun>>
  BY DEF RegisterCommit, Finish
<1> QED
  BY <1>1, <1>3, <1>4, <1>5

(* Sessions that end leave every action's key, and only an approval that   *)
(* has done its work makes an action applied.                              *)
LEMMA EndOfSession ==
    ASSUME IInv, NEW p \in Operators,
           \/ RegisterCommit(p) \/ ApproveCommit(p) \/ ApproveMissing(p)
           \/ RejectCommit(p) \/ RevertCommit(p) \/ Crash(p)
    PROVE  /\ req' = [req EXCEPT ![p] = Idle] /\ UNCHANGED <<store, begun>>
           /\ \A i \in DOMAIN table : i \in DOMAIN table' /\ table'[i].key = table[i].key
           /\ \A i \in DOMAIN table' : table'[i].status = "applied" =>
                 /\ i \in DOMAIN table
                 /\ \/ table[i].status = "applied"
                    \/ ApproveCommit(p) /\ req[p].pc = "save" /\ req[p].act = i
<1>1. CASE RegisterCommit(p)
  BY <1>1, RegisteredRows
<1>2. CASE Crash(p)
  BY <1>2, CrashStep DEF Crash, Finish
<1>3. CASE ApproveCommit(p) \/ ApproveMissing(p) \/ RejectCommit(p) \/ RevertCommit(p)
  <2>1. req[p].act \in DOMAIN table
    <3>1. req[p].pc \in DecidingPcs \cup RevertingPcs
      BY <1>3 DEF ApproveCommit, ApproveMissing, RejectCommit, RevertCommit,
         DecidingPcs, RevertingPcs
    <3> QED
      BY <3>1, MyRow
  <2>2. CASE ApproveCommit(p)
    BY <2>1, <2>2, SavedRow DEF ApproveCommit
  <2>3. CASE ApproveMissing(p)
    BY <2>1, <2>3, SavedRow DEF ApproveMissing
  <2>4. CASE RejectCommit(p)
    BY <2>1, <2>4, SavedRow DEF RejectCommit
  <2>5. CASE RevertCommit(p)
    BY <2>1, <2>5, SavedRow DEF RevertCommit
  <2> QED
    BY <1>3, <2>2, <2>3, <2>4, <2>5
<1> QED
  BY <1>1, <1>2, <1>3

LEMMA ClosedEnd ==
    ASSUME IInv, EdgesClosed, NEW p \in Operators,
           \/ RegisterCommit(p) \/ ApproveCommit(p) \/ ApproveMissing(p)
           \/ RejectCommit(p) \/ RevertCommit(p) \/ Crash(p)
    PROVE  EdgesClosed'
<1>1. /\ req' = [req EXCEPT ![p] = Idle] /\ UNCHANGED <<weight, begun>>
      /\ \A i \in DOMAIN table : i \in DOMAIN table' /\ table'[i].key = table[i].key
      /\ \A i \in DOMAIN table' : table'[i].status = "applied" =>
            /\ i \in DOMAIN table
            /\ \/ table[i].status = "applied"
               \/ req[p].pc = "save" /\ req[p].act = i
  BY EndOfSession DEF store
<1>2. Idle \in Requests /\ Idle.pc \notin FilterClosed
  BY IdleOk DEF FilterClosed
<1> QED
  BY <1>1, <1>2, ClosedMove DEF FilterClosed

LEMMA ClosedOnward ==
    ASSUME IInv, EdgesClosed, NEW p \in Operators,
           \/ \E n \in Targets : RegisterRead(p, n)
           \/ \E i \in DOMAIN table : ApproveBegin(p, i) \/ RejectBegin(p, i) \/ RevertBegin(p, i)
           \/ ApproveAudit(p) \/ ApplyRead(p) \/ ReadCheckpoint(p) \/ ReadChild(p)
           \/ WriteChild(p) \/ WriteNode(p) \/ RevertRead(p) \/ RestoreNode(p),
           IInv'
    PROVE  EdgesClosed'
<1> DEFINE r == req'[p]
<1>0. /\ req \in [Operators -> Requests] /\ req' \in [Operators -> Requests] /\ SessionOk(p)
      /\ begun \subseteq DOMAIN table
  BY DEF IInv, Consistent, TypeOK
<1>1. /\ UNCHANGED <<weight, table>> /\ begun \subseteq begun' /\ r \in Requests
      /\ \A q \in Operators \ {p} : req'[q] = req[q]
  BY <1>0 DEF RegisterRead, ApproveBegin, RejectBegin, RevertBegin, Begin, ApproveAudit,
     ApplyRead, ReadCheckpoint, ReadChild, WriteChild, WriteNode, RevertRead, RestoreNode,
     Goto, store, rest
<1>2. req' = [req EXCEPT ![p] = r]
  BY <1>0, <1>1
<1>3. r.pc \in FilterClosed =>
         /\ r.act = req[p].act /\ r.act \in DOMAIN table
         /\ req[p].pc \in FilterClosed \/ MyKey(p).kind # "message_filter"
  <2>0. req[p] \in Requests
    BY <1>0
  <2>1. CASE \E n \in Targets : RegisterRead(p, n)
    <3>1. PICK batch : req' = [req EXCEPT ![p].pc = "register", ![p].batch = batch]
      BY <2>1 DEF RegisterRead
    <3>2. r.pc = "register"
      BY <1>0, <2>0, <3>1 DEF Requests
    <3> QED
      BY <3>2 DEF FilterClosed
  <2>2. CASE \E i \in DOMAIN table : ApproveBegin(p, i) \/ RejectBegin(p, i) \/ RevertBegin(p, i)
    <3>1. r.pc \in {"approve", "reject", "revert"}
      BY <1>0, <2>0, <2>2 DEF ApproveBegin, RejectBegin, RevertBegin, Begin, Requests
    <3> QED
      BY <3>1 DEF FilterClosed
  <2>3. CASE ApproveAudit(p) \/ RestoreNode(p)
    BY <1>0, <2>0, <2>3 DEF ApproveAudit, RestoreNode, Goto, FilterClosed, Requests
  <2>4. CASE RevertRead(p)
    <3>1. r.pc \in {"unsave", "unfilter", "restore"}
      BY <1>0, <2>0, <2>4 DEF RevertRead, Requests
    <3> QED
      BY <3>1 DEF FilterClosed
  <2>5. CASE ApplyRead(p)
    <3>1. req[p].pc = "audited" /\ req[p].act \in DOMAIN table /\ MyKey(p).kind \in Kinds
      BY <1>0, <2>5, MyRow DEF ApplyRead, DecidingPcs, Keys
    <3>2. /\ r.pc \in {"missing", "checkpoint", "edge", "write"} /\ r.act = req[p].act
          /\ r.pc = "write" => MyKey(p).kind = "quarantine"
      BY <1>0, <2>0, <2>5, <3>1 DEF ApplyRead, Requests, Kinds
    <3> QED
      BY <3>1, <3>2 DEF FilterClosed
  <2>6. CASE ReadCheckpoint(p)
    <3>1. req[p].act \in DOMAIN table /\ MyKey(p).kind = "rollback"
      BY <1>0, <2>6 DEF ReadCheckpoint, SessionOk, MyKey, MyAct, DecidingPcs
    <3>2. r.act = req[p].act
      BY <1>0, <2>0, <2>6 DEF ReadCheckpoint, Requests
    <3> QED
      BY <3>1, <3>2
  <2>7. CASE ReadChild(p) \/ WriteChild(p) \/ WriteNode(p)
    <3>1. req[p].pc \in FilterClosed /\ req[p].act \in DOMAIN table
      BY <1>0, <2>7 DEF ReadChild, WriteChild, WriteNode, SessionOk, DecidingPcs, FilterClosed
    <3>2. r.act = req[p].act
      BY <1>0, <2>0, <2>7 DEF ReadChild, WriteChild, WriteNode, Goto, Requests
    <3> QED
      BY <3>1, <3>2
  <2> QED
    BY <2>1, <2>2, <2>3, <2>4, <2>5, <2>6, <2>7
<1> HIDE DEF r
<1> QED
  BY <1>1, <1>2, <1>3, ClosedMove

(* The two steps that do change a weight.                                  *)
LEMMA ClosedFilter ==
    ASSUME IInv, EdgesClosed, NEW p \in Operators, FilterEdge(p)
    PROVE  EdgesClosed'
<1>0. /\ req \in [Operators -> Requests] /\ SessionOk(p) /\ req[p].pc = "edge"
      /\ weight \in [Edges -> {0, 1}]
  BY DEF IInv, Consistent, TypeOK, FilterEdge
<1>1. /\ UNCHANGED <<table, begun>> /\ SetWeight(MyEdge(p), 0)
      /\ req'[p].act = req[p].act /\ \A q \in Operators \ {p} : req'[q] = req[q]
  BY <1>0 DEF FilterEdge, Goto, rest, Requests
<1>2. /\ Edges' = Edges /\ \A e \in Edges : e # MyEdge(p) => weight'[e] = weight[e]
      /\ MyEdge(p) \in Edges => weight'[MyEdge(p)] = 0
  BY <1>0, <1>1 DEF SetWeight, Edges
<1> SUFFICES ASSUME NEW k \in Keys, k.kind = "message_filter",
                    Closing(k)', Untouched(k)', EdgeOf(k) \in Edges'
             PROVE  weight'[EdgeOf(k)] = 0
  BY DEF EdgesClosed, EdgeOf
<1>3. CASE EdgeOf(k) = MyEdge(p)
  BY <1>2, <1>3
<1>4. CASE EdgeOf(k) # MyEdge(p)
  <2>1. k # MyKey(p)
    BY <1>4 DEF EdgeOf, MyEdge
  <2>2. Closing(k)
    BY <1>0, <1>1, <2>1 DEF Closing, MyKey, MyAct
  <2>3. Untouched(k)
    BY <1>1 DEF Untouched
  <2> QED
    BY <1>2, <1>4, <2>2, <2>3 DEF EdgesClosed
<1> QED
  BY <1>3, <1>4

LEMMA ClosedUnfilter ==
    ASSUME IInv, EdgesClosed, NEW p \in Operators, Unfilter(p)
    PROVE  EdgesClosed'
<1>0. /\ req \in [Operators -> Requests] /\ SessionOk(p) /\ req[p].pc = "unfilter"
      /\ weight \in [Edges -> {0, 1}]
  BY DEF IInv, Consistent, TypeOK, Unfilter
<1>1. /\ UNCHANGED <<table, begun>> /\ SetWeight(MyEdge(p), 1)
      /\ req'[p].pc = "restore" /\ \A q \in Operators \ {p} : req'[q] = req[q]
  BY <1>0 DEF Unfilter, Goto, rest, Requests
<1>2. Edges' = Edges /\ \A e \in Edges : e # MyEdge(p) => weight'[e] = weight[e]
  BY <1>0, <1>1 DEF SetWeight, Edges
<1>3. MyKey(p).kind = "message_filter" /\ req[p].act \in begun /\ MyKey(p) \in Keys
  BY <1>0, MyRow DEF SessionOk, RevertingPcs, FilterPcs, MyKey, MyAct
<1> SUFFICES ASSUME NEW k \in Keys, k.kind = "message_filter",
                    Closing(k)', Untouched(k)', EdgeOf(k) \in Edges'
             PROVE  weight'[EdgeOf(k)] = 0
  BY DEF EdgesClosed, EdgeOf
<1>4. k # MyKey(p)
  BY <1>1, <1>3 DEF Untouched, MyKey, MyAct
<1>5. EdgeOf(k) # MyEdge(p)
  <2>1. k.node # MyKey(p).node \/ k.dst # MyKey(p).dst
    BY <1>3, <1>4 DEF Keys
  <2> QED
    BY <2>1 DEF EdgeOf, MyEdge
<1>6. Closing(k) /\ Untouched(k)
  BY <1>1 DEF Closing, Untouched, FilterClosed
<1> QED
  BY <1>2, <1>5, <1>6 DEF EdgesClosed

LEMMA ClosedPrune ==
    ASSUME IInv, EdgesClosed,
           \/ \E n \in Nodes : Prune(Ts[n] + 1)
           \/ PruneAudit \/ PruneLost \/ UNCHANGED vars
    PROVE  EdgesClosed'
<1>1. UNCHANGED <<table, begun, req>>
  BY DEF Prune, PruneAudit, PruneLost, vars, rest
<1>2. Edges' \subseteq Edges /\ \A e \in Edges' : weight'[e] = weight[e]
  BY DEF Prune, PruneAudit, PruneLost, vars, store, Edges
<1> SUFFICES ASSUME NEW k \in Keys, k.kind = "message_filter",
                    Closing(k)', Untouched(k)', EdgeOf(k) \in Edges'
             PROVE  weight'[EdgeOf(k)] = 0
  BY DEF EdgesClosed, EdgeOf
<1>3. Closing(k) /\ Untouched(k)
  BY <1>1 DEF Closing, Untouched
<1> QED
  BY <1>2, <1>3 DEF EdgesClosed

(* FilterHolds: an applied message filter keeps its edge closed until a    *)
(* revert of a filter of that edge begins, whatever else is written.       *)
THEOREM FilterStands ==
    ASSUME RowLocks
    PROVE  Spec => []FilterHolds
<1>1. Init => EdgesClosed
  BY DEF Init, EdgesClosed, Closing
<1>2. ASSUME IInv, IInv', EdgesClosed, [Next]_vars PROVE EdgesClosed'
  <2>1. ASSUME NEW p \in Operators,
               \/ \E n \in Targets : RegisterRead(p, n)
               \/ \E i \in DOMAIN table :
                     ApproveBegin(p, i) \/ RejectBegin(p, i) \/ RevertBegin(p, i)
        PROVE  EdgesClosed'
    BY <1>2, <2>1, ClosedOnward
  <2>2. ASSUME NEW p \in Operators, Continue(p) \/ Crash(p) PROVE EdgesClosed'
    BY <1>2, <2>2, ClosedOnward, ClosedEnd, ClosedFilter, ClosedUnfilter DEF Continue
  <2>3. CASE \/ \E n \in Nodes : Prune(Ts[n] + 1)
             \/ PruneAudit \/ PruneLost \/ UNCHANGED vars
    BY <1>2, <2>3, ClosedPrune
  <2> QED
    BY <1>2, <2>1, <2>2, <2>3 DEF Next
<1>3. ASSUME IInv, EdgesClosed PROVE FilterHolds
  <2> SUFFICES ASSUME NEW i \in DOMAIN table, table[i].key.kind = "message_filter",
                      table[i].status = "applied", EdgeOf(table[i].key) \in Edges,
                      \A j \in begun : table[j].key # table[i].key
               PROVE  weight[EdgeOf(table[i].key)] = 0
    BY DEF FilterHolds, EdgeOf
  <2>1. table[i].key \in Keys
    <3>1. table[i] \in Rows
      BY <1>3 DEF IInv, TypeOK
    <3> QED
      BY <3>1 DEF Rows
  <2> QED
    BY <1>3, <2>1 DEF EdgesClosed, Closing, Untouched
<1> QED
  BY <1>1, <1>2, <1>3, Invariant, PTL DEF Spec

-----------------------------------------------------------------------------
(* Only a revert lifts a quarantine.                                       *)
CopyPcs == {"checkpoint", "edge", "child", "childwrite", "write"}
Held(r) == r = Absent \/ (r.quarantined /\ r.status = "contained")

(* A quarantine of n is applied, or its approval has written the node.     *)
Isolating(n) ==
    \E i \in DOMAIN table :
        /\ table[i].key.kind = "quarantine" /\ table[i].key.node = n
        /\ \/ table[i].status = "applied"
           \/ \E p \in Operators : req[p].pc = "save" /\ req[p].act = i
Spared(n) == \A j \in begun : table[j].key.node # n

(* The node is isolated, and so is every copy that may overwrite it.       *)
Isolated(n) ==
    /\ Held(nodes[n])
    /\ \A p \in Operators :
          /\ req[p].pc \in CopyPcs /\ MyKey(p).node = n => Held(req[p].node)
          /\ ~(req[p].pc = "childwrite" /\ MyKey(p).dst = n)

NodesHeld ==
    /\ \A p \in Operators :
          req[p].pc = "write" /\ MyKey(p).kind = "quarantine" => Held(req[p].node)
    /\ \A n \in Nodes : Isolating(n) /\ Spared(n) => Isolated(n)

LEMMA CopyRows ==
    ASSUME IInv, NEW p \in Operators, req[p].pc \in CopyPcs \cup {"save"}
    PROVE  /\ req[p].act \in DOMAIN table /\ HasHead(p) /\ MyKey(p) \in Keys
           /\ req[p].node \in NodeRecords /\ req[p].node # Absent
<1>1. req[p].pc \in DecidingPcs /\ req[p].pc \in ReadPcs /\ HasHead(p)
  BY DEF CopyPcs, DecidingPcs, ReadPcs, HasHead
<1>2. SessionOk(p)
  BY DEF IInv, Consistent
<1> QED
  BY <1>1, <1>2, MyRow, AbsentAssumption DEF SessionOk

(* One request moves and no node changes.                                  *)
LEMMA HeldMove ==
    ASSUME IInv, NodesHeld, NEW p \in Operators, NEW r \in Requests,
           req' = [req EXCEPT ![p] = r], UNCHANGED nodes, begun \subseteq begun',
           \A i \in DOMAIN table : i \in DOMAIN table' /\ table'[i].key = table[i].key,
           \A i \in DOMAIN table' : table'[i].status = "applied" =>
              /\ i \in DOMAIN table
              /\ \/ table[i].status = "applied"
                 \/ req[p].pc = "save" /\ req[p].act = i,
           r.pc # "save",
           r.pc \in CopyPcs =>
              /\ r.act = req[p].act /\ r.act \in DOMAIN table
              /\ Held(nodes[MyKey(p).node]) /\ (req[p].pc \in CopyPcs => Held(req[p].node))
                 => Held(r.node),
           r.pc = "childwrite" => ~Held(nodes[MyKey(p).dst]),
           r.pc = "write" /\ MyKey(p).kind = "quarantine" => Held(r.node)
    PROVE  NodesHeld'
<1>0. /\ req'[p] = r /\ \A q \in Operators \ {p} : req'[q] = req[q]
      /\ begun \subseteq DOMAIN table
  BY DEF IInv, TypeOK
<1>1. \A q \in Operators \ {p} : req[q].pc \in CopyPcs =>
          req[q].act \in DOMAIN table /\ MyKey(q)' = MyKey(q)
  BY <1>0, CopyRows DEF MyKey, MyAct
<1>2. r.pc \in CopyPcs => MyKey(p)' = MyKey(p)
  BY <1>0 DEF MyKey, MyAct
<1>3. ASSUME NEW q \in Operators, (req[q].pc = "write")', (MyKey(q).kind = "quarantine")'
      PROVE  Held(req[q].node)'
  <2>1. CASE q = p
    BY <1>0, <1>2, <1>3, <2>1 DEF CopyPcs, Held
  <2>2. CASE q # p
    BY <1>0, <1>1, <1>3, <2>2 DEF CopyPcs, NodesHeld, Held
  <2> QED
    BY <2>1, <2>2
<1>4. ASSUME NEW n \in Nodes, Isolating(n)', Spared(n)'
      PROVE  Isolated(n)'
  <2>1. Isolating(n)
    <3>1. PICK i \in DOMAIN table' :
              /\ table'[i].key.kind = "quarantine" /\ table'[i].key.node = n
              /\ \/ table'[i].status = "applied"
                 \/ \E q \in Operators : req'[q].pc = "save" /\ req'[q].act = i
      BY <1>4 DEF Isolating
    <3>2. ASSUME NEW q \in Operators, req'[q].pc = "save", req'[q].act = i
          PROVE  req[q].pc = "save" /\ req[q].act = i /\ i \in DOMAIN table
      BY <1>0, <3>2, CopyRows
    <3> QED
      BY <3>1, <3>2 DEF Isolating
  <2>2. Spared(n)
    BY <1>0, <1>4 DEF Spared
  <2>3. Isolated(n)
    BY <2>1, <2>2 DEF NodesHeld
  <2>4. ASSUME NEW q \in Operators
        PROVE  /\ (req[q].pc \in CopyPcs /\ MyKey(q).node = n => Held(req[q].node))'
               /\ ~(req[q].pc = "childwrite" /\ MyKey(q).dst = n)'
    <3>1. CASE q = p
      BY <1>0, <1>2, <2>3, <3>1 DEF Isolated, CopyPcs, Held
    <3>2. CASE q # p
      BY <1>0, <1>1, <2>3, <3>2 DEF Isolated, CopyPcs, Held
    <3> QED
      BY <3>1, <3>2
  <2> QED
    BY <2>3, <2>4 DEF Isolated, Held
<1> QED
  BY <1>3, <1>4 DEF NodesHeld

LEMMA HeldEnd ==
    ASSUME IInv, NodesHeld, NEW p \in Operators,
           \/ RegisterCommit(p) \/ ApproveCommit(p) \/ ApproveMissing(p)
           \/ RejectCommit(p) \/ RevertCommit(p) \/ Crash(p)
    PROVE  NodesHeld'
<1>1. /\ req' = [req EXCEPT ![p] = Idle] /\ UNCHANGED <<nodes, begun>>
      /\ \A i \in DOMAIN table : i \in DOMAIN table' /\ table'[i].key = table[i].key
      /\ \A i \in DOMAIN table' : table'[i].status = "applied" =>
            /\ i \in DOMAIN table
            /\ \/ table[i].status = "applied"
               \/ req[p].pc = "save" /\ req[p].act = i
  BY EndOfSession DEF store
<1>2. Idle \in Requests /\ Idle.pc \notin CopyPcs \cup {"save"}
  BY IdleOk DEF CopyPcs
<1> QED
  BY <1>1, <1>2, HeldMove DEF CopyPcs

LEMMA HeldOnward ==
    ASSUME IInv, NodesHeld, NEW p \in Operators,
           \/ \E n \in Targets : RegisterRead(p, n)
           \/ \E i \in DOMAIN table : ApproveBegin(p, i) \/ RejectBegin(p, i) \/ RevertBegin(p, i)
           \/ ApproveAudit(p) \/ ApplyRead(p) \/ ReadCheckpoint(p) \/ FilterEdge(p)
           \/ ReadChild(p) \/ RevertRead(p) \/ Unfilter(p),
           IInv'
    PROVE  NodesHeld'
<1> DEFINE r == req'[p]
           Good == /\ r.pc \in CopyPcs =>
                         /\ r.act = req[p].act /\ r.act \in DOMAIN table
                         /\ Held(nodes[MyKey(p).node])
                            /\ (req[p].pc \in CopyPcs => Held(req[p].node))
                            => Held(r.node)
                   /\ r.pc = "childwrite" => ~Held(nodes[MyKey(p).dst])
                   /\ r.pc = "write" /\ MyKey(p).kind = "quarantine" => Held(r.node)
<1>0. /\ req \in [Operators -> Requests] /\ req' \in [Operators -> Requests] /\ SessionOk(p)
      /\ begun \subseteq DOMAIN table /\ req[p] \in Requests
  BY DEF IInv, Consistent, TypeOK
<1>1. /\ UNCHANGED <<nodes, table>> /\ begun \subseteq begun' /\ r \in Requests
      /\ \A q \in Operators \ {p} : req'[q] = req[q]
  BY <1>0 DEF RegisterRead, ApproveBegin, RejectBegin, RevertBegin, Begin, ApproveAudit,
     ApplyRead, ReadCheckpoint, FilterEdge, ReadChild, RevertRead, Unfilter, Goto, store, rest
<1>2. req' = [req EXCEPT ![p] = r]
  BY <1>0, <1>1
<1>3. r.pc \notin CopyPcs => Good
  BY DEF CopyPcs
<1>4. r.pc # "save" /\ Good
  <2>1. CASE \E n \in Targets : RegisterRead(p, n)
    <3>1. PICK batch : req' = [req EXCEPT ![p].pc = "register", ![p].batch = batch]
      BY <2>1 DEF RegisterRead
    <3>2. r.pc = "register"
      BY <1>0, <3>1 DEF Requests
    <3> QED
      BY <1>3, <3>2 DEF CopyPcs
  <2>2. CASE \E i \in DOMAIN table : ApproveBegin(p, i) \/ RejectBegin(p, i) \/ RevertBegin(p, i)
    <3>1. r.pc \in {"approve", "reject", "revert"}
      BY <1>0, <2>2 DEF ApproveBegin, RejectBegin, RevertBegin, Begin, Requests
    <3> QED
      BY <1>3, <3>1 DEF CopyPcs
  <2>3. CASE ApproveAudit(p) \/ RevertRead(p) \/ Unfilter(p)
    <3>1. r.pc \in {"audited", "unsave", "unfilter", "restore"}
      BY <1>0, <2>3 DEF ApproveAudit, RevertRead, Unfilter, Goto, Requests
    <3> QED
      BY <1>3, <3>1 DEF CopyPcs
  <2>4. CASE ApplyRead(p)
    <3> DEFINE k == MyKey(p)
               n == nodes[k.node]
    <3>1. /\ req[p].pc = "audited" /\ req[p].act \in DOMAIN table /\ k \in Keys
          /\ k.kind \in Kinds
      BY <1>0, <2>4, MyRow DEF ApplyRead, DecidingPcs, Keys
    <3>2. /\ r.act = req[p].act
          /\ r.pc \in {"missing", "checkpoint", "edge", "write"}
          /\ r.pc = "write" => k.kind = "quarantine" /\ n # Absent
          /\ r.node = IF n # Absent /\ k.kind = "quarantine" THEN Quarantined(n) ELSE n
      BY <1>0, <2>4, <3>1 DEF ApplyRead, Requests, Kinds
    <3>3. n \in NodeRecords \cup {Absent}
      BY <3>1, Graph DEF IInv, Keys
    <3>4. n # Absent => Held(Quarantined(n))
      BY <3>3 DEF Held, Quarantined, NodeRecords
    <3> HIDE DEF k, n
    <3>5. Held(n) => Held(r.node)
      BY <3>2, <3>4
    <3>6. r.pc = "write" => Held(r.node)
      BY <3>2, <3>4
    <3> QED
      BY <3>1, <3>2, <3>5, <3>6 DEF n, k
  <2>5. CASE ReadCheckpoint(p)
    <3>1. /\ req[p].pc = "checkpoint" /\ req[p].act \in DOMAIN table /\ MyKey(p).kind = "rollback"
          /\ req[p].node \in NodeRecords /\ req[p].node # Absent /\ req[p].pc \in CopyPcs
      BY <1>0, <2>5, CopyRows DEF ReadCheckpoint, SessionOk, MyKey, MyAct, CopyPcs
    <3>2. PICK c : r.node = RolledBack(req[p].node, c) /\ r.act = req[p].act /\ r.pc = "write"
      BY <1>0, <2>5 DEF ReadCheckpoint, Requests
    <3>3. Held(req[p].node) => Held(r.node)
      BY <3>1, <3>2 DEF Held, RolledBack, NodeRecords
    <3> QED
      BY <3>1, <3>2, <3>3
  <2>6. CASE FilterEdge(p)
    <3>1. req[p].pc = "edge" /\ req[p].act \in DOMAIN table /\ req[p].pc \in CopyPcs
      BY <2>6, CopyRows DEF FilterEdge, CopyPcs
    <3>2. r.node = req[p].node /\ r.act = req[p].act /\ r.pc = "child"
      BY <1>0, <2>6 DEF FilterEdge, Goto, Requests
    <3> QED
      BY <3>1, <3>2
  <2>7. CASE ReadChild(p)
    <3> DEFINE c == nodes[MyKey(p).dst]
               drifted == c # Absent /\ c.status \in {"flagged", "watch"}
    <3>1. /\ req[p].pc = "child" /\ req[p].act \in DOMAIN table /\ req[p].pc \in CopyPcs
          /\ MyKey(p).kind = "message_filter"
      BY <1>0, <2>7, CopyRows DEF ReadChild, SessionOk, FilterPcs, MyKey, MyAct, CopyPcs
    <3>2. /\ r.node = req[p].node /\ r.act = req[p].act /\ r.pc \in {"childwrite", "write"}
          /\ r.pc = "childwrite" => drifted
      BY <1>0, <2>7 DEF ReadChild, Requests
    <3>3. drifted => ~Held(c)
      BY DEF Held
    <3> QED
      BY <3>1, <3>2, <3>3
  <2> QED
    BY <2>1, <2>2, <2>3, <2>4, <2>5, <2>6, <2>7
<1> HIDE DEF r
<1> QED
  BY <1>1, <1>2, <1>4, HeldMove

(* The steps that write nodes.  The one who writes as part of an approval  *)
(* has the head, so nobody else holds a copy.                              *)
LEMMA OnlyCopy ==
    ASSUME IInv, NEW p \in Operators, HasHead(p), NEW q \in Operators \ {p}
    PROVE  req[q].pc \notin CopyPcs \cup {"save"}
BY CopyRows DEF IInv, Consistent, Apart

LEMMA HeldWriteNode ==
    ASSUME IInv, NodesHeld, NEW p \in Operators, WriteNode(p)
    PROVE  NodesHeld'
<1> DEFINE m == MyKey(p).node
<1>0. /\ req \in [Operators -> Requests] /\ req[p] \in Requests /\ req[p].pc = "write"
      /\ nodes \in [Nodes -> NodeRecords \cup {Absent}]
  BY DEF IInv, TypeOK, WriteNode
<1>1. req[p].act \in DOMAIN table /\ HasHead(p) /\ m \in Nodes
  BY <1>0, CopyRows DEF CopyPcs, Keys
<1>2. /\ UNCHANGED <<table, begun>> /\ nodes' = [nodes EXCEPT ![m] = req[p].node]
      /\ req'[p].pc = "save" /\ req'[p].act = req[p].act
      /\ \A q \in Operators \ {p} : req'[q] = req[q]
  BY <1>0 DEF WriteNode, Goto, rest, Requests
<1>3. \A q \in Operators : req'[q].pc \notin CopyPcs
  BY <1>1, <1>2, OnlyCopy DEF CopyPcs
<1>4. ASSUME NEW n \in Nodes, Isolating(n)', Spared(n)'
      PROVE  Held(nodes'[n])
  <2>1. Spared(n)
    BY <1>2, <1>4 DEF Spared
  <2>2. Isolating(n) \/ (MyKey(p).kind = "quarantine" /\ n = m)
    BY <1>2, <1>4 DEF Isolating, MyKey, MyAct
  <2>3. CASE n = m
    <3>1. Held(req[p].node)
      BY <1>0, <2>1, <2>2, <2>3 DEF NodesHeld, Isolated, CopyPcs
    <3> QED
      BY <1>0, <1>1, <1>2, <2>3, <3>1
  <2>4. CASE n # m
    BY <1>0, <1>2, <2>1, <2>2, <2>4 DEF NodesHeld, Isolated
  <2> QED
    BY <2>3, <2>4
<1>5. ASSUME NEW n \in Nodes, Isolating(n)', Spared(n)' PROVE Isolated(n)'
  BY <1>3, <1>4, <1>5 DEF Isolated, Held, CopyPcs
<1>6. \A q \in Operators : req'[q].pc # "write"
  BY <1>3 DEF CopyPcs
<1> QED
  BY <1>5, <1>6 DEF NodesHeld

LEMMA HeldWriteChild ==
    ASSUME IInv, NodesHeld, NEW p \in Operators, WriteChild(p)
    PROVE  NodesHeld'
<1>0. /\ req \in [Operators -> Requests] /\ req[p] \in Requests /\ req[p].pc = "childwrite"
      /\ nodes \in [Nodes -> NodeRecords \cup {Absent}] /\ SessionOk(p)
  BY DEF IInv, Consistent, TypeOK, WriteChild
<1>1. /\ req[p].act \in DOMAIN table /\ HasHead(p) /\ MyKey(p).kind = "message_filter"
  BY <1>0, CopyRows DEF CopyPcs, SessionOk, FilterPcs, MyKey, MyAct
<1>2. /\ UNCHANGED <<table, begun>> /\ nodes' = [nodes EXCEPT ![MyKey(p).dst] = req[p].child]
      /\ req'[p].pc = "write" /\ req'[p].act = req[p].act /\ req'[p].node = req[p].node
      /\ \A q \in Operators \ {p} : req'[q] = req[q]
  BY <1>0 DEF WriteChild, Goto, rest, Requests
<1>3. \A q \in Operators \ {p} : req'[q].pc \notin CopyPcs \cup {"save"}
  BY <1>1, <1>2, OnlyCopy
<1>4. MyKey(p)' = MyKey(p)
  BY <1>2 DEF MyKey, MyAct
<1>5. ASSUME NEW n \in Nodes, Isolating(n)', Spared(n)' PROVE Isolated(n)'
  <2>1. Isolating(n) /\ Spared(n)
    BY <1>2, <1>3, <1>5 DEF Isolating, Spared
  <2>2. Isolated(n)
    BY <2>1 DEF NodesHeld
  <2>3. n # MyKey(p).dst /\ (MyKey(p).node = n => Held(req[p].node))
    BY <1>0, <2>2 DEF Isolated, CopyPcs
  <2>4. Held(nodes'[n])
    BY <1>0, <1>2, <2>2, <2>3 DEF Isolated
  <2>5. ASSUME NEW q \in Operators
        PROVE  /\ (req[q].pc \in CopyPcs /\ MyKey(q).node = n => Held(req[q].node))'
               /\ ~(req[q].pc = "childwrite" /\ MyKey(q).dst = n)'
    BY <1>2, <1>3, <1>4, <2>3 DEF CopyPcs, Held
  <2> QED
    BY <2>4, <2>5 DEF Isolated, Held
<1>6. ASSUME NEW q \in Operators, (req[q].pc = "write")', (MyKey(q).kind = "quarantine")'
      PROVE  FALSE
  BY <1>1, <1>3, <1>4, <1>6 DEF CopyPcs
<1> QED
  BY <1>5, <1>6 DEF NodesHeld

LEMMA HeldRestoreNode ==
    ASSUME IInv, NodesHeld, NEW p \in Operators, RestoreNode(p)
    PROVE  NodesHeld'
<1> DEFINE m == MyKey(p).node
<1>0. /\ req \in [Operators -> Requests] /\ req[p] \in Requests /\ req[p].pc = "restore"
      /\ nodes \in [Nodes -> NodeRecords \cup {Absent}] /\ req[p].act \in begun
  BY DEF IInv, Consistent, TypeOK, RestoreNode, SessionOk, RevertingPcs
<1>1. /\ UNCHANGED <<table, begun>> /\ nodes' = [nodes EXCEPT ![m] = req[p].node]
      /\ req'[p].pc = "unsave"
      /\ \A q \in Operators \ {p} : req'[q] = req[q]
  BY <1>0 DEF RestoreNode, Goto, rest, Requests
<1>2. \A q \in Operators : req'[q].pc \in CopyPcs \cup {"save"} =>
          q # p /\ req'[q] = req[q] /\ MyKey(q)' = MyKey(q)
  BY <1>1 DEF MyKey, MyAct, CopyPcs
<1>3. ASSUME NEW n \in Nodes, Isolating(n)', Spared(n)' PROVE Isolated(n)'
  <2>1. Isolating(n) /\ Spared(n)
    BY <1>1, <1>2, <1>3 DEF Isolating, Spared
  <2>2. Isolated(n)
    BY <2>1 DEF NodesHeld
  <2>3. n # m
    BY <1>0, <2>1 DEF Spared, MyKey, MyAct
  <2>4. Held(nodes'[n])
    BY <1>0, <1>1, <2>2, <2>3 DEF Isolated
  <2>5. ASSUME NEW q \in Operators
        PROVE  /\ (req[q].pc \in CopyPcs /\ MyKey(q).node = n => Held(req[q].node))'
               /\ ~(req[q].pc = "childwrite" /\ MyKey(q).dst = n)'
    BY <1>2, <2>2 DEF Isolated, CopyPcs, Held
  <2> QED
    BY <2>4, <2>5 DEF Isolated, Held
<1>4. ASSUME NEW q \in Operators, (req[q].pc = "write")', (MyKey(q).kind = "quarantine")'
      PROVE  Held(req[q].node)'
  BY <1>2, <1>4 DEF NodesHeld, CopyPcs, Held
<1> QED
  BY <1>3, <1>4 DEF NodesHeld

LEMMA HeldPrune ==
    ASSUME IInv, NodesHeld,
           \/ \E n \in Nodes : Prune(Ts[n] + 1)
           \/ PruneAudit \/ PruneLost \/ UNCHANGED vars
    PROVE  NodesHeld'
<1>1. UNCHANGED <<table, begun, req>>
  BY DEF Prune, PruneAudit, PruneLost, vars, rest
<1>2. \A n \in Nodes : nodes'[n] \in {nodes[n], Absent}
  BY DEF Prune, PruneAudit, PruneLost, vars, store
<1>3. ASSUME NEW n \in Nodes, Isolating(n)', Spared(n)' PROVE Isolated(n)'
  <2>1. Isolated(n)
    BY <1>1, <1>3 DEF Isolating, Spared, NodesHeld
  <2> QED
    BY <1>1, <1>2, <2>1 DEF Isolated, Held, MyKey, MyAct
<1> QED
  BY <1>1, <1>3 DEF NodesHeld, Held, MyKey, MyAct

(* QuarantineHolds: while an applied quarantine stands and no revert on    *)
(* its node has begun, the node is isolated, whatever other approvals,     *)
(* crashes and runs of retention write.                                    *)
THEOREM QuarantineStands ==
    ASSUME RowLocks
    PROVE  Spec => []QuarantineHolds
<1>1. Init => NodesHeld
  BY IdleOk DEF Init, NodesHeld, Isolating
<1>2. ASSUME IInv, IInv', NodesHeld, [Next]_vars PROVE NodesHeld'
  <2>1. ASSUME NEW p \in Operators,
               \/ \E n \in Targets : RegisterRead(p, n)
               \/ \E i \in DOMAIN table :
                     ApproveBegin(p, i) \/ RejectBegin(p, i) \/ RevertBegin(p, i)
        PROVE  NodesHeld'
    BY <1>2, <2>1, HeldOnward
  <2>2. ASSUME NEW p \in Operators, Continue(p) \/ Crash(p) PROVE NodesHeld'
    BY <1>2, <2>2, HeldOnward, HeldEnd, HeldWriteNode, HeldWriteChild, HeldRestoreNode
       DEF Continue
  <2>3. CASE \/ \E n \in Nodes : Prune(Ts[n] + 1)
             \/ PruneAudit \/ PruneLost \/ UNCHANGED vars
    BY <1>2, <2>3, HeldPrune
  <2> QED
    BY <1>2, <2>1, <2>2, <2>3 DEF Next
<1>3. ASSUME IInv, NodesHeld PROVE QuarantineHolds
  <2> SUFFICES ASSUME NEW i \in DOMAIN table, table[i].key.kind = "quarantine",
                      table[i].status = "applied", nodes[table[i].key.node] # Absent,
                      Spared(table[i].key.node)
               PROVE  /\ nodes[table[i].key.node].quarantined
                      /\ nodes[table[i].key.node].status = "contained"
    BY DEF QuarantineHolds, Spared
  <2>1. table[i].key.node \in Nodes
    <3>1. table[i] \in Rows
      BY <1>3 DEF IInv, TypeOK
    <3> QED
      BY <3>1 DEF Rows, Keys
  <2>2. Held(nodes[table[i].key.node])
    BY <1>3, <2>1 DEF NodesHeld, Isolated, Isolating
  <2> QED
    BY <2>2 DEF Held
<1> QED
  BY <1>1, <1>2, <1>3, Invariant, PTL DEF Spec

-----------------------------------------------------------------------------
(* No duplicate active action, with one proposer at a time.                *)
OneProposer == \A p, q \in Proposers : p = q

Fresh ==
    \A p \in Operators : req[p].pc = "register" =>
        /\ p \in Proposers
        /\ \A b \in req[p].batch : NotActive(b)
        /\ \A b, c \in req[p].batch : b.key = c.key => b = c

LEMMA ProposedOnce ==
    ASSUME NEW n, NEW b \in Proposals(n), NEW c \in Proposals(n), b.key = c.key
    PROVE  b = c
<1> DEFINE Filter(d) == [key |-> Key(n, "message_filter", d), ckpt |-> Absent]
           rollback == [key |-> Key(n, "rollback", Absent), ckpt |-> GoodCheckpoint(n)]
           quarantine == [key |-> Key(n, "quarantine", Absent), ckpt |-> Absent]
<1>1. \A d \in Proposals(n) : d = rollback \/ d = quarantine \/ \E e : d = Filter(e)
  BY DEF Proposals
<1>2. /\ rollback.key.kind = "rollback" /\ quarantine.key.kind = "quarantine"
      /\ \A e : Filter(e).key.kind = "message_filter" /\ Filter(e).key.dst = e
  BY DEF Key
<1> HIDE DEF Filter, rollback, quarantine
<1> QED
  BY <1>1, <1>2

LEMMA RegisteredKeys ==
    ASSUME IInv, NEW p \in Operators, RegisterCommit(p)
    PROVE  /\ \A i \in DOMAIN table' \ DOMAIN table :
                 \E b \in req[p].batch : table'[i].key = b.key
           /\ \A i, j \in DOMAIN table' \ DOMAIN table :
                 (\A b, c \in req[p].batch : b.key = c.key => b = c)
                 /\ table'[i].key = table'[j].key => i = j
<1> DEFINE new == SetToSeq(req[p].batch)
           n == Cardinality(req[p].batch)
           added == [i \in DOMAIN new |-> Row(new[i].key, new[i].ckpt)]
<1>1. /\ DOMAIN new = 1..n /\ n \in Nat /\ IsInjective(new)
      /\ \A i \in 1..n : new[i] \in req[p].batch
  BY InOrder DEF IInv, Consistent, BatchesOk
<1>2. table \in Seq(Rows) /\ IInv'
  BY RegisterCommitStep DEF IInv, TypeOK
<1>3. table' = table \o added
  BY DEF RegisterCommit
<1>4. \A i \in 1..n : added[i].key = new[i].key
  BY <1>1 DEF Row
<1>5. added \in Seq({added[i] : i \in 1..n}) /\ Len(added) = n
  BY <1>1
<1> HIDE DEF added
<1>6. ASSUME NEW i \in DOMAIN table' \ DOMAIN table
      PROVE  i - Len(table) \in 1..n /\ table'[i] = added[i - Len(table)] /\ i \in Nat
  BY <1>1, <1>2, <1>3, <1>5, <1>6
<1>7. ASSUME NEW i \in DOMAIN table' \ DOMAIN table
      PROVE  \E b \in req[p].batch : table'[i].key = b.key
  BY <1>1, <1>4, <1>6
<1>8. ASSUME NEW i \in DOMAIN table' \ DOMAIN table, NEW j \in DOMAIN table' \ DOMAIN table,
             \A b, c \in req[p].batch : b.key = c.key => b = c,
             table'[i].key = table'[j].key
      PROVE  i = j
  <2>1. new[i - Len(table)] = new[j - Len(table)]
    BY <1>1, <1>4, <1>6, <1>8
  <2>2. i - Len(table) = j - Len(table)
    BY <1>1, <1>6, <2>1 DEF IsInjective
  <2> QED
    BY <1>2, <1>6, <2>2
<1> QED
  BY <1>7, <1>8

(* A step that proposes nothing new leaves no key active that was not.     *)
LEMMA FreshMove ==
    ASSUME IInv, OneActivePerKey, Fresh,
           DOMAIN table' = DOMAIN table,
           \A i \in DOMAIN table : table'[i].key = table[i].key,
           \A i \in DOMAIN table : table'[i].status \in ActiveStatuses
                                   => table[i].status \in ActiveStatuses,
           \A q \in Operators : req'[q].pc = "register" =>
              req[q].pc = "register" /\ req'[q].batch = req[q].batch
    PROVE  OneActivePerKey' /\ Fresh'
<1>1. ActiveKeys' \subseteq ActiveKeys
  BY DEF ActiveKeys
<1>2. Fresh'
  BY <1>1 DEF Fresh, NotActive
<1>3. OneActivePerKey'
  BY DEF OneActivePerKey
<1> QED
  BY <1>2, <1>3

LEMMA FreshRead ==
    ASSUME IInv, OneActivePerKey, Fresh, NEW p \in Operators, NEW n \in Targets,
           RegisterRead(p, n)
    PROVE  OneActivePerKey' /\ Fresh'
<1>1. /\ req \in [Operators -> Requests] /\ p \in Proposers /\ UNCHANGED table
      /\ req'[p].batch = {b \in Proposals(n) : NotActive(b)}
      /\ \A q \in Operators \ {p} : req'[q] = req[q]
  BY DEF IInv, TypeOK, RegisterRead, rest, Requests
<1>2. OneActivePerKey' /\ ActiveKeys' = ActiveKeys
  BY <1>1 DEF OneActivePerKey, ActiveKeys
<1>3. Fresh'
  <2> SUFFICES ASSUME NEW q \in Operators, req'[q].pc = "register"
               PROVE  /\ q \in Proposers
                      /\ \A b \in req'[q].batch : NotActive(b)'
                      /\ \A b, c \in req'[q].batch : b.key = c.key => b = c
    BY DEF Fresh
  <2>1. CASE q = p
    BY <1>1, <1>2, <2>1, ProposedOnce DEF NotActive
  <2>2. CASE q # p
    BY <1>1, <1>2, <2>2 DEF Fresh, NotActive
  <2> QED
    BY <2>1, <2>2
<1> QED
  BY <1>2, <1>3

LEMMA FreshCommit ==
    ASSUME OneProposer, IInv, OneActivePerKey, Fresh, NEW p \in Operators, RegisterCommit(p)
    PROVE  OneActivePerKey' /\ Fresh'
<1>0. /\ req \in [Operators -> Requests] /\ req[p].pc = "register"
      /\ req' = [req EXCEPT ![p] = Idle] /\ p \in Proposers
  BY DEF IInv, TypeOK, RegisterCommit, Finish, Fresh
<1>1. /\ DOMAIN table \subseteq DOMAIN table'
      /\ \A i \in DOMAIN table : table'[i] = table[i]
  BY RegisteredRows
<1>2. \A q \in Operators : req'[q].pc # "register"
  BY <1>0, IdleOk DEF OneProposer, Fresh
<1>3. \A b \in req[p].batch : NotActive(b)
  BY <1>0 DEF Fresh
<1>4. OneActivePerKey'
  <2> SUFFICES ASSUME NEW i \in DOMAIN table', NEW j \in DOMAIN table',
                      table'[i].key = table'[j].key,
                      {table'[i].status, table'[j].status} \subseteq ActiveStatuses
               PROVE  i = j
    BY DEF OneActivePerKey
  <2>1. CASE i \in DOMAIN table /\ j \in DOMAIN table
    BY <1>1, <2>1 DEF OneActivePerKey
  <2>2. CASE i \notin DOMAIN table /\ j \notin DOMAIN table
    BY <1>0, <2>2, RegisteredKeys DEF Fresh
  <2>3. ASSUME NEW u \in DOMAIN table, table'[u].status \in ActiveStatuses,
               NEW v \in DOMAIN table' \ DOMAIN table, table'[u].key = table'[v].key
        PROVE  FALSE
    <3>1. PICK b \in req[p].batch : table'[v].key = b.key
      BY RegisteredKeys
    <3>2. b.key \in ActiveKeys
      BY <1>1, <2>3, <3>1 DEF ActiveKeys
    <3> QED
      BY <1>3, <3>2 DEF NotActive
  <2> QED
    BY <2>1, <2>2, <2>3
<1>5. Fresh'
  BY <1>2 DEF Fresh
<1> QED
  BY <1>4, <1>5

LEMMA FreshRest ==
    ASSUME IInv, OneActivePerKey, Fresh, NEW p \in Operators,
           \/ \E i \in DOMAIN table : ApproveBegin(p, i) \/ RejectBegin(p, i) \/ RevertBegin(p, i)
           \/ ApproveAudit(p) \/ ApplyRead(p) \/ ReadCheckpoint(p) \/ FilterEdge(p)
           \/ ReadChild(p) \/ WriteChild(p) \/ WriteNode(p)
           \/ RevertRead(p) \/ Unfilter(p) \/ RestoreNode(p)
    PROVE  OneActivePerKey' /\ Fresh'
<1>0. req \in [Operators -> Requests] /\ req[p] \in Requests
  BY DEF IInv, TypeOK
<1>1. UNCHANGED table /\ \A q \in Operators \ {p} : req'[q] = req[q]
  BY <1>0 DEF ApproveBegin, RejectBegin, RevertBegin, Begin, ApproveAudit, ApplyRead,
     ReadCheckpoint, FilterEdge, ReadChild, WriteChild, WriteNode, RevertRead, Unfilter,
     RestoreNode, Goto, store, rest
<1>2. req'[p].pc # "register"
  <2>1. CASE \E i \in DOMAIN table : ApproveBegin(p, i) \/ RejectBegin(p, i) \/ RevertBegin(p, i)
    BY <1>0, <2>1 DEF ApproveBegin, RejectBegin, RevertBegin, Begin, Requests
  <2>2. CASE ApplyRead(p)
    <3>1. req[p].pc \in DecidingPcs
      BY <2>2 DEF ApplyRead, DecidingPcs
    <3>2. MyKey(p).kind \in Kinds
      BY <3>1, MyRow DEF Keys
    <3> QED
      BY <1>0, <2>2, <3>2 DEF ApplyRead, Requests, Kinds
  <2>3. CASE ReadCheckpoint(p) \/ ReadChild(p) \/ RevertRead(p)
    BY <1>0, <2>3 DEF ReadCheckpoint, ReadChild, RevertRead, Requests
  <2>4. CASE ApproveAudit(p) \/ FilterEdge(p) \/ WriteChild(p) \/ WriteNode(p)
             \/ Unfilter(p) \/ RestoreNode(p)
    BY <1>0, <2>4 DEF ApproveAudit, FilterEdge, WriteChild, WriteNode, Unfilter, RestoreNode,
       Goto, Requests
  <2> QED
    BY <2>1, <2>2, <2>3, <2>4
<1> QED
  BY <1>1, <1>2, FreshMove

LEMMA FreshEnd ==
    ASSUME IInv, OneActivePerKey, Fresh, NEW p \in Operators,
           \/ ApproveCommit(p) \/ ApproveMissing(p) \/ RejectCommit(p)
           \/ RevertCommit(p) \/ Crash(p)
    PROVE  OneActivePerKey' /\ Fresh'
<1>1. /\ req' = [req EXCEPT ![p] = Idle] /\ req \in [Operators -> Requests]
  BY EndOfSession DEF IInv, TypeOK
<1>2. \A q \in Operators : req'[q].pc = "register" =>
          req[q].pc = "register" /\ req'[q].batch = req[q].batch
  BY <1>1, IdleOk
<1>3. /\ DOMAIN table' = DOMAIN table
      /\ \A i \in DOMAIN table : table'[i].key = table[i].key
      /\ \A i \in DOMAIN table : table'[i].status \in ActiveStatuses
                                 => table[i].status \in ActiveStatuses
  <2>1. CASE Crash(p)
    BY <2>1 DEF Crash
  <2>2. CASE ApproveCommit(p) \/ ApproveMissing(p) \/ RejectCommit(p) \/ RevertCommit(p)
    <3>1. req[p].pc \in DecidingPcs \cup RevertingPcs
      BY <2>2 DEF ApproveCommit, ApproveMissing, RejectCommit, RevertCommit,
         DecidingPcs, RevertingPcs
    <3>2. req[p].act \in DOMAIN table /\ table[req[p].act].status \in ActiveStatuses
      BY <3>1, MyRow DEF MyAct, ActiveStatuses
    <3>3. PICK status, before, events : Save(p, status, before, events)
      BY <2>2 DEF ApproveCommit, ApproveMissing, RejectCommit, RevertCommit
    <3> QED
      BY <3>2, <3>3, SavedRow
  <2> QED
    BY <2>1, <2>2
<1> QED
  BY <1>2, <1>3, FreshMove

(* OneActivePerKey: as long as one proposer works at a time, no two active *)
(* actions have the same key (_dedupe_key), across decisions, failures and *)
(* retention between its read and its commit.                              *)
THEOREM NoDuplicates ==
    ASSUME RowLocks, OneProposer
    PROVE  Spec => []OneActivePerKey
<1>1. Init => OneActivePerKey /\ Fresh
  BY IdleOk DEF Init, OneActivePerKey, Fresh
<1>2. ASSUME IInv, OneActivePerKey, Fresh, [Next]_vars
      PROVE  OneActivePerKey' /\ Fresh'
  <2>1. ASSUME NEW p \in Operators, NEW n \in Targets, RegisterRead(p, n)
        PROVE  OneActivePerKey' /\ Fresh'
    BY <1>2, <2>1, FreshRead
  <2>2. ASSUME NEW p \in Operators, NEW i \in DOMAIN table,
               ApproveBegin(p, i) \/ RejectBegin(p, i) \/ RevertBegin(p, i)
        PROVE  OneActivePerKey' /\ Fresh'
    BY <1>2, <2>2, FreshRest
  <2>3. ASSUME NEW p \in Operators, Continue(p) \/ Crash(p)
        PROVE  OneActivePerKey' /\ Fresh'
    BY <1>2, <2>3, FreshCommit, FreshRest, FreshEnd DEF Continue
  <2>4. CASE \/ \E n \in Nodes : Prune(Ts[n] + 1)
             \/ PruneAudit \/ PruneLost \/ UNCHANGED vars
    <3>1. UNCHANGED <<table, req>>
      BY <2>4 DEF Prune, PruneAudit, PruneLost, vars, rest
    <3> QED
      BY <1>2, <3>1, FreshMove
  <2> QED
    BY <1>2, <2>1, <2>2, <2>3, <2>4 DEF Next
<1> QED
  BY <1>1, <1>2, Invariant, PTL DEF Spec

-----------------------------------------------------------------------------
(* What only actions in force do to a node.                                *)

(* An action has an effect on the graph from the moment its approval has   *)
(* read the node, and, unless a request fails, for ever.                   *)
InForce(i) ==
    \/ table[i].status \in {"applied", "reverted"}
    \/ \E p \in Operators : req[p].pc \in ReadPcs /\ req[p].act = i
Alone(i, n) == \A j \in DOMAIN table \ {i} : Touches(j, n) => ~InForce(j)
NoneInForce(n) == \A j \in DOMAIN table : Touches(j, n) => ~InForce(j)

(* A node that is contained, and was not, is so by an action in force.     *)
ContainedBy ==
    \A n \in Nodes :
        nodes[n] # Absent /\ nodes[n].status = "contained" /\ StartNodes[n].status # "contained"
        => ~NoneInForce(n)

LikeStart(r, n) == Visible(r) = Visible(StartNodes[n])
CleanNode(n) == nodes[n] # Absent => LikeStart(nodes[n], n)
CleanContext(n) == nodes[n] # Absent => nodes[n].context = StartNodes[n].context

(* What an action that alone touches its node has read, written and saved. *)
Restorable(i) ==
    LET n == table[i].key.node
        quarantine == table[i].key.kind = "quarantine"
    IN  table[i].key.kind # "message_filter" /\ Alone(i, n) =>
          /\ table[i].status = "applied" =>
                LikeStart(table[i].before, n) /\ (quarantine => CleanContext(n))
          /\ table[i].status = "reverted" => CleanNode(n)
          /\ \A p \in Operators : req[p].act = i =>
                /\ req[p].pc \in ReadPcs =>
                      /\ LikeStart(req[p].before, n)
                      /\ quarantine => /\ req[p].node.context = StartNodes[n].context
                                       /\ CleanContext(n)
                /\ req[p].pc = "restore" => LikeStart(req[p].node, n)
                /\ req[p].pc = "unsave" => CleanNode(n)

RestoreInv ==
    /\ ContainedBy
    /\ \A n \in Nodes : NoneInForce(n) => CleanNode(n)
    /\ \A i \in DOMAIN table : Restorable(i)

(* The steps of a request by what they do to its action.                   *)
Begins(p) ==
    \/ \E n \in Targets : RegisterRead(p, n)
    \/ \E i \in DOMAIN table : ApproveBegin(p, i) \/ RejectBegin(p, i) \/ RevertBegin(p, i)
Works(p) ==
    \/ ApproveAudit(p) \/ ApplyRead(p) \/ ReadCheckpoint(p) \/ FilterEdge(p) \/ ReadChild(p)
    \/ WriteChild(p) \/ WriteNode(p) \/ RevertRead(p) \/ Unfilter(p) \/ RestoreNode(p)
Decides(p) == ApproveCommit(p) \/ ApproveMissing(p) \/ RejectCommit(p) \/ RevertCommit(p)

LEMMA BeginsMove ==
    ASSUME IInv, NEW p \in Operators, Begins(p)
    PROVE  /\ UNCHANGED <<nodes, table>> /\ req[p].pc = "idle"
           /\ req'[p].pc \in {"register", "approve", "reject", "revert"}
           /\ \A q \in Operators \ {p} : req'[q] = req[q]
<1>0. req \in [Operators -> Requests] /\ req[p] \in Requests
  BY DEF IInv, TypeOK
<1>1. CASE \E n \in Targets : RegisterRead(p, n)
  <2>1. PICK batch : /\ req' = [req EXCEPT ![p].pc = "register", ![p].batch = batch]
                     /\ UNCHANGED <<nodes, table>> /\ req[p].pc = "idle"
    BY <1>1 DEF RegisterRead, store, rest
  <2> QED
    BY <1>0, <2>1 DEF Requests
<1>2. CASE \E i \in DOMAIN table : ApproveBegin(p, i) \/ RejectBegin(p, i) \/ RevertBegin(p, i)
  BY <1>0, <1>2 DEF ApproveBegin, RejectBegin, RevertBegin, Begin, Requests, store
<1> QED
  BY <1>1, <1>2 DEF Begins

LEMMA WorksMove ==
    ASSUME IInv, NEW p \in Operators, Works(p)
    PROVE  /\ UNCHANGED table /\ req'[p].act = req[p].act
           /\ req[p].act \in DOMAIN table /\ MyKey(p) \in Keys
           /\ \A q \in Operators \ {p} : req'[q] = req[q]
           /\ req[p].pc \in ReadPcs => req'[p].pc \in ReadPcs
<1>0. /\ req \in [Operators -> Requests] /\ req[p] \in Requests
      /\ req[p].pc \in DecidingPcs \cup RevertingPcs
  BY DEF IInv, TypeOK, Works, ApproveAudit, ApplyRead, ReadCheckpoint, FilterEdge, ReadChild,
     WriteChild, WriteNode, RevertRead, Unfilter, RestoreNode, DecidingPcs, RevertingPcs
<1>1. req[p].act \in DOMAIN table /\ MyKey(p) \in Keys
  BY <1>0, MyRow
<1>2. UNCHANGED table
  BY DEF Works, ApproveAudit, ApplyRead, ReadCheckpoint, FilterEdge, ReadChild,
     WriteChild, WriteNode, RevertRead, Unfilter, RestoreNode, rest
<1>3. CASE ApproveAudit(p) \/ FilterEdge(p) \/ WriteChild(p) \/ WriteNode(p)
           \/ Unfilter(p) \/ RestoreNode(p)
  BY <1>0, <1>1, <1>2, <1>3 DEF ApproveAudit, FilterEdge, WriteChild, WriteNode, Unfilter,
     RestoreNode, Goto, Requests, ReadPcs
<1>4. CASE ApplyRead(p) \/ RevertRead(p)
  BY <1>0, <1>1, <1>2, <1>4 DEF ApplyRead, RevertRead, Requests, ReadPcs
<1>5. CASE ReadCheckpoint(p) \/ ReadChild(p)
  BY <1>0, <1>1, <1>2, <1>5 DEF ReadCheckpoint, ReadChild, Requests, ReadPcs
<1> QED
  BY <1>3, <1>4, <1>5 DEF Works

LEMMA DecidesMove ==
    ASSUME IInv, NEW p \in Operators, Decides(p)
    PROVE  /\ UNCHANGED nodes /\ req'[p] = Idle /\ req[p].act \in DOMAIN table
           /\ \A q \in Operators \ {p} : req'[q] = req[q]
           /\ DOMAIN table' = DOMAIN table
           /\ \A i \in DOMAIN table : table'[i].key = table[i].key
           /\ \A i \in DOMAIN table \ {req[p].act} : table'[i] = table[i]
           /\ \/ req[p].pc = "save" /\ table'[req[p].act].status = "applied"
                                    /\ table'[req[p].act].before = req[p].before
              \/ req[p].pc \in {"missing", "reject"} /\ table'[req[p].act].status = "rejected"
              \/ req[p].pc = "unsave" /\ table'[req[p].act].status = "reverted"
<1> DEFINE a == req[p].act
<1>0. req \in [Operators -> Requests] /\ req[p].pc \in DecidingPcs \cup RevertingPcs
  BY DEF IInv, TypeOK, Decides, ApproveCommit, ApproveMissing, RejectCommit, RevertCommit,
     DecidingPcs, RevertingPcs
<1>1. a \in DOMAIN table /\ table[a] \in Rows
  BY <1>0, MyRow DEF MyAct
<1>2. PICK status, before, events :
         /\ Save(p, status, before, events)
         /\ \/ req[p].pc = "save" /\ status = "applied" /\ before = req[p].before
            \/ req[p].pc \in {"missing", "reject"} /\ status = "rejected"
            \/ req[p].pc = "unsave" /\ status = "reverted"
  BY DEF Decides, ApproveCommit, ApproveMissing, RejectCommit, RevertCommit
<1>3. /\ DOMAIN table' = DOMAIN table
      /\ \A i \in DOMAIN table : table'[i].key = table[i].key
      /\ \A i \in DOMAIN table \ {a} : table'[i] = table[i]
      /\ table'[a].status = status
      /\ req' = [req EXCEPT ![p] = Idle] /\ UNCHANGED <<store, begun>>
  BY <1>1, <1>2, SavedRow
<1>4. table'[a].before = before
  <2>1. table' = [table EXCEPT ![a].status = status, ![a].before = before]
    BY <1>2 DEF Save
  <2>2. table'[a] = [table[a] EXCEPT !.status = status, !.before = before]
    BY <1>1, <2>1 DEF IInv, TypeOK
  <2> QED
    BY <1>1, <2>2 DEF Rows
<1> QED
  BY <1>0, <1>1, <1>2, <1>3, <1>4 DEF store

(* What is in force stays so, but for a failure.                           *)
LEMMA StaysInForce ==
    ASSUME IInv, NEW p \in Operators,
           Begins(p) \/ Works(p) \/ Decides(p) \/ RegisterCommit(p),
           NEW j \in DOMAIN table
    PROVE  /\ j \in DOMAIN table' /\ table'[j].key = table[j].key
           /\ InForce(j) => InForce(j)'
<1>0. req[p].pc = "idle" => req[p].pc \notin ReadPcs
  BY DEF ReadPcs
<1>1. CASE Begins(p)
  <2>1. UNCHANGED table /\ \A q \in Operators : req[q].pc \in ReadPcs => req'[q] = req[q]
    BY <1>0, <1>1, BeginsMove
  <2> QED
    BY <2>1 DEF InForce
<1>2. CASE Works(p)
  <2>1. /\ UNCHANGED table
        /\ \A q \in Operators : req[q].pc \in ReadPcs =>
              req'[q].pc \in ReadPcs /\ req'[q].act = req[q].act
    BY <1>2, WorksMove
  <2> QED
    BY <2>1 DEF InForce
<1>3. CASE RegisterCommit(p)
  <2>1. /\ DOMAIN table \subseteq DOMAIN table' /\ \A i \in DOMAIN table : table'[i] = table[i]
        /\ req[p].pc = "register" /\ req' = [req EXCEPT ![p] = Idle]
    BY <1>3, RegisteredRows DEF RegisterCommit
  <2>2. \A q \in Operators : req[q].pc \in ReadPcs => req'[q] = req[q]
    BY <2>1 DEF ReadPcs, IInv, TypeOK
  <2> QED
    BY <2>1, <2>2 DEF InForce
<1>4. CASE Decides(p)
  <2> DEFINE a == req[p].act
  <2>1. /\ DOMAIN table' = DOMAIN table /\ table'[j].key = table[j].key
        /\ j # a => table'[j] = table[j]
        /\ \A q \in Operators \ {p} : req'[q] = req[q]
        /\ \/ req[p].pc = "save" /\ table'[a].status = "applied"
           \/ req[p].pc \in {"missing", "reject"} /\ table'[a].status = "rejected"
           \/ req[p].pc = "unsave" /\ table'[a].status = "reverted"
    BY <1>4, DecidesMove
  <2>2. CASE j # a
    <3>1. ASSUME NEW q \in Operators, req[q].pc \in ReadPcs, req[q].act = j
          PROVE  req'[q] = req[q]
      BY <2>1, <2>2, <3>1
    <3> QED
      BY <2>1, <2>2, <3>1 DEF InForce
  <2>3. CASE j = a
    <3>1. CASE req[p].pc \in {"save", "unsave"}
      BY <2>1, <2>3, <3>1 DEF InForce
    <3>2. CASE req[p].pc \in {"missing", "reject"}
      <4>1. table[j].status = "proposed"
        BY <2>3, <3>2, MyRow DEF DecidingPcs, MyAct
      <4>2. \A q \in Operators : req[q].pc \in ReadPcs => req[q].act # a
        BY <3>2 DEF IInv, Consistent, Apart, Running, ReadPcs
      <4> QED
        BY <2>1, <2>3, <4>1, <4>2 DEF InForce
    <3> QED
      BY <2>1, <3>1, <3>2
  <2> QED
    BY <2>1, <2>2, <2>3
<1> QED
  BY <1>1, <1>2, <1>3, <1>4

LEMMA AloneBefore ==
    ASSUME IInv, NEW p \in Operators,
           Begins(p) \/ Works(p) \/ Decides(p) \/ RegisterCommit(p), NEW n \in Nodes
    PROVE  /\ \A i \in DOMAIN table : Alone(i, n)' => Alone(i, n)
           /\ NoneInForce(n)' => NoneInForce(n)
<1>1. \A j \in DOMAIN table : /\ j \in DOMAIN table' /\ table'[j].key = table[j].key
                              /\ InForce(j) => InForce(j)'
  BY StaysInForce
<1>2. \A j \in DOMAIN table : Touches(j, n)' <=> Touches(j, n)
  BY <1>1 DEF Touches
<1> QED
  BY <1>1, <1>2 DEF Alone, NoneInForce

(* Only an action in force writes a node, its own.                         *)
LEMMA WrittenBy ==
    ASSUME IInv, NEW p \in Operators,
           Begins(p) \/ Works(p) \/ Decides(p) \/ RegisterCommit(p), NEW n \in Nodes
    PROVE  \/ nodes'[n] = nodes[n]
           \/ /\ req[p].act \in DOMAIN table /\ Touches(req[p].act, n) /\ InForce(req[p].act)
              /\ Works(p)
<1>0. nodes \in [Nodes -> NodeRecords \cup {Absent}]
  BY DEF IInv, TypeOK
<1>1. CASE Begins(p) \/ Decides(p)
  BY <1>1, BeginsMove, DecidesMove
<1>2. CASE RegisterCommit(p)
  BY <1>2 DEF RegisterCommit, store
<1>3. CASE Works(p)
  <2>1. req[p].act \in DOMAIN table
    BY <1>3, WorksMove
  <2>2. CASE WriteNode(p) \/ WriteChild(p)
    <3>1. nodes'[n] = nodes[n] \/ n = MyKey(p).node \/ n = MyKey(p).dst
      BY <1>0, <2>2 DEF WriteNode, WriteChild
    <3>2. InForce(req[p].act)
      BY <2>2 DEF WriteNode, WriteChild, InForce, ReadPcs
    <3> QED
      BY <1>3, <2>1, <3>1, <3>2 DEF Touches, MyKey, MyAct
  <2>3. CASE RestoreNode(p)
    <3>1. nodes'[n] = nodes[n] \/ n = MyKey(p).node
      BY <1>0, <2>3 DEF RestoreNode
    <3>2. MyAct(p).status = "applied"
      BY <2>3, MyRow DEF RestoreNode, RevertingPcs
    <3> QED
      BY <1>3, <2>1, <3>1, <3>2 DEF Touches, MyKey, MyAct, InForce
  <2>4. CASE ~(WriteNode(p) \/ WriteChild(p) \/ RestoreNode(p))
    BY <1>3, <2>4 DEF Works, ApproveAudit, ApplyRead, ReadCheckpoint, FilterEdge, ReadChild,
       RevertRead, Unfilter, store
  <2> QED
    BY <2>2, <2>3, <2>4
<1> QED
  BY <1>1, <1>2, <1>3

LEMMA ContainedStep ==
    ASSUME IInv, RestoreInv, NEW p \in Operators,
           Begins(p) \/ Works(p) \/ Decides(p) \/ RegisterCommit(p)
    PROVE  ContainedBy' /\ \A n \in Nodes : NoneInForce(n)' => CleanNode(n)'
<1>1. ASSUME NEW n \in Nodes, nodes'[n] # Absent, nodes'[n].status = "contained",
             StartNodes[n].status # "contained"
      PROVE  ~NoneInForce(n)'
  <2>1. ~NoneInForce(n)
    <3>1. CASE nodes'[n] = nodes[n]
      BY <1>1, <3>1 DEF RestoreInv, ContainedBy
    <3>2. CASE req[p].act \in DOMAIN table /\ Touches(req[p].act, n) /\ InForce(req[p].act)
      BY <3>2 DEF NoneInForce
    <3> QED
      BY <3>1, <3>2, WrittenBy
  <2> QED
    BY <2>1, AloneBefore
<1>2. ASSUME NEW n \in Nodes, NoneInForce(n)' PROVE CleanNode(n)'
  <2>1. NoneInForce(n)
    BY <1>2, AloneBefore
  <2>2. nodes'[n] = nodes[n]
    BY <2>1, WrittenBy DEF NoneInForce
  <2>3. CleanNode(n)
    BY <2>1 DEF RestoreInv
  <2> QED
    BY <2>2, <2>3 DEF CleanNode, LikeStart, Visible
<1> QED
  BY <1>1, <1>2 DEF ContainedBy

(* An action that is alone on its node: neither its row, nor its request,  *)
(* nor the node changed.                                                   *)
LEMMA RestorableStays ==
    ASSUME IInv, NEW i \in DOMAIN table, Restorable(i), table'[i] = table[i],
           Alone(i, table[i].key.node)' =>
              /\ Alone(i, table[i].key.node)
              /\ nodes'[table[i].key.node] \in {nodes[table[i].key.node], Absent},
           \A q \in Operators : req'[q].pc \in ReadPcs \cup {"restore", "unsave"}
                                /\ req'[q].act = i => req'[q] = req[q]
    PROVE  Restorable(i)'
<1> DEFINE n == table[i].key.node
<1>1. SUFFICES ASSUME table[i].key.kind # "message_filter", Alone(i, n)' PROVE Restorable(i)'
  BY DEF Restorable
<1>2. /\ CleanNode(n) => CleanNode(n)'
      /\ CleanContext(n) => CleanContext(n)'
  BY <1>1 DEF CleanNode, CleanContext, LikeStart
<1>3. /\ table[i].status = "applied" =>
            /\ LikeStart(table[i].before, n)
            /\ table[i].key.kind = "quarantine" => CleanContext(n)
      /\ table[i].status = "reverted" => CleanNode(n)
      /\ \A q \in Operators : req[q].act = i =>
            /\ req[q].pc \in ReadPcs =>
                  /\ LikeStart(req[q].before, n)
                  /\ table[i].key.kind = "quarantine" =>
                        req[q].node.context = StartNodes[n].context /\ CleanContext(n)
            /\ req[q].pc = "restore" => LikeStart(req[q].node, n)
            /\ req[q].pc = "unsave" => CleanNode(n)
  BY <1>1 DEF Restorable
<1>4. /\ table'[i].status = "applied" =>
            /\ LikeStart(table'[i].before, n)
            /\ table'[i].key.kind = "quarantine" => CleanContext(n)'
      /\ table'[i].status = "reverted" => CleanNode(n)'
  BY <1>2, <1>3
<1>5. ASSUME NEW q \in Operators, req'[q].act = i
      PROVE  /\ req'[q].pc \in ReadPcs =>
                   /\ LikeStart(req'[q].before, n)
                   /\ table'[i].key.kind = "quarantine" =>
                         req'[q].node.context = StartNodes[n].context /\ CleanContext(n)'
             /\ req'[q].pc = "restore" => LikeStart(req'[q].node, n)
             /\ req'[q].pc = "unsave" => CleanNode(n)'
  <2>1. CASE req'[q].pc \in ReadPcs \cup {"restore", "unsave"}
    <3>1. req'[q] = req[q]
      BY <1>5, <2>1
    <3> QED
      BY <1>2, <1>3, <1>5, <3>1
  <2>2. CASE req'[q].pc \notin ReadPcs \cup {"restore", "unsave"}
    BY <2>2
  <2> QED
    BY <2>1, <2>2
<1> QED
  BY <1>4, <1>5 DEF Restorable, CleanNode, CleanContext, LikeStart, Visible

LEMMA RestorableElsewhere ==
    ASSUME IInv, RestoreInv, NEW p \in Operators,
           Begins(p) \/ Works(p) \/ Decides(p) \/ RegisterCommit(p),
           NEW i \in DOMAIN table, Begins(p) \/ RegisterCommit(p) \/ i # req[p].act
    PROVE  Restorable(i)'
<1>0. table[i] \in Rows /\ Restorable(i)
  BY DEF IInv, TypeOK, RestoreInv
<1>1. PICK n \in Nodes : n = table[i].key.node
  BY <1>0 DEF Rows, Keys
<1>2. Alone(i, n)' => Alone(i, n)
  BY <1>1, AloneBefore
<1>3. ASSUME Alone(i, n)' PROVE nodes'[n] \in {nodes[n], Absent}
  <2>1. CASE Works(p) /\ i # req[p].act
    BY <1>1, <1>2, <1>3, <2>1, WrittenBy DEF Alone
  <2>2. CASE ~Works(p)
    BY <1>1, <2>2, WrittenBy
  <2>3. CASE Works(p) /\ i = req[p].act
    <3>1. Begins(p) \/ RegisterCommit(p)
      BY <2>3
    <3>2. nodes' = nodes
      BY <3>1, BeginsMove DEF RegisterCommit, store
    <3> QED
      BY <3>2
  <2> QED
    BY <2>1, <2>2, <2>3
<1>4. /\ table'[i] = table[i]
      /\ \A q \in Operators : req'[q].pc \in ReadPcs \cup {"restore", "unsave"}
                              /\ req'[q].act = i => req'[q] = req[q]
  <2>0. Idle.pc \notin ReadPcs \cup {"restore", "unsave"}
    BY IdleOk DEF ReadPcs
  <2>1. CASE Begins(p)
    <3>1. req'[p].pc \notin ReadPcs \cup {"restore", "unsave"}
      BY <2>1, BeginsMove DEF ReadPcs
    <3> QED
      BY <2>1, <3>1, BeginsMove
  <2>2. CASE RegisterCommit(p)
    <3>1. table'[i] = table[i] /\ req' = [req EXCEPT ![p] = Idle]
      BY <2>2, RegisteredRows
    <3> QED
      BY <2>0, <3>1 DEF IInv, TypeOK
  <2>3. CASE Works(p) /\ i # req[p].act
    BY <2>3, WorksMove
  <2>4. CASE Decides(p) /\ i # req[p].act
    BY <2>0, <2>4, DecidesMove
  <2> QED
    BY <2>1, <2>2, <2>3, <2>4
<1> QED
  BY <1>0, <1>1, <1>2, <1>3, <1>4, RestorableStays

(* Nobody else is at work on the action of a request.                      *)
LEMMA NobodyElse ==
    ASSUME IInv, NEW p \in Operators, Running(p), NEW q \in Operators \ {p},
           req[q].act = req[p].act
    PROVE  req[q].pc \notin ReadPcs \cup {"restore", "unsave"}
BY DEF IInv, Consistent, Apart, Running, ReadPcs

(* What a request about its action has to meet, and the node's context.    *)
Mine(r, n, quarantine) ==
    /\ r.pc \in ReadPcs =>
          /\ LikeStart(r.before, n)
          /\ quarantine => r.node.context = StartNodes[n].context /\ CleanContext(n)
    /\ r.pc = "restore" => LikeStart(r.node, n)
    /\ r.pc = "unsave" => CleanNode(n)

LEMMA MineOnward ==
    ASSUME IInv, RestoreInv, NEW p \in Operators, Works(p), NEW n \in Nodes,
           NEW k, k = MyKey(p), k.node = n, k.kind # "message_filter", Alone(req[p].act, n)
    PROVE  /\ Mine(req[p], n, k.kind = "quarantine")
           /\ Mine(req[p], n, k.kind = "quarantine")'
           /\ MyAct(p).status = "applied" /\ k.kind = "quarantine" => CleanContext(n)'
<1> DEFINE r == req'[p]
           quarantine == k.kind = "quarantine"
<1>0. /\ req \in [Operators -> Requests] /\ req[p] \in Requests /\ SessionOk(p)
      /\ nodes \in [Nodes -> NodeRecords \cup {Absent}] /\ Absent \notin NodeRecords
  BY AbsentAssumption DEF IInv, TypeOK, Consistent
<1>1. /\ req[p].act \in DOMAIN table /\ k \in Keys /\ MyAct(p) = table[req[p].act]
      /\ k.kind \in {"rollback", "quarantine"} /\ StartNodes[n] \in NodeRecords
  BY WorksMove, StartAssumption DEF MyAct, Keys, Kinds
<1>2. /\ Mine(req[p], n, quarantine)
      /\ MyAct(p).status = "applied" =>
            LikeStart(MyAct(p).before, n) /\ (quarantine => CleanContext(n))
  BY <1>1 DEF RestoreInv, Restorable, Mine, MyKey, MyAct
<1>3. CASE ApproveAudit(p)
  <2>1. r.pc = "audited" /\ nodes' = nodes
    BY <1>0, <1>3 DEF ApproveAudit, Goto, Requests, store
  <2> QED
    BY <1>2, <2>1 DEF Mine, ReadPcs, CleanContext
<1>4. CASE ApplyRead(p)
  <2>1. /\ req[p].pc = "audited" /\ nodes' = nodes /\ MyAct(p).status = "proposed"
    BY <1>4, MyRow DEF ApplyRead, store, DecidingPcs
  <2>2. ~InForce(req[p].act)
    BY <1>1, <2>1, NobodyElse DEF InForce, Running, ReadPcs
  <2>3. CleanNode(n)
    BY <1>1, <2>2 DEF RestoreInv, NoneInForce, Alone
  <2>4. /\ r.pc \in ReadPcs \cup {"missing"}
        /\ r.pc \in ReadPcs => /\ nodes[n] # Absent /\ r.before = nodes[n]
                               /\ quarantine => r.node = Quarantined(nodes[n])
    BY <1>0, <1>1, <1>4 DEF ApplyRead, Requests, ReadPcs
  <2>5. nodes[n] # Absent => Quarantined(nodes[n]).context = nodes[n].context
    BY <1>0 DEF Quarantined, NodeRecords
  <2>6. nodes[n] # Absent => LikeStart(nodes[n], n) /\ nodes[n].context = StartNodes[n].context
    BY <2>3 DEF CleanNode, LikeStart, Visible
  <2> QED
    BY <1>2, <2>1, <2>4, <2>5, <2>6 DEF Mine, ReadPcs, CleanContext
<1>5. CASE ReadCheckpoint(p)
  <2>1. /\ req[p].pc = "checkpoint" /\ k.kind = "rollback" /\ nodes' = nodes
    BY <1>0, <1>5 DEF ReadCheckpoint, SessionOk, MyKey, MyAct, store
  <2>2. r.pc = "write" /\ r.before = req[p].before
    BY <1>0, <1>5 DEF ReadCheckpoint, Requests
  <2> QED
    BY <1>2, <2>1, <2>2 DEF Mine, ReadPcs
<1>6. CASE FilterEdge(p) \/ ReadChild(p) \/ WriteChild(p) \/ Unfilter(p)
  BY <1>0, <1>6 DEF FilterEdge, ReadChild, WriteChild, Unfilter, SessionOk, FilterPcs, MyKey, MyAct
<1>7. CASE WriteNode(p)
  <2>1. req[p].pc = "write" /\ nodes'[n] = req[p].node /\ MyAct(p).status = "proposed"
    BY <1>0, <1>7, MyRow DEF WriteNode, DecidingPcs
  <2>2. r.pc = "save" /\ r.before = req[p].before /\ r.node = req[p].node
    BY <1>0, <1>7 DEF WriteNode, Goto, Requests
  <2> QED
    BY <1>2, <2>1, <2>2 DEF Mine, ReadPcs, CleanContext
<1>8. CASE RevertRead(p)
  <2> DEFINE b == MyAct(p).before
  <2>1. /\ req[p].pc = "revert" /\ nodes' = nodes /\ MyAct(p).status = "applied"
        /\ b \in NodeRecords
    BY <1>8, MyRow DEF RevertRead, store, RevertingPcs
  <2>2. LikeStart(b, n) /\ (quarantine => CleanContext(n))
    BY <1>2, <2>1
  <2>3. /\ r.pc \in {"unsave", "restore"}
        /\ r.pc = "unsave" => nodes[n] = Absent
        /\ r.pc = "restore" => nodes[n] # Absent /\ r.node = Restored(nodes[n], k.kind, b)
    BY <1>0, <1>1, <1>8 DEF RevertRead, Requests
  <2> HIDE DEF b
  <2>4. ASSUME nodes[n] # Absent PROVE LikeStart(Restored(nodes[n], k.kind, b), n)
    <3>1. nodes[n] \in NodeRecords
      BY <1>0, <2>4
    <3>2. CASE k.kind = "rollback"
      BY <1>1, <2>1, <2>2, <3>1, <3>2 DEF Restored, LikeStart, Visible, NodeRecords
    <3>3. CASE quarantine
      BY <1>1, <2>1, <2>2, <2>4, <3>1, <3>3
         DEF Restored, LikeStart, Visible, NodeRecords, CleanContext
    <3> QED
      BY <1>1, <3>2, <3>3
  <2> QED
    BY <1>2, <2>1, <2>2, <2>3, <2>4 DEF Mine, ReadPcs, CleanContext, CleanNode
<1>9. CASE RestoreNode(p)
  <2>1. req[p].pc = "restore" /\ nodes'[n] = req[p].node /\ LikeStart(req[p].node, n)
    BY <1>0, <1>2, <1>9 DEF RestoreNode, Mine
  <2>2. r.pc = "unsave"
    BY <1>0, <1>9 DEF RestoreNode, Goto, Requests
  <2>3. req[p].node.context = StartNodes[n].context
    BY <2>1 DEF LikeStart, Visible
  <2> QED
    BY <1>2, <2>1, <2>2, <2>3 DEF Mine, ReadPcs, CleanContext, CleanNode, LikeStart
<1> QED
  BY <1>3, <1>4, <1>5, <1>6, <1>7, <1>8, <1>9 DEF Works

LEMMA RestorableMine ==
    ASSUME IInv, RestoreInv, NEW p \in Operators, Works(p),
           NEW i \in DOMAIN table, i = req[p].act
    PROVE  Restorable(i)'
<1> DEFINE quarantine(k) == k.kind = "quarantine"
<1>1. /\ table' = table /\ req'[p].act = i /\ MyKey(p) = table[i].key /\ MyAct(p) = table[i]
      /\ table[i] \in Rows /\ \A q \in Operators \ {p} : req'[q] = req[q]
  BY WorksMove DEF IInv, TypeOK, MyKey, MyAct
<1>2. PICK k \in Keys : k = table[i].key
  BY <1>1 DEF Rows
<1>3. PICK n \in Nodes : n = k.node
  BY DEF Keys
<1>4. Running(p) /\ table[i].status \in {"proposed", "applied"}
  <2>1. req[p].pc \in DecidingPcs \cup RevertingPcs
    BY DEF Works, ApproveAudit, ApplyRead, ReadCheckpoint, FilterEdge, ReadChild,
       WriteChild, WriteNode, RevertRead, Unfilter, RestoreNode, DecidingPcs, RevertingPcs
  <2> QED
    BY <1>1, <2>1, MyRow DEF Running, DecidingPcs, RevertingPcs
<1>5. SUFFICES ASSUME k.kind # "message_filter", Alone(i, n)' PROVE Restorable(i)'
  BY <1>1, <1>2, <1>3 DEF Restorable
<1>6. Alone(i, n)
  BY <1>5, AloneBefore
<1>7. /\ Mine(req[p], n, quarantine(k))'
      /\ table[i].status = "applied" =>
            LikeStart(table[i].before, n) /\ (quarantine(k) => CleanContext(n)')
  <2>1. /\ Mine(req[p], n, quarantine(k))'
        /\ table[i].status = "applied" /\ quarantine(k) => CleanContext(n)'
    BY <1>1, <1>2, <1>3, <1>5, <1>6, MineOnward
  <2>2. table[i].status = "applied" => LikeStart(table[i].before, n)
    BY <1>2, <1>3, <1>5, <1>6 DEF RestoreInv, Restorable
  <2> QED
    BY <2>1, <2>2
<1>8. ASSUME NEW q \in Operators, req'[q].act = i
      PROVE  Mine(req[q], n, quarantine(k))'
  <2>1. CASE q = p
    BY <1>7, <2>1
  <2>2. CASE q # p
    <3>1. req'[q].pc \notin ReadPcs \cup {"restore", "unsave"}
      BY <1>1, <1>4, <1>8, <2>2, NobodyElse
    <3> QED
      BY <3>1 DEF Mine
  <2> QED
    BY <2>1, <2>2
<1>9. \A q \in Operators : req'[q].act = i => Mine(req[q], n, quarantine(k))'
  BY <1>8
<1> QED
  BY <1>1, <1>2, <1>3, <1>4, <1>7, <1>9 DEF Restorable, Mine, LikeStart

LEMMA RestorableDecided ==
    ASSUME IInv, RestoreInv, NEW p \in Operators, Decides(p),
           NEW i \in DOMAIN table, i = req[p].act
    PROVE  Restorable(i)'
<1>1. /\ nodes' = nodes /\ req'[p] = Idle /\ table'[i].key = table[i].key /\ table[i] \in Rows
      /\ \A q \in Operators \ {p} : req'[q] = req[q]
      /\ \/ req[p].pc = "save" /\ table'[i].status = "applied"
                               /\ table'[i].before = req[p].before
         \/ req[p].pc \in {"missing", "reject"} /\ table'[i].status = "rejected"
         \/ req[p].pc = "unsave" /\ table'[i].status = "reverted"
  BY DecidesMove DEF IInv, TypeOK
<1>2. PICK k \in Keys : k = table[i].key
  BY <1>1 DEF Rows
<1>3. PICK n \in Nodes : n = k.node
  BY DEF Keys
<1>4. Running(p)
  BY <1>1 DEF Running
<1>5. SUFFICES ASSUME k.kind # "message_filter", Alone(i, n)' PROVE Restorable(i)'
  BY <1>1, <1>2, <1>3 DEF Restorable
<1>6. Alone(i, n)
  BY <1>5, AloneBefore
<1>7. Mine(req[p], n, k.kind = "quarantine")
  BY <1>2, <1>3, <1>5, <1>6 DEF RestoreInv, Restorable, Mine
<1>8. ASSUME NEW q \in Operators, req'[q].act = i
      PROVE  req'[q].pc \notin ReadPcs \cup {"restore", "unsave"}
  <2>1. CASE q = p
    BY <1>1, <2>1, IdleOk DEF ReadPcs
  <2>2. CASE q # p
    BY <1>1, <1>4, <1>8, <2>2, NobodyElse
  <2> QED
    BY <2>1, <2>2
<1>9. /\ CleanNode(n) => CleanNode(n)'
      /\ CleanContext(n) => CleanContext(n)'
  BY <1>1 DEF CleanNode, CleanContext, LikeStart
<1>10. table'[i].status = "applied" => /\ LikeStart(table'[i].before, n)
                                       /\ k.kind = "quarantine" => CleanContext(n)'
  BY <1>1, <1>7, <1>9 DEF Mine, ReadPcs
<1>11. table'[i].status = "reverted" => CleanNode(n)'
  BY <1>1, <1>7, <1>9 DEF Mine
<1> QED
  BY <1>1, <1>2, <1>3, <1>8, <1>10, <1>11 DEF Restorable, LikeStart

LEMMA RestoreStep ==
    ASSUME IInv, IInv', RestoreInv, NEW p \in Operators,
           Begins(p) \/ Works(p) \/ Decides(p) \/ RegisterCommit(p)
    PROVE  RestoreInv'
<1>1. ASSUME NEW i \in DOMAIN table' PROVE Restorable(i)'
  <2>1. CASE i \in DOMAIN table /\ (Begins(p) \/ RegisterCommit(p) \/ i # req[p].act)
    BY <2>1, RestorableElsewhere
  <2>2. CASE i \in DOMAIN table /\ (Works(p) \/ Decides(p)) /\ i = req[p].act
    BY <2>2, RestorableMine, RestorableDecided
  <2>3. CASE i \notin DOMAIN table
    <3>1. RegisterCommit(p)
      BY <2>3, BeginsMove, WorksMove, DecidesMove
    <3>2. table'[i].status = "proposed" /\ req' = [req EXCEPT ![p] = Idle]
      BY <2>3, <3>1, RegisteredRows
    <3>3. ASSUME NEW q \in Operators, req'[q].pc \in ReadPcs \cup {"restore", "unsave"}
          PROVE  req'[q].act # i
      <4>1. req'[q] = req[q]
        BY <3>2, <3>3, IdleOk DEF IInv, TypeOK, ReadPcs
      <4>2. req[q].pc \in DecidingPcs \cup RevertingPcs
        BY <3>3, <4>1 DEF ReadPcs, DecidingPcs, RevertingPcs
      <4> QED
        BY <2>3, <4>1, <4>2, MyRow
    <3> QED
      BY <3>2, <3>3 DEF Restorable
  <2> QED
    BY <2>1, <2>2, <2>3
<1> QED
  BY <1>1, ContainedStep DEF RestoreInv

(* Retention removes nodes.                                                *)
LEMMA RestorePrune ==
    ASSUME IInv, RestoreInv,
           \/ \E n \in Nodes : Prune(Ts[n] + 1)
           \/ PruneAudit \/ PruneLost \/ UNCHANGED vars
    PROVE  RestoreInv'
<1>1. UNCHANGED <<table, req>>
  BY DEF Prune, PruneAudit, PruneLost, vars, rest
<1>2. \A n \in Nodes : nodes'[n] \in {nodes[n], Absent}
  BY DEF Prune, PruneAudit, PruneLost, vars, store
<1>3. \A n : /\ NoneInForce(n)' <=> NoneInForce(n)
             /\ \A i : Alone(i, n)' <=> Alone(i, n)
  BY <1>1 DEF NoneInForce, Alone, Touches, InForce
<1>4. ContainedBy'
  BY <1>2, <1>3 DEF RestoreInv, ContainedBy
<1>5. \A n \in Nodes : NoneInForce(n)' => CleanNode(n)'
  BY <1>2, <1>3 DEF RestoreInv, CleanNode, LikeStart
<1>6. ASSUME NEW i \in DOMAIN table' PROVE Restorable(i)'
  <2>1. table[i] \in Rows /\ Restorable(i) /\ i \in DOMAIN table
    BY <1>1 DEF IInv, TypeOK, RestoreInv
  <2>2. table[i].key.node \in Nodes
    BY <2>1 DEF Rows, Keys
  <2>3. Alone(i, table[i].key.node)' => Alone(i, table[i].key.node)
    BY <1>1, <1>3
  <2> QED
    BY <1>1, <1>2, <2>1, <2>2, <2>3, RestorableStays
<1> QED
  BY <1>4, <1>5, <1>6 DEF RestoreInv

LEMMA RestoreInit == Init => RestoreInv
<1> SUFFICES ASSUME Init PROVE RestoreInv
  OBVIOUS
<1>1. nodes = StartNodes /\ DOMAIN table = {}
  BY DEF Init
<1> QED
  BY <1>1 DEF RestoreInv, ContainedBy, CleanNode, LikeStart

LEMMA RestoreInvariant ==
    ASSUME RowLocks
    PROVE  Spec => [](crashes = 0 => RestoreInv)
<1>1. Init => (crashes = 0 => RestoreInv)
  BY RestoreInit
<1>2. ASSUME IInv, IInv', crashes = 0 => RestoreInv, [Next]_vars
      PROVE  (crashes = 0 => RestoreInv)'
  <2>1. SUFFICES ASSUME crashes' = 0 PROVE RestoreInv'
    OBVIOUS
  <2>2. crashes \in Nat
    BY <1>2 DEF IInv, TypeOK
  <2>3. ASSUME NEW p \in Operators, Crash(p) PROVE FALSE
    BY <2>1, <2>2, <2>3 DEF Crash
  <2>4. CASE PruneLost
    BY <2>1, <2>2, <2>4 DEF PruneLost
  <2>5. ASSUME NEW p \in Operators, Begins(p) \/ Works(p) \/ Decides(p) \/ RegisterCommit(p)
        PROVE  RestoreInv'
    <3>1. crashes' = crashes
      BY <2>5 DEF Begins, Works, Decides, RegisterRead, ApproveBegin, RejectBegin, RevertBegin,
         Begin, ApproveAudit, ApplyRead, ReadCheckpoint, FilterEdge, ReadChild, WriteChild,
         WriteNode, RevertRead, Unfilter, RestoreNode, ApproveCommit, ApproveMissing,
         RejectCommit, RevertCommit, RegisterCommit, Save, rest
    <3> QED
      BY <1>2, <2>1, <2>5, <3>1, RestoreStep
  <2>6. CASE \/ \E n \in Nodes : Prune(Ts[n] + 1)
             \/ PruneAudit \/ UNCHANGED vars
    <3>1. crashes' = crashes
      BY <2>6 DEF Prune, PruneAudit, vars, rest
    <3> QED
      BY <1>2, <2>1, <2>6, <3>1, RestorePrune
  <2> QED
    BY <1>2, <2>3, <2>4, <2>5, <2>6 DEF Next, Continue, Begins, Works, Decides
<1> QED
  BY <1>1, <1>2, Invariant, PTL DEF Spec

(* ContainmentLoggedUnlessCrash: as long as no request fails, a node that  *)
(* is contained, and was not, is touched by an action that was approved: a *)
(* rejected proposal leaves no trace in the graph.                         *)
THEOREM ContainmentIsLogged ==
    ASSUME RowLocks
    PROVE  Spec => []ContainmentLoggedUnlessCrash
<1>1. ASSUME crashes = 0 => RestoreInv PROVE ContainmentLoggedUnlessCrash
  <2>1. \A i : InForce(i) => Effective(i)
    BY DEF InForce, Effective, Approving, ReadPcs, HasHead
  <2> QED
    BY <1>1, <2>1 DEF ContainmentLoggedUnlessCrash, ContainmentLogged, RestoreInv, ContainedBy,
       NoneInForce
<1> QED
  BY <1>1, RestoreInvariant, PTL

(* LoneRevertRestores: as long as no request fails, reverting the only     *)
(* action that was ever in force on a node gives it back its status, its   *)
(* isolation and its context, whatever other requests and retention do.    *)
THEOREM RevertRestores ==
    ASSUME RowLocks
    PROVE  Spec => []LoneRevertRestores
<1>1. ASSUME IInv, crashes = 0 => RestoreInv PROVE LoneRevertRestores
  <2> SUFFICES ASSUME NEW i \in DOMAIN table, table[i].status = "reverted",
                      table[i].key.kind # "message_filter",
                      nodes[table[i].key.node] # Absent, crashes = 0,
                      \A j \in DOMAIN table \ {i} :
                         Touches(j, table[i].key.node) => ~Effective(j)
               PROVE  Visible(nodes[table[i].key.node]) = Visible(StartNodes[table[i].key.node])
    BY DEF LoneRevertRestores
  <2>1. \A j : InForce(j) => Effective(j)
    BY DEF InForce, Effective, Approving, ReadPcs, HasHead
  <2>2. Alone(i, table[i].key.node) /\ Restorable(i)
    BY <1>1, <2>1 DEF Alone, RestoreInv
  <2>3. CleanNode(table[i].key.node)
    BY <2>2 DEF Restorable
  <2> QED
    BY <2>3 DEF CleanNode, LikeStart
<1> QED
  BY <1>1, RestoreInvariant, Invariant, PTL
=============================================================================
