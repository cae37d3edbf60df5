--------------------------- MODULE AuditLogProofs ---------------------------
(***************************************************************************)
(* Proofs about AuditLog and AuditDamage when FOR UPDATE locks rows        *)
(* (PostgreSQL).                                                           *)
(*                                                                         *)
(* The argument: the head row is locked from the first entry of a session  *)
(* to its commit or rollback, so at most one session is open, its copy of  *)
(* the head is one entry ahead of the rows it has flushed, and flushing    *)
(* adds a row whose predecessor is the last row.                           *)
(*                                                                         *)
(* The invariant is stated of a set R of rows: the committed ones, or,     *)
(* when the table was damaged, those it would hold had it not been.        *)
(***************************************************************************)
EXTENDS AuditDamage, FiniteSetTheorems, TLAPS

-----------------------------------------------------------------------------
(* The inductive invariant, part by part.                                  *)

(* Every row of R carries the digest of the rows of R before it.           *)
Chain(R) == \A r \in R : Linked(R, r) /\ Tip(Before(R, r), r.prev)

(* The rows of R have distinct serial numbers, their digests get longer,   *)
(* and each but the last has a row that comes right after it.              *)
Follows(R, q, r) == q \in Before(R, r) /\ \A p \in Before(R, r) : p.seq <= q.seq
Ordered(R) ==
    /\ \A q, r \in R : q.seq = r.seq => q = r
    /\ \A q, r \in R : q.seq < r.seq => Len(q.hash) < Len(r.hash)
    /\ \A q \in R : (\A r \in R : r.seq <= q.seq) \/ \E r \in R : Follows(R, q, r)

Line(R) == Chain(R) /\ Ordered(R)

(* The committed head continues the rows R.                                *)
Published(R) ==
    /\ IsFiniteSet(R)
    /\ Line(R)
    /\ Tip(R, head.hash)
    /\ head.count = Cardinality(R)
    /\ \A r \in R : r.seq < nextSeq

(* The pending row a of session s continues the rows R and those flushed,  *)
(* and the session's copy of the head is already one entry ahead.          *)
Ahead(R, s, a) ==
    /\ s.added = {a}
    /\ Tip(R \cup s.flushed, a.prev)
    /\ a.hash = Digest(a.prev, a.body)
    /\ s.head.hash = a.hash

(* An open session s over the committed rows R, with head hash h, when n   *)
(* is the next serial number.                                              *)
Drafting(R, h, n, s) ==
    /\ IsFiniteSet(s.flushed)
    /\ \A r \in s.flushed : r.seq < n /\ \A q \in R : q.seq < r.seq
    /\ Line(R \cup s.flushed)
    /\ \E a \in AddedRows : Ahead(R, s, a)
    /\ s.head.count = Cardinality(R \cup s.flushed) + 1
    /\ Trail!Extends(h, s.head.hash)

DraftingNow(R, w) == Drafting(R, head.hash, nextSeq, sess[w])

SessionsOk(R) == \A w \in Workers : sess[w].open => lock = w /\ DraftingNow(R, w)

VerdictOk ==
    /\ check.pc = "scanned" /\ ~check.raced => check.seen = rows
    /\ check.pc = "done" /\ ~check.raced => check.valid

(* The tables and the sessions agree that the log is R.                    *)
Logged(R) == R \in SUBSET Rows /\ Published(R) /\ SessionsOk(R)

IInv == TypeOK /\ Logged(rows) /\ VerdictOk
-----------------------------------------------------------------------------
(* Facts about the operators.                                              *)

(* The last row of an ordered set has a digest longer than the others.     *)
LEMMA LastIsLongest ==
    ASSUME NEW R \in SUBSET Rows, Ordered(R), NEW h \in Hashes, Tip(R, h)
    PROVE  \A q \in R : \/ Len(q.hash) < Len(h)
                        \/ q.hash = h /\ \A r \in R : r.seq <= q.seq
<1>1. CASE R = {}
  BY <1>1
<1>2. CASE \E r \in R : h = r.hash /\ \A q \in R : q.seq <= r.seq
  <2>1. PICK r \in R : h = r.hash /\ \A q \in R : q.seq <= r.seq
    BY <1>2
  <2>2. ASSUME NEW q \in R PROVE q.seq < r.seq \/ q = r
    BY <2>1 DEF Ordered, Rows
  <2> QED
    BY <2>1, <2>2 DEF Ordered
<1> QED
  BY <1>1, <1>2 DEF Tip

(* Flushing a row that continues a chain, with a serial number above all   *)
(* of the chain's, gives a chain that ends in this row.                    *)
LEMMA FlushExtends ==
    ASSUME NEW R \in SUBSET Rows, Line(R),
           NEW a \in AddedRows, Tip(R, a.prev), a.hash = Digest(a.prev, a.body),
           NEW n \in Nat, \A r \in R : r.seq < n
    PROVE  /\ Inserted(a, n) \in Rows
           /\ Inserted(a, n) \notin R
           /\ Line(R \cup {Inserted(a, n)})
           /\ Tip(R \cup {Inserted(a, n)}, a.hash)
<1> DEFINE new == Inserted(a, n)
           R2 == R \cup {new}
<1>1. new \in Rows /\ new.seq = n /\ new.prev = a.prev /\ new.hash = a.hash
      /\ new.body = a.body
  BY DEF Inserted, Rows, AddedRows
<1>2. new \notin R
  BY <1>1 DEF Rows
<1> HIDE DEF new
<1>3. Tip(R2, a.hash)
  BY <1>1 DEF Tip, Rows
<1>4. Before(R2, new) = R
  BY <1>1 DEF Before, Rows
<1>5. \A r \in R : Before(R2, r) = Before(R, r)
  BY <1>1 DEF Before, Rows
<1>6. Linked(R2, new)
  <2>1. CASE R = {} /\ a.prev = Genesis
    BY <1>1, <1>4, <2>1 DEF Linked
  <2>2. CASE \E q \in R : a.prev = q.hash /\ \A p \in R : p.seq <= q.seq
    BY <1>1, <1>4, <2>2 DEF Linked
  <2> QED
    BY <2>1, <2>2 DEF Tip
<1>7. \A r \in R : Linked(R2, r)
  BY <1>5 DEF Linked, Chain, Line
<1>8. \A r \in R2 : Tip(Before(R2, r), r.prev)
  BY <1>1, <1>4, <1>5 DEF Chain, Line
<1>9. Chain(R2)
  BY <1>6, <1>7, <1>8 DEF Chain
<1>10. \A q \in R : Len(q.hash) < Len(new.hash)
  <2>1. a.prev \in Hashes /\ a.body \in Entries
    BY DEF AddedRows
  <2>2. Len(new.hash) = Len(a.prev) + 1 /\ Len(a.prev) \in Nat
    BY <1>1, <2>1 DEF Digest, Hashes
  <2>3. \A q \in R : Len(q.hash) \in Nat /\ (Len(q.hash) < Len(a.prev) \/ q.hash = a.prev)
    BY <2>1, LastIsLongest DEF Line, Rows, Hashes
  <2> QED
    BY <2>2, <2>3
<1>11. Ordered(R2)
  <2>1. \A q, r \in R2 : q.seq = r.seq => q = r
    BY <1>1 DEF Line, Ordered, Rows
  <2>2. \A q, r \in R2 : q.seq < r.seq => Len(q.hash) < Len(r.hash)
    BY <1>1, <1>10 DEF Line, Ordered, Rows
  <2>3. ASSUME NEW q \in R
        PROVE  \E r \in R2 : Follows(R2, q, r)
    <3>1. CASE \A r \in R : r.seq <= q.seq
      <4>1. q \in Before(R2, new)
        BY <1>4
      <4> QED
        BY <1>4, <3>1, <4>1 DEF Follows
    <3>2. CASE \E r \in R : Follows(R, q, r)
      BY <1>5, <3>2 DEF Follows
    <3> QED
      BY <3>1, <3>2 DEF Line, Ordered
  <2>4. \A r \in R2 : r.seq <= new.seq
    BY <1>1 DEF Rows
  <2> QED
    BY <2>1, <2>2, <2>3, <2>4 DEF Ordered
<1> QED
  BY <1>1, <1>2, <1>3, <1>9, <1>11 DEF new, Line

LEMMA DigestExtends ==
    ASSUME NEW h \in Hashes, NEW e \in Entries
    PROVE  /\ Digest(h, e) \in Hashes
           /\ Trail!Extends(h, Digest(h, e))
           /\ \A g \in Hashes : Trail!Extends(g, h) => Trail!Extends(g, Digest(h, e))
BY DEF Hashes, Digest, Trail!Extends

LEMMA RecordTypes ==
    ASSUME NEW h \in Heads, NEW e \in Entries
    PROVE  RowAfter(h, e) \in AddedRows /\ HeadAfter(h, e) \in Heads
BY DigestExtends DEF RowAfter, HeadAfter, Heads, AddedRows

(* What a flush leaves of a session that satisfies the invariant.          *)
LEMMA FlushedSession ==
    ASSUME TypeOK, NEW R \in SUBSET Rows, Published(R),
           NEW w \in Workers, sess[w].open, DraftingNow(R, w)
    PROVE  LET s == sess[w]
               F == FlushedBy(s)
           IN  /\ F \in SUBSET Rows /\ IsFiniteSet(F)
               /\ SeqAfterFlush(s) = nextSeq + 1
               /\ \A r \in F : r.seq < nextSeq + 1 /\ \A q \in R : q.seq < r.seq
               /\ Line(R \cup F)
               /\ Tip(R \cup F, s.head.hash)
               /\ IsFiniteSet(R \cup F)
               /\ s.head.count = Cardinality(R \cup F)
<1> DEFINE s == sess[w]
           F == FlushedBy(s)
           D == R \cup s.flushed
<1>1. s \in Sessions /\ nextSeq \in Nat
  BY DEF TypeOK
<1>2. PICK a \in AddedRows : Ahead(R, s, a)
  BY DEF DraftingNow, Drafting
<1>3. F = s.flushed \cup {Inserted(a, nextSeq)} /\ R \cup F = D \cup {Inserted(a, nextSeq)}
  BY <1>2 DEF Ahead, FlushedBy
<1>4. D \in SUBSET Rows /\ IsFiniteSet(D) /\ Line(D) /\ \A r \in D : r.seq < nextSeq
  <2>1. D \in SUBSET Rows
    BY <1>1 DEF Sessions
  <2>2. IsFiniteSet(D)
    BY FS_Union DEF DraftingNow, Drafting, Published
  <2> QED
    BY <2>1, <2>2 DEF DraftingNow, Drafting, Published
<1>5. /\ Inserted(a, nextSeq) \in Rows
      /\ Inserted(a, nextSeq) \notin D
      /\ Line(D \cup {Inserted(a, nextSeq)})
      /\ Tip(D \cup {Inserted(a, nextSeq)}, a.hash)
  BY <1>1, <1>2, <1>4, FlushExtends DEF Ahead
<1>6. SeqAfterFlush(s) = nextSeq + 1
  BY <1>2, FS_Singleton DEF Ahead, SeqAfterFlush
<1>7. IsFiniteSet(F) /\ F \in SUBSET Rows
  BY <1>1, <1>3, <1>5, FS_AddElement DEF DraftingNow, Drafting, Sessions
<1>8. \A r \in F : r.seq < nextSeq + 1 /\ \A q \in R : q.seq < r.seq
  <2>1. Inserted(a, nextSeq).seq = nextSeq
    BY DEF Inserted
  <2>2. \A r \in s.flushed : r.seq < nextSeq + 1 /\ \A q \in R : q.seq < r.seq
    BY <1>1, <1>4 DEF DraftingNow, Drafting, Rows
  <2> QED
    BY <1>1, <1>3, <2>1, <2>2 DEF Published
<1>9. IsFiniteSet(R \cup F) /\ s.head.count = Cardinality(R \cup F)
  <2>1. /\ IsFiniteSet(D \cup {Inserted(a, nextSeq)})
        /\ Cardinality(D \cup {Inserted(a, nextSeq)}) = Cardinality(D) + 1
    BY <1>4, <1>5, FS_AddElement, Zenon
  <2>2. s.head.count = Cardinality(D) + 1
    BY DEF DraftingNow, Drafting
  <2> QED
    BY <1>3, <2>1, <2>2
<1>10. Line(R \cup F) /\ Tip(R \cup F, s.head.hash)
  BY <1>2, <1>3, <1>5 DEF Ahead
<1> QED
  BY <1>6, <1>7, <1>8, <1>9, <1>10

-----------------------------------------------------------------------------
(* Type correctness is inductive on its own.                               *)

LEMMA TypeInit == Init => TypeOK
<1> SUFFICES ASSUME Init PROVE TypeOK
  OBVIOUS
<1>1. EmptyHead \in Heads
  BY DEF EmptyHead, Heads, Hashes, Genesis
<1>2. Closed \in Sessions
  BY <1>1 DEF Closed, Sessions
<1> QED
  BY <1>1, <1>2 DEF Init, TypeOK, Checks

LEMMA FlushTypes ==
    ASSUME TypeOK, NEW w \in Workers, IsFiniteSet(sess[w].added)
    PROVE  FlushedBy(sess[w]) \in SUBSET Rows /\ SeqAfterFlush(sess[w]) \in Nat
<1>1. sess[w] \in Sessions /\ nextSeq \in Nat
  BY DEF TypeOK
<1>2. \A a \in sess[w].added : Inserted(a, nextSeq) \in Rows
  BY <1>1 DEF Sessions, AddedRows, Rows, Inserted
<1>3. Cardinality(sess[w].added) \in Nat
  BY FS_CardinalityType
<1> QED
  BY <1>1, <1>2, <1>3 DEF FlushedBy, SeqAfterFlush, Sessions

(* A session never holds more than one row back from the database.         *)
OneAdded == \A w \in Workers : sess[w].open => IsFiniteSet(sess[w].added)

LEMMA TypeStep ==
    ASSUME TypeOK, OneAdded, [Next]_vars
    PROVE  TypeOK' /\ OneAdded'
<1> USE DEF TypeOK
<1>0. Closed \in Sessions /\ IsFiniteSet(Closed.added)
  BY FS_EmptySet DEF Closed, Sessions, EmptyHead, Heads, Hashes, Genesis
<1>1. ASSUME NEW w \in Workers, NEW e \in Entries, RecordFirst(w, e)
      PROVE  TypeOK' /\ OneAdded'
  <2> DEFINE s == [open |-> TRUE, head |-> HeadAfter(head, e),
                   added |-> {RowAfter(head, e)}, flushed |-> {}]
  <2>1. s \in Sessions /\ IsFiniteSet(s.added)
    BY RecordTypes, FS_Singleton DEF Sessions
  <2>2. sess' = [sess EXCEPT ![w] = s]
    BY <1>1 DEF RecordFirst
  <2> HIDE DEF s
  <2> QED
    BY <1>1, <2>1, <2>2 DEF RecordFirst, LockForRead, OneAdded
<1>2. ASSUME NEW w \in Workers, NEW e \in Entries, RecordAgain(w, e)
      PROVE  TypeOK' /\ OneAdded'
  <2> DEFINE h == sess[w].head
             s == [open |-> TRUE, head |-> HeadAfter(h, e),
                   added |-> {RowAfter(h, e)}, flushed |-> FlushedBy(sess[w])]
  <2>1. h \in Heads
    BY DEF Sessions
  <2>2. FlushedBy(sess[w]) \in SUBSET Rows /\ SeqAfterFlush(sess[w]) \in Nat
    BY <1>2, FlushTypes DEF OneAdded, RecordAgain
  <2>3. s \in Sessions /\ IsFiniteSet(s.added)
    BY <2>1, <2>2, RecordTypes, FS_Singleton DEF Sessions
  <2>4. sess' = [sess EXCEPT ![w] = s]
    BY <1>2 DEF RecordAgain
  <2> HIDE DEF s
  <2> QED
    BY <1>2, <2>2, <2>3, <2>4 DEF RecordAgain, OneAdded
<1>3. ASSUME NEW w \in Workers, Commit(w) PROVE TypeOK' /\ OneAdded'
  <2>1. FlushedBy(sess[w]) \in SUBSET Rows /\ SeqAfterFlush(sess[w]) \in Nat
    BY <1>3, FlushTypes DEF OneAdded, Commit
  <2>2. sess[w].head \in Heads
    BY DEF Sessions
  <2>3. check' \in Checks
    BY <1>3 DEF Commit, Checks
  <2> QED
    BY <1>0, <1>3, <2>1, <2>2, <2>3 DEF Commit, OneAdded
<1>4. ASSUME NEW w \in Workers, Rollback(w) PROVE TypeOK' /\ OneAdded'
  BY <1>0, <1>4 DEF Rollback, OneAdded
<1>5. CASE Scan
  BY <1>5 DEF Scan, Checks, OneAdded, Unbroken
<1>6. CASE ReadHead
  BY <1>6 DEF ReadHead, Checks, OneAdded, HeadOk
<1>7. CASE UNCHANGED vars
  BY <1>7 DEF vars, OneAdded
<1> QED
  BY <1>1, <1>2, <1>3, <1>4, <1>5, <1>6, <1>7 DEF Next, Write

(* TypeOK: whatever the sessions do and whichever database is used, every  *)
(* table, session and verifier of twin/audit.py keeps its shape.           *)
THEOREM TypeCorrect == Spec => []TypeOK
<1>1. Init => TypeOK /\ OneAdded
  BY TypeInit, FS_EmptySet DEF Init, OneAdded, Closed
<1>2. TypeOK /\ OneAdded /\ [Next]_vars => (TypeOK /\ OneAdded)'
  BY TypeStep
<1> QED
  BY <1>1, <1>2, PTL DEF Spec

-----------------------------------------------------------------------------
(* The safety invariant, for a database that locks rows.  The steps of the *)
(* sessions are taken one by one for any log R they agree about.           *)

LEMMA InvInit == Init => IInv
<1> SUFFICES ASSUME Init PROVE IInv
  OBVIOUS
<1>1. TypeOK
  BY TypeInit
<1>2. Published(rows)
  BY FS_EmptySet DEF Init, Published, Line, Chain, Ordered, Tip, EmptyHead
<1>3. SessionsOk(rows) /\ VerdictOk
  BY DEF Init, SessionsOk, VerdictOk, Closed
<1> QED
  BY <1>1, <1>2, <1>3 DEF IInv, Logged, TypeOK

(* A pending row makes the session's added rows a finite set.              *)
LEMMA InvOneAdded ==
    ASSUME NEW R, SessionsOk(R)
    PROVE  OneAdded
BY FS_Singleton DEF SessionsOk, DraftingNow, Drafting, Ahead, OneAdded

(* Only the holder of the lock has an open session.                        *)
LEMMA OneSession ==
    ASSUME NEW R, SessionsOk(R), NEW w \in Workers, LockFree(w)
    PROVE  \A v \in Workers \ {w} : ~sess[v].open
BY WorkersAssumption DEF SessionsOk, LockFree

LEMMA FirstStep ==
    ASSUME TypeOK, RowLocks, NEW R, Logged(R),
           NEW w \in Workers, NEW e \in Entries, RecordFirst(w, e)
    PROVE  Logged(R)'
<1> DEFINE a == RowAfter(head, e)
           s == [open |-> TRUE, head |-> HeadAfter(head, e),
                 added |-> {a}, flushed |-> {}]
<1>0. R \in SUBSET Rows /\ Published(R) /\ SessionsOk(R) /\ LockFree(w)
  BY DEF Logged, RecordFirst
<1>1. head \in Heads /\ head.hash \in Hashes /\ sess \in [Workers -> Sessions]
  BY <1>0 DEF TypeOK, Heads
<1>2. a \in AddedRows /\ a.prev = head.hash /\ a.body = e
      /\ a.hash = Digest(head.hash, e)
  BY <1>1, RecordTypes DEF RowAfter
<1>3. s.head.hash = a.hash /\ s.head.count = head.count + 1
  BY <1>2 DEF HeadAfter
<1>4. /\ sess' = [sess EXCEPT ![w] = s] /\ lock' = w
      /\ head' = head /\ nextSeq' = nextSeq
  BY DEF RecordFirst, LockForRead
<1>5. R \cup s.flushed = R /\ s.added = {a} /\ s.flushed = {}
  OBVIOUS
<1> HIDE DEF s, a
<1>6. Drafting(R, head.hash, nextSeq, s)
  <2>1. Ahead(R, s, a)
    BY <1>0, <1>2, <1>3, <1>5 DEF Ahead, Published
  <2>2. Trail!Extends(head.hash, s.head.hash)
    BY <1>1, <1>2, <1>3, DigestExtends
  <2> QED
    BY <1>0, <1>2, <1>3, <1>5, <2>1, <2>2, FS_EmptySet DEF Drafting, Published
<1>7. SessionsOk(R)'
  BY <1>0, <1>1, <1>4, <1>6, OneSession DEF SessionsOk, DraftingNow
<1> QED
  BY <1>0, <1>4, <1>7 DEF Logged, Published

LEMMA AgainStep ==
    ASSUME TypeOK, NEW R, Logged(R),
           NEW w \in Workers, NEW e \in Entries, RecordAgain(w, e)
    PROVE  Logged(R)'
<1> DEFINE h == sess[w].head
           F == FlushedBy(sess[w])
           a == RowAfter(h, e)
           s == [open |-> TRUE, head |-> HeadAfter(h, e), added |-> {a}, flushed |-> F]
<1>0. R \in SUBSET Rows /\ Published(R) /\ SessionsOk(R) /\ LockFree(w) /\ sess[w].open
  BY DEF Logged, RecordAgain
<1>1. sess \in [Workers -> Sessions] /\ head.hash \in Hashes /\ nextSeq \in Nat
      /\ h \in Heads /\ h.hash \in Hashes
  BY <1>0 DEF TypeOK, Heads, Sessions
<1>2. DraftingNow(R, w)
  BY <1>0 DEF SessionsOk
<1>3. /\ IsFiniteSet(F)
      /\ SeqAfterFlush(sess[w]) = nextSeq + 1
      /\ \A r \in F : r.seq < nextSeq + 1 /\ \A q \in R : q.seq < r.seq
      /\ Line(R \cup F)
      /\ Tip(R \cup F, h.hash)
      /\ h.count = Cardinality(R \cup F)
  BY <1>0, <1>2, FlushedSession
<1>4. a \in AddedRows /\ a.prev = h.hash /\ a.body = e /\ a.hash = Digest(h.hash, e)
  BY <1>1, RecordTypes DEF RowAfter
<1>5. /\ s.head.hash = a.hash /\ s.head.count = h.count + 1
      /\ s.added = {a} /\ s.flushed = F
  BY <1>4 DEF HeadAfter
<1>6. /\ sess' = [sess EXCEPT ![w] = s] /\ lock' = w /\ nextSeq' = nextSeq + 1
      /\ head' = head
  BY <1>3 DEF RecordAgain
<1>7. Trail!Extends(head.hash, s.head.hash)
  BY <1>1, <1>2, <1>4, <1>5, DigestExtends DEF DraftingNow, Drafting
<1> HIDE DEF s, a, F, h
<1>8. Ahead(R, s, a)
  BY <1>3, <1>4, <1>5 DEF Ahead
<1>9. Drafting(R, head.hash, nextSeq + 1, s)
  BY <1>3, <1>4, <1>5, <1>7, <1>8 DEF Drafting
<1>10. \A r \in R : r.seq < nextSeq'
  BY <1>0, <1>1, <1>6 DEF Published, Rows
<1>11. SessionsOk(R)'
  BY <1>0, <1>1, <1>6, <1>9, OneSession DEF SessionsOk, DraftingNow
<1> QED
  BY <1>0, <1>6, <1>10, <1>11 DEF Logged, Published

(* A commit adds the session's rows behind all those of R, and moves the   *)
(* head forward.                                                           *)
LEMMA CommitStep ==
    ASSUME TypeOK, NEW R, Logged(R), NEW w \in Workers, Commit(w)
    PROVE  \E F \in SUBSET Rows :
              /\ rows' = rows \cup F
              /\ \A S \in SUBSET Rows : S = R \cup F => Logged(S)'
              /\ \A r \in F, q \in R : q.seq < r.seq
              /\ Trail!Extends(head.hash, head'.hash)
<1> DEFINE F == FlushedBy(sess[w])
           h == sess[w].head
<1>0. R \in SUBSET Rows /\ Published(R) /\ SessionsOk(R) /\ LockFree(w)
      /\ sess[w].open /\ DraftingNow(R, w) /\ nextSeq \in Nat
  BY DEF Logged, Commit, SessionsOk, TypeOK
<1>1. /\ F \in SUBSET Rows
      /\ IsFiniteSet(R \cup F)
      /\ SeqAfterFlush(sess[w]) = nextSeq + 1
      /\ \A r \in F : r.seq < nextSeq + 1 /\ \A q \in R : q.seq < r.seq
      /\ Line(R \cup F)
      /\ Tip(R \cup F, h.hash)
      /\ h.count = Cardinality(R \cup F)
  BY <1>0, FlushedSession
<1>2. rows' = rows \cup F /\ head' = h /\ nextSeq' = nextSeq + 1
  BY <1>1 DEF Commit
<1>3. Trail!Extends(head.hash, h.hash)
  BY <1>0 DEF DraftingNow, Drafting
<1>4. \A v \in Workers : ~sess'[v].open
  BY <1>0, OneSession DEF Commit, Closed, TypeOK
<1> HIDE DEF F, h
<1>5. ASSUME NEW S \in SUBSET Rows, S = R \cup F PROVE Logged(S)'
  <2>1. \A r \in S : r.seq < nextSeq'
    BY <1>0, <1>1, <1>2, <1>5 DEF Published, Rows
  <2>2. Published(S)'
    BY <1>1, <1>2, <1>5, <2>1 DEF Published
  <2> QED
    BY <1>4, <2>2 DEF Logged, SessionsOk
<1> QED
  BY <1>1, <1>2, <1>3, <1>5

LEMMA RollbackStep ==
    ASSUME TypeOK, NEW R, Logged(R), NEW w \in Workers, Rollback(w)
    PROVE  Logged(R)'
<1>1. \A v \in Workers : ~sess'[v].open
  BY OneSession DEF Rollback, Closed, Logged, TypeOK, SessionsOk, LockFree
<1> QED
  BY <1>1 DEF Rollback, Logged, Published, SessionsOk

(* The verifier only reads.                                                *)
LEMMA LogStays ==
    ASSUME NEW R, Logged(R), UNCHANGED <<head, nextSeq, lock, sess>>
    PROVE  Logged(R)'
BY DEF Logged, Published, SessionsOk, DraftingNow

LEMMA InvStep ==
    ASSUME RowLocks, IInv, [Next]_vars
    PROVE  IInv' /\ [GrowsAtEnd]_vars
<1>0. TypeOK /\ Logged(rows) /\ VerdictOk
  BY DEF IInv
<1>1. TypeOK'
  BY <1>0, InvOneAdded, TypeStep DEF Logged
<1>2. PICK R \in SUBSET Rows : R = rows
  BY <1>0 DEF TypeOK
<1>3. Logged(R)
  BY <1>0, <1>2
<1>4. ASSUME Logged(R)', UNCHANGED <<rows, check>>
      PROVE  Logged(rows)' /\ VerdictOk' /\ GrowsAtEnd
  <2>1. R = rows'
    BY <1>2, <1>4
  <2>2. Logged(rows)'
    BY <1>4, <2>1 DEF Logged, Published, SessionsOk, DraftingNow
  <2> QED
    BY <1>0, <1>4, <2>2 DEF VerdictOk, GrowsAtEnd
<1>5. ASSUME NEW w \in Workers, NEW e \in Entries, RecordFirst(w, e)
      PROVE  Logged(rows)' /\ VerdictOk' /\ GrowsAtEnd
  <2>1. Logged(R)'
    BY <1>0, <1>3, <1>5, FirstStep
  <2> QED
    BY <1>4, <1>5, <2>1 DEF RecordFirst
<1>6. ASSUME NEW w \in Workers, NEW e \in Entries, RecordAgain(w, e)
      PROVE  Logged(rows)' /\ VerdictOk' /\ GrowsAtEnd
  <2>1. Logged(R)'
    BY <1>0, <1>3, <1>6, AgainStep
  <2> QED
    BY <1>4, <1>6, <2>1 DEF RecordAgain
<1>7. ASSUME NEW w \in Workers, Commit(w)
      PROVE  Logged(rows)' /\ VerdictOk' /\ GrowsAtEnd
  <2>1. PICK F \in SUBSET Rows :
              /\ rows' = rows \cup F
              /\ \A S \in SUBSET Rows : S = R \cup F => Logged(S)'
              /\ \A r \in F, q \in R : q.seq < r.seq
    BY <1>0, <1>3, <1>7, CommitStep
  <2>2. PICK S \in SUBSET Rows : S = R \cup F
    OBVIOUS
  <2>3. Logged(S)' /\ S = rows'
    BY <1>2, <2>1, <2>2
  <2>4. Logged(rows)'
    BY <2>3 DEF Logged, Published, SessionsOk, DraftingNow
  <2>5. VerdictOk'
    BY <1>0, <1>7 DEF VerdictOk, Commit, TypeOK, Checks
  <2>6. GrowsAtEnd
    BY <1>2, <2>1 DEF GrowsAtEnd
  <2> QED
    BY <2>4, <2>5, <2>6
<1>8. ASSUME NEW w \in Workers, Rollback(w)
      PROVE  Logged(rows)' /\ VerdictOk' /\ GrowsAtEnd
  <2>1. Logged(R)'
    BY <1>0, <1>3, <1>8, RollbackStep
  <2> QED
    BY <1>4, <1>8, <2>1 DEF Rollback
<1>9. ASSUME UNCHANGED <<rows, head, nextSeq, lock, sess>>
      PROVE  Logged(rows)' /\ GrowsAtEnd
  BY <1>0, <1>9 DEF GrowsAtEnd, Logged, Published, SessionsOk, DraftingNow
<1>10. CASE Scan
  <2>1. VerdictOk'
    BY <1>0, <1>10 DEF Logged, Published, Line, Chain, Unbroken, Scan, VerdictOk
  <2> QED
    BY <1>1, <1>9, <1>10, <2>1 DEF Scan, IInv
<1>11. CASE ReadHead
  <2>1. ~check.raced => HeadOk(check.seen, head)
    BY <1>0, <1>11 DEF ReadHead, Logged, VerdictOk, Published, HeadOk
  <2>2. VerdictOk'
    BY <1>0, <1>11, <2>1 DEF ReadHead, VerdictOk, TypeOK, Checks
  <2> QED
    BY <1>1, <1>9, <1>11, <2>2 DEF ReadHead, IInv
<1>12. CASE UNCHANGED vars
  <2>1. VerdictOk'
    BY <1>0, <1>12 DEF vars, VerdictOk
  <2> QED
    BY <1>1, <1>9, <1>12, <2>1 DEF vars, IInv
<1> QED
  BY <1>1, <1>5, <1>6, <1>7, <1>8, <1>10, <1>11, <1>12 DEF Next, Write, IInv

-----------------------------------------------------------------------------
(* The results, for any number of workers and entries.                     *)

(* ChainIntact: under row locks no interleaving of records, commits,       *)
(* rollbacks and crashes forks the chain of twin/audit.py: each committed  *)
(* row carries the digest of all the rows before it.                       *)
THEOREM AuditLogChain ==
    ASSUME RowLocks
    PROVE  Spec => []ChainIntact
<1>1. IInv /\ [Next]_vars => IInv'
  BY InvStep
<1>2. IInv => ChainIntact
  BY DEF IInv, Logged, Published, Line, Chain, ChainIntact
<1> QED
  BY InvInit, <1>1, <1>2, PTL DEF Spec

(* HeadAgrees: no update of the head row is lost; it always holds the hash *)
(* of the last committed row and the number of rows.                       *)
THEOREM AuditLogHead ==
    ASSUME RowLocks
    PROVE  Spec => []HeadAgrees
<1>1. IInv /\ [Next]_vars => IInv'
  BY InvStep
<1>2. IInv => HeadAgrees
  BY DEF IInv, Logged, Published, HeadAgrees
<1> QED
  BY InvInit, <1>1, <1>2, PTL DEF Spec

(* QuietVerdictValid: verify_chain never calls a log broken unless a       *)
(* commit came between its two statements.                                 *)
THEOREM AuditLogVerdict ==
    ASSUME RowLocks
    PROVE  Spec => []QuietVerdictValid
<1>1. IInv /\ [Next]_vars => IInv'
  BY InvStep
<1>2. IInv => QuietVerdictValid
  BY DEF IInv, VerdictOk, QuietVerdictValid
<1> QED
  BY InvInit, <1>1, <1>2, PTL DEF Spec

(* AppendOnly: a row never changes once committed, and rows become visible *)
(* in the order of their serial numbers (the cursor of a paging reader).   *)
THEOREM AuditLogAppendOnly ==
    ASSUME RowLocks
    PROVE  Spec => AppendOnly
<1>1. IInv /\ [Next]_vars => IInv' /\ [GrowsAtEnd]_vars
  BY InvStep
<1> QED
  BY InvInit, <1>1, PTL DEF Spec, AppendOnly

(* TrailSpec: the two tables and their locking implement the abstract      *)
(* trail, in which a transaction publishes its entries at once, in order   *)
(* and after everything published before.                                  *)
THEOREM AuditLogRefines ==
    ASSUME RowLocks
    PROVE  Spec => TrailSpec
<1>1. Init => Trail!TrailInit
  BY DEF Init, Trail!TrailInit, TrailDraft, Closed, EmptyHead, Genesis
<1>2. ASSUME IInv, [Next]_vars PROVE [Trail!TrailNext]_(Trail!tvars)
  <2>0. TypeOK /\ SessionsOk(rows) /\ sess \in [Workers -> Sessions]
    BY <1>2 DEF IInv, Logged, TypeOK
  <2>1. ASSUME NEW w \in Workers, NEW e \in Entries, RecordFirst(w, e)
        PROVE  Trail!Start(w, e)
    <3>1. TrailDraft[w] = << >> /\ head' = head
      BY <2>1 DEF RecordFirst, TrailDraft
    <3>2. TrailDraft' = [TrailDraft EXCEPT ![w] = Append(head.hash, e)]
      BY <2>0, <2>1 DEF RecordFirst, TrailDraft, HeadAfter, Digest
    <3> QED
      BY <3>1, <3>2 DEF Trail!Start
  <2>2. ASSUME NEW w \in Workers, NEW e \in Entries, RecordAgain(w, e)
        PROVE  Trail!Continue(w, e)
    <3>0. /\ TrailDraft[w] = sess[w].head.hash /\ head' = head
          /\ Trail!Extends(head.hash, TrailDraft[w])
      BY <2>0, <2>2 DEF RecordAgain, TrailDraft, SessionsOk, DraftingNow, Drafting
    <3>1. TrailDraft[w] # << >>
      BY <2>0, <3>0 DEF Trail!Extends, TypeOK, Heads, Hashes
    <3>2. TrailDraft' = [TrailDraft EXCEPT ![w] = Append(sess[w].head.hash, e)]
      BY <2>0, <2>2 DEF RecordAgain, TrailDraft, HeadAfter, Digest
    <3> QED
      BY <3>0, <3>1, <3>2 DEF Trail!Continue
  <2>3. ASSUME NEW w \in Workers, Commit(w) PROVE Trail!Publish(w)
    <3>1. TrailDraft[w] = sess[w].head.hash /\ Trail!Extends(head.hash, TrailDraft[w])
      BY <2>0, <2>3 DEF Commit, TrailDraft, SessionsOk, DraftingNow, Drafting
    <3>2. TrailDraft' = [TrailDraft EXCEPT ![w] = << >>]
      BY <2>0, <2>3 DEF Commit, TrailDraft, Closed
    <3>3. head'.hash = sess[w].head.hash
      BY <2>3 DEF Commit
    <3> QED
      BY <3>1, <3>2, <3>3 DEF Trail!Publish
  <2>4. ASSUME NEW w \in Workers, Rollback(w) PROVE Trail!Drop(w)
    BY <2>0, <2>4 DEF Rollback, TrailDraft, Closed, Trail!Drop
  <2>5. CASE Scan \/ ReadHead \/ UNCHANGED vars
    BY <2>5 DEF Scan, ReadHead, vars, TrailDraft, Trail!tvars
  <2> QED
    BY <1>2, <2>1, <2>2, <2>3, <2>4, <2>5 DEF Next, Write, Trail!TrailNext
<1>3. IInv /\ [Next]_vars => IInv'
  BY InvStep
<1> QED
  BY InvInit, <1>1, <1>2, <1>3, PTL DEF Spec, TrailSpec, Trail!TrailSpec

-----------------------------------------------------------------------------
(* The damaged table.  G is the log as it would be had nothing been edited *)
(* or lost: the sessions keep extending it, for they only look at the      *)
(* head, and the table differs from it in one row for ever.                *)

LostOne(G, T) == \E r \in G : T = G \ {r}
EditedOne(G, T) ==
    \E r \in G, e \in Entries : e # r.body /\ T = (G \ {r}) \cup {[r EXCEPT !.body = e]}

LogBehind(G) ==
    /\ Logged(G)
    /\ ~damaged => rows = G
    /\ damaged => LostOne(G, rows) \/ EditedOne(G, rows)

(* A scan of a damaged table goes on to the head only when it saw nothing  *)
(* as recent as the head.                                                  *)
SeenAreOlder ==
    examined =>
        /\ damaged
        /\ check.pc = "scanned" => \A q \in check.seen : Len(q.hash) < Len(head.hash)
        /\ check.pc = "done" /\ check.valid => check.seen = {}

DamageInv == TypeOK /\ SeenAreOlder /\ \E G \in SUBSET Rows : LogBehind(G)

LEMMA NonemptyDigests ==
    ASSUME NEW R \in SUBSET Rows, Chain(R), NEW r \in R
    PROVE  r.hash \in Hashes /\ Len(r.hash) \in Nat /\ Len(r.hash) > 0
<1>1. r.hash \in Hashes /\ r.body \in Entries
  BY DEF Rows
<1>2. PICK h \in Hashes : r.hash = Digest(h, r.body)
  <2>1. Genesis \in Hashes /\ \A q \in R : q.hash \in Hashes
    BY DEF Genesis, Hashes, Rows
  <2> QED
    BY <2>1 DEF Chain, Linked, Before
<1> QED
  BY <1>1, <1>2 DEF Digest, Hashes

LEMMA DigestInjective ==
    ASSUME NEW g \in Hashes, NEW h \in Hashes, NEW d \in Entries, NEW e \in Entries,
           Digest(g, d) = Digest(h, e)
    PROVE  g = h /\ d = e
<1>1. Len(g) = Len(h)
  BY DEF Digest, Hashes
<1>2. d = e
  <2>1. Digest(g, d)[Len(g) + 1] = d /\ Digest(h, e)[Len(h) + 1] = e
    BY DEF Digest, Hashes
  <2> QED
    BY <1>1, <2>1
<1>3. ASSUME NEW i \in 1..Len(g) PROVE g[i] = h[i]
  <2>1. Digest(g, d)[i] = g[i] /\ Digest(h, e)[i] = h[i]
    BY <1>1 DEF Digest, Hashes
  <2> QED
    BY <2>1
<1>4. g = h
  BY <1>1, <1>3 DEF Hashes
<1> QED
  BY <1>2, <1>4

(* An edited row no longer has the digest its body should have.            *)
LEMMA EditBreaks ==
    ASSUME NEW G \in SUBSET Rows, Line(G), NEW T \in SUBSET Rows, EditedOne(G, T)
    PROVE  ~Unbroken(T)
<1>1. PICK r \in G, e \in Entries :
         e # r.body /\ T = (G \ {r}) \cup {[r EXCEPT !.body = e]}
  BY DEF EditedOne
<1> DEFINE x == [r EXCEPT !.body = e]
<1>2. x \in T /\ x.hash = r.hash /\ x.body = e /\ x.seq = r.seq /\ r.body \in Entries
  BY <1>1 DEF Rows
<1> HIDE DEF x
<1>3. Genesis \in Hashes /\ \A q \in G \cup T : q.hash \in Hashes
  BY DEF Genesis, Hashes, Rows
<1>4. PICK g \in Hashes : r.hash = Digest(g, r.body)
  BY <1>3 DEF Line, Chain, Linked, Before
<1>5. SUFFICES ASSUME Linked(T, x) PROVE FALSE
  BY <1>2 DEF Unbroken
<1>6. PICK h \in Hashes : x.hash = Digest(h, x.body)
  BY <1>3, <1>5 DEF Linked, Before
<1> QED
  BY <1>1, <1>2, <1>4, <1>6, DigestInjective

(* When a row is lost from the middle, its successor no longer links to    *)
(* the row before it.                                                      *)
LEMMA LossBreaks ==
    ASSUME NEW G \in SUBSET Rows, Line(G), NEW r \in G,
           ~(\A q \in G : q.seq <= r.seq)
    PROVE  ~Unbroken(G \ {r})
<1> DEFINE T == G \ {r}
<1>1. PICK s \in G : Follows(G, r, s)
  BY DEF Line, Ordered
<1>2. r.seq < s.seq /\ s \in T /\ \A p \in Before(G, s) : p.seq <= r.seq
  BY <1>1 DEF Follows, Before, Rows
<1>3. s.hash = Digest(r.hash, s.body)
  <2>1. PICK q \in Before(G, s) :
           (\A p \in Before(G, s) : p.seq <= q.seq) /\ s.hash = Digest(q.hash, s.body)
    BY <1>1 DEF Line, Chain, Linked, Follows
  <2>2. q.seq = r.seq /\ q \in G
    BY <1>1, <2>1 DEF Follows, Before, Rows
  <2> QED
    BY <2>1, <2>2 DEF Line, Ordered
<1>4. \A q \in G : q.hash \in Hashes /\ q.body \in Entries /\ Len(q.hash) \in Nat
                   /\ Len(q.hash) > 0
  BY NonemptyDigests DEF Line, Rows
<1>5. SUFFICES ASSUME Linked(T, s) PROVE FALSE
  BY <1>2 DEF Unbroken
<1>6. CASE s.hash = Digest(Genesis, s.body)
  <2>1. Genesis \in Hashes /\ Len(Genesis) = 0
    BY DEF Genesis, Hashes
  <2>2. s.body \in Entries /\ r.hash \in Hashes
    BY <1>4
  <2>3. Digest(Genesis, s.body) = Digest(r.hash, s.body)
    BY <1>3, <1>6
  <2>4. Genesis = r.hash
    BY <2>1, <2>2, <2>3, DigestInjective
  <2> QED
    BY <1>4, <2>1, <2>4
<1>7. CASE \E q \in Before(T, s) : s.hash = Digest(q.hash, s.body)
  <2>1. PICK q \in Before(T, s) : s.hash = Digest(q.hash, s.body)
    BY <1>7
  <2>2. q \in G /\ q # r /\ q \in Before(G, s)
    BY <2>1 DEF Before
  <2>3. q.hash = r.hash
    <3>1. s.body \in Entries /\ r.hash \in Hashes /\ q.hash \in Hashes
      BY <1>4, <2>2
    <3>2. Digest(q.hash, s.body) = Digest(r.hash, s.body)
      BY <1>3, <2>1
    <3> QED
      BY <3>1, <3>2, DigestInjective
  <2>4. q.seq <= r.seq /\ q.seq # r.seq /\ q.seq \in Nat /\ r.seq \in Nat
    BY <1>2, <2>2 DEF Line, Ordered, Rows
  <2>5. Len(q.hash) < Len(r.hash)
    BY <2>2, <2>4 DEF Line, Ordered
  <2> QED
    BY <1>4, <2>2, <2>3, <2>5
<1> QED
  BY <1>5, <1>6, <1>7 DEF Linked

(* What an unbroken scan of a damaged table has seen is older than the     *)
(* head: only the last row can be missing.                                 *)
LEMMA UnbrokenIsOlder ==
    ASSUME NEW G \in SUBSET Rows, Line(G), NEW h \in Hashes, Tip(G, h),
           NEW T \in SUBSET Rows, LostOne(G, T) \/ EditedOne(G, T), Unbroken(T)
    PROVE  \A q \in T : Len(q.hash) < Len(h)
<1>1. PICK r \in G : T = G \ {r}
  BY EditBreaks DEF LostOne
<1>2. \A q \in G : q.seq <= r.seq
  BY <1>1, LossBreaks
<1>3. ASSUME NEW q \in T PROVE Len(q.hash) < Len(h)
  <2>1. q \in G /\ q # r
    BY <1>1
  <2>2. CASE \A p \in G : p.seq <= q.seq
    <3>1. q.seq = r.seq
      BY <1>2, <2>1, <2>2 DEF Rows
    <3> QED
      BY <2>1, <3>1 DEF Line, Ordered
  <2> QED
    BY <2>1, <2>2, LastIsLongest DEF Line
<1> QED
  BY <1>3

(* New rows leave the table one row away from the log behind it.           *)
LEMMA StaysOneAway ==
    ASSUME NEW G \in SUBSET Rows, NEW F \in SUBSET Rows, \A r \in F, q \in G : q.seq < r.seq,
           NEW T \in SUBSET Rows
    PROVE  /\ LostOne(G, T) => LostOne(G \cup F, T \cup F)
           /\ EditedOne(G, T) => EditedOne(G \cup F, T \cup F)
<1>1. \A r \in G : r \notin F
  BY DEF Rows
<1>2. \A r \in G : (G \ {r}) \cup F = (G \cup F) \ {r}
  BY <1>1
<1>3. LostOne(G, T) => LostOne(G \cup F, T \cup F)
  BY <1>2 DEF LostOne
<1>4. ASSUME EditedOne(G, T) PROVE EditedOne(G \cup F, T \cup F)
  <2>1. PICK r \in G, e \in Entries :
           e # r.body /\ T = (G \ {r}) \cup {[r EXCEPT !.body = e]}
    BY <1>4 DEF EditedOne
  <2> DEFINE x == [r EXCEPT !.body = e]
  <2> HIDE DEF x
  <2>2. T \cup F = ((G \cup F) \ {r}) \cup {x}
    BY <1>2, <2>1 DEF x
  <2> QED
    BY <2>1, <2>2 DEF EditedOne, x
<1> QED
  BY <1>3, <1>4

LEMMA DamageStart == DamageInit => DamageInv
<1> SUFFICES ASSUME DamageInit PROVE DamageInv
  OBVIOUS
<1>1. IInv /\ ~damaged /\ ~examined
  BY InvInit DEF DamageInit
<1>2. rows \in SUBSET Rows /\ LogBehind(rows)
  BY <1>1 DEF IInv, TypeOK, LogBehind
<1> QED
  BY <1>1, <1>2 DEF IInv, DamageInv, SeenAreOlder

(* The sessions move the log G and the table together.                     *)
LEMMA DamageWrite ==
    ASSUME RowLocks, DamageInv, Write, UNCHANGED <<damaged, examined>>
    PROVE  DamageInv'
<1>1. PICK G \in SUBSET Rows : LogBehind(G)
  BY DEF DamageInv
<1>2. TypeOK /\ Logged(G) /\ SeenAreOlder /\ head \in Heads /\ rows \in SUBSET Rows
      /\ check \in Checks
  BY <1>1 DEF DamageInv, LogBehind, TypeOK
<1>3. TypeOK'
  BY <1>2, InvOneAdded, TypeStep DEF Logged, Next
<1>4. ASSUME Logged(G)', UNCHANGED <<rows, head, check>> PROVE DamageInv'
  <2>1. LogBehind(G)'
    BY <1>1, <1>4 DEF LogBehind
  <2>2. SeenAreOlder'
    BY <1>2, <1>4 DEF SeenAreOlder
  <2> QED
    BY <1>3, <2>1, <2>2 DEF DamageInv
<1>5. ASSUME NEW w \in Workers, NEW e \in Entries, RecordFirst(w, e) PROVE DamageInv'
  <2>1. Logged(G)'
    BY <1>2, <1>5, FirstStep
  <2> QED
    BY <1>4, <1>5, <2>1 DEF RecordFirst
<1>6. ASSUME NEW w \in Workers, NEW e \in Entries, RecordAgain(w, e) PROVE DamageInv'
  <2>1. Logged(G)'
    BY <1>2, <1>6, AgainStep
  <2> QED
    BY <1>4, <1>6, <2>1 DEF RecordAgain
<1>7. ASSUME NEW w \in Workers, Rollback(w) PROVE DamageInv'
  <2>1. Logged(G)'
    BY <1>2, <1>7, RollbackStep
  <2> QED
    BY <1>4, <1>7, <2>1 DEF Rollback
<1>8. ASSUME NEW w \in Workers, Commit(w) PROVE DamageInv'
  <2>1. PICK F \in SUBSET Rows :
              /\ rows' = rows \cup F
              /\ \A S \in SUBSET Rows : S = G \cup F => Logged(S)'
              /\ \A r \in F, q \in G : q.seq < r.seq
              /\ Trail!Extends(head.hash, head'.hash)
    BY <1>2, <1>8, CommitStep
  <2>2. PICK S \in SUBSET Rows : S = G \cup F
    OBVIOUS
  <2>3. LogBehind(S)'
    <3>1. ~damaged => rows \cup F = S
      BY <1>1, <2>2 DEF LogBehind
    <3>2. damaged => LostOne(S, rows \cup F) \/ EditedOne(S, rows \cup F)
      BY <1>1, <1>2, <2>1, <2>2, StaysOneAway DEF LogBehind
    <3>3. rows' = rows \cup F /\ damaged' = damaged /\ Logged(S)'
      BY <2>1, <2>2
    <3> QED
      BY <3>1, <3>2, <3>3 DEF LogBehind
  <2>4. SeenAreOlder'
    <3>1. check'.pc = check.pc /\ check'.seen = check.seen /\ check'.valid = check.valid
      BY <1>2, <1>8 DEF Commit, Checks
    <3>2. Len(head.hash) \in Nat /\ Len(head'.hash) \in Nat
          /\ Len(head.hash) < Len(head'.hash)
      BY <1>2, <1>3, <2>1 DEF TypeOK, Heads, Hashes, Trail!Extends
    <3>3. \A q \in check.seen : Len(q.hash) \in Nat
      BY <1>2 DEF Checks, Rows, Hashes
    <3>4. examined' = examined /\ damaged' = damaged
      OBVIOUS
    <3> QED
      BY <1>2, <3>1, <3>2, <3>3, <3>4 DEF SeenAreOlder
  <2> QED
    BY <1>3, <2>3, <2>4 DEF DamageInv
<1> QED
  BY <1>5, <1>6, <1>7, <1>8 DEF Write

LEMMA DamageStep ==
    ASSUME RowLocks, DamageInv, [DamageNext]_dvars
    PROVE  DamageInv'
<1>1. PICK G \in SUBSET Rows : LogBehind(G)
  BY DEF DamageInv
<1>2. TypeOK /\ Logged(G) /\ SeenAreOlder /\ head \in Heads /\ rows \in SUBSET Rows
      /\ check \in Checks
  BY <1>1 DEF DamageInv, LogBehind, TypeOK
<1>3. ASSUME UNCHANGED <<rows, head, nextSeq, lock, sess, damaged>>
      PROVE  LogBehind(G)'
  BY <1>1, <1>2, <1>3, LogStays DEF LogBehind
<1>4. CASE Write /\ UNCHANGED <<damaged, examined>>
  BY <1>4, DamageWrite
<1>5. CASE ReadHead /\ UNCHANGED <<damaged, examined>>
  <2>1. TypeOK'
    BY <1>2, <1>5, InvOneAdded, TypeStep DEF Logged, Next
  <2>2. check.pc = "scanned" /\ check'.pc = "done" /\ check'.seen = check.seen
        /\ check'.valid = HeadOk(check.seen, head)
    BY <1>2, <1>5 DEF ReadHead, Checks
  <2>3. ASSUME examined, HeadOk(check.seen, head) PROVE check.seen = {}
    <3>1. \A q \in check.seen : Len(q.hash) < Len(head.hash) /\ Len(q.hash) \in Nat
      BY <1>2, <2>2, <2>3 DEF SeenAreOlder, Checks, Rows, Hashes
    <3>2. \A q \in check.seen : q.hash # head.hash
      BY <3>1
    <3> QED
      BY <2>3, <3>2 DEF HeadOk, Tip
  <2>4. SeenAreOlder'
    BY <1>2, <1>5, <2>2, <2>3 DEF SeenAreOlder
  <2> QED
    BY <1>3, <1>5, <2>1, <2>4 DEF ReadHead, DamageInv
<1>6. CASE Scan /\ examined' = damaged /\ UNCHANGED damaged
  <2>1. TypeOK'
    BY <1>2, <1>6, InvOneAdded, TypeStep DEF Logged, Next
  <2>2. /\ check'.pc = IF Unbroken(rows) THEN "scanned" ELSE "done"
        /\ check'.seen = rows /\ check'.valid = Unbroken(rows) /\ head' = head
    BY <1>6 DEF Scan
  <2>3. ASSUME damaged, Unbroken(rows)
        PROVE  \A q \in rows : Len(q.hash) < Len(head.hash)
    <3>1. Line(G) /\ Tip(G, head.hash) /\ head.hash \in Hashes
      BY <1>2 DEF Logged, Published, Heads
    <3> QED
      BY <1>1, <1>2, <2>3, <3>1, UnbrokenIsOlder DEF LogBehind
  <2>4. SeenAreOlder'
    BY <1>6, <2>2, <2>3 DEF SeenAreOlder
  <2> QED
    BY <1>3, <1>6, <2>1, <2>4 DEF Scan, DamageInv
<1>7. CASE Damage
  <2>1. rows = G /\ damaged' /\ ~damaged
    BY <1>1, <1>7 DEF Damage, LogBehind
  <2>2. (LostOne(G, rows) \/ EditedOne(G, rows))'
    BY <1>7, <2>1 DEF Damage, Lose, Edit, LostOne, EditedOne
  <2>3. rows' \in SUBSET Rows
    BY <1>2, <1>7 DEF Damage, Lose, Edit, Rows
  <2>4. TypeOK' /\ SeenAreOlder' /\ Logged(G)'
    BY <1>2, <1>7, <2>1, <2>3, LogStays DEF Damage, TypeOK, SeenAreOlder
  <2> QED
    BY <2>1, <2>2, <2>4 DEF DamageInv, LogBehind
<1>8. CASE UNCHANGED dvars
  <2>1. UNCHANGED <<rows, head, nextSeq, lock, sess, check, damaged, examined>>
    BY <1>8 DEF dvars, vars
  <2>2. TypeOK' /\ SeenAreOlder'
    BY <1>2, <2>1 DEF TypeOK, SeenAreOlder
  <2> QED
    BY <1>3, <2>1, <2>2 DEF DamageInv
<1> QED
  BY <1>4, <1>5, <1>6, <1>7, <1>8 DEF DamageNext

(* DamageFound: an edited or lost row makes every later verification that  *)
(* finds a row report a broken log, whatever was committed between the     *)
(* damage, the scan and the reading of the head (verify_chain).            *)
THEOREM AuditLogDamage ==
    ASSUME RowLocks
    PROVE  DamageSpec => []DamageFound
<1>1. DamageInv /\ [DamageNext]_dvars => DamageInv'
  BY DamageStep
<1>2. DamageInv => DamageFound
  BY DEF DamageInv, SeenAreOlder, DamageFound
<1> QED
  BY DamageStart, <1>1, <1>2, PTL DEF DamageSpec
=============================================================================
