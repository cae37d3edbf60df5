------------------------------ MODULE AuditLog ------------------------------
(***************************************************************************)
(* The hash-chained audit log of twin/audit.py over its two tables         *)
(* (twin/db.py): audit_log, one row per entry, and audit_head, one row     *)
(* with the hash of the last entry and their number.                       *)
(*                                                                         *)
(* A worker is a thread of the API or another replica; it writes inside a  *)
(* database session.  record(session=None) is one RecordIn followed by     *)
(* Commit; the remediation engine passes its own session and makes several *)
(* RecordIn before one Commit.  A session that ends without commit, or     *)
(* whose process dies, is rolled back by the database.                     *)
(*                                                                         *)
(* The SHA-256 digest is a perfect hash: Digest(prev, body) is the history *)
(* prev with body appended, so equal digests mean equal histories.         *)
(***************************************************************************)
EXTENDS Naturals, Sequences, FiniteSets

CONSTANTS
    Workers,    \* writers of the log
    Entries,    \* bodies of entries: actor, action, target, detail and time
    RowLocks,   \* TRUE: FOR UPDATE locks the row (PostgreSQL, READ COMMITTED)
                \* FALSE: it is ignored and a transaction begins with the
                \* first write of a flush (SQLite through pysqlite)
    MaxSeq,     \* bound on the serial numbers handed out
    NoOne       \* nobody holds the lock

ASSUME WorkersAssumption == NoOne \notin Workers
ASSUME RowLocksAssumption == RowLocks \in BOOLEAN
ASSUME MaxSeqAssumption == MaxSeq \in Nat

VARIABLES
    rows,       \* committed rows of audit_log
    head,       \* committed row of audit_head: hash and count (last_seq)
    nextSeq,    \* the serial number the next inserted row gets
    lock,       \* who holds the lock of the head row (PostgreSQL) or the
                \* write lock of the database (SQLite)
    sess,       \* per worker, its database session
    check       \* the verifier: verify_chain

vars == <<rows, head, nextSeq, lock, sess, check>>

Hashes == Seq(Entries)
Genesis == << >>
Digest(prev, body) == Append(prev, body)

Heads == [hash : Hashes, count : Nat]
Rows == [seq : Nat, body : Entries, prev : Hashes, hash : Hashes]

(* A row that session.add() put into the session, before the flush that    *)
(* inserts it and gives it its serial number.                              *)
AddedRows == [body : Entries, prev : Hashes, hash : Hashes]

Inserted(a, n) == [seq |-> n, body |-> a.body, prev |-> a.prev, hash |-> a.hash]

(* open: the session has read the head; head: its copy of the head row;    *)
(* added: the row not yet flushed; flushed: rows inserted, not committed.  *)
Sessions == [open : BOOLEAN, head : Heads,
             added : SUBSET AddedRows, flushed : SUBSET Rows]

EmptyHead == [hash |-> Genesis, count |-> 0]
Closed == [open |-> FALSE, head |-> EmptyHead, added |-> {}, flushed |-> {}]

Checks == [pc : {"idle", "scanned", "done"}, seen : SUBSET Rows,
           valid : BOOLEAN, raced : BOOLEAN]

TypeOK ==
    /\ rows \in SUBSET Rows
    /\ head \in Heads
    /\ nextSeq \in Nat
    /\ lock \in Workers \cup {NoOne}
    /\ sess \in [Workers -> Sessions]
    /\ check \in Checks

-----------------------------------------------------------------------------
(* The rows of R that the scan ORDER BY seq meets before row r.            *)
Before(R, r) == {q \in R : q.seq < r.seq}

(* h is the hash the scan holds after the rows R: the last row's, or       *)
(* "genesis" when there is none.                                           *)
Tip(R, h) ==
    \/ R = {} /\ h = Genesis
    \/ \E r \in R : h = r.hash /\ \A q \in R : q.seq <= r.seq

(* The test of verify_chain on one row.  The hash is recomputed from the   *)
(* hash of the row before it; the column prev_hash is not looked at.       *)
Linked(R, r) ==
    \/ Before(R, r) = {} /\ r.hash = Digest(Genesis, r.body)
    \/ \E q \in Before(R, r) :
          /\ \A p \in Before(R, r) : p.seq <= q.seq
          /\ r.hash = Digest(q.hash, r.body)

Unbroken(R) == \A r \in R : Linked(R, r)

-----------------------------------------------------------------------------
Init ==
    /\ rows = {}
    /\ head = EmptyHead
    /\ nextSeq = 1
    /\ lock = NoOne
    /\ sess = [w \in Workers |-> Closed]
    /\ check = [pc |-> "idle", seen |-> {}, valid |-> TRUE, raced |-> FALSE]

(* The session inserts its pending row; the insert takes the write lock of *)
(* SQLite and is made under the lock of the head row on PostgreSQL.        *)
FlushedBy(s) == s.flushed \cup {Inserted(a, nextSeq) : a \in s.added}
SeqAfterFlush(s) == nextSeq + Cardinality(s.added)
LockFreeIgnored(w) == TRUE           \* mutant: the lock is not waited for
LockFree(w) == lock \in {NoOne, w}

(* SELECT ... FOR UPDATE of the head row: on PostgreSQL it waits for the   *)
(* lock and takes it.                                                      *)
LockForReadPlain(w) == lock          \* mutant: SELECT without FOR UPDATE
LockForRead(w) == IF RowLocks THEN w ELSE lock

(* The row _record_in adds after a head h, and the head it leaves.         *)
RowAfter(h, e) == [body |-> e, prev |-> h.hash, hash |-> Digest(h.hash, e)]
HeadAfterUncounted(h, e) ==          \* mutant: last_seq not advanced
    [hash |-> Digest(h.hash, e), count |-> h.count]
HeadAfterStale(h, e) ==              \* mutant: last_hash not advanced
    [hash |-> h.hash, count |-> h.count + 1]
HeadAfter(h, e) == [hash |-> Digest(h.hash, e), count |-> h.count + 1]

(* _record_in, first entry of a session: it reads the committed head.      *)
RecordFirst(w, e) ==
    /\ ~sess[w].open
    /\ nextSeq < MaxSeq
    /\ RowLocks => LockFree(w)
    /\ lock' = LockForRead(w)
    /\ sess' = [sess EXCEPT ![w] =
                  [open |-> TRUE, head |-> HeadAfter(head, e),
                   added |-> {RowAfter(head, e)}, flushed |-> {}]]
    /\ UNCHANGED <<rows, head, nextSeq, check>>

(* _record_in again in the same session: the SELECT first autoflushes the  *)
(* pending row, then sees the session's own update of the head.            *)
RecordAgain(w, e) ==
    LET s == sess[w] IN
    /\ s.open
    /\ nextSeq + 1 < MaxSeq
    /\ LockFree(w)
    /\ lock' = w
    /\ nextSeq' = SeqAfterFlush(s)
    /\ sess' = [sess EXCEPT ![w] =
                  [open |-> TRUE, head |-> HeadAfter(s.head, e),
                   added |-> {RowAfter(s.head, e)}, flushed |-> FlushedBy(s)]]
    /\ UNCHANGED <<rows, head, check>>

(* Session.commit(): flush what is pending and publish rows and head.  The *)
(* UPDATE of the head writes the values the session computed.              *)
Commit(w) ==
    LET s == sess[w] IN
    /\ s.open
    /\ LockFree(w)
    /\ lock' = NoOne
    /\ rows' = rows \cup FlushedBy(s)
    /\ head' = s.head
    /\ nextSeq' = SeqAfterFlush(s)
    /\ sess' = [sess EXCEPT ![w] = Closed]
    /\ check' = [check EXCEPT !.raced = @ \/ check.pc = "scanned"]

(* Session.close() without commit, or the process dies: the database rolls *)
(* back; the serial numbers it drew stay drawn.                            *)
Rollback(w) ==
    /\ sess[w].open
    /\ lock' = IF lock = w THEN NoOne ELSE lock
    /\ sess' = [sess EXCEPT ![w] = Closed]
    /\ UNCHANGED <<rows, head, nextSeq, check>>

(* verify_chain, first statement: read every committed row in order and    *)
(* stop with the verdict "broken" at the first that is not linked.         *)
Scan ==
    /\ check.pc # "scanned"
    /\ check' = [pc |-> IF Unbroken(rows) THEN "scanned" ELSE "done",
                 seen |-> rows, valid |-> Unbroken(rows), raced |-> FALSE]
    /\ UNCHANGED <<rows, head, nextSeq, lock, sess>>

HeadOkIgnored(seen, h) == TRUE       \* mutant: the head is not compared
HeadOk(seen, h) == seen = {} \/ Tip(seen, h.hash)

(* verify_chain, second statement: read the head row and compare.          *)
ReadHead ==
    /\ check.pc = "scanned"
    /\ check' = [check EXCEPT !.pc = "done", !.valid = HeadOk(check.seen, head)]
    /\ UNCHANGED <<rows, head, nextSeq, lock, sess>>

Write ==
    \/ \E w \in Workers, e \in Entries : RecordFirst(w, e) \/ RecordAgain(w, e)
    \/ \E w \in Workers : Commit(w) \/ Rollback(w)

Next == Write \/ Scan \/ ReadHead

Spec == Init /\ [][Next]_vars

-----------------------------------------------------------------------------
(* Every committed row carries the digest of all the rows before it: two   *)
(* sessions never continue the chain from the same entry (audit.py:142-159)*)
(* whatever they interleave, roll back or lose in a crash.                 *)
ChainIntact ==
    \A r \in rows : Linked(rows, r) /\ Tip(Before(rows, r), r.prev)

(* The head row agrees with the log: its hash is that of the last row and  *)
(* its count is the number of rows (no update of the head is lost).        *)
HeadAgrees == Tip(rows, head.hash) /\ head.count = Cardinality(rows)

(* A verification during which no transaction committed reports a valid    *)
(* log: only a commit between its two statements can mislead verify_chain. *)
QuietVerdictValid == check.pc = "done" /\ ~check.raced => check.valid

(* Committed rows are never changed, and a row that becomes visible comes  *)
(* after all rows that were visible: a reader that has paged through the   *)
(* log by seq never misses an entry that commits later.                    *)
GrowsAtEnd ==
    /\ rows \subseteq rows'
    /\ \A r \in rows' \ rows, q \in rows : q.seq < r.seq
AppendOnly == [][GrowsAtEnd]_vars

(* The log implements the abstract trail: the published history is what    *)
(* the head digests and a draft what the session's head digests.           *)
TrailDraft == [w \in Workers |-> IF sess[w].open THEN sess[w].head.hash ELSE << >>]
Trail == INSTANCE AuditTrail WITH trail <- head.hash, draft <- TrailDraft
TrailSpec == Trail!TrailSpec
=============================================================================
