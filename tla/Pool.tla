--------------------------------- MODULE Pool ---------------------------------
(***************************************************************************)
(* The connections of the database pool (twin/db.py) and the locks the     *)
(* sessions of one server process take while they hold them.               *)
(*                                                                         *)
(* A session takes its connection at its first statement and gives it back *)
(* when it is closed.  A request of the remediation engine keeps its       *)
(* session to its end, and with it the lock on the row of its action and,  *)
(* from its first audit entry, the lock on the head of the log; meanwhile  *)
(* each call of the store takes a second connection.  When none is free    *)
(* the pool makes the thread wait, and gives up after thirty seconds.      *)
(*                                                                         *)
(* The statements of a session between two waits are one step: what they   *)
(* read and write is the business of Remediation and AuditLog.             *)
(***************************************************************************)
EXTENDS Naturals, FiniteSets

CONSTANTS
    Threads,      \* the threads of the process that serve requests
    Conns,        \* the connections: pool_size and max_overflow together
    Actions,      \* the remediation actions requests are about
    MaxCalls,     \* calls of the store one request makes (bound)
    None          \* no connection, no thread, no action

ASSUME SizeAssumption ==
    /\ IsFiniteSet(Threads)
    /\ IsFiniteSet(Conns)
    /\ Cardinality(Conns) > Cardinality(Threads)
ASSUME NoneAssumption ==
    /\ None \notin Conns
    /\ None \notin Threads
    /\ None \notin Actions
ASSUME CallsAssumption == MaxCalls \in Nat \ {0}

VARIABLES
    pc,           \* per thread, what it does or waits for next
    kind,         \* per thread, what it serves
    act,          \* per thread, the action its request is about
    calls,        \* per thread, the calls of the store still to make
    first,        \* per thread, the connection of its session
    second,       \* per thread, that of the store call inside it
    row,          \* per action, the thread whose session holds its row
    head          \* the thread whose session holds the head of the log

vars == <<pc, kind, act, calls, first, second, row, head>>

(* query stands for a session that takes no lock: a call of the store, the *)
(* authentication of a request, a report; record for AuditLog.record and   *)
(* register.                                                               *)
Kinds == {"approve", "revert", "reject", "record", "query"}
OnRow == {"approve", "revert", "reject"}
Pcs == {"idle", "connect", "row", "head", "call", "calling", "commit"}

TypeOK ==
    /\ pc \in [Threads -> Pcs]
    /\ kind \in [Threads -> Kinds]
    /\ act \in [Threads -> Actions \cup {None}]
    /\ calls \in [Threads -> 0..MaxCalls]
    /\ first \in [Threads -> Conns \cup {None}]
    /\ second \in [Threads -> Conns \cup {None}]
    /\ row \in [Actions -> Threads \cup {None}]
    /\ head \in Threads \cup {None}

Init ==
    /\ pc = [t \in Threads |-> "idle"]
    /\ kind = [t \in Threads |-> "query"]
    /\ act = [t \in Threads |-> None]
    /\ calls = [t \in Threads |-> 0]
    /\ first = [t \in Threads |-> None]
    /\ second = [t \in Threads |-> None]
    /\ row = [a \in Actions |-> None]
    /\ head = None

Taken(c) == \E t \in Threads : first[t] = c \/ second[t] = c
Free == {c \in Conns : ~Taken(c)}      \* which of them is handed out is arbitrary

-----------------------------------------------------------------------------
(* A request arrives; its session connects at its first statement.         *)
Begin(t, k, a) ==
    /\ pc[t] = "idle"
    /\ (k \in OnRow) <=> (a # None)
    /\ pc' = [pc EXCEPT ![t] = "connect"]
    /\ kind' = [kind EXCEPT ![t] = k]
    /\ act' = [act EXCEPT ![t] = a]
    /\ \E n \in IF k \in {"approve", "revert"} THEN 1..MaxCalls ELSE {0} :
          calls' = [calls EXCEPT ![t] = n]
    /\ UNCHANGED <<first, second, row, head>>

AfterConnect(k) == IF k \in OnRow THEN "row" ELSE IF k = "record" THEN "head" ELSE "commit"

Connect(t) ==
    /\ pc[t] = "connect"
    /\ Free # {}
    /\ first' = [first EXCEPT ![t] = CHOOSE c \in Free : TRUE]
    /\ pc' = [pc EXCEPT ![t] = AfterConnect(kind[t])]
    /\ UNCHANGED <<kind, act, calls, second, row, head>>

(* The session ends: the connection and the locks go back.                 *)
Forget(t) ==
    /\ kind' = [kind EXCEPT ![t] = "query"]
    /\ act' = [act EXCEPT ![t] = None]
    /\ calls' = [calls EXCEPT ![t] = 0]

CloseKeepingConn(t) ==                    \* mutant: the session is not closed
    /\ pc' = [pc EXCEPT ![t] = "idle"]
    /\ row' = [a \in Actions |-> IF row[a] = t THEN None ELSE row[a]]
    /\ head' = IF head = t THEN None ELSE head
    /\ Forget(t)
    /\ UNCHANGED <<first, second>>
CloseKeepingRow(t) ==                     \* mutant: the transaction is left open
    /\ pc' = [pc EXCEPT ![t] = "idle"]
    /\ first' = [first EXCEPT ![t] = None]
    /\ second' = [second EXCEPT ![t] = None]
    /\ head' = IF head = t THEN None ELSE head
    /\ Forget(t)
    /\ UNCHANGED row
Close(t) ==
    /\ pc' = [pc EXCEPT ![t] = "idle"]
    /\ first' = [first EXCEPT ![t] = None]
    /\ second' = [second EXCEPT ![t] = None]
    /\ row' = [a \in Actions |-> IF row[a] = t THEN None ELSE row[a]]
    /\ head' = IF head = t THEN None ELSE head
    /\ Forget(t)

(* _transition: the row FOR UPDATE; an action in the wrong state ends it.  *)
LockRow(t) ==
    /\ pc[t] = "row"
    /\ row[act[t]] = None
    /\ row' = [row EXCEPT ![act[t]] = t]
    /\ pc' = [pc EXCEPT ![t] = IF kind[t] = "revert" THEN "call" ELSE "head"]
    /\ UNCHANGED <<kind, act, calls, first, second, head>>

WrongState(t) ==
    /\ pc[t] = "row"
    /\ row[act[t]] = None
    /\ Close(t)

(* _record_in: the head FOR UPDATE.                                        *)
AfterHeadRevert(k) == IF k \in {"approve", "revert"} THEN "call" ELSE "commit"
                                          \* mutant: revert logs before it restores
AfterHead(k) == IF k = "approve" THEN "call" ELSE "commit"

LockHead(t) ==
    /\ pc[t] = "head"
    /\ head = None
    /\ head' = t
    /\ pc' = [pc EXCEPT ![t] = AfterHead(kind[t])]
    /\ UNCHANGED <<kind, act, calls, first, second, row>>

(* A call of the store inside the request: a session of its own.           *)
Call(t) ==
    /\ pc[t] = "call"
    /\ Free # {}
    /\ second' = [second EXCEPT ![t] = CHOOSE c \in Free : TRUE]
    /\ pc' = [pc EXCEPT ![t] = "calling"]
    /\ UNCHANGED <<kind, act, calls, first, row, head>>

AfterCalls(k) == IF k = "revert" THEN "head" ELSE "commit"

Return(t) ==
    /\ pc[t] = "calling"
    /\ second' = [second EXCEPT ![t] = None]
    /\ calls' = [calls EXCEPT ![t] = @ - 1]
    /\ pc' = [pc EXCEPT ![t] = IF calls[t] > 1 THEN "call" ELSE AfterCalls(kind[t])]
    /\ UNCHANGED <<kind, act, first, row, head>>

Commit(t) == pc[t] = "commit" /\ Close(t)

(* The database fails, or thirty seconds went by without a connection: the *)
(* exception leaves the with blocks and finally clauses, which close the   *)
(* sessions.                                                               *)
Fail(t) == pc[t] # "idle" /\ Close(t)

Advance(t) ==
    \/ Connect(t) \/ LockRow(t) \/ WrongState(t) \/ LockHead(t)
    \/ Call(t) \/ Return(t) \/ Commit(t)

Next ==
    \E t \in Threads :
        \/ \E k \in Kinds, a \in Actions \cup {None} : Begin(t, k, a)
        \/ Advance(t) \/ Fail(t)

Spec == Init /\ [][Next]_vars

(* The pool hands connections out, and the database its locks, in the      *)
(* order they were asked for; nothing is assumed of failures.              *)
FairSpec == Spec /\ \A t \in Threads : SF_vars(Advance(t))

-----------------------------------------------------------------------------
(* Whether the thread can go on without anybody giving up.                 *)
CanAdvance(t) ==
    \/ pc[t] \in {"connect", "call"} /\ Free # {}
    \/ pc[t] = "row" /\ row[act[t]] = None
    \/ pc[t] = "head" /\ head = None
    \/ pc[t] \in {"calling", "commit"}

(* The threads never wait for each other in a circle, through the pool     *)
(* (db.py:146) or the locks: while one serves a request, one can advance.  *)
(* approve, which holds the head while it waits for a second connection,   *)
(* is never starved by threads that hold one and wait for the head.        *)
NotStuck ==
    (\E t \in Threads : pc[t] # "idle") => \E t \in Threads : CanAdvance(t)

(* Whichever way a request ends, in the middle of a call of the store too, *)
(* nothing it had stays taken (_transition, approve, revert, the with      *)
(* blocks): neither a connection nor a lock belongs to an idle thread.     *)
NothingLeaked ==
    /\ \A t \in Threads : pc[t] = "idle" => first[t] = None /\ second[t] = None
    /\ \A a \in Actions : row[a] # None => pc[row[a]] # "idle" /\ act[row[a]] = a
    /\ head # None => pc[head] # "idle"

(* Every request ends without the pool giving it up.                       *)
EveryRequestEnds == \A t \in Threads : pc[t] # "idle" ~> pc[t] = "idle"
=============================================================================
