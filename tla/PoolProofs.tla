------------------------------ MODULE PoolProofs ------------------------------
(***************************************************************************)
(* With more connections than threads the threads of Pool never get stuck. *)
(*                                                                         *)
(* The argument: if every connection is taken, one thread has two of them  *)
(* (there are fewer threads than connections), and a thread with two is    *)
(* inside a call of the store, which ends by itself.  If a connection is   *)
(* free, only the locks can hold everybody up; but a session asks for its  *)
(* row before it asks for the head, so who holds the head waits for no     *)
(* lock, and who holds a row waits for the head at most.                   *)
(***************************************************************************)
EXTENDS Pool, FiniteSetTheorems, TLAPS

Nested == {"approve", "revert"}
Waiting == {"connect", "row"}             \* no lock is held yet

(* What a request still has to do.                                         *)
Plan ==
    \A t \in Threads :
        /\ pc[t] = "row" => kind[t] \in OnRow
        /\ kind[t] \in OnRow => act[t] \in Actions
        /\ pc[t] \in {"call", "calling"} => kind[t] \in Nested /\ calls[t] > 0
        /\ pc[t] \in Waiting /\ kind[t] \in Nested => calls[t] > 0
        /\ pc[t] = "head" /\ kind[t] = "approve" => calls[t] > 0

(* A second connection means a call of the store, and the other way round; *)
(* an idle thread has no connection.                                       *)
Connected ==
    \A t \in Threads :
        /\ second[t] # None <=> pc[t] = "calling"
        /\ pc[t] = "idle" => first[t] = None

Ordered ==
    /\ \A a \in Actions : row[a] # None =>
          /\ pc[row[a]] \notin {"idle"} \cup Waiting
          /\ act[row[a]] = a
    /\ head # None =>
          /\ pc[head] \notin {"idle", "head"} \cup Waiting
          /\ pc[head] \in {"call", "calling"} => kind[head] = "approve"

IInv == TypeOK /\ Plan /\ Connected /\ Ordered
-----------------------------------------------------------------------------
(* Some free connection is what CHOOSE hands out.                          *)
LEMMA Handed == ASSUME Free # {} PROVE (CHOOSE c \in Free : TRUE) \in Conns
BY DEF Free

(* When every connection is taken, a thread has a second one.              *)
LEMMA Pigeonhole ==
    ASSUME TypeOK, Free = {}
    PROVE  \E t \in Threads : second[t] # None
<1>1. SUFFICES ASSUME \A t \in Threads : second[t] = None PROVE FALSE
  OBVIOUS
<1> DEFINE holders == {t \in Threads : first[t] # None}
           f == [t \in holders |-> first[t]]
<1>2. \A c \in Conns : \E t \in holders : first[t] = c
  BY <1>1, NoneAssumption DEF Free, Taken
<1>3. f \in [holders -> Conns]
  BY DEF TypeOK
<1>4. f \in Surjection(holders, Conns)
  BY <1>2, <1>3 DEF Surjection
<1>5. IsFiniteSet(holders) /\ Cardinality(holders) <= Cardinality(Threads)
  BY FS_Subset, SizeAssumption
<1>6. Cardinality(Conns) <= Cardinality(holders)
  BY <1>4, <1>5, FS_Surjection
<1>7. /\ Cardinality(holders) \in Nat /\ Cardinality(Threads) \in Nat
      /\ Cardinality(Conns) \in Nat
  BY <1>5, SizeAssumption, FS_CardinalityType
<1> QED
  BY <1>5, <1>6, <1>7, SizeAssumption

(* Closing a session leaves the invariant.                                 *)
LEMMA CloseKeeps ==
    ASSUME IInv, NEW t \in Threads, Close(t)
    PROVE  IInv'
<1> USE NoneAssumption DEF IInv, Close, Forget
<1>1. TypeOK'
  BY CallsAssumption DEF TypeOK, Pcs, Kinds
<1>2. Plan'
  BY DEF TypeOK, Plan, OnRow, Waiting, Nested
<1>3. Connected'
  BY DEF TypeOK, Connected
<1>4. Ordered'
  BY DEF TypeOK, Ordered, Waiting
<1> QED
  BY <1>1, <1>2, <1>3, <1>4

LEMMA InitInv == Init => IInv
BY NoneAssumption, CallsAssumption
   DEF Init, IInv, TypeOK, Pcs, Kinds, Plan, OnRow, Waiting, Nested, Connected, Ordered

LEMMA NextInv == IInv /\ [Next]_vars => IInv'
<1>1. SUFFICES ASSUME IInv, [Next]_vars PROVE IInv'
  OBVIOUS
<1> USE <1>1, NoneAssumption, CallsAssumption
<1>2. ASSUME NEW t \in Threads, NEW k \in Kinds, NEW a \in Actions \cup {None},
             Begin(t, k, a)
      PROVE  IInv'
  <2> USE <1>2 DEF IInv, Begin
  <2>1. TypeOK'
    BY DEF TypeOK, Pcs, Kinds
  <2>2. Plan'
    BY DEF TypeOK, Plan, OnRow, Waiting, Nested, Kinds
  <2>3. Connected'
    BY DEF TypeOK, Connected
  <2>4. Ordered'
    BY DEF TypeOK, Ordered, Waiting
  <2> QED
    BY <2>1, <2>2, <2>3, <2>4
<1>3. ASSUME NEW t \in Threads, Connect(t) PROVE IInv'
  <2> USE <1>3, Handed DEF IInv, Connect, AfterConnect
  <2>1. TypeOK'
    BY DEF TypeOK, Pcs
  <2>2. Plan'
    BY DEF TypeOK, Plan, OnRow, Waiting, Nested, Kinds
  <2>3. Connected'
    BY DEF TypeOK, Connected
  <2>4. Ordered'
    BY DEF TypeOK, Ordered, Waiting
  <2> QED
    BY <2>1, <2>2, <2>3, <2>4
<1>4. ASSUME NEW t \in Threads, LockRow(t) PROVE IInv'
  <2> USE <1>4 DEF IInv, LockRow
  <2>0. act[t] \in Actions /\ kind[t] \in OnRow
    BY DEF Plan, TypeOK
  <2>1. TypeOK'
    BY <2>0 DEF TypeOK, Pcs
  <2>2. Plan'
    BY <2>0 DEF TypeOK, Plan, OnRow, Waiting, Nested
  <2>3. Connected'
    BY DEF TypeOK, Connected
  <2>4. Ordered'
    BY <2>0 DEF TypeOK, Ordered, Waiting
  <2> QED
    BY <2>1, <2>2, <2>3, <2>4
<1>5. ASSUME NEW t \in Threads, LockHead(t) PROVE IInv'
  <2> USE <1>5 DEF IInv, LockHead, AfterHead
  <2>1. TypeOK'
    BY DEF TypeOK, Pcs
  <2>2. Plan'
    BY DEF TypeOK, Plan, OnRow, Waiting, Nested
  <2>3. Connected'
    BY DEF TypeOK, Connected
  <2>4. Ordered'
    BY DEF TypeOK, Ordered, Waiting
  <2> QED
    BY <2>1, <2>2, <2>3, <2>4
<1>6. ASSUME NEW t \in Threads, Call(t) PROVE IInv'
  <2> USE <1>6, Handed DEF IInv, Call
  <2>1. TypeOK'
    BY DEF TypeOK, Pcs
  <2>2. Plan'
    BY DEF TypeOK, Plan, OnRow, Waiting, Nested
  <2>3. Connected'
    BY DEF TypeOK, Connected
  <2>4. Ordered'
    BY DEF TypeOK, Ordered, Waiting
  <2> QED
    BY <2>1, <2>2, <2>3, <2>4
<1>7. ASSUME NEW t \in Threads, Return(t) PROVE IInv'
  <2> USE <1>7 DEF IInv, Return, AfterCalls
  <2>0. calls[t] > 0 /\ kind[t] \in Nested /\ calls[t] \in 0..MaxCalls
    BY DEF Plan, TypeOK
  <2>1. TypeOK'
    BY <2>0 DEF TypeOK, Pcs
  <2>2. Plan'
    BY <2>0 DEF TypeOK, Plan, OnRow, Waiting, Nested
  <2>3. Connected'
    BY DEF TypeOK, Connected
  <2>4. Ordered'
    BY <2>0 DEF TypeOK, Ordered, Waiting, Nested
  <2> QED
    BY <2>1, <2>2, <2>3, <2>4
<1>8. ASSUME NEW t \in Threads, Close(t) PROVE IInv'
  BY <1>8, CloseKeeps
<1>9. CASE UNCHANGED vars
  BY <1>9 DEF vars, IInv, TypeOK, Plan, Connected, Ordered
<1> QED
  BY <1>2, <1>3, <1>4, <1>5, <1>6, <1>7, <1>8, <1>9
     DEF Next, Advance, WrongState, Commit, Fail

LEMMA InvNotStuck == IInv => NotStuck
<1>1. SUFFICES ASSUME IInv, NEW u \in Threads, pc[u] # "idle"
               PROVE  \E t \in Threads : CanAdvance(t)
  BY DEF NotStuck
<1> USE <1>1, NoneAssumption DEF IInv
<1>2. CASE Free = {}
  <2>1. PICK t \in Threads : second[t] # None
    BY <1>2, Pigeonhole
  <2>2. pc[t] = "calling"
    BY <2>1 DEF Connected
  <2> QED
    BY <2>2 DEF CanAdvance
<1>3. CASE Free # {} /\ pc[u] \notin {"row", "head"}
  <2>1. pc[u] \in {"connect", "call", "calling", "commit"}
    BY <1>3 DEF TypeOK, Pcs
  <2> QED
    BY <1>3, <2>1 DEF CanAdvance
<1>4. ASSUME NEW t \in Threads, pc[t] = "head", Free # {}
      PROVE  \E v \in Threads : CanAdvance(v)
  <2>1. CASE head = None
    BY <1>4, <2>1 DEF CanAdvance
  <2>2. CASE head # None
    <3>1. head \in Threads /\ pc[head] \in {"call", "calling", "commit"}
      BY <2>2 DEF TypeOK, Pcs, Ordered, Waiting
    <3> QED
      BY <1>4, <3>1 DEF CanAdvance
  <2> QED
    BY <2>1, <2>2
<1>5. CASE Free # {} /\ pc[u] = "row"
  <2>1. act[u] \in Actions
    BY <1>5 DEF Plan
  <2>2. CASE row[act[u]] = None
    BY <1>5, <2>2 DEF CanAdvance
  <2>3. CASE row[act[u]] # None
    <3>1. /\ row[act[u]] \in Threads
          /\ pc[row[act[u]]] \in {"head", "call", "calling", "commit"}
      BY <2>1, <2>3 DEF TypeOK, Pcs, Ordered, Waiting
    <3> QED
      BY <1>4, <1>5, <3>1 DEF CanAdvance
  <2> QED
    BY <2>2, <2>3
<1> QED
  BY <1>2, <1>3, <1>4, <1>5

-----------------------------------------------------------------------------
LEMMA PoolInv == Spec => []IInv
BY InitInv, NextInv, PTL DEF Spec

(* The variables of Pool keep their types.                                 *)
THEOREM PoolTypeOK == Spec => []TypeOK
BY PoolInv, PTL DEF IInv

(* db.py:146: with a connection more than threads, whatever the requests   *)
(* are, one of them can always go on.                                      *)
THEOREM PoolNotStuck == Spec => []NotStuck
<1>1. IInv => NotStuck
  BY InvNotStuck
<1> QED
  BY PoolInv, <1>1, PTL

(* Idle threads hold no connection and no lock.                            *)
THEOREM PoolNothingLeaked == Spec => []NothingLeaked
<1>1. IInv => NothingLeaked
  BY DEF IInv, TypeOK, Connected, Ordered, Waiting, NothingLeaked
<1> QED
  BY PoolInv, <1>1, PTL
=============================================================================
