----------------------------- MODULE HttpApiProofs -----------------------------
(***************************************************************************)
(* Two promises of the handlers of app.py: about the keys they check, and  *)
(* about the conversations they take in.                                   *)
(*                                                                         *)
(* However many processes start and die on one database, whoever serves    *)
(* finds what it needs, a rotated key stays disabled, and the log speaks   *)
(* of the changes that were made.  A key can only be disabled once there   *)
(* is one, and then no start sees an empty table any more; a start that    *)
(* saw it empty before (Late) is excluded by the history.  Requests cannot *)
(* enable a key: what they create was drawn by nobody else.                *)
(*                                                                         *)
(* A conversation is recorded as it was held.  The identity of a span is   *)
(* the rank of its turn, whatever batch it comes in, so that a span which  *)
(* is known may be skipped; and a span never comes before the one it is    *)
(* linked to unless that was handled: stored, or hit.                      *)
(***************************************************************************)
EXTENDS ApiKeys, Telemetry, FiniteSetTheorems, SequenceTheorems, TLAPS

(* How far a start has come tells what the database has.                   *)
Progress ==
    \A p \in Procs :
        /\ boot[p] \in {"head", "add", "count", "up"} \cup Merging => tables
        /\ boot[p] \in {"count", "up"} \cup Merging => head
        /\ boot[p] \in {"enable", "keep"} => Present(Boot)
        /\ boot[p] = "up" => ~Empty

(* What a request knows.                                                   *)
Known(r) ==
    /\ r.pc # "idle" => r.key \in Keys
    /\ r.pc # "idle" /\ r.op = "disable" => r.target \in Keys
    /\ r.pc \in {"authenticate", "touch"} /\ r.op = "create" => r.target = NoKey
    /\ r.pc \in {"change", "log"} => r.op \in {"create", "disable"} /\ r.target \in Keys

Underway == \A p \in Procs : Known(req[p])

(* An identity that was drawn is nobody else's.                            *)
Fresh ==
    \A p \in Procs :
        req[p].pc = "change" /\ req[p].op = "create" =>
            /\ req[p].target # Boot /\ ~Present(req[p].target)
            /\ \A q \in Procs :
                  req[q].pc = "change" /\ req[q].op = "create"
                     /\ req[q].target = req[p].target => q = p

(* What is about to be logged was done.                                    *)
Made == \A p \in Procs : req[p].pc = "log" => <<req[p].op, req[p].target>> \in changed

NoLateStart == rotated # {} => ~Late

IInv ==
    /\ TypeOK /\ Progress /\ Underway /\ Fresh
    /\ NoLateStart /\ RotatedStays /\ Made /\ ChangesLogged
-----------------------------------------------------------------------------
(* Rows that are written are rows.                                         *)
LEMMA RowWritten ==
    ASSUME NEW role \in Roles, NEW d \in BOOLEAN
    PROVE  [role |-> role, disabled |-> d] \in Rows /\ [role |-> role, disabled |-> d] # Absent
BY AbsentAssumption DEF Rows

LEMMA RowChanged ==
    ASSUME NEW r \in Rows, NEW d \in BOOLEAN
    PROVE  /\ [r EXCEPT !.disabled = d] \in Rows
           /\ [r EXCEPT !.disabled = d] # Absent
           /\ [r EXCEPT !.disabled = d].disabled = d
BY AbsentAssumption DEF Rows

LEMMA AdminRole == "admin" \in Roles
BY DEF Roles

LEMMA IdleKnown == Idle \in Requests /\ Known(Idle)
BY DEF Idle, Requests, Ops, Roles, Known

LEMMA InitInv == Init => IInv
<1> USE DEF Init
<1>1. ASSUME Init PROVE TypeOK
  BY <1>1, IdleKnown DEF TypeOK, Starts, Changes
<1>2. ASSUME Init PROVE Progress
  BY <1>2 DEF Progress, Merging
<1>3. ASSUME Init PROVE Underway /\ Fresh
  BY <1>3, IdleKnown DEF Underway, Fresh, Idle
<1>4. ASSUME Init PROVE NoLateStart /\ RotatedStays /\ Made /\ ChangesLogged
  BY <1>4 DEF NoLateStart, RotatedStays, Made, ChangesLogged, Idle
<1> QED
  BY <1>1, <1>2, <1>3, <1>4 DEF IInv

(* Steps of a start other than the merge touch neither keys nor requests.  *)
LEMMA StartKeeps ==
    ASSUME IInv, NEW p \in Procs,
           Start(p) \/ Inspect(p) \/ CreateTables(p) \/ FindHead(p) \/ AddHead(p)
    PROVE  IInv'
<1> USE DEF IInv, Start, Inspect, CreateTables, FindHead, AddHead, Go, Serving,
            Existing, NextAfterHead
<1>1. TypeOK'
  BY DEF TypeOK, Starts
<1>2. Progress'
  BY DEF TypeOK, Progress, Merging, Present, Empty
<1>3. Underway' /\ Fresh'
  BY DEF Underway, Fresh, Present
<1>4. NoLateStart'
  BY DEF TypeOK, NoLateStart, Late, Merging
<1>5. RotatedStays' /\ Made' /\ ChangesLogged'
  BY DEF RotatedStays, Made, ChangesLogged, Present
<1> QED
  BY <1>1, <1>2, <1>3, <1>4, <1>5

LEMMA BootstrapKeeps ==
    ASSUME IInv, NEW p \in Procs, CountKeys(p) \/ Merge(p) \/ FlushMerge(p)
    PROVE  IInv'
<1> USE KeyAssumption
    DEF IInv, CountKeys, Merge, FlushMerge, Go, Serving
<1>1. /\ row' \in [Keys -> Rows \cup {Absent}]
      /\ \A k \in Keys : k # Boot => row'[k] = row[k]
      /\ boot[p] \in {"insert", "enable", "keep"} /\ boot'[p] = "up" => Present(Boot)'
      /\ \A k \in Keys : Present(k) => Present(k)'
  BY RowWritten, AdminRole DEF TypeOK, Present, Progress
<1>2. TypeOK'
  BY <1>1 DEF TypeOK, Starts
<1>3. Progress'
  <2> SUFFICES ASSUME NEW q \in Procs PROVE Progress!(q)'
    BY DEF Progress
  <2>1. Empty' => Empty
    BY <1>1 DEF Empty
  <2>2. CASE q # p
    BY <1>1, <2>1, <2>2 DEF TypeOK, Progress, Merging
  <2>3. CASE q = p
    BY <1>1, <2>1, <2>3 DEF TypeOK, Progress, Merging, Empty
  <2> QED
    BY <2>2, <2>3
<1>4. Underway'
  BY DEF Underway
<1>5. Fresh'
  BY <1>1 DEF Fresh, Present, Underway, Known
<1>6. NoLateStart'
  BY DEF TypeOK, NoLateStart, Late, Merging, RotatedStays, Empty
<1>7. RotatedStays'
  <2>1. CASE UNCHANGED row
    BY <2>1 DEF RotatedStays, Present
  <2>2. CASE row' # row
    <3>1. Late
      BY <2>2 DEF Late, Merging
    <3> QED
      BY <3>1 DEF NoLateStart, RotatedStays
  <2> QED
    BY <2>1, <2>2
<1>8. Made' /\ ChangesLogged'
  BY DEF Made, ChangesLogged
<1> QED
  BY <1>2, <1>3, <1>4, <1>5, <1>6, <1>7, <1>8

Admission(p) ==
    \/ \E k \in Keys, op \in Ops, target \in Keys \cup {NoKey} : Arrive(p, k, op, target)
    \/ Authenticate(p) \/ Admit(p) \/ DisableMissing(p)

(* Requests until they change the table: only the write of last_used_ts.   *)
LEMMA AdmissionKeeps ==
    ASSUME IInv, NEW p \in Procs, Admission(p)
    PROVE  IInv'
<1> USE KeyAssumption DEF IInv
<1>1. UNCHANGED <<tables, head, row, boot, trail, deaths, scripts, rotated, changed, cut>>
  BY DEF Admission, Arrive, Authenticate, Admit, DisableMissing, TypeOK, Touched
<1>2. req[p] \in Requests /\ Known(req[p]) /\ Idle \in Requests /\ Known(Idle)
  BY DEF TypeOK, Underway, Idle, Requests, Ops, Roles, Known
<1>3. \E r \in Requests :
         /\ req' = [req EXCEPT ![p] = r]
         /\ Known(r)
         /\ req[p].pc # "log" /\ r.pc # "log"
         /\ r.pc = "change" /\ r.op = "create" => ~Drawn(r.target)
  <2>1. ASSUME NEW k \in Keys, NEW op \in Ops, NEW target \in Keys \cup {NoKey},
               Arrive(p, k, op, target)
        PROVE  <1>3
    <3> DEFINE r == [Idle EXCEPT !.pc = "authenticate", !.key = k, !.op = op, !.target = target]
    <3>1. r \in Requests /\ Known(r) /\ r.pc = "authenticate"
      BY <2>1 DEF Arrive, Idle, Requests, Ops, Roles, Known
    <3> QED
      BY <2>1, <3>1 DEF Arrive
  <2>2. ASSUME Authenticate(p) PROVE <1>3
    <3> DEFINE r == [req[p] EXCEPT !.pc = "touch", !.role = row[req[p].key].role]
    <3>1. CASE Present(req[p].key) /\ ~row[req[p].key].disabled
      <4>1. row[req[p].key].role \in Roles
        BY <1>2, <2>2, <3>1 DEF Authenticate, TypeOK, Present, Known, Rows
      <4>2. r \in Requests /\ Known(r) /\ r.pc = "touch"
        BY <1>2, <2>2, <4>1 DEF Authenticate, Requests, Known
      <4>3. req' = [req EXCEPT ![p] = r]
        BY <2>2, <3>1 DEF Authenticate, TypeOK
      <4> QED
        BY <2>2, <4>2, <4>3 DEF Authenticate
    <3>2. CASE ~(Present(req[p].key) /\ ~row[req[p].key].disabled)
      BY <1>2, <2>2, <3>2 DEF Authenticate, Done, Idle
    <3> QED
      BY <3>1, <3>2
  <2>3. ASSUME Admit(p) PROVE <1>3
    <3>1. CASE Done(p)
      BY <1>2, <2>3, <3>1 DEF Admit, Done, Idle
    <3>2. CASE req[p].op = "disable" /\ Stage(p, "change")
      <4> DEFINE r == [req[p] EXCEPT !.pc = "change"]
      <4>1. r \in Requests /\ Known(r) /\ r.pc = "change" /\ r.op = "disable"
        BY <1>2, <2>3, <3>2 DEF Admit, Requests, Known
      <4> QED
        BY <2>3, <3>2, <4>1 DEF Admit, Stage, TypeOK
    <3>3. ASSUME NEW k \in Keys, ~Drawn(k), req[p].op = "create",
                 req' = [req EXCEPT ![p].pc = "change", ![p].target = k]
          PROVE  <1>3
      <4> DEFINE r == [req[p] EXCEPT !.pc = "change", !.target = k]
      <4>1. r \in Requests /\ Known(r) /\ r.pc = "change" /\ r.target = k
        BY <1>2, <2>3, <3>3 DEF Admit, Requests, Known
      <4>2. req' = [req EXCEPT ![p] = r]
        BY <3>3 DEF TypeOK
      <4> QED
        BY <2>3, <3>3, <4>1, <4>2 DEF Admit
    <3> QED
      BY <2>3, <3>1, <3>2, <3>3 DEF Admit
  <2>4. ASSUME DisableMissing(p) PROVE <1>3
    BY <1>2, <2>4 DEF DisableMissing, AfterMissing, Done, Idle
  <2> QED
    BY <2>1, <2>2, <2>3, <2>4 DEF Admission
<1>4. PICK r \in Requests : <1>3!(r)
  BY <1>3
<1>5. req'[p] = r /\ \A q \in Procs : q # p => req'[q] = req[q]
  BY <1>4 DEF TypeOK
<1>6. TypeOK' /\ Progress' /\ NoLateStart' /\ RotatedStays'
  BY <1>1, <1>4 DEF TypeOK, Progress, NoLateStart, RotatedStays, Present, Empty, Late
<1>7. Underway'
  BY <1>4, <1>5 DEF Underway
<1>8. Fresh'
  BY <1>1, <1>4, <1>5 DEF Fresh, Drawn, Present
<1>9. Made' /\ ChangesLogged'
  BY <1>1, <1>4, <1>5 DEF Made, ChangesLogged
<1> QED
  BY <1>6, <1>7, <1>8, <1>9

(* A request whose change is made goes on to log it.                       *)
LEMMA ToLog ==
    ASSUME IInv, NEW p \in Procs, req[p].pc = "change", Stage(p, "log")
    PROVE  /\ req' \in [Procs -> Requests]
           /\ Underway'
           /\ req'[p].pc = "log" /\ req'[p].op = req[p].op /\ req'[p].target = req[p].target
           /\ \A q \in Procs : q # p => req'[q] = req[q]
<1>1. req[p] \in Requests /\ Known(req[p])
  BY DEF IInv, TypeOK, Underway
<1>2. [req[p] EXCEPT !.pc = "log"] \in Requests /\ Known([req[p] EXCEPT !.pc = "log"])
  BY <1>1 DEF Requests, Known
<1> QED
  BY <1>1, <1>2 DEF IInv, TypeOK, Underway, Stage, Requests

LEMMA CreateKeeps ==
    ASSUME IInv, NEW p \in Procs, NEW role \in Roles, CreateKey(p, role)
    PROVE  IInv'
<1> USE ToLog DEF IInv, CreateKey
<1> DEFINE k == req[p].target
<1>1. k \in Keys /\ <<"create", k>> \in Changes /\ ~Present(k) /\ k # Boot
  BY DEF Underway, Known, Changes, Fresh
<1>2. /\ row' \in [Keys -> Rows \cup {Absent}]
      /\ \A l \in Keys : l # k => row'[l] = row[l]
      /\ Present(k)'
  BY <1>1, RowWritten DEF TypeOK, Present
<1>3. TypeOK'
  BY <1>1, <1>2 DEF TypeOK
<1>4. Progress'
  BY <1>1, <1>2, KeyAssumption DEF Progress, Present, Empty
<1>5. Fresh'
  BY <1>1, <1>2 DEF Fresh, Present, Underway, Known
<1>6. NoLateStart' /\ RotatedStays'
  BY <1>1, <1>2 DEF NoLateStart, Late, RotatedStays, Present, TypeOK
<1>7. Made' /\ ChangesLogged'
  BY <1>1 DEF Made, ChangesLogged
<1> QED
  BY <1>3, <1>4, <1>5, <1>6, <1>7

LEMMA DisableKeeps ==
    ASSUME IInv, NEW p \in Procs, DisableKey(p)
    PROVE  IInv'
<1> USE ToLog DEF IInv, DisableKey, Disable
<1> DEFINE k == req[p].target
<1>1. k \in Keys /\ <<"disable", k>> \in Changes /\ row[k] \in Rows
  BY DEF Underway, Known, Changes, TypeOK, Present
<1>2. /\ row' \in [Keys -> Rows \cup {Absent}]
      /\ \A l \in Keys : l # k => row'[l] = row[l]
      /\ Present(k)' /\ row'[k].disabled
  <2>1. row' = [row EXCEPT ![k] = [row[k] EXCEPT !.disabled = TRUE]]
    BY <1>1 DEF TypeOK
  <2> QED
    BY <1>1, <2>1, RowChanged DEF TypeOK, Present
<1>3. TypeOK'
  BY <1>1, <1>2 DEF TypeOK
<1>4. Progress'
  BY <1>1, <1>2, KeyAssumption DEF Progress, Present, Empty
<1>5. Fresh'
  BY <1>1, <1>2 DEF Fresh, Present, Underway, Known
<1>6. NoLateStart' /\ RotatedStays'
  BY <1>1, <1>2 DEF NoLateStart, Late, RotatedStays, Present, TypeOK
<1>7. Made' /\ ChangesLogged'
  BY <1>1 DEF Made, ChangesLogged
<1> QED
  BY <1>3, <1>4, <1>5, <1>6, <1>7

LEMMA LogKeeps ==
    ASSUME IInv, NEW p \in Procs, LogChange(p)
    PROVE  IInv'
<1> USE DEF IInv, LogChange, Done
<1>1. <<req[p].op, req[p].target>> \in Changes
  BY DEF Underway, Known, Changes
<1>2. TypeOK' /\ Underway'
  BY <1>1, IdleKnown DEF TypeOK, Underway
<1>3. Progress' /\ Fresh' /\ NoLateStart' /\ RotatedStays'
  BY DEF TypeOK, Progress, Present, Empty, Fresh, NoLateStart, Late, RotatedStays, Idle
<1>4. Made' /\ ChangesLogged'
  BY DEF Made, ChangesLogged, TypeOK, Idle
<1> QED
  BY <1>2, <1>3, <1>4

LEMMA DieKeeps ==
    ASSUME IInv, NEW p \in Procs, Die(p)
    PROVE  IInv'
<1> USE DEF IInv, Die, Done, Go
<1>1. req[p].pc = "log" => <<req[p].op, req[p].target>> \in Changes
  BY DEF Underway, Known, Changes
<1>2. TypeOK' /\ Underway'
  BY <1>1, IdleKnown DEF TypeOK, Underway, Starts
<1>3. Progress' /\ Fresh' /\ NoLateStart' /\ RotatedStays'
  BY DEF TypeOK, Progress, Present, Empty, Fresh, NoLateStart, Late, Merging, RotatedStays, Idle
<1>4. Made' /\ ChangesLogged'
  BY DEF Made, ChangesLogged, TypeOK, Idle
<1> QED
  BY <1>2, <1>3, <1>4

LEMMA ScriptKeeps ==
    ASSUME IInv, NEW k \in Keys, Script(k)
    PROVE  IInv'
<1> USE KeyAssumption DEF IInv, Script, Disable
<1>1. row[k] \in Rows \/ ~Present(k)
  BY DEF TypeOK, Present
<1>2. /\ row' \in [Keys -> Rows \cup {Absent}]
      /\ \A l \in Keys : l # k => row'[l] = row[l]
      /\ Present(k)'
      /\ row'[k].disabled \/ k \notin rotated'
  <2>1. ASSUME ~Drawn(k), NEW r \in Roles, UNCHANGED rotated,
               row' = [row EXCEPT ![k] = [role |-> r, disabled |-> FALSE]]
        PROVE  <1>2
    BY <2>1, RowWritten DEF TypeOK, Drawn, Present, RotatedStays
  <2>2. ASSUME Present(k), row' = [row EXCEPT ![k].disabled = TRUE] PROVE <1>2
    <3>1. row' = [row EXCEPT ![k] = [row[k] EXCEPT !.disabled = TRUE]]
      BY <2>2 DEF TypeOK
    <3> QED
      BY <1>1, <2>2, <3>1, RowChanged DEF TypeOK, Present
  <2>3. ASSUME Present(k), row' = [row EXCEPT ![k].disabled = FALSE], rotated' = rotated \ {k}
        PROVE  <1>2
    <3>1. row' = [row EXCEPT ![k] = [row[k] EXCEPT !.disabled = FALSE]]
      BY <2>3 DEF TypeOK
    <3> QED
      BY <1>1, <2>3, <3>1, RowChanged DEF TypeOK, Present
  <2> QED
    BY <2>1, <2>2, <2>3
<1>3. TypeOK'
  BY <1>2, BoundAssumption DEF TypeOK
<1>4. Progress'
  BY <1>2 DEF Progress, Present, Empty
<1>5. Underway'
  BY DEF Underway
<1>6. Fresh'
  BY <1>2 DEF Fresh, Present, Drawn, Underway, Known
<1>7. NoLateStart'
  BY DEF NoLateStart, Late
<1>8. RotatedStays'
  BY <1>2 DEF RotatedStays, Present, TypeOK
<1>9. Made' /\ ChangesLogged'
  BY DEF Made, ChangesLogged
<1> QED
  BY <1>3, <1>4, <1>5, <1>6, <1>7, <1>8, <1>9

LEMMA NextInv == IInv /\ [Next]_vars => IInv'
<1>1. SUFFICES ASSUME IInv, [Next]_vars PROVE IInv'
  OBVIOUS
<1>2. CASE UNCHANGED vars
  BY <1>1, <1>2 DEF vars, IInv, TypeOK, Progress, Underway, Fresh, NoLateStart, Late,
     RotatedStays, Made, ChangesLogged, Present, Empty
<1>3. CASE \E p \in Procs : StartStep(p)
  BY <1>1, <1>3, StartKeeps, BootstrapKeeps DEF StartStep
<1>4. CASE \E p \in Procs : Admission(p)
  BY <1>1, <1>4, AdmissionKeeps
<1>5. CASE \E p \in Procs :
              (\E role \in Roles : CreateKey(p, role)) \/ DisableKey(p) \/ LogChange(p) \/ Die(p)
  BY <1>1, <1>5, CreateKeeps, DisableKeeps, LogKeeps, DieKeeps
<1>6. CASE \E k \in Keys : Script(k)
  BY <1>1, <1>6, ScriptKeeps
<1> QED
  BY <1>1, <1>2, <1>3, <1>4, <1>5, <1>6 DEF Next, Admission

LEMMA Invariance == Spec => []IInv
BY InitInv, NextInv, PTL DEF Spec

-----------------------------------------------------------------------------
(* Every process, request, key and entry keeps its type (ApiKeys).         *)
THEOREM ApiKeysTypeOK == Spec => []TypeOK
<1>1. IInv => TypeOK
  BY DEF IInv
<1> QED
  BY <1>1, Invariance, PTL

(* Whoever serves finds the tables, the head and a key (init_schema,       *)
(* bootstrap), for any number of processes and deaths.                     *)
THEOREM ApiKeysReady == Spec => []ReadyToServe
<1>1. IInv => ReadyToServe
  BY DEF IInv, Progress, ReadyToServe
<1> QED
  BY <1>1, Invariance, PTL

(* No restart and no request enables a rotated key (bootstrap and          *)
(* authenticate).                                                          *)
THEOREM ApiKeysRotated == Spec => []RotatedStays
<1>1. IInv => RotatedStays
  BY DEF IInv
<1> QED
  BY <1>1, Invariance, PTL

(* The log has the changes of the table but for those of a process that    *)
(* died before the entry (the handlers of /api/admin/keys).                *)
THEOREM ApiKeysLogged == Spec => []ChangesLogged
<1>1. IInv => ChangesLogged
  BY DEF IInv
<1> QED
  BY <1>1, Invariance, PTL

-----------------------------------------------------------------------------
(* The number of a turn among those that are kept.  It is the identity of  *)
(* the span that stands for the turn, whichever the route: with an         *)
(* exporter, and with the tap for LangGraph, all turns are kept.           *)
Rank(t) == Cardinality({j \in 1..t : Counts(j)})
Names(id, t) == t \in DOMAIN said /\ Counts(t) /\ id = Rank(t)
Loose == {"parent", "graph"}

Spans == [id : Ids, turn : Nat, inputs : SUBSET Ids]
Posts == [pc : {"free", "look", "again", "store", "link", "answer"},
          batch : Seq(Spans), at : Nat \ {0}, ok : SUBSET Spans]

TelemetryType ==
    /\ route \in Routes
    /\ said \in Seq(Kinds(route)) /\ Len(said) <= MaxTurns
    /\ waits \in Slots \cup {None}
    /\ post \in [Slots -> Posts]
    /\ stored \in [Ids -> Nat] /\ edges \subseteq Ids \X Ids
    /\ told \subseteq Spans

Handled(t) == IsStored(t) \/ t \in hit

(* A span names the turn before, unless it only does so as its parent.     *)
Sent(x) ==
    /\ Names(x.id, x.turn)
    /\ said[x.turn] \notin Loose =>
          \A j \in Before(x.turn) : \E id \in x.inputs : Names(id, j)

(* The turn before was handled already, or comes first in the batch.       *)
Following(b) ==
    \A q \in DOMAIN b : said[b[q].turn] \notin Loose =>
        \A j \in Before(b[q].turn) : Handled(j) \/ \E p \in 1..(q - 1) : b[p].turn = j

Confirmed(x) == Names(x.id, x.turn) /\ stored[x.id] = x.turn

BatchOk(r) ==
    /\ r.pc \in {"look", "again", "store", "link"} => r.at \in DOMAIN r.batch
    /\ r.pc = "answer" => r.at = Len(r.batch) + 1
    /\ \A q \in DOMAIN r.batch : Sent(r.batch[q])
    /\ \A q \in DOMAIN r.batch : q < r.at => Handled(r.batch[q].turn)
    /\ Following(r.batch)
    /\ \A x \in r.ok : Confirmed(x)
    /\ r.pc = "link" => Confirmed(r.batch[r.at])

Batches == \A s \in Slots : BatchOk(post[s])

Recorded ==
    /\ \A id \in Ids : stored[id] # 0 => Names(id, stored[id])
    /\ \A x \in told : Confirmed(x)
    /\ \A i \in DOMAIN said : IsStored(i) /\ said[i] \notin Loose =>
          \A j \in Before(i) : Joined(j, i) \/ Linking(i) \/ {i, j} \cap hit # {}

(* The exporter: a span that is linked to the one before ended after it.   *)
Linked(i) == said[i] \notin Loose /\ i # 1
Exported ==
    route = "otlp" =>
        /\ ended \in Seq(DOMAIN said) /\ done \in 0..Len(ended)
        /\ open \cup Range(ended) = DOMAIN said
        /\ \A q \in 1..done : Handled(ended[q])
        /\ \A q \in DOMAIN ended : Linked(ended[q]) =>
              \E p \in 1..(q - 1) : ended[p] = ended[q] - 1
        /\ \A i \in open : Linked(i) => i - 1 \in Range(ended)
        /\ waits # None =>
              /\ done + Len(post[waits].batch) <= Len(ended)
              /\ \A q \in DOMAIN post[waits].batch : post[waits].batch[q].turn = ended[done + q]

TelemetryInv == TelemetryType /\ Batches /\ Recorded /\ Exported

-----------------------------------------------------------------------------
(* Identities.                                                             *)
LEMMA RankType ==
    ASSUME NEW t \in Nat
    PROVE  IsFiniteSet({j \in 1..t : Counts(j)}) /\ Rank(t) \in Nat /\ Rank(t) <= t
<1>1. IsFiniteSet(1..t) /\ Cardinality(1..t) = t
  BY FS_Interval
<1>2. {j \in 1..t : Counts(j)} \in SUBSET (1..t)
  OBVIOUS
<1> QED
  BY <1>1, <1>2, FS_Subset, FS_CardinalityType DEF Rank

LEMMA RankAll ==
    ASSUME NEW t \in Nat, route # "autogen"
    PROVE  Rank(t) = t
<1>1. {j \in 1..t : Counts(j)} = 1..t
  BY DEF Counts
<1>2. Cardinality(1..t) = t
  BY FS_Interval
<1> QED
  BY <1>1, <1>2 DEF Rank

LEMMA RankStrict ==
    ASSUME NEW t \in Nat, NEW u \in Nat, t < u, Counts(u)
    PROVE  Rank(t) < Rank(u)
<1> DEFINE T == {j \in 1..t : Counts(j)}
           U == {j \in 1..u : Counts(j)}
<1>1. T \subseteq U /\ u \in U /\ u \notin T
  OBVIOUS
<1>2. IsFiniteSet(T) /\ IsFiniteSet(U) /\ Cardinality(T) \in Nat /\ Cardinality(U) \in Nat
  BY RankType, FS_CardinalityType
<1> HIDE DEF T, U
<1>3. Cardinality(T) <= Cardinality(U) /\ Cardinality(T) # Cardinality(U)
  BY <1>1, <1>2, FS_Subset
<1>4. Cardinality(T) < Cardinality(U)
  BY <1>2, <1>3
<1> QED
  BY <1>4 DEF Rank, T, U

LEMMA NamesIs ==
    ASSUME TelemetryType, NEW id, NEW t, Names(id, t)
    PROVE  id \in 1..Len(said) /\ id \in Ids /\ id # 0 /\ t \in 1..Len(said) /\ t \in Nat /\ t # 0
<1>1. Len(said) \in Nat /\ DOMAIN said = 1..Len(said) /\ Len(said) <= MaxTurns /\ MaxTurns \in Nat
  BY TurnAssumption DEF TelemetryType
<1>2. t \in 1..Len(said) /\ t \in Nat /\ t # 0 /\ Counts(t) /\ id = Rank(t)
  BY <1>1 DEF Names
<1>3. Rank(0) \in Nat /\ Rank(0) < Rank(t) /\ Rank(t) \in Nat /\ Rank(t) <= t
  <2>1. 0 \in Nat /\ 0 < t
    BY <1>2
  <2> QED
    BY <1>2, <2>1, RankStrict, RankType
<1> QED
  BY <1>1, <1>2, <1>3 DEF Ids

LEMMA OneTurn ==
    ASSUME TelemetryType, NEW id, NEW t, NEW u, Names(id, t), Names(id, u)
    PROVE  t = u
<1>1. t \in Nat /\ u \in Nat /\ Counts(t) /\ Counts(u) /\ Rank(t) = Rank(u)
  BY NamesIs DEF Names
<1>2. Rank(t) \in Nat
  BY <1>1, RankType
<1>3. ~(t < u) /\ ~(u < t)
  BY <1>1, <1>2, RankStrict
<1> QED
  BY <1>1, <1>3

(* The turn before the k-th of those that are kept is the one before it.   *)
LEMMA BeforeIs ==
    ASSUME TelemetryType, NEW i \in DOMAIN said, Counts(i), NEW j \in Before(i)
    PROVE  /\ Rank(i) \in Nat /\ Rank(i) - 1 \in Nat \ {0} /\ Names(Rank(i) - 1, j)
           /\ j \in DOMAIN said /\ j \in Nat /\ j < i
<1> DEFINE I == {k \in 1..i : Counts(k)}
           J == {k \in 1..j : Counts(k)}
<1>1. /\ i \in Nat /\ j \in Nat /\ j # 0 /\ j < i /\ j \in DOMAIN said /\ Counts(j)
      /\ \A k \in (j + 1)..(i - 1) : ~Counts(k)
  BY DEF TelemetryType, Before
<1>2. I = J \cup {i} /\ i \notin J
  <2>1. \A k \in 1..i : k \in 1..j \/ k \in (j + 1)..(i - 1) \/ k = i
    BY <1>1
  <2>2. \A k \in 1..j : k \in 1..i /\ k # i
    BY <1>1
  <2>3. i \in 1..i
    BY <1>1
  <2> QED
    BY <1>1, <2>1, <2>2, <2>3
<1>3. IsFiniteSet(J) /\ Cardinality(J) \in Nat
  BY <1>1, RankType, FS_CardinalityType
<1> HIDE DEF I, J
<1>4. Cardinality(I) = Cardinality(J) + 1
  BY <1>2, <1>3, FS_AddElement
<1>5. Rank(i) = Rank(j) + 1 /\ Rank(j) \in Nat
  BY <1>3, <1>4 DEF Rank, I, J
<1>6. Names(Rank(j), j)
  BY <1>1 DEF Names
<1>7. Rank(j) # 0
  BY <1>6, NamesIs
<1>8. Rank(i) - 1 = Rank(j)
  BY <1>5
<1> QED
  BY <1>1, <1>5, <1>6, <1>7, <1>8

LEMMA BeforeAll ==
    ASSUME route # "autogen", NEW i \in Nat, NEW j \in Before(i)
    PROVE  j = i - 1 /\ i # 1
<1>1. \A k \in (j + 1)..(i - 1) : FALSE
  BY DEF Before, Counts
<1>2. j \in 1..(i - 1)
  BY DEF Before
<1>3. i # 1
  BY <1>2
<1>4. j < i - 1 => j + 1 \in (j + 1)..(i - 1)
  BY <1>2
<1> QED
  BY <1>1, <1>2, <1>3, <1>4

(* The tap's numbers are the ranks.                                        *)
LEMMA ConvertedIs ==
    ASSUME TelemetryType
    PROVE  /\ Cardinality(Turns) \in Nat /\ DOMAIN Converted = 1..Cardinality(Turns)
           /\ \A k \in 1..Cardinality(Turns) : Names(k, Converted[k])
<1> DEFINE n == Cardinality(Turns)
           f == [i \in Turns |-> Rank(i)]
<1>1. DOMAIN said = 1..Len(said) /\ Len(said) \in Nat /\ Turns \subseteq 1..Len(said)
  BY DEF TelemetryType, Turns
<1>2. IsFiniteSet(Turns) /\ n \in Nat
  <2>1. IsFiniteSet(1..Len(said))
    BY <1>1, FS_Interval
  <2> QED
    BY <1>1, <2>1, FS_Subset, FS_CardinalityType
<1>3. \A i \in Turns : {j \in Turns : j <= i} = {j \in 1..i : Counts(j)}
  BY <1>1 DEF Turns
<1>4. \A i \in Turns : Rank(i) \in 1..n
  <2> TAKE i \in Turns
  <2>1. Names(Rank(i), i)
    BY DEF Names, Turns
  <2>2. Rank(i) \in Nat /\ Rank(i) # 0
    BY <1>1, <2>1, NamesIs
  <2>3. {j \in Turns : j <= i} \in SUBSET Turns
    OBVIOUS
  <2>4. Cardinality({j \in Turns : j <= i}) <= n
    BY <1>2, <2>3, FS_Subset
  <2>5. Rank(i) <= n
    BY <1>3, <2>4 DEF Rank
  <2> QED
    BY <1>2, <2>2, <2>5
<1>5. f \in Injection(Turns, 1..n)
  <2>1. f \in [Turns -> 1..n]
    BY <1>4
  <2>2. \A i, j \in Turns : f[i] = f[j] => i = j
    <3> TAKE i, j \in Turns
    <3>1. Names(Rank(i), i) /\ Names(Rank(j), j)
      BY DEF Names, Turns
    <3> QED
      BY <3>1, OneTurn
  <2> HIDE DEF f
  <2> QED
    BY <2>1, <2>2 DEF Injection, IsInjective
<1>6. f \in Surjection(Turns, 1..n)
  <2>1. IsFiniteSet(1..n) /\ Cardinality(1..n) = n
    BY <1>2, FS_Interval
  <2> HIDE DEF f
  <2> QED
    BY <1>5, <2>1, FS_Injection
<1>7. \A k \in 1..n : \E i \in Turns : Cardinality({j \in Turns : j <= i}) = k
  BY <1>3, <1>6 DEF Surjection, Rank
<1>8. \A k \in 1..n : Converted[k] \in Turns /\ Cardinality({j \in Turns : j <= Converted[k]}) = k
  BY <1>7 DEF Converted
<1>9. \A k \in 1..n : Names(k, Converted[k])
  BY <1>3, <1>8 DEF Names, Turns, Rank
<1> QED
  BY <1>2, <1>9 DEF Converted

-----------------------------------------------------------------------------
(* The batches that are sent.                                              *)
LEMMA TapBatch ==
    ASSUME TelemetryType, route # "otlp"
    PROVE  /\ TapSpans \in Seq(Spans)
           /\ \A q \in DOMAIN TapSpans : Sent(TapSpans[q])
           /\ Following(TapSpans)
<1> DEFINE n == Cardinality(Turns)
           b == TapSpans
<1>1. n \in Nat /\ DOMAIN b = 1..n /\ \A k \in 1..n : Names(k, Converted[k])
  BY ConvertedIs DEF TapSpans
<1>2. \A k \in 1..n : /\ b[k].id = k /\ b[k].turn = Converted[k]
                      /\ b[k].inputs = IF k = 1 THEN {} ELSE {k - 1}
                      /\ b[k] = [id |-> k, turn |-> Converted[k],
                                 inputs |-> IF k = 1 THEN {} ELSE {k - 1}]
  BY <1>1, ConvertedIs DEF TapSpans
<1> HIDE DEF b, n
<1>3. ASSUME NEW k \in 1..n
      PROVE  /\ k \in Nat /\ k \in Ids /\ Converted[k] \in Nat /\ Converted[k] \in DOMAIN said
             /\ (k # 1 => k - 1 \in 1..n /\ k - 1 \in Ids)
  <2>1. Names(k, Converted[k])
    BY <1>1
  <2>2. k \in Nat /\ k \in Ids /\ Converted[k] \in Nat /\ Converted[k] \in DOMAIN said
    BY <1>1, <2>1, NamesIs DEF Names
  <2>3. k # 1 => k - 1 \in 1..n
    BY <1>1
  <2>4. ASSUME k # 1 PROVE k - 1 \in Ids
    <3>1. MaxTurns \in Nat /\ k # 0
      BY <2>1, TurnAssumption, NamesIs
    <3> QED
      BY <2>2, <2>4, <3>1 DEF Ids
  <2> QED
    BY <2>2, <2>3, <2>4
<1>4. b \in Seq(Spans)
  <2>1. ASSUME NEW k \in 1..n PROVE b[k] \in Spans
    <3>1. (IF k = 1 THEN {} ELSE {k - 1}) \in SUBSET Ids
      BY <1>3
    <3>2. k \in Ids /\ Converted[k] \in Nat
      BY <1>3
    <3> DEFINE in == IF k = 1 THEN {} ELSE {k - 1}
    <3>3. b[k] = [id |-> k, turn |-> Converted[k], inputs |-> in]
      BY <1>2
    <3> HIDE DEF in
    <3>4. in \in SUBSET Ids
      BY <3>1 DEF in
    <3> QED
      BY <3>2, <3>3, <3>4 DEF Spans
  <2>2. b = [k \in 1..n |-> b[k]]
    BY <1>1 DEF b, TapSpans
  <2> QED
    BY <1>1, <2>1, <2>2
<1>5. ASSUME NEW k \in 1..n, NEW j \in Before(Converted[k])
      PROVE  k # 1 /\ k - 1 \in 1..n /\ Names(k - 1, j) /\ Converted[k - 1] = j
  <2>1. Names(k, Converted[k])
    BY <1>1
  <2>2. Names(k - 1, j) /\ k - 1 \in Nat \ {0}
    BY <2>1, BeforeIs DEF Names
  <2>3. k # 1 /\ k - 1 \in 1..n
    BY <1>1, <2>2
  <2>4. Names(k - 1, Converted[k - 1])
    BY <1>1, <2>3
  <2> QED
    BY <2>2, <2>3, <2>4, OneTurn
<1>6. \A k \in 1..n : Sent(b[k])
  <2> TAKE k \in 1..n
  <2>1. Names(b[k].id, b[k].turn)
    BY <1>1, <1>2
  <2>2. ASSUME NEW j \in Before(b[k].turn) PROVE \E id \in b[k].inputs : Names(id, j)
    <3>1. j \in Before(Converted[k])
      BY <1>2
    <3>2. k # 1 /\ Names(k - 1, j)
      BY <1>5, <3>1
    <3>3. k - 1 \in b[k].inputs
      BY <1>2, <3>2
    <3> QED
      BY <3>2, <3>3
  <2> QED
    BY <2>1, <2>2 DEF Sent
<1>7. Following(b)
  <2> SUFFICES ASSUME NEW k \in 1..n, NEW j \in Before(b[k].turn)
               PROVE  \E p \in 1..(k - 1) : b[p].turn = j
    BY <1>1 DEF Following
  <2>1. j \in Before(Converted[k])
    BY <1>2
  <2>2. k # 1 /\ k - 1 \in 1..n /\ Converted[k - 1] = j
    BY <1>5, <2>1
  <2>3. k - 1 \in 1..(k - 1)
    BY <1>3, <2>2
  <2> QED
    BY <1>2, <2>2, <2>3
<1> QED
  BY <1>1, <1>4, <1>6, <1>7 DEF b

LEMMA ExportBatch ==
    ASSUME TelemetryType, Exported, route = "otlp"
    PROVE  LET b == Mapped(SubSeq(ended, done + 1, Len(ended)))
           IN  /\ b \in Seq(Spans) /\ done + Len(b) = Len(ended)
               /\ \A q \in DOMAIN b : Sent(b[q]) /\ b[q].turn = ended[done + q]
               /\ Following(b)
<1> DEFINE turns == SubSeq(ended, done + 1, Len(ended))
           b == Mapped(turns)
           n == Len(ended) - done
<1>1. /\ ended \in Seq(DOMAIN said) /\ done \in 0..Len(ended)
      /\ \A q \in 1..done : Handled(ended[q])
      /\ \A q \in DOMAIN ended : Linked(ended[q]) =>
            \E p \in 1..(q - 1) : ended[p] = ended[q] - 1
  BY DEF Exported
<1>2. n \in Nat /\ done \in Nat /\ Len(ended) \in Nat /\ DOMAIN ended = 1..Len(ended)
  BY <1>1
<1>3. DOMAIN turns = 1..n /\ \A q \in 1..n : turns[q] = ended[done + q]
  <2>1. turns = [q \in 1..(Len(ended) - (done + 1) + 1) |-> ended[q + (done + 1) - 1]]
    BY <1>1, <1>2
  <2>2. Len(ended) - (done + 1) + 1 = n /\ \A q \in 1..n : q + (done + 1) - 1 = done + q
    BY <1>2
  <2> HIDE DEF turns, n
  <2> QED
    BY <2>1, <2>2
<1>4. /\ DOMAIN b = 1..n
      /\ \A q \in 1..n : b[q] = [id |-> turns[q], turn |-> turns[q], inputs |-> InputsOf(Raw(turns[q]))]
  BY <1>3 DEF Mapped
<1> HIDE DEF turns, b, n
<1>5. \A q \in 1..n : done + q \in DOMAIN ended /\ turns[q] \in DOMAIN said
  <2> TAKE q \in 1..n
  <2>1. done + q \in 1..Len(ended)
    BY <1>2 DEF n
  <2> QED
    BY <1>1, <1>2, <1>3, <2>1
<1>6. ASSUME NEW i \in DOMAIN said
      PROVE  /\ i \in Nat /\ i \in Ids /\ Names(i, i)
             /\ said[i] \in {"twin", "link", "parent", "graph"}
             /\ i # 1 => i - 1 \in Ids
             /\ \A j \in Before(i) : j = i - 1 /\ i # 1 /\ Names(i - 1, j)
             /\ 0 \in Ids
  <2>1. DOMAIN said = 1..Len(said) /\ Len(said) \in Nat /\ Len(said) <= MaxTurns /\ MaxTurns \in Nat
        /\ said[i] \in Kinds(route)
    BY TurnAssumption DEF TelemetryType
  <2>2. i \in Nat /\ i \in Ids /\ (i # 1 => i - 1 \in Ids) /\ 0 \in Ids
    BY <2>1 DEF Ids
  <2>3. Rank(i) = i /\ Names(i, i) /\ Counts(i)
    BY <2>2, RankAll DEF Names, Counts
  <2>4. \A j \in Before(i) : j = i - 1 /\ i # 1 /\ Names(i - 1, j)
    BY <2>2, <2>3, BeforeAll, BeforeIs
  <2> QED
    BY <2>1, <2>2, <2>3, <2>4 DEF Kinds
<1>7. ASSUME NEW i \in DOMAIN said
      PROVE  /\ InputsOf(Raw(i)) \subseteq Ids
             /\ said[i] \notin Loose /\ i # 1 => i - 1 \in InputsOf(Raw(i))
  BY <1>6 DEF InputsOf, Raw, Loose
<1>8. b \in Seq(Spans)
  <2>1. \A q \in 1..n : b[q] \in Spans
    BY <1>4, <1>5, <1>6, <1>7 DEF Spans
  <2>2. b = [q \in 1..n |-> b[q]]
    BY <1>4 DEF b, Mapped
  <2> QED
    BY <1>2, <2>1, <2>2
<1>9. done + Len(b) = Len(ended)
  <2>1. Len(b) = n
    BY <1>2, <1>4, <1>8
  <2> QED
    BY <1>2, <2>1 DEF n
<1>10. \A q \in 1..n : /\ b[q].turn = ended[done + q] /\ b[q].turn \in DOMAIN said
                       /\ b[q].id = b[q].turn /\ b[q].inputs = InputsOf(Raw(b[q].turn))
  BY <1>3, <1>4, <1>5
<1>11. \A q \in 1..n : Sent(b[q])
  BY <1>6, <1>7, <1>10 DEF Sent
<1>12. Following(b)
  <2> SUFFICES ASSUME NEW q \in 1..n, said[b[q].turn] \notin Loose, NEW j \in Before(b[q].turn)
               PROVE  Handled(j) \/ \E p \in 1..(q - 1) : b[p].turn = j
    BY <1>4 DEF Following
  <2>1. b[q].turn # 1 /\ j = b[q].turn - 1
    BY <1>6, <1>10
  <2>2. Linked(ended[done + q])
    BY <1>10, <2>1 DEF Linked
  <2>3. PICK p \in 1..(done + q - 1) : ended[p] = j
    BY <1>1, <1>5, <1>10, <2>1, <2>2
  <2>4. CASE p <= done
    BY <1>1, <1>2, <2>3, <2>4
  <2>5. CASE p > done
    <3>1. p - done \in 1..(q - 1) /\ p - done \in 1..n /\ done + (p - done) = p
      BY <1>2, <2>3, <2>5
    <3> QED
      BY <1>10, <2>3, <3>1
  <2> QED
    BY <1>2, <2>3, <2>4, <2>5
<1> QED
  BY <1>4, <1>8, <1>9, <1>10, <1>11, <1>12 DEF b, turns

-----------------------------------------------------------------------------
(* What stays true when the server stores more and more turns are hit.     *)
Grows ==
    /\ UNCHANGED <<route, said>>
    /\ stored' \in [Ids -> Nat] /\ hit \subseteq hit'
    /\ \A id \in Ids : stored[id] # 0 => stored'[id] = stored[id]

LEMMA NamesStay ==
    ASSUME UNCHANGED <<route, said>>
    PROVE  /\ \A id, t : Names(id, t)' <=> Names(id, t)
           /\ \A i : Before(i)' = Before(i)
BY DEF Names, Rank, Counts, Before

LEMMA HandledStays ==
    ASSUME TelemetryType, Grows, NEW t, t # 0, Handled(t)
    PROVE  Handled(t)'
BY DEF Handled, IsStored, Grows

LEMMA ConfirmedStays ==
    ASSUME TelemetryType, Grows, NEW x, Confirmed(x)
    PROVE  Confirmed(x)'
<1>1. Names(x.id, x.turn)' /\ x.id \in Ids /\ x.turn # 0
  <2>1. Names(x.id, x.turn)
    BY DEF Confirmed
  <2> QED
    BY <2>1, NamesIs, NamesStay DEF Grows
<1> QED
  BY <1>1 DEF Confirmed, Grows

LEMMA FollowingStays ==
    ASSUME TelemetryType, Grows, NEW b, Following(b)
    PROVE  Following(b)'
<1>1. \A i : \A j \in Before(i) : j # 0
  BY DEF Before
<1>2. (\A i : Before(i)' = Before(i)) /\ said' = said
  BY NamesStay DEF Grows
<1>3. \A t : t # 0 /\ Handled(t) => Handled(t)'
  BY HandledStays
<1> QED
  BY <1>1, <1>2, <1>3 DEF Following

LEMMA SentStays ==
    ASSUME UNCHANGED <<route, said>>, NEW x, Sent(x)
    PROVE  Sent(x)'
BY NamesStay DEF Sent

LEMMA BatchStays ==
    ASSUME TelemetryType, Grows, NEW r \in Posts, BatchOk(r)
    PROVE  BatchOk(r)'
<1>1. \A q \in DOMAIN r.batch : Sent(r.batch[q]) /\ Sent(r.batch[q])' /\ r.batch[q].turn # 0
  <2> TAKE q \in DOMAIN r.batch
  <2>1. Sent(r.batch[q])
    BY DEF BatchOk
  <2>2. Sent(r.batch[q])'
    BY <2>1, SentStays DEF Grows
  <2>3. Names(r.batch[q].id, r.batch[q].turn)
    BY <2>1 DEF Sent
  <2> QED
    BY <2>1, <2>2, <2>3, NamesIs
<1>2. Following(r.batch)'
  BY FollowingStays DEF BatchOk
<1>3. \A t : t # 0 /\ Handled(t) => Handled(t)'
  BY HandledStays
<1>4. \A x : Confirmed(x) => Confirmed(x)'
  BY ConfirmedStays
<1> QED
  BY <1>1, <1>2, <1>3, <1>4 DEF BatchOk

LEMMA OthersStay ==
    ASSUME TelemetryType, Batches, Grows, NEW s \in Slots, NEW r \in Posts,
           post' = [post EXCEPT ![s] = r], BatchOk(r)'
    PROVE  Batches' /\ post' \in [Slots -> Posts]
<1>1. post' \in [Slots -> Posts] /\ post'[s] = r /\ \A z \in Slots : z # s => post'[z] = post[z]
  BY DEF TelemetryType
<1>2. \A z \in Slots : post[z] \in Posts /\ BatchOk(post[z])
  BY DEF TelemetryType, Batches
<1>3. \A v \in Posts : BatchOk(v) => BatchOk(v)'
  BY BatchStays
<1>4. \A z \in Slots : BatchOk(post[z])'
  BY <1>1, <1>2, <1>3
<1> QED
  BY <1>1, <1>4 DEF Batches

LEMMA ExportedStays ==
    ASSUME TelemetryType, Exported, Grows, UNCHANGED <<open, ended, done>>,
           waits' = None \/ (waits' = waits /\ post'[waits].batch = post[waits].batch)
    PROVE  Exported'
<1> SUFFICES ASSUME route = "otlp" PROVE Exported'
  BY DEF Exported, Grows
<1>1. ended \in Seq(DOMAIN said) /\ done \in 0..Len(ended)
      /\ \A q \in 1..done : Handled(ended[q])
  BY DEF Exported
<1>2. ASSUME NEW q \in 1..done PROVE Handled(ended[q])'
  <2>1. ended[q] \in DOMAIN said
    BY <1>1
  <2>2. ended[q] # 0
    BY <2>1 DEF TelemetryType
  <2> QED
    BY <1>1, <2>2, HandledStays
<1>3. \A q \in 1..done' : Handled(ended[q])'
  BY <1>2
<1> QED
  BY <1>3 DEF Exported, Grows, Linked

(* Where the links are looked after.                                       *)
LEMMA RecordedStays ==
    ASSUME TelemetryType, Recorded, Grows, edges \subseteq edges',
           \A id \in Ids : stored'[id] # 0 => Names(id, stored'[id]),
           \A x \in told' : Confirmed(x)',
           \A i : IsStored(i)' => i = 0 \/ IsStored(i) \/ Linking(i)',
           \A i \in DOMAIN said : \A j \in Before(i) :
              Linking(i) /\ said[i] \notin Loose =>
                 Linking(i)' \/ Joined(j, i)' \/ {i, j} \cap hit' # {}
    PROVE  Recorded'
<1>1. UNCHANGED <<route, said>> /\ hit \subseteq hit' /\ \A i : Before(i)' = Before(i)
  BY NamesStay DEF Grows
<1>2. \A id \in Ids : stored'[id] # 0 => Names(id, stored[id])'
  <2> SUFFICES ASSUME NEW id \in Ids, stored'[id] # 0 PROVE Names(id, stored[id])'
    OBVIOUS
  <2>1. Names(id, stored'[id])
    OBVIOUS
  <2> QED
    BY <1>1, <2>1 DEF Names, Rank, Counts
<1>3. ASSUME NEW i \in DOMAIN said, NEW j \in Before(i), IsStored(i)', said[i] \notin Loose
      PROVE  Joined(j, i)' \/ Linking(i)' \/ {i, j} \cap hit' # {}
  <2>1. i # 0 /\ j # 0
    BY DEF TelemetryType, Before
  <2>2. Joined(j, i) => Joined(j, i)'
    <3> SUFFICES ASSUME NEW e \in edges, stored[e[1]] = j, stored[e[2]] = i PROVE Joined(j, i)'
      BY DEF Joined
    <3>1. e \in edges' /\ e[1] \in Ids /\ e[2] \in Ids
      BY DEF TelemetryType
    <3> QED
      BY <2>1, <3>1 DEF Joined, Grows
  <2>3. CASE Linking(i)'
    BY <2>3
  <2>4. CASE IsStored(i)
    <3>1. Joined(j, i) \/ Linking(i) \/ {i, j} \cap hit # {}
      BY <1>3, <2>4 DEF Recorded
    <3> QED
      BY <1>1, <1>3, <2>2, <3>1
  <2> QED
    BY <1>3, <2>1, <2>3, <2>4
<1> QED
  BY <1>1, <1>2, <1>3 DEF Recorded

-----------------------------------------------------------------------------
(* The server.                                                             *)
LEMMA CurrentSpan ==
    ASSUME TelemetryInv, NEW s \in Slots, post[s].pc \in {"look", "again", "store", "link"}
    PROVE  /\ post[s] \in Posts /\ BatchOk(post[s]) /\ post[s].at \in DOMAIN post[s].batch
           /\ post[s].at \in 1..Len(post[s].batch)
           /\ Span(s) \in Spans /\ Sent(Span(s)) /\ Names(Span(s).id, Span(s).turn)
           /\ Span(s).turn # 0 /\ Span(s).id \in Ids
           /\ post[s].batch \in Seq(Spans)
<1>1. post[s] \in Posts /\ BatchOk(post[s])
  BY DEF TelemetryInv, TelemetryType, Batches
<1>2. post[s].batch \in Seq(Spans) /\ post[s].at \in DOMAIN post[s].batch
      /\ post[s].at \in 1..Len(post[s].batch)
  BY <1>1 DEF Posts, BatchOk
<1>3. Span(s) \in Spans /\ Sent(Span(s))
  BY <1>1, <1>2 DEF BatchOk, Span
<1>4. Names(Span(s).id, Span(s).turn)
  BY <1>3 DEF Sent
<1> QED
  BY <1>1, <1>2, <1>3, <1>4, NamesIs DEF TelemetryInv

LEMMA GotoKeeps ==
    ASSUME TelemetryInv, Grows, NEW s \in Slots, post[s].pc \in {"look", "again", "store", "link"},
           NEW step \in {"again", "store", "link"}, Goto(s, step),
           NEW x, x = Span(s), step = "link" => Confirmed(x)'
    PROVE  /\ Batches' /\ post' \in [Slots -> Posts]
           /\ \A z \in Slots : post'[z].batch = post[z].batch
           /\ \A z \in Slots : z # s => post'[z] = post[z]
           /\ post'[s].pc = step /\ post'[s].at = post[s].at
<1>1. post[s] \in Posts /\ BatchOk(post[s]) /\ post[s].at \in DOMAIN post[s].batch
  BY CurrentSpan
<1>2. PICK r : r = [post[s] EXCEPT !.pc = step]
  OBVIOUS
<1>3. /\ r \in Posts /\ r.pc = step /\ r.batch = post[s].batch /\ r.at = post[s].at
      /\ r.ok = post[s].ok
  BY <1>1, <1>2 DEF Posts
<1>4. post' = [post EXCEPT ![s] = r]
  BY <1>2 DEF Goto
<1>5. \A z \in Slots : post'[z] = IF z = s THEN r ELSE post[z]
  BY <1>4 DEF TelemetryInv, TelemetryType
<1>6. PICK o : o = [post[s] EXCEPT !.pc = "look"]
  OBVIOUS
<1>7. /\ o \in Posts /\ o.pc = "look" /\ o.batch = post[s].batch /\ o.at = post[s].at
      /\ o.ok = post[s].ok
  BY <1>1, <1>6 DEF Posts
<1>8. BatchOk(o)'
  <2>1. BatchOk(o)
    BY <1>1, <1>7 DEF BatchOk
  <2> QED
    BY <1>7, <2>1, BatchStays DEF TelemetryInv
<1>9. BatchOk(r)'
  <2>1. step = "link" => Confirmed(r.batch[r.at])'
    BY <1>3 DEF Span
  <2> QED
    BY <1>1, <1>3, <1>7, <1>8, <2>1 DEF BatchOk
<1>10. Batches' /\ post' \in [Slots -> Posts]
  BY <1>3, <1>4, <1>9, OthersStay DEF TelemetryInv
<1> QED
  BY <1>3, <1>5, <1>10

LEMMA OnwardKeeps ==
    ASSUME TelemetryInv, Grows, NEW s \in Slots, post[s].pc \in {"look", "again", "store", "link"},
           NEW ok \in SUBSET Spans, Onward(s, ok), \A x \in ok : Confirmed(x)',
           NEW t, t = Span(s).turn, Handled(t)'
    PROVE  /\ Batches' /\ post' \in [Slots -> Posts]
           /\ \A z \in Slots : post'[z].batch = post[z].batch
           /\ \A z \in Slots : z # s => post'[z] = post[z]
<1>1. /\ post[s] \in Posts /\ BatchOk(post[s]) /\ post[s].at \in 1..Len(post[s].batch)
      /\ post[s].batch \in Seq(Spans)
  BY CurrentSpan
<1>2. PICK r : r = [pc    |-> IF post[s].at = Len(post[s].batch) THEN "answer" ELSE "look",
                    batch |-> post[s].batch,
                    at    |-> post[s].at + 1,
                    ok    |-> post[s].ok \cup ok]
  OBVIOUS
<1>3. /\ r.pc = IF post[s].at = Len(post[s].batch) THEN "answer" ELSE "look"
      /\ r.batch = post[s].batch /\ r.at = post[s].at + 1 /\ r.ok = post[s].ok \cup ok
  BY <1>2
<1>4. post[s].at \in Nat \ {0} /\ post[s].at + 1 \in Nat \ {0} /\ post[s].ok \in SUBSET Spans
  BY <1>1 DEF Posts
<1>5. r \in Posts
  <2>1. /\ (IF post[s].at = Len(post[s].batch) THEN "answer" ELSE "look")
              \in {"free", "look", "again", "store", "link", "answer"}
        /\ post[s].ok \cup ok \in SUBSET Spans
    BY <1>4
  <2> QED
    BY <1>1, <1>2, <1>4, <2>1 DEF Posts
<1>6. post' = [post EXCEPT ![s] = r]
  BY <1>2 DEF Onward
<1>7. \A z \in Slots : post'[z] = IF z = s THEN r ELSE post[z]
  BY <1>6 DEF TelemetryInv, TelemetryType
<1>8. PICK o : o = post[s]
  OBVIOUS
<1>9. BatchOk(o)'
  BY <1>1, <1>8, BatchStays DEF TelemetryInv
<1>10. BatchOk(r)'
  <2>1. r.pc = "look" => r.at \in DOMAIN r.batch
    BY <1>1, <1>3, <1>4
  <2>2. r.pc = "answer" => r.at = Len(r.batch) + 1
    BY <1>3
  <2>3. ASSUME NEW q \in DOMAIN r.batch, q < r.at PROVE Handled(r.batch[q].turn)'
    <3>1. q = o.at \/ q < o.at
      BY <1>1, <1>3, <1>4, <1>8, <2>3
    <3>2. q = o.at => r.batch[q].turn = t
      BY <1>3, <1>8 DEF Span
    <3> QED
      BY <1>3, <1>8, <1>9, <3>1, <3>2 DEF BatchOk
  <2>4. \A x \in r.ok : Confirmed(x)'
    BY <1>3, <1>8, <1>9 DEF BatchOk
  <2>5. (\A q \in DOMAIN r.batch : Sent(r.batch[q])') /\ Following(r.batch)'
    BY <1>3, <1>8, <1>9 DEF BatchOk
  <2>6. r.pc \in {"look", "answer"}
    BY <1>3
  <2> QED
    BY <2>1, <2>2, <2>3, <2>4, <2>5, <2>6 DEF BatchOk
<1>11. Batches' /\ post' \in [Slots -> Posts]
  BY <1>5, <1>6, <1>10, OthersStay DEF TelemetryInv
<1> QED
  BY <1>3, <1>7, <1>11

(* One request moves: the others that link still do.                       *)
LEMMA LinkingStays ==
    ASSUME NEW s \in Slots, \A z \in Slots : z # s => post'[z] = post[z],
           NEW i, Linking(i)
    PROVE  Linking(i)' \/ (post[s].pc = "link" /\ Span(s).turn = i)
BY DEF Linking, Span

LEMMA LookStep ==
    ASSUME TelemetryInv, NEW s \in Slots, Look(s)
    PROVE  TelemetryInv'
<1>1. /\ post[s].pc \in {"look", "again"}
      /\ UNCHANGED <<route, said, open, ended, done, waits, told, stored, edges, hit>>
  BY DEF Look, Client
<1>2. Grows
  BY <1>1 DEF Grows, TelemetryInv, TelemetryType
<1>3. PICK x : x = Span(s)
  OBVIOUS
<1>4. x \in Spans /\ Names(x.id, x.turn) /\ x.id \in Ids /\ x.turn # 0
  BY <1>1, <1>3, CurrentSpan
<1>5. /\ Batches' /\ post' \in [Slots -> Posts]
      /\ \A z \in Slots : post'[z].batch = post[z].batch
      /\ \A z \in Slots : z # s => post'[z] = post[z]
  <2>1. CASE stored[x.id] # 0
    <3>1. Names(x.id, stored[x.id])
      BY <1>4, <2>1 DEF TelemetryInv, Recorded
    <3>2. stored[x.id] = x.turn
      BY <1>4, <3>1, OneTurn DEF TelemetryInv
    <3>3. Confirmed(x) /\ Handled(x.turn)
      BY <1>4, <3>2 DEF Confirmed, Handled, IsStored
    <3>4. Confirmed(x)' /\ Handled(x.turn)'
      BY <1>2, <1>4, <3>3, ConfirmedStays, HandledStays DEF TelemetryInv
    <3>5. Onward(s, {x})
      BY <1>3, <2>1 DEF Look
    <3>6. {x} \in SUBSET Spans /\ \A y \in {x} : Confirmed(y)'
      BY <1>4, <3>4
    <3> QED
      BY <1>1, <1>2, <1>3, <3>4, <3>5, <3>6, OnwardKeeps
  <2>2. CASE stored[x.id] = 0
    <3>1. PICK step \in {"again", "store"} : Goto(s, step)
      BY <1>3, <2>2 DEF Look
    <3> QED
      BY <1>1, <1>2, <1>3, <3>1, GotoKeeps
  <2> QED
    BY <2>1, <2>2
<1>6. TelemetryType'
  BY <1>1, <1>5 DEF TelemetryInv, TelemetryType, Ids, Spans
<1>7. Exported'
  <2>1. waits' = None \/ (waits' = waits /\ post'[waits].batch = post[waits].batch)
    BY <1>1, <1>5 DEF TelemetryInv, TelemetryType
  <2> QED
    BY <1>1, <1>2, <2>1, ExportedStays DEF TelemetryInv
<1>8. Recorded'
  <2>1. \A i : Linking(i) => Linking(i)'
    BY <1>1, <1>5, LinkingStays
  <2>2. \A y \in told' : Confirmed(y)'
    BY <1>1, <1>2, ConfirmedStays DEF TelemetryInv, Recorded
  <2>3. \A i : IsStored(i)' => IsStored(i)
    BY <1>1 DEF IsStored
  <2> QED
    BY <1>1, <1>2, <2>1, <2>2, <2>3, RecordedStays DEF TelemetryInv, Recorded
<1> QED
  BY <1>5, <1>6, <1>7, <1>8 DEF TelemetryInv

LEMMA StoreStep ==
    ASSUME TelemetryInv, NEW s \in Slots, Store(s)
    PROVE  TelemetryInv'
<1>1. /\ post[s].pc = "store" /\ Goto(s, "link")
      /\ UNCHANGED <<route, said, open, ended, done, waits, told, edges, hit>>
  BY DEF Store, Client
<1>2. PICK x : x = Span(s)
  OBVIOUS
<1>3. x \in Spans /\ Names(x.id, x.turn) /\ x.id \in Ids /\ x.turn # 0 /\ x.turn \in Nat
  <2>1. x \in Spans /\ Names(x.id, x.turn) /\ x.id \in Ids /\ x.turn # 0
    BY <1>1, <1>2, CurrentSpan
  <2> QED
    BY <2>1 DEF Spans
<1>4. stored' = [stored EXCEPT ![x.id] = x.turn]
  BY <1>2 DEF Store
<1>5. /\ stored' \in [Ids -> Nat]
      /\ \A id \in Ids : stored'[id] = IF id = x.id THEN x.turn ELSE stored[id]
  BY <1>3, <1>4 DEF TelemetryInv, TelemetryType
<1>6. Grows
  <2>1. ASSUME stored[x.id] # 0 PROVE stored[x.id] = x.turn
    <3>1. Names(x.id, stored[x.id])
      BY <1>3, <2>1 DEF TelemetryInv, Recorded
    <3> QED
      BY <1>3, <3>1, OneTurn DEF TelemetryInv
  <2> QED
    BY <1>1, <1>5, <2>1 DEF Grows
<1>7. Confirmed(x)'
  BY <1>1, <1>3, <1>5, NamesStay DEF Confirmed
<1>8. /\ Batches' /\ post' \in [Slots -> Posts]
      /\ \A z \in Slots : post'[z].batch = post[z].batch
      /\ \A z \in Slots : z # s => post'[z] = post[z]
      /\ post'[s].pc = "link" /\ post'[s].at = post[s].at
  BY <1>1, <1>2, <1>6, <1>7, GotoKeeps
<1>9. TelemetryType'
  BY <1>1, <1>5, <1>8 DEF TelemetryInv, TelemetryType, Ids, Spans
<1>10. Exported'
  <2>1. waits' = None \/ (waits' = waits /\ post'[waits].batch = post[waits].batch)
    BY <1>1, <1>8 DEF TelemetryInv, TelemetryType
  <2> QED
    BY <1>1, <1>6, <2>1, ExportedStays DEF TelemetryInv
<1>11. Recorded'
  <2>1. \A i : Linking(i) => Linking(i)'
    BY <1>1, <1>8, LinkingStays
  <2>2. \A y \in told' : Confirmed(y)'
    BY <1>1, <1>6, ConfirmedStays DEF TelemetryInv, Recorded
  <2>3. Linking(x.turn)'
    BY <1>2, <1>8 DEF Linking, Span
  <2>4. \A i : IsStored(i)' => IsStored(i) \/ Linking(i)'
    BY <1>3, <1>5, <2>3 DEF IsStored, Ids
  <2>5. \A id \in Ids : stored'[id] # 0 => Names(id, stored'[id])
    BY <1>3, <1>5 DEF TelemetryInv, Recorded
  <2> QED
    BY <1>1, <1>6, <2>1, <2>2, <2>4, <2>5, RecordedStays DEF TelemetryInv
<1> QED
  BY <1>8, <1>9, <1>10, <1>11 DEF TelemetryInv

(* The link to the turn before is made now, unless that was hit: in the    *)
(* same batch it came first, and in an earlier one it was handled.         *)
LEMMA LinkStep ==
    ASSUME TelemetryInv, NEW s \in Slots, Link(s)
    PROVE  TelemetryInv'
<1>1. /\ post[s].pc = "link"
      /\ UNCHANGED <<route, said, open, ended, done, waits, told, stored, hit>>
  BY DEF Link, Client
<1>2. Grows
  BY <1>1 DEF Grows, TelemetryInv, TelemetryType
<1>3. PICK x : x = Span(s)
  OBVIOUS
<1>4. /\ x \in Spans /\ Sent(x) /\ Names(x.id, x.turn) /\ x.id \in Ids /\ x.turn # 0
      /\ BatchOk(post[s]) /\ post[s].at \in DOMAIN post[s].batch
  BY <1>1, <1>3, CurrentSpan
<1>5. /\ edges' = edges \cup {<<i, x.id>> : i \in {i \in x.inputs : stored[i] # 0}}
      /\ Onward(s, {x})
  BY <1>3 DEF Link
<1>6. Confirmed(x) /\ Handled(x.turn)
  <2>1. Confirmed(x)
    BY <1>1, <1>3, <1>4 DEF BatchOk, Span
  <2> QED
    BY <1>4, <2>1 DEF Confirmed, Handled, IsStored
<1>7. Confirmed(x)' /\ Handled(x.turn)'
  BY <1>2, <1>4, <1>6, ConfirmedStays, HandledStays DEF TelemetryInv
<1>8. /\ Batches' /\ post' \in [Slots -> Posts]
      /\ \A z \in Slots : post'[z].batch = post[z].batch
      /\ \A z \in Slots : z # s => post'[z] = post[z]
  <2>1. {x} \in SUBSET Spans /\ \A y \in {x} : Confirmed(y)'
    BY <1>4, <1>7
  <2> QED
    BY <1>1, <1>2, <1>3, <1>5, <1>7, <2>1, OnwardKeeps
<1>9. edges' \subseteq Ids \X Ids /\ edges \subseteq edges'
  <2>1. x.inputs \in SUBSET Ids
    BY <1>4 DEF Spans
  <2>2. edges \subseteq Ids \X Ids
    BY DEF TelemetryInv, TelemetryType
  <2> QED
    BY <1>4, <1>5, <2>1, <2>2
<1>10. TelemetryType'
  BY <1>1, <1>8, <1>9 DEF TelemetryInv, TelemetryType, Ids, Spans
<1>11. Exported'
  <2>1. waits' = None \/ (waits' = waits /\ post'[waits].batch = post[waits].batch)
    BY <1>1, <1>8 DEF TelemetryInv, TelemetryType
  <2> QED
    BY <1>1, <1>2, <2>1, ExportedStays DEF TelemetryInv
<1>12. ASSUME NEW j \in Before(x.turn), said[x.turn] \notin Loose
       PROVE  Joined(j, x.turn)' \/ j \in hit
  <2>1. PICK id \in x.inputs : Names(id, j)
    BY <1>4, <1>12 DEF Sent
  <2>2. id \in Ids /\ j # 0
    BY <2>1, NamesIs DEF TelemetryInv
  <2>3. CASE stored[id] # 0
    <3>1. stored[id] = j
      <4>1. Names(id, stored[id])
        BY <2>2, <2>3 DEF TelemetryInv, Recorded
      <4> QED
        BY <2>1, <4>1, OneTurn DEF TelemetryInv
    <3>2. PICK e : e = <<id, x.id>>
      OBVIOUS
    <3>3. e \in edges' /\ e[1] = id /\ e[2] = x.id
      BY <1>5, <2>1, <2>3, <3>2
    <3>4. stored'[e[1]] = j /\ stored'[e[2]] = x.turn
      BY <1>1, <1>6, <3>1, <3>3 DEF Confirmed
    <3> QED
      BY <3>3, <3>4 DEF Joined
  <2>4. CASE stored[id] = 0
    <3>1. Handled(j)
      <4>1. \/ Handled(j)
            \/ \E p \in 1..(post[s].at - 1) : post[s].batch[p].turn = j
        BY <1>3, <1>4, <1>12 DEF BatchOk, Following, Span
      <4>2. ASSUME NEW p \in 1..(post[s].at - 1), post[s].batch[p].turn = j PROVE Handled(j)
        <5>1. p \in DOMAIN post[s].batch /\ p < post[s].at
          BY <1>1, CurrentSpan
        <5> QED
          BY <1>4, <4>2, <5>1 DEF BatchOk
      <4> QED
        BY <4>1, <4>2
    <3>2. ~IsStored(j)
      <4> SUFFICES ASSUME NEW n \in Ids, stored[n] = j PROVE FALSE
        BY DEF IsStored
      <4>1. Names(n, j)
        BY <2>2 DEF TelemetryInv, Recorded
      <4>2. n = id
        BY <2>1, <4>1 DEF Names
      <4> QED
        BY <2>2, <2>4, <4>2
    <3> QED
      BY <3>1, <3>2 DEF Handled
  <2> QED
    BY <2>3, <2>4
<1>13. Recorded'
  <2>1. \A i \in DOMAIN said : \A j \in Before(i) : Linking(i) /\ said[i] \notin Loose =>
            Linking(i)' \/ Joined(j, i)' \/ {i, j} \cap hit' # {}
    BY <1>1, <1>3, <1>8, <1>12, LinkingStays
  <2>2. \A y \in told' : Confirmed(y)'
    BY <1>1, <1>2, ConfirmedStays DEF TelemetryInv, Recorded
  <2>3. \A i : IsStored(i)' => IsStored(i)
    BY <1>1 DEF IsStored
  <2>4. \A id \in Ids : stored'[id] # 0 => Names(id, stored'[id])
    BY <1>1 DEF TelemetryInv, Recorded
  <2> QED
    BY <1>2, <1>9, <2>1, <2>2, <2>3, <2>4, RecordedStays DEF TelemetryInv
<1> QED
  BY <1>8, <1>10, <1>11, <1>13 DEF TelemetryInv

LEMMA FailStep ==
    ASSUME TelemetryInv, NEW s \in Slots, Fail(s)
    PROVE  TelemetryInv'
<1>1. /\ post[s].pc \in {"look", "again", "store", "link"} /\ Onward(s, {})
      /\ UNCHANGED <<route, said, open, ended, done, waits, told, stored, edges>>
  BY DEF Fail, Client
<1>2. PICK t : t = Span(s).turn
  OBVIOUS
<1>3. hit' = hit \cup {t}
  BY <1>2 DEF Fail
<1>4. Grows
  BY <1>1, <1>3 DEF Grows, TelemetryInv, TelemetryType
<1>5. /\ Batches' /\ post' \in [Slots -> Posts]
      /\ \A z \in Slots : post'[z].batch = post[z].batch
      /\ \A z \in Slots : z # s => post'[z] = post[z]
  <2>1. Handled(t)'
    BY <1>3 DEF Handled
  <2>2. {} \in SUBSET Spans /\ \A y \in {} : Confirmed(y)'
    OBVIOUS
  <2> QED
    BY <1>1, <1>2, <1>4, <2>1, <2>2, OnwardKeeps
<1>6. TelemetryType'
  BY <1>1, <1>5 DEF TelemetryInv, TelemetryType, Ids, Spans
<1>7. Exported'
  <2>1. waits' = None \/ (waits' = waits /\ post'[waits].batch = post[waits].batch)
    BY <1>1, <1>5 DEF TelemetryInv, TelemetryType
  <2> QED
    BY <1>1, <1>4, <2>1, ExportedStays DEF TelemetryInv
<1>8. Recorded'
  <2>1. \A i : Linking(i) => Linking(i)' \/ i \in hit'
    BY <1>2, <1>3, <1>5, LinkingStays
  <2>2. \A y \in told' : Confirmed(y)'
    BY <1>1, <1>4, ConfirmedStays DEF TelemetryInv, Recorded
  <2>3. \A i : IsStored(i)' => IsStored(i)
    BY <1>1 DEF IsStored
  <2>4. \A id \in Ids : stored'[id] # 0 => Names(id, stored'[id])
    BY <1>1 DEF TelemetryInv, Recorded
  <2> QED
    BY <1>1, <1>4, <2>1, <2>2, <2>3, <2>4, RecordedStays DEF TelemetryInv
<1> QED
  BY <1>5, <1>6, <1>7, <1>8 DEF TelemetryInv

LEMMA FreeOk == Free \in Posts /\ BatchOk(Free)
<1>1. << >> \in Seq(Spans) /\ {} \in SUBSET Spans /\ 1 \in Nat \ {0}
  OBVIOUS
<1>2. Free \in Posts
  BY <1>1 DEF Free, Posts
<1> QED
  BY <1>2 DEF Free, BatchOk, Following

LEMMA FreeAgain ==
    ASSUME TelemetryInv, Grows, NEW s \in Slots, post' = [post EXCEPT ![s] = Free]
    PROVE  /\ Batches' /\ post' \in [Slots -> Posts]
           /\ \A z \in Slots : z # s => post'[z] = post[z]
<1>1. PICK r : r = Free
  OBVIOUS
<1>2. r \in Posts /\ BatchOk(r)
  BY <1>1, FreeOk
<1>3. BatchOk(r)' /\ post' = [post EXCEPT ![s] = r]
  BY <1>1, <1>2, BatchStays DEF TelemetryInv
<1>4. Batches' /\ post' \in [Slots -> Posts]
  BY <1>2, <1>3, OthersStay DEF TelemetryInv
<1> QED
  BY <1>4 DEF TelemetryInv, TelemetryType

LEMMA KilledStep ==
    ASSUME TelemetryInv, NEW s \in Slots, Killed(s)
    PROVE  TelemetryInv'
<1>1. /\ post[s].pc \in {"look", "again", "store", "link"} /\ post' = [post EXCEPT ![s] = Free]
      /\ waits' = IF waits = s THEN None ELSE waits
      /\ UNCHANGED <<route, said, open, ended, done, told, stored, edges>>
  BY DEF Killed
<1>2. PICK t : t = Span(s).turn
  OBVIOUS
<1>3. hit' = hit \cup {t}
  BY <1>2 DEF Killed
<1>4. Grows
  BY <1>1, <1>3 DEF Grows, TelemetryInv, TelemetryType
<1>5. /\ Batches' /\ post' \in [Slots -> Posts]
      /\ \A z \in Slots : z # s => post'[z] = post[z]
  BY <1>1, <1>4, FreeAgain
<1>6. TelemetryType'
  BY <1>1, <1>5 DEF TelemetryInv, TelemetryType, Ids, Spans
<1>7. Exported'
  <2>1. waits' = None \/ (waits' = waits /\ post'[waits].batch = post[waits].batch)
    BY <1>1, <1>5 DEF TelemetryInv, TelemetryType
  <2> QED
    BY <1>1, <1>4, <2>1, ExportedStays DEF TelemetryInv
<1>8. Recorded'
  <2>1. \A i : Linking(i) => Linking(i)' \/ i \in hit'
    BY <1>2, <1>3, <1>5, LinkingStays
  <2>2. \A y \in told' : Confirmed(y)'
    BY <1>1, <1>4, ConfirmedStays DEF TelemetryInv, Recorded
  <2>3. \A i : IsStored(i)' => IsStored(i)
    BY <1>1 DEF IsStored
  <2>4. \A id \in Ids : stored'[id] # 0 => Names(id, stored'[id])
    BY <1>1 DEF TelemetryInv, Recorded
  <2> QED
    BY <1>1, <1>4, <2>1, <2>2, <2>3, <2>4, RecordedStays DEF TelemetryInv
<1> QED
  BY <1>5, <1>6, <1>7, <1>8 DEF TelemetryInv

-----------------------------------------------------------------------------
(* The client.                                                             *)
LEMMA DoneMoves ==
    ASSUME TelemetryInv, Grows, UNCHANGED <<open, ended>>, waits # None, waits' = None,
           route = "otlp", NEW b, b = post[waits].batch, done' = done + Len(b),
           \A q \in DOMAIN b : Handled(b[q].turn)'
    PROVE  Exported'
<1> DEFINE n == Len(b)
<1>1. /\ ended \in Seq(DOMAIN said) /\ done \in 0..Len(ended)
      /\ \A q \in 1..done : Handled(ended[q])
      /\ done + n <= Len(ended)
      /\ \A q \in DOMAIN b : b[q].turn = ended[done + q]
  BY DEF TelemetryInv, Exported
<1>2. n \in Nat /\ DOMAIN b = 1..n
  <2>1. b \in Seq(Spans)
    BY DEF TelemetryInv, TelemetryType, Posts
  <2> QED
    BY <2>1
<1> HIDE DEF n
<1>3. done' = done + n
  BY DEF n
<1>4. done' \in 0..Len(ended)
  BY <1>1, <1>2, <1>3
<1>5. ASSUME NEW q \in 1..done' PROVE Handled(ended[q])'
  <2>1. CASE q <= done
    <3>1. q \in 1..done
      BY <1>1, <2>1
    <3>2. ended[q] \in DOMAIN said
      BY <1>1, <3>1
    <3>3. PICK t : t = ended[q]
      OBVIOUS
    <3>4. t # 0 /\ Handled(t)
      BY <1>1, <3>1, <3>2, <3>3 DEF TelemetryInv, TelemetryType
    <3>5. Handled(t)'
      BY <3>4, HandledStays DEF TelemetryInv
    <3> QED
      BY <3>3, <3>5
  <2>2. CASE ~(q <= done)
    <3>1. q - done \in DOMAIN b /\ done + (q - done) = q
      BY <1>1, <1>2, <1>3, <2>2
    <3>2. PICK t : t = b[q - done].turn
      OBVIOUS
    <3>3. Handled(t)'
      BY <3>1, <3>2
    <3>4. t = ended[q]
      BY <1>1, <3>1, <3>2
    <3> QED
      BY <3>3, <3>4
  <2> QED
    BY <2>1, <2>2
<1> QED
  BY <1>4, <1>5 DEF TelemetryInv, Exported, Grows, Linked

LEMMA AnswerStep ==
    ASSUME TelemetryInv, NEW s \in Slots, Answer(s)
    PROVE  TelemetryInv'
<1>1. /\ post[s].pc = "answer" /\ post' = [post EXCEPT ![s] = Free]
      /\ UNCHANGED <<route, said, open, ended, stored, edges, hit>>
  BY DEF Answer
<1>2. Grows
  BY <1>1 DEF Grows, TelemetryInv, TelemetryType
<1>3. /\ Batches' /\ post' \in [Slots -> Posts]
      /\ \A z \in Slots : z # s => post'[z] = post[z]
  BY <1>1, <1>2, FreeAgain
<1>4. post[s] \in Posts /\ BatchOk(post[s])
  BY DEF TelemetryInv, TelemetryType, Batches
<1>5. PICK ok : ok = post[s].ok
  OBVIOUS
<1>6. told' \subseteq told \cup ok /\ waits' \in {waits, None}
  BY <1>5 DEF Answer
<1>7. ok \subseteq Spans /\ \A x \in ok : Confirmed(x)
  BY <1>4, <1>5 DEF Posts, BatchOk
<1>8. TelemetryType'
  BY <1>1, <1>3, <1>6, <1>7 DEF TelemetryInv, TelemetryType, Ids, Spans
<1>9. Exported'
  <2>1. CASE waits # s \/ route # "otlp"
    <3>1. waits' = None \/ (waits' = waits /\ post'[waits].batch = post[waits].batch)
      BY <1>3, <2>1 DEF Answer, TelemetryInv, TelemetryType
    <3>2. done' = done
      BY <2>1 DEF Answer
    <3> QED
      BY <1>1, <1>2, <3>1, <3>2, ExportedStays DEF TelemetryInv
  <2>2. CASE waits = s /\ route = "otlp"
    <3>1. PICK b : b = post[s].batch
      OBVIOUS
    <3>2. b \in Seq(Spans) /\ post[s].at = Len(b) + 1
      BY <1>1, <1>4, <3>1 DEF BatchOk, Posts
    <3>3. ASSUME NEW q \in DOMAIN b PROVE Handled(b[q].turn)'
      <4>1. q \in DOMAIN post[s].batch /\ q < post[s].at
        BY <3>1, <3>2
      <4>2. PICK t : t = b[q].turn
        OBVIOUS
      <4>3. Handled(t) /\ Sent(b[q])
        BY <1>4, <3>1, <4>1, <4>2 DEF BatchOk
      <4>4. t # 0
        BY <4>2, <4>3, NamesIs DEF Sent, TelemetryInv
      <4>5. Handled(t)'
        BY <1>2, <4>3, <4>4, HandledStays DEF TelemetryInv
      <4> QED
        BY <4>2, <4>5
    <3>4. waits # None /\ waits' = None /\ done' = done + Len(b)
      BY <2>2, <3>1, TurnAssumption DEF Answer
    <3> QED
      BY <1>1, <1>2, <2>2, <3>1, <3>3, <3>4, DoneMoves
  <2> QED
    BY <2>1, <2>2
<1>10. Recorded'
  <2>1. \A i : Linking(i) => Linking(i)'
    BY <1>1, <1>3, LinkingStays
  <2>2. \A y \in told' : Confirmed(y)'
    BY <1>2, <1>6, <1>7, ConfirmedStays DEF TelemetryInv, Recorded
  <2>3. \A i : IsStored(i)' => IsStored(i)
    BY <1>1 DEF IsStored
  <2>4. \A id \in Ids : stored'[id] # 0 => Names(id, stored'[id])
    BY <1>1 DEF TelemetryInv, Recorded
  <2> QED
    BY <1>1, <1>2, <2>1, <2>2, <2>3, <2>4, RecordedStays DEF TelemetryInv
<1> QED
  BY <1>3, <1>8, <1>9, <1>10 DEF TelemetryInv

LEMMA GiveUpStep ==
    ASSUME TelemetryInv, GiveUp
    PROVE  TelemetryInv'
<1>1. /\ waits # None /\ waits' = None
      /\ UNCHANGED <<route, said, open, ended, post, stored, edges, told>>
  BY DEF GiveUp
<1>2. PICK b : b = post[waits].batch
  OBVIOUS
<1>3. \/ UNCHANGED <<done, hit>>
      \/ /\ route = "otlp" /\ done' = done + Len(b)
         /\ hit' = hit \cup {x.turn : x \in ToSet(b)}
  BY <1>2 DEF GiveUp
<1>4. Grows
  BY <1>1, <1>3 DEF Grows, TelemetryInv, TelemetryType
<1>5. Batches'
  <2>1. \A z \in Slots : post[z] \in Posts /\ BatchOk(post[z])
    BY DEF TelemetryInv, TelemetryType, Batches
  <2>2. \A v \in Posts : BatchOk(v) => BatchOk(v)'
    BY <1>4, BatchStays DEF TelemetryInv
  <2>3. \A z \in Slots : BatchOk(post[z])'
    BY <1>1, <2>1, <2>2
  <2> QED
    BY <2>3 DEF Batches
<1>6. TelemetryType'
  BY <1>1 DEF TelemetryInv, TelemetryType, Ids, Spans
<1>7. Exported'
  <2>1. CASE UNCHANGED <<done, hit>>
    BY <1>1, <1>4, <2>1, ExportedStays DEF TelemetryInv
  <2>2. CASE /\ route = "otlp" /\ done' = done + Len(b)
             /\ hit' = hit \cup {x.turn : x \in ToSet(b)}
    <3>1. \A q \in DOMAIN b : b[q].turn \in hit'
      BY <2>2 DEF ToSet
    <3>2. \A t \in hit' : Handled(t)'
      BY DEF Handled
    <3>3. \A q \in DOMAIN b : Handled(b[q].turn)'
      BY <3>1, <3>2
    <3> QED
      BY <1>1, <1>2, <1>4, <2>2, <3>3, DoneMoves
  <2> QED
    BY <1>3, <2>1, <2>2
<1>8. Recorded'
  <2>1. \A i : Linking(i) => Linking(i)'
    BY <1>1 DEF Linking, Span
  <2>2. \A y \in told' : Confirmed(y)'
    BY <1>1, <1>4, ConfirmedStays DEF TelemetryInv, Recorded
  <2>3. \A i : IsStored(i)' => IsStored(i)
    BY <1>1 DEF IsStored
  <2>4. \A id \in Ids : stored'[id] # 0 => Names(id, stored'[id])
    BY <1>1 DEF TelemetryInv, Recorded
  <2> QED
    BY <1>1, <1>4, <2>1, <2>2, <2>3, <2>4, RecordedStays DEF TelemetryInv
<1> QED
  BY <1>5, <1>6, <1>7, <1>8 DEF TelemetryInv

LEMMA EmitStep ==
    ASSUME TelemetryInv, NEW s \in Slots, Emit(s)
    PROVE  TelemetryInv'
<1>1. /\ waits = None /\ post[s] = Free /\ waits' = s
      /\ UNCHANGED <<route, said, open, ended, done, stored, edges, told, hit>>
  BY DEF Emit
<1>2. Grows
  BY <1>1 DEF Grows, TelemetryInv, TelemetryType
<1>3. PICK b : b = Batch
  OBVIOUS
<1>4. PICK r : r = [pc |-> "look", batch |-> b, at |-> 1, ok |-> {}]
  OBVIOUS
<1>5. post' = [post EXCEPT ![s] = r] /\ b # << >>
  BY <1>3, <1>4 DEF Emit
<1>6. /\ b \in Seq(Spans) /\ \A q \in DOMAIN b : Sent(b[q])
      /\ Following(b)
      /\ route = "otlp" => /\ done + Len(b) = Len(ended)
                           /\ \A q \in DOMAIN b : b[q].turn = ended[done + q]
  <2>1. CASE route = "otlp"
    <3>1. b = Mapped(SubSeq(ended, done + 1, Len(ended)))
      BY <1>3, <2>1 DEF Batch
    <3> QED
      BY <2>1, <3>1, ExportBatch DEF TelemetryInv
  <2>2. CASE route # "otlp"
    <3>1. b = TapSpans
      BY <1>3, <2>2 DEF Batch
    <3> QED
      BY <2>2, <3>1, TapBatch DEF TelemetryInv
  <2> QED
    BY <2>1, <2>2
<1>7. r \in Posts /\ r.pc = "look" /\ r.batch = b /\ r.at = 1 /\ r.ok = {}
  <2>1. {} \in SUBSET Spans /\ 1 \in Nat \ {0}
    OBVIOUS
  <2> QED
    BY <1>4, <1>6, <2>1 DEF Posts
<1>8. BatchOk(r)
  <2>1. 1 \in DOMAIN b /\ \A q \in DOMAIN b : ~(q < 1)
    BY <1>5, <1>6
  <2> QED
    BY <1>6, <1>7, <2>1 DEF BatchOk
<1>9. BatchOk(r)'
  BY <1>2, <1>7, <1>8, BatchStays DEF TelemetryInv
<1>10. Batches' /\ post' \in [Slots -> Posts]
  BY <1>2, <1>5, <1>7, <1>9, OthersStay DEF TelemetryInv
<1>11. post'[s] = r /\ \A z \in Slots : z # s => post'[z] = post[z]
  BY <1>5 DEF TelemetryInv, TelemetryType
<1>12. TelemetryType'
  BY <1>1, <1>10 DEF TelemetryInv, TelemetryType, Ids, Spans
<1>13. Exported'
  <2> SUFFICES ASSUME route = "otlp" PROVE Exported'
    BY <1>1 DEF Exported
  <2>1. /\ ended \in Seq(DOMAIN said) /\ done \in 0..Len(ended)
        /\ open \cup Range(ended) = DOMAIN said
        /\ \A q \in DOMAIN ended : Linked(ended[q]) => \E p \in 1..(q - 1) : ended[p] = ended[q] - 1
        /\ \A i \in open : Linked(i) => i - 1 \in Range(ended)
    BY DEF TelemetryInv, Exported
  <2>2. \A i : Linked(i)' <=> Linked(i)
    BY <1>1 DEF Linked
  <2>3. ASSUME NEW q \in 1..done PROVE Handled(ended[q])'
    <3>1. ended[q] \in DOMAIN said
      BY <2>1
    <3>2. PICK t : t = ended[q]
      OBVIOUS
    <3>3. t # 0 /\ Handled(t)
      BY <3>1, <3>2 DEF TelemetryInv, TelemetryType, Exported
    <3>4. Handled(t)'
      BY <1>2, <3>3, HandledStays DEF TelemetryInv
    <3>5. ended'[q] = t
      BY <1>1, <3>2
    <3> QED
      BY <3>4, <3>5 DEF Handled, IsStored
  <2>4. /\ done + Len(b) <= Len(ended)
        /\ \A q \in DOMAIN b : b[q].turn = ended[done + q]
    BY <1>6, <2>1
  <2>5. post'[waits'].batch = b
    BY <1>1, <1>7, <1>11
  <2> QED
    BY <1>1, <2>1, <2>2, <2>3, <2>4, <2>5 DEF Exported
<1>14. Recorded'
  <2>1. \A i : Linking(i) => Linking(i)'
    BY <1>1, <1>11, LinkingStays DEF Free
  <2>2. \A y \in told' : Confirmed(y)'
    BY <1>1, <1>2, ConfirmedStays DEF TelemetryInv, Recorded
  <2>3. \A i : IsStored(i)' => IsStored(i)
    BY <1>1 DEF IsStored
  <2>4. \A id \in Ids : stored'[id] # 0 => Names(id, stored'[id])
    BY <1>1 DEF TelemetryInv, Recorded
  <2> QED
    BY <1>1, <1>2, <2>1, <2>2, <2>3, <2>4, RecordedStays DEF TelemetryInv
<1> QED
  BY <1>10, <1>12, <1>13, <1>14 DEF TelemetryInv

LEMMA EndStep ==
    ASSUME TelemetryInv, NEW i \in open, End(i)
    PROVE  TelemetryInv'
<1>1. /\ open' = open \ {i} /\ ended' = Append(ended, i)
      /\ UNCHANGED <<route, said, done, waits, post, stored, edges, told, hit>>
  BY DEF End
<1>2. TelemetryType'
  BY <1>1 DEF TelemetryInv, TelemetryType, Ids, Spans
<1>3. Batches'
  <2>1. Grows
    BY <1>1 DEF Grows, TelemetryInv, TelemetryType
  <2>2. \A z \in Slots : post[z] \in Posts /\ BatchOk(post[z])
    BY DEF TelemetryInv, TelemetryType, Batches
  <2>3. \A v \in Posts : BatchOk(v) => BatchOk(v)'
    BY <2>1, BatchStays DEF TelemetryInv
  <2>4. \A z \in Slots : BatchOk(post[z])'
    BY <1>1, <2>2, <2>3
  <2> QED
    BY <2>4 DEF Batches
<1>4. Recorded'
  <2>1. Grows
    BY <1>1 DEF Grows, TelemetryInv, TelemetryType
  <2>2. \A z : Linking(z) => Linking(z)'
    BY <1>1 DEF Linking, Span
  <2>3. \A y \in told' : Confirmed(y)'
    BY <1>1, <2>1, ConfirmedStays DEF TelemetryInv, Recorded
  <2>4. \A z : IsStored(z)' => IsStored(z)
    BY <1>1 DEF IsStored
  <2>5. \A id \in Ids : stored'[id] # 0 => Names(id, stored'[id])
    BY <1>1 DEF TelemetryInv, Recorded
  <2> QED
    BY <1>1, <2>1, <2>2, <2>3, <2>4, <2>5, RecordedStays DEF TelemetryInv
<1>5. Exported'
  <2> SUFFICES ASSUME route = "otlp" PROVE Exported'
    BY <1>1 DEF Exported
  <2>1. /\ ended \in Seq(DOMAIN said) /\ done \in 0..Len(ended)
        /\ open \cup Range(ended) = DOMAIN said
        /\ \A q \in DOMAIN ended : Linked(ended[q]) => \E p \in 1..(q - 1) : ended[p] = ended[q] - 1
        /\ \A j \in open : Linked(j) => j - 1 \in Range(ended)
        /\ waits # None =>
              /\ done + Len(post[waits].batch) <= Len(ended)
              /\ \A q \in DOMAIN post[waits].batch : post[waits].batch[q].turn = ended[done + q]
    BY DEF TelemetryInv, Exported
  <2>2. i \in DOMAIN said /\ Len(ended) \in Nat
    BY <2>1
  <2>3. /\ ended' \in Seq(DOMAIN said) /\ Len(ended') = Len(ended) + 1
        /\ DOMAIN ended' = 1..(Len(ended) + 1) /\ DOMAIN ended = 1..Len(ended)
        /\ \A q \in 1..Len(ended) : ended'[q] = ended[q]
        /\ ended'[Len(ended) + 1] = i
    BY <1>1, <2>1, <2>2
  <2>4. Range(ended') = Range(ended) \cup {i}
    <3>1. \A q \in 1..(Len(ended) + 1) : q \in 1..Len(ended) \/ q = Len(ended) + 1
      BY <2>2
    <3>2. Len(ended) + 1 \in 1..(Len(ended) + 1) /\ 1..Len(ended) \subseteq 1..(Len(ended) + 1)
      BY <2>2
    <3>3. \A x \in Range(ended') : x \in Range(ended) \cup {i}
      BY <2>3, <3>1 DEF Range
    <3>4. \A x \in Range(ended) \cup {i} : x \in Range(ended')
      BY <2>3, <3>2 DEF Range
    <3> QED
      BY <3>3, <3>4
  <2>5. \A j : Linked(j)' <=> Linked(j)
    BY <1>1 DEF Linked
  <2>6. ASSUME NEW q \in DOMAIN ended', Linked(ended'[q])
        PROVE  \E p \in 1..(q - 1) : ended'[p] = ended'[q] - 1
    <3>1. CASE q \in 1..Len(ended)
      <4>1. PICK p \in 1..(q - 1) : ended[p] = ended[q] - 1
        BY <2>1, <2>3, <2>6, <3>1
      <4>2. p \in 1..Len(ended)
        BY <2>2, <3>1
      <4> QED
        BY <2>3, <3>1, <4>1, <4>2
    <3>2. CASE q = Len(ended) + 1
      <4>1. i - 1 \in Range(ended) /\ q - 1 = Len(ended)
        BY <2>1, <2>2, <2>3, <2>6, <3>2
      <4>2. PICK p \in 1..Len(ended) : ended[p] = i - 1
        BY <2>3, <4>1 DEF Range
      <4> QED
        BY <2>3, <3>2, <4>1, <4>2
    <3> QED
      BY <2>2, <2>3, <3>1, <3>2
  <2>7. ASSUME NEW q \in 1..done' PROVE Handled(ended[q])'
    <3>1. q \in 1..done /\ q \in 1..Len(ended)
      BY <1>1, <2>1, <2>2
    <3>2. PICK t : t = ended[q]
      OBVIOUS
    <3>3. Handled(t) /\ ended'[q] = t
      BY <2>3, <3>1, <3>2 DEF TelemetryInv, Exported
    <3>4. Handled(t)'
      BY <1>1, <3>3 DEF Handled, IsStored
    <3> QED
      BY <3>3, <3>4 DEF Handled, IsStored
  <2>8. /\ open' \cup Range(ended') = DOMAIN said
        /\ \A j \in open' : Linked(j) => j - 1 \in Range(ended')
    BY <1>1, <2>1, <2>4
  <2>9. PICK b : b = post[waits].batch
    OBVIOUS
  <2>10. ASSUME waits # None
         PROVE  /\ done + Len(b) <= Len(ended')
                /\ \A q \in DOMAIN b : b[q].turn = ended'[done + q]
    <3>1. Len(b) \in Nat /\ DOMAIN b = 1..Len(b)
      <4>1. b \in Seq(Spans)
        BY <2>9, <2>10 DEF TelemetryInv, TelemetryType, Posts
      <4> QED
        BY <4>1
    <3>2. done + Len(b) <= Len(ended) /\ \A q \in DOMAIN b : b[q].turn = ended[done + q]
      BY <2>1, <2>9, <2>10
    <3>3. \A q \in DOMAIN b : done + q \in 1..Len(ended)
      BY <2>1, <2>2, <3>1, <3>2
    <3> QED
      BY <2>1, <2>2, <2>3, <3>1, <3>2, <3>3
  <2>11. done' \in 0..Len(ended')
    BY <1>1, <2>1, <2>2, <2>3
  <2>12. /\ \A q \in 1..done' : Handled(ended[q])'
         /\ \A q \in DOMAIN ended' : Linked(ended'[q]) => \E p \in 1..(q - 1) : ended'[p] = ended'[q] - 1
    BY <2>6, <2>7
  <2>13. post'[waits'].batch = b /\ UNCHANGED <<route, said, done, waits>>
    BY <1>1, <2>9
  <2> QED
    BY <2>3, <2>5, <2>8, <2>10, <2>11, <2>12, <2>13 DEF Exported
<1> QED
  BY <1>2, <1>3, <1>4, <1>5 DEF TelemetryInv

-----------------------------------------------------------------------------
(* The agents.  What was said of the turns so far stays as it is.          *)
LEMMA SaidGrows ==
    ASSUME TelemetryType, NEW kind, said' = Append(said, kind), UNCHANGED route
    PROVE  /\ Len(said) \in Nat /\ Len(said') = Len(said) + 1
           /\ DOMAIN said = 1..Len(said) /\ DOMAIN said' = 1..(Len(said) + 1)
           /\ said'[Len(said) + 1] = kind
           /\ \A i \in 1..Len(said) : /\ i \in Nat /\ i \in DOMAIN said'
                                      /\ said'[i] = said[i]
                                      /\ Before(i)' = Before(i)
           /\ \A id, t : Names(id, t) => Names(id, t)'
<1>1. /\ Len(said) \in Nat /\ Len(said') = Len(said) + 1
      /\ DOMAIN said = 1..Len(said) /\ DOMAIN said' = 1..(Len(said) + 1)
      /\ said'[Len(said) + 1] = kind
      /\ \A i \in 1..Len(said) : said'[i] = said[i]
  BY DEF TelemetryType
<1>2. \A i \in 1..Len(said) : i \in Nat /\ i \in DOMAIN said'
  BY <1>1
<1>3. \A i \in 1..Len(said) : Counts(i)' <=> Counts(i)
  BY <1>1 DEF Counts
<1>4. ASSUME NEW i \in 1..Len(said) PROVE Before(i)' = Before(i)
  <2>1. \A j \in 1..(i - 1) : j \in 1..Len(said) /\ \A k \in (j + 1)..(i - 1) : k \in 1..Len(said)
    BY <1>1
  <2>2. \A j \in 1..(i - 1) : /\ Counts(j)' <=> Counts(j)
                              /\ \A k \in (j + 1)..(i - 1) : Counts(k)' <=> Counts(k)
    BY <1>3, <2>1
  <2> QED
    BY <2>2 DEF Before
<1>5. ASSUME NEW id, NEW t, Names(id, t) PROVE Names(id, t)'
  <2>1. t \in 1..Len(said) /\ t \in DOMAIN said' /\ Counts(t)' /\ id = Rank(t)
    BY <1>1, <1>2, <1>3, <1>5 DEF Names
  <2>2. \A j \in 1..t : j \in 1..Len(said)
    BY <1>1, <2>1
  <2>3. {j \in 1..t : Counts(j)'} = {j \in 1..t : Counts(j)}
    BY <1>3, <2>2
  <2>4. Rank(t)' = Rank(t)
    BY <2>3 DEF Rank
  <2> QED
    BY <2>1, <2>4 DEF Names
<1> QED
  BY <1>1, <1>2, <1>4, <1>5

LEMMA SayStep ==
    ASSUME TelemetryInv, NEW kind \in Kinds(route), Say(kind)
    PROVE  TelemetryInv'
<1> DEFINE n == Len(said)
<1>1. /\ n < MaxTurns /\ Going /\ said' = Append(said, kind)
      /\ kind \in {"twin", "link"} => n \notin open
      /\ open' = IF route = "otlp" THEN open \cup {Len(said')} ELSE open
      /\ UNCHANGED <<route, ended, done, waits, post, stored, edges, told, hit>>
  BY DEF Say
<1>2. /\ n \in Nat /\ Len(said') = n + 1
      /\ DOMAIN said = 1..n /\ DOMAIN said' = 1..(n + 1) /\ said'[n + 1] = kind
      /\ \A i \in 1..n : i \in Nat /\ i \in DOMAIN said' /\ said'[i] = said[i] /\ Before(i)' = Before(i)
      /\ \A id, t : Names(id, t) => Names(id, t)'
  BY <1>1, SaidGrows DEF TelemetryInv
<1>3. TelemetryType'
  <2>1. n + 1 <= MaxTurns
    BY <1>1, <1>2, TurnAssumption
  <2>2. said \in Seq(Kinds(route)) /\ Kinds(route)' = Kinds(route)
    BY <1>1 DEF TelemetryInv, TelemetryType, Kinds
  <2>3. said' \in Seq(Kinds(route)')
    BY <1>1, <2>2
  <2> QED
    BY <1>1, <1>2, <2>1, <2>3 DEF TelemetryInv, TelemetryType, Ids, Spans
<1> HIDE DEF n
<1>4. \A t : Handled(t)' <=> Handled(t)
  BY <1>1 DEF Handled, IsStored
<1>5. ASSUME NEW x, Sent(x) PROVE Sent(x)' /\ x.turn \in 1..n
  <2>1. Names(x.id, x.turn) /\ x.turn \in 1..n
    BY <1>2, <1>5 DEF Sent, Names
  <2>2. said'[x.turn] = said[x.turn] /\ Before(x.turn)' = Before(x.turn)
    BY <1>2, <2>1
  <2> QED
    BY <1>2, <1>5, <2>1, <2>2 DEF Sent
<1>6. \A x : Confirmed(x) => Confirmed(x)'
  BY <1>1, <1>2 DEF Confirmed
<1>7. Batches'
  <2>1. ASSUME NEW r \in Posts, BatchOk(r) PROVE BatchOk(r)'
    <3>1. \A q \in DOMAIN r.batch : Sent(r.batch[q])' /\ r.batch[q].turn \in 1..n
      BY <1>5, <2>1 DEF BatchOk
    <3>2. Following(r.batch)'
      <4>1. \A q \in DOMAIN r.batch : /\ said'[r.batch[q].turn] = said[r.batch[q].turn]
                                      /\ Before(r.batch[q].turn)' = Before(r.batch[q].turn)
        BY <1>2, <3>1
      <4>2. Following(r.batch)
        BY <2>1 DEF BatchOk
      <4> QED
        BY <1>4, <4>1, <4>2 DEF Following
    <3> QED
      BY <1>4, <1>6, <2>1, <3>1, <3>2 DEF BatchOk
  <2>2. \A z \in Slots : post[z] \in Posts /\ BatchOk(post[z])
    BY DEF TelemetryInv, TelemetryType, Batches
  <2>3. \A z \in Slots : BatchOk(post[z])'
    BY <1>1, <2>1, <2>2
  <2> QED
    BY <2>3 DEF Batches
<1>8. Recorded'
  <2>1. \A id \in Ids : stored'[id] # 0 => Names(id, stored[id])'
    BY <1>1, <1>2 DEF TelemetryInv, Recorded
  <2>2. \A x \in told' : Confirmed(x)'
    BY <1>1, <1>6 DEF TelemetryInv, Recorded
  <2>3. ASSUME NEW i \in DOMAIN said', IsStored(i)', said'[i] \notin Loose, NEW j \in Before(i)'
        PROVE  Joined(j, i)' \/ Linking(i)' \/ {i, j} \cap hit' # {}
    <3>1. PICK id \in Ids : stored[id] = i
      BY <1>1, <2>3 DEF IsStored, Ids
    <3>2. i # 0
      BY <1>2, <2>3
    <3>3. i \in 1..n
      BY <1>2, <3>1, <3>2 DEF TelemetryInv, Recorded, Names
    <3>4. IsStored(i) /\ said[i] \notin Loose /\ j \in Before(i)
      BY <1>2, <2>3, <3>1, <3>3 DEF IsStored
    <3>5. Joined(j, i) \/ Linking(i) \/ {i, j} \cap hit # {}
      BY <1>2, <3>3, <3>4 DEF TelemetryInv, Recorded
    <3>6. (Joined(j, i)' <=> Joined(j, i)) /\ (Linking(i)' <=> Linking(i))
      BY <1>1 DEF Joined, Linking, Span
    <3> QED
      BY <1>1, <3>5, <3>6
  <2> QED
    BY <2>1, <2>2, <2>3 DEF Recorded
<1>9. Exported'
  <2> SUFFICES ASSUME route = "otlp" PROVE Exported'
    BY <1>1 DEF Exported
  <2>1. /\ ended \in Seq(DOMAIN said) /\ done \in 0..Len(ended)
        /\ open \cup Range(ended) = DOMAIN said
        /\ \A q \in 1..done : Handled(ended[q])
        /\ \A q \in DOMAIN ended : Linked(ended[q]) => \E p \in 1..(q - 1) : ended[p] = ended[q] - 1
        /\ \A j \in open : Linked(j) => j - 1 \in Range(ended)
        /\ waits # None =>
              /\ done + Len(post[waits].batch) <= Len(ended)
              /\ \A q \in DOMAIN post[waits].batch : post[waits].batch[q].turn = ended[done + q]
    BY DEF TelemetryInv, Exported
  <2>2. \A q \in DOMAIN ended : ended[q] \in 1..n
    BY <1>2, <2>1
  <2>3. \A j \in 1..n : Linked(j)' <=> Linked(j)
    BY <1>2 DEF Linked
  <2>4. ended' \in Seq(DOMAIN said')
    <3>1. DOMAIN said \subseteq DOMAIN said'
      BY <1>2
    <3> QED
      BY <1>1, <2>1, <3>1
  <2>5. open' \cup Range(ended') = DOMAIN said'
    <3>1. 1..(n + 1) = 1..n \cup {n + 1}
      BY <1>2
    <3> QED
      BY <1>1, <1>2, <2>1, <3>1
  <2>6. \A q \in 1..done' : Handled(ended[q])'
    <3>1. \A q \in 1..done' : Handled(ended[q])
      BY <1>1, <2>1
    <3> QED
      BY <1>1, <3>1 DEF Handled, IsStored
  <2>7. \A q \in DOMAIN ended : Linked(ended[q])' => \E p \in 1..(q - 1) : ended[p] = ended[q] - 1
    <3>1. \A q \in DOMAIN ended : Linked(ended[q])' => Linked(ended[q])
      BY <1>1, <1>2, <2>2 DEF Linked
    <3> QED
      BY <2>1, <3>1
  <2>8. ASSUME NEW j \in open', Linked(j)' PROVE j - 1 \in Range(ended)
    <3>1. CASE j \in open
      BY <1>2, <2>1, <2>3, <2>8, <3>1
    <3>2. CASE j = n + 1
      <4>1. kind \notin Loose /\ j # 1
        BY <1>2, <2>8, <3>2 DEF Linked
      <4>2. kind \in {"twin", "link"}
        BY <4>1 DEF Kinds, Loose
      <4>3. n \notin open /\ n \in 1..n
        BY <1>1, <1>2, <3>2, <4>1, <4>2 DEF n
      <4>4. n \in Range(ended) /\ j - 1 = n
        BY <1>2, <2>1, <3>2, <4>3
      <4> QED
        BY <4>4
    <3> QED
      BY <1>1, <1>2, <3>1, <3>2
  <2> QED
    BY <1>1, <2>1, <2>4, <2>5, <2>6, <2>7, <2>8 DEF Exported
<1> QED
  BY <1>3, <1>7, <1>8, <1>9 DEF TelemetryInv

-----------------------------------------------------------------------------
(* TelemetryInv is inductive.                                              *)
LEMMA TelemetryInvInit ==
    ASSUME TelemetryInit
    PROVE  TelemetryInv
<1>1. /\ route \in Routes /\ said = << >> /\ open = {} /\ ended = << >> /\ done = 0
      /\ waits = None /\ post = [s \in Slots |-> Free]
      /\ stored = [i \in Ids |-> 0] /\ edges = {} /\ told = {} /\ hit = {}
  BY DEF TelemetryInit
<1>2. said \in Seq(Kinds(route)) /\ Len(said) = 0 /\ DOMAIN said = {} /\ DOMAIN ended = {} /\ Len(ended) = 0
  BY <1>1
<1>3. TelemetryType
  BY <1>1, <1>2, FreeOk, TurnAssumption DEF TelemetryType
<1>4. Batches
  BY <1>1, FreeOk DEF Batches
<1>5. Recorded
  BY <1>1, <1>2 DEF Recorded
<1>6. Exported
  <2>1. ended \in Seq(DOMAIN said) /\ 0 \in 0..Len(ended) /\ 1..done = {}
    BY <1>1, <1>2
  <2>2. open \cup Range(ended) = DOMAIN said
    BY <1>1, <1>2 DEF Range
  <2> QED
    BY <1>1, <1>2, <2>1, <2>2 DEF Exported
<1> QED
  BY <1>3, <1>4, <1>5, <1>6 DEF TelemetryInv

LEMMA TelemetryInvNext ==
    ASSUME TelemetryInv, [TelemetryNext]_telemetry
    PROVE  TelemetryInv'
<1>1. ASSUME TelemetryNext PROVE TelemetryInv'
  <2>1. ASSUME NEW kind \in Kinds(route), Say(kind) PROVE TelemetryInv'
    BY <2>1, SayStep
  <2>2. ASSUME NEW i \in open, End(i) PROVE TelemetryInv'
    BY <2>2, EndStep
  <2>3. CASE GiveUp
    BY <2>3, GiveUpStep
  <2>4. ASSUME NEW s \in Slots,
               Emit(s) \/ Look(s) \/ Store(s) \/ Link(s) \/ Fail(s) \/ Killed(s) \/ Answer(s)
        PROVE  TelemetryInv'
    BY <2>4, EmitStep, LookStep, StoreStep, LinkStep, FailStep, KilledStep, AnswerStep
  <2> QED
    BY <1>1, <2>1, <2>2, <2>3, <2>4 DEF TelemetryNext
<1>2. ASSUME UNCHANGED telemetry PROVE TelemetryInv'
  <2>1. /\ UNCHANGED <<route, said, open, ended, done, waits, post>>
        /\ UNCHANGED <<stored, edges, told, hit>>
    BY <1>2 DEF telemetry
  <2>2. TelemetryType'
    BY <2>1 DEF TelemetryInv, TelemetryType, Ids, Spans
  <2>3. Grows
    BY <2>1 DEF Grows, TelemetryInv, TelemetryType
  <2>4. Batches'
    <3>1. \A s \in Slots : post[s] \in Posts /\ BatchOk(post[s])
      BY DEF TelemetryInv, TelemetryType, Batches
    <3>2. \A v \in Posts : BatchOk(v) => BatchOk(v)'
      BY <2>3, BatchStays DEF TelemetryInv
    <3>3. \A s \in Slots : BatchOk(post[s])'
      BY <2>1, <3>1, <3>2
    <3> QED
      BY <3>3 DEF Batches
  <2>5. Recorded'
    <3>1. \A z : Linking(z) => Linking(z)'
      BY <2>1 DEF Linking, Span
    <3>2. \A y \in told' : Confirmed(y)'
      BY <2>1, <2>3, ConfirmedStays DEF TelemetryInv, Recorded
    <3>3. \A z : IsStored(z)' => IsStored(z)
      BY <2>1 DEF IsStored
    <3>4. \A id \in Ids : stored'[id] # 0 => Names(id, stored'[id])
      BY <2>1 DEF TelemetryInv, Recorded
    <3> QED
      BY <2>1, <2>3, <3>1, <3>2, <3>3, <3>4, RecordedStays DEF TelemetryInv
  <2>6. Exported'
    BY <2>1, <2>3, ExportedStays DEF TelemetryInv
  <2> QED
    BY <2>2, <2>4, <2>5, <2>6 DEF TelemetryInv
<1> QED
  BY <1>1, <1>2

(* The invariant holds for any number of requests, turns, sends and        *)
(* faults: every batch that app.py serves names the turns of the           *)
(* conversation, what an answer says is stored is, and what the exporter   *)
(* takes for done was handled.                                             *)
THEOREM TelemetryInvariant == TelemetrySpec => []TelemetryInv
BY TelemetryInvInit, TelemetryInvNext, PTL DEF TelemetrySpec

(* The recorded conversation is the one that was held: what the caller of  *)
(* TwinTap.emit is told is stored is stored as its turn, and a stored turn *)
(* is linked to the stored turn before it unless one of the two failed or  *)
(* was given up, or the span names it only as its parent (_map_span).      *)
THEOREM TelemetryRecorded == TelemetrySpec => []ConversationRecorded
<1>1. TelemetryInv => ConversationRecorded
  BY DEF TelemetryInv, Recorded, ConversationRecorded, Confirmed, Loose
<1> QED
  BY <1>1, TelemetryInvariant, PTL
=============================================================================
