-------------------------------- MODULE ApiKeys --------------------------------
(***************************************************************************)
(* The start of the server processes on one database and the table of API  *)
(* keys (twin/db.py, twin/security.py, the lifespan and the key handlers   *)
(* of app.py, scripts/manage_keys.py).                                     *)
(*                                                                         *)
(* A process that starts creates the tables, the head of the log and the   *)
(* bootstrap key unless it finds them; the image starts two processes at   *)
(* once.  An exception out of the lifespan ends the process, and the       *)
(* supervisor starts it again.  Each step is one transaction or one        *)
(* statement that others can come in between.  The threads of a process    *)
(* share nothing here but the database, so a process serves one request    *)
(* at a time.                                                              *)
(***************************************************************************)
EXTENDS Naturals

CONSTANTS
    Procs, Keys,
    Boot,                         \* the key of TWIN_BOOTSTRAP_ADMIN_KEY
    Absent, NoKey,
    MaxDeaths, MaxScripts         \* bounds

ASSUME KeyAssumption == Boot \in Keys /\ NoKey \notin Keys
ASSUME BoundAssumption == MaxDeaths \in Nat /\ MaxScripts \in Nat

VARIABLES
    tables,       \* whether the tables exist
    head,         \* whether audit_head has its row
    row,          \* per key, its row of api_keys
    boot,         \* per process, where its start is
    req,          \* per process, the request it serves
    trail,        \* the entries of the log about keys
    deaths, scripts,
    rotated,      \* history: keys disabled when no start was about to insert
    changed,      \* history: the changes requests made to the table,
    cut           \* and those whose process died before the entry

vars == <<tables, head, row, boot, req, trail, deaths, scripts, rotated, changed, cut>>

Roles == {"admin", "other"}
Rows == [role : Roles, disabled : BOOLEAN]
Ops == {"use", "create", "disable"}
Changes == {"create", "disable"} \X Keys
Idle == [pc |-> "idle", key |-> NoKey, op |-> "use", target |-> NoKey, role |-> "other"]
Requests == [pc : {"idle", "authenticate", "touch", "change", "log"},
             key : Keys \cup {NoKey}, op : Ops, target : Keys \cup {NoKey}, role : Roles]
Starts == {"down", "inspect", "create", "head", "add", "count",
           "merge", "insert", "enable", "keep", "up"}

ASSUME AbsentAssumption == Absent \notin Rows

TypeOK ==
    /\ tables \in BOOLEAN /\ head \in BOOLEAN
    /\ row \in [Keys -> Rows \cup {Absent}]
    /\ boot \in [Procs -> Starts]
    /\ req \in [Procs -> Requests]
    /\ trail \subseteq Changes /\ changed \subseteq Changes /\ cut \subseteq Changes
    /\ deaths \in Nat /\ scripts \in Nat
    /\ rotated \subseteq Keys

Init ==
    /\ tables = FALSE /\ head = FALSE
    /\ row = [k \in Keys |-> Absent]
    /\ boot = [p \in Procs |-> "down"]
    /\ req = [p \in Procs |-> Idle]
    /\ trail = {} /\ changed = {} /\ cut = {}
    /\ deaths = 0 /\ scripts = 0
    /\ rotated = {}

Present(k) == row[k] # Absent
Empty == \A k \in Keys : ~Present(k)
Merging == {"merge", "insert", "enable", "keep"}
Late == \E p \in Procs : boot[p] \in Merging      \* a start that counted no key
Go(p, step) == boot' = [boot EXCEPT ![p] = step]

-----------------------------------------------------------------------------
(* init_schema: the tables are looked for and created in two statements,   *)
(* and a process that comes second fails;                                  *)
Serving == <<req, trail, deaths, scripts, rotated, changed, cut>>

Start(p) ==
    /\ boot[p] = "down"
    /\ Go(p, "inspect")
    /\ UNCHANGED <<tables, head, row, Serving>>

ExistingNever == FALSE                    \* mutant: checkfirst=False
Existing == tables

Inspect(p) ==
    /\ boot[p] = "inspect"
    /\ Go(p, IF Existing THEN "head" ELSE "create")
    /\ UNCHANGED <<tables, head, row, Serving>>

CreateTables(p) ==
    /\ boot[p] = "create"
    /\ Go(p, IF tables THEN "down" ELSE "head")
    /\ tables' = TRUE
    /\ UNCHANGED <<head, row, Serving>>

(* the row of the head as well, but there the failure is caught.           *)
NextAfterHeadOwn == IF head THEN "up" ELSE "add"
                                          \* mutant: a head is taken for a whole start
NextAfterHead == IF head THEN "count" ELSE "add"

FindHead(p) ==
    /\ boot[p] = "head"
    /\ Go(p, NextAfterHead)
    /\ UNCHANGED <<tables, head, row, Serving>>

AddHead(p) ==
    /\ boot[p] = "add"
    /\ head' = TRUE
    /\ Go(p, "count")
    /\ UNCHANGED <<tables, row, Serving>>

(* bootstrap: count, then create, whose merge reads the row of the key and *)
(* inserts it, enables it, or changes nothing that matters here.           *)
CountKeys(p) ==
    /\ boot[p] = "count"
    /\ Go(p, IF Empty THEN "merge" ELSE "up")
    /\ UNCHANGED <<tables, head, row, Serving>>

Merge(p) ==
    /\ boot[p] = "merge"
    /\ Go(p, IF ~Present(Boot) THEN "insert" ELSE IF row[Boot].disabled THEN "enable" ELSE "keep")
    /\ UNCHANGED <<tables, head, row, Serving>>

FlushMerge(p) ==
    /\ boot[p] \in {"insert", "enable", "keep"}
    /\ IF boot[p] = "insert" /\ Present(Boot)         \* a duplicate key
       THEN Go(p, "down") /\ UNCHANGED row
       ELSE /\ Go(p, "up")
            /\ row' = IF boot[p] = "keep" THEN row
                      ELSE [row EXCEPT ![Boot] = [role |-> "admin", disabled |-> FALSE]]
    /\ UNCHANGED <<tables, head, Serving>>

-----------------------------------------------------------------------------
Stage(p, step) == req' = [req EXCEPT ![p].pc = step]
Done(p) == req' = [req EXCEPT ![p] = Idle]

Arrive(p, k, op, target) ==
    /\ boot[p] = "up" /\ req[p].pc = "idle"
    /\ (op = "disable") <=> (target # NoKey)
    /\ req' = [req EXCEPT ![p] = [Idle EXCEPT !.pc = "authenticate", !.key = k,
                                              !.op = op, !.target = target]]
    /\ UNCHANGED <<tables, head, row, boot, trail, deaths, scripts, rotated, changed, cut>>

(* authenticate reads the row and refuses a missing or disabled one, then  *)
(* writes last_used_ts and nothing else of it.                             *)
Authenticate(p) ==
    LET k == req[p].key IN
    /\ req[p].pc = "authenticate"
    /\ IF Present(k) /\ ~row[k].disabled
       THEN req' = [req EXCEPT ![p].pc = "touch", ![p].role = row[k].role]
       ELSE Done(p)
    /\ UNCHANGED <<tables, head, row, boot, trail, deaths, scripts, rotated, changed, cut>>

TouchedWhole(r, role) == [role |-> role, disabled |-> FALSE]
                                          \* mutant: the row that was read is written back
Touched(r, role) == r

(* The limiter and the permission of the handler: 429, 403, or on.  The    *)
(* identity of a new key is drawn here, one that nobody has drawn.         *)
Drawn(k) == k = Boot \/ Present(k) \/ \E p \in Procs : req[p].op = "create" /\ req[p].target = k

Admit(p) ==
    /\ req[p].pc = "touch"
    /\ row' = [row EXCEPT ![req[p].key] = Touched(@, req[p].role)]
    /\ \/ Done(p)
       \/ req[p].op = "disable" /\ req[p].role = "admin" /\ Stage(p, "change")
       \/ /\ req[p].op = "create" /\ req[p].role = "admin"
          /\ \E k \in Keys : /\ ~Drawn(k)
                            /\ req' = [req EXCEPT ![p].pc = "change", ![p].target = k]
    /\ UNCHANGED <<tables, head, boot, trail, deaths, scripts, rotated, changed, cut>>

(* The handlers of /api/admin/keys: disable answers 404 for a key that is  *)
(* not there.  The entry of the log is a transaction of its own.           *)
Disable(k) ==
    /\ row' = [row EXCEPT ![k].disabled = TRUE]
    /\ rotated' = IF Late THEN rotated ELSE rotated \cup {k}

CreateKey(p, role) ==
    LET k == req[p].target IN
    /\ req[p].pc = "change" /\ req[p].op = "create"
    /\ row' = [row EXCEPT ![k] = [role |-> role, disabled |-> FALSE]]
    /\ changed' = changed \cup {<<"create", k>>}
    /\ Stage(p, "log")
    /\ UNCHANGED <<tables, head, boot, trail, deaths, scripts, rotated, cut>>

DisableKey(p) ==
    LET k == req[p].target IN
    /\ req[p].pc = "change" /\ req[p].op = "disable"
    /\ Present(k)
    /\ Disable(k)
    /\ changed' = changed \cup {<<"disable", k>>}
    /\ Stage(p, "log")
    /\ UNCHANGED <<tables, head, boot, trail, deaths, scripts, cut>>

AfterMissingLogged(p) == Stage(p, "log")  \* mutant: the result is ignored
AfterMissing(p) == Done(p)

DisableMissing(p) ==
    /\ req[p].pc = "change" /\ req[p].op = "disable"
    /\ ~Present(req[p].target)
    /\ AfterMissing(p)
    /\ UNCHANGED <<tables, head, row, boot, trail, deaths, scripts, rotated, changed, cut>>

LogChange(p) ==
    /\ req[p].pc = "log"
    /\ trail' = trail \cup {<<req[p].op, req[p].target>>}
    /\ Done(p)
    /\ UNCHANGED <<tables, head, row, boot, deaths, scripts, rotated, changed, cut>>

-----------------------------------------------------------------------------
(* manage_keys.py on a database that is set up: no entry in the log.       *)
Script(k) ==
    /\ tables /\ head /\ scripts < MaxScripts
    /\ scripts' = scripts + 1
    /\ \/ /\ ~Drawn(k)
          /\ \E r \in Roles : row' = [row EXCEPT ![k] = [role |-> r, disabled |-> FALSE]]
          /\ UNCHANGED rotated
       \/ Present(k) /\ Disable(k)
       \/ /\ Present(k)
          /\ row' = [row EXCEPT ![k].disabled = FALSE]
          /\ rotated' = rotated \ {k}
    /\ UNCHANGED <<tables, head, boot, req, trail, deaths, changed, cut>>

(* A process is killed, at its start or while it serves.                   *)
Die(p) ==
    /\ boot[p] # "down" /\ deaths < MaxDeaths
    /\ deaths' = deaths + 1
    /\ Go(p, "down")
    /\ cut' = IF req[p].pc = "log" THEN cut \cup {<<req[p].op, req[p].target>>} ELSE cut
    /\ Done(p)
    /\ UNCHANGED <<tables, head, row, trail, scripts, rotated, changed>>

StartStep(p) ==
    \/ Start(p) \/ Inspect(p) \/ CreateTables(p) \/ FindHead(p) \/ AddHead(p)
    \/ CountKeys(p) \/ Merge(p) \/ FlushMerge(p)

Next ==
    \/ \E p \in Procs :
          \/ StartStep(p)
          \/ \E k \in Keys, op \in Ops, target \in Keys \cup {NoKey} : Arrive(p, k, op, target)
          \/ Authenticate(p) \/ Admit(p)
          \/ \E role \in Roles : CreateKey(p, role)
          \/ DisableKey(p) \/ DisableMissing(p) \/ LogChange(p)
          \/ Die(p)
    \/ \E k \in Keys : Script(k)

Spec == Init /\ [][Next]_vars

(* The supervisor starts a process that ended, and a start goes on.        *)
FairSpec == Spec /\ \A p \in Procs : WF_vars(StartStep(p))

-----------------------------------------------------------------------------
(* Two starts at once on an empty database (the two statements of          *)
(* init_schema and bootstrap): whoever serves finds the tables, the head   *)
(* of the log and a key, whichever of the processes made them.             *)
ReadyToServe ==
    (\E p \in Procs : boot[p] = "up") => tables /\ head /\ ~Empty

(* security.py:142 and the write of last_used_ts at line 132: a key that   *)
(* was disabled when no start was about to insert the bootstrap key stays  *)
(* disabled, whatever restarts and requests that had read its row follow,  *)
(* until the script enables it.                                            *)
RotatedStays == \A k \in rotated : Present(k) /\ row[k].disabled

(* The handlers of app.py:417 and 428 log in a transaction after that of   *)
(* the change: an entry never speaks of a change that was not made, and a  *)
(* change without its entry is one whose process died in between or is     *)
(* about to log it.                                                        *)
ChangesLogged ==
    /\ trail \subseteq changed
    /\ \A c \in changed \ (trail \cup cut) :
          \E p \in Procs : req[p].pc = "log" /\ c = <<req[p].op, req[p].target>>

(* Each failure of a start leaves the tables or the key that the next      *)
(* start finds: once processes stop being killed, every one serves.        *)
EveryProcessServes == \A p \in Procs : <>[](boot[p] = "up")
=============================================================================
