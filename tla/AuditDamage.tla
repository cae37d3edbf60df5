---------------------------- MODULE AuditDamage ----------------------------
(***************************************************************************)
(* The audit log when its table is changed behind its back: a row is       *)
(* edited, or lost (a restore from an older copy), once, while the log is  *)
(* in use.  tests/test_remediation_audit.py does the first by an UPDATE of *)
(* the table and asks verify_chain to notice.                              *)
(***************************************************************************)
EXTENDS AuditLog

VARIABLES
    damaged,    \* a row was edited or lost
    examined    \* the present or last verification began after that

dvars == <<vars, damaged, examined>>

DamageInit == Init /\ damaged = FALSE /\ examined = FALSE

Edit(r, e) ==
    /\ e # r.body
    /\ rows' = (rows \ {r}) \cup {[r EXCEPT !.body = e]}

Lose(r) == rows' = rows \ {r}

Damage ==
    /\ ~damaged
    /\ damaged' = TRUE
    /\ \E r \in rows : Lose(r) \/ \E e \in Entries : Edit(r, e)
    /\ UNCHANGED <<head, nextSeq, lock, sess, check, examined>>

DamageNext ==
    \/ (Write \/ ReadHead) /\ UNCHANGED <<damaged, examined>>
    \/ Scan /\ examined' = damaged /\ UNCHANGED damaged
    \/ Damage

DamageSpec == DamageInit /\ [][DamageNext]_dvars

-----------------------------------------------------------------------------
(* A verification that finds any row at all reports the damage, whichever  *)
(* row it is and whatever has been appended since; it never blesses a      *)
(* damaged log because the head moved on (verify_chain, audit.py:182-203). *)
DamageFound ==
    check.pc = "done" /\ examined /\ check.seen # {} => ~check.valid
=============================================================================
