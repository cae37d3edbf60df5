----------------------------- MODULE AuditTrail -----------------------------
(***************************************************************************)
(* What the audit log of twin/audit.py promises to the rest of the system: *)
(* one history of entries that only ever grows.  A transaction drafts the  *)
(* history it would like to see, one entry at a time, and publishes the    *)
(* whole draft at once or drops it; a draft is published only if it still  *)
(* extends everything published before it.                                 *)
(***************************************************************************)
EXTENDS Naturals, Sequences

CONSTANTS
    Workers,   \* threads and processes that write to the log
    Entries    \* the bodies of audit entries (actor, action, target, detail)

VARIABLES
    trail,     \* the published history
    draft      \* per worker, the history its open transaction would publish;
               \* the empty sequence when it has no transaction

tvars == <<trail, draft>>

(* s is an initial segment of t, and t is longer. *)
Extends(s, t) ==
    /\ Len(s) < Len(t)
    /\ \A i \in 1..Len(s) : s[i] = t[i]

TrailInit ==
    /\ trail = << >>
    /\ draft = [w \in Workers |-> << >>]

(* The first entry of a transaction continues the published history ...    *)
Start(w, e) ==
    /\ draft[w] = << >>
    /\ draft' = [draft EXCEPT ![w] = Append(trail, e)]
    /\ UNCHANGED trail

(* ... and each later one its own draft.                                   *)
Continue(w, e) ==
    /\ draft[w] # << >>
    /\ draft' = [draft EXCEPT ![w] = Append(draft[w], e)]
    /\ UNCHANGED trail

Publish(w) ==
    /\ Extends(trail, draft[w])
    /\ trail' = draft[w]
    /\ draft' = [draft EXCEPT ![w] = << >>]

Drop(w) ==
    /\ draft' = [draft EXCEPT ![w] = << >>]
    /\ UNCHANGED trail

TrailNext ==
    \E w \in Workers :
        \/ \E e \in Entries : Start(w, e) \/ Continue(w, e)
        \/ Publish(w)
        \/ Drop(w)

TrailSpec == TrailInit /\ [][TrailNext]_tvars
=============================================================================
