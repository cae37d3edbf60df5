---------------------------- MODULE RollingWindows ----------------------------
(***************************************************************************)
(* The two rolling windows of a server process: the rate limiter           *)
(* (twin/security.py), which lets a request of a key through or refuses    *)
(* it, and the escalation monitor (twin/escalation.py), which an ingested  *)
(* span is recorded in.                                                    *)
(*                                                                         *)
(* Both are deques of times guarded by a lock; both read the clock before  *)
(* they take it, so that a thread may come in with a time up to Lag old    *)
(* and the deques need not be sorted, while eviction looks at the front.   *)
(***************************************************************************)
EXTENDS Integers, Sequences, FiniteSets, SequencesExt

CONSTANTS
    Threads, Keys,
    Limit,        \* rate_limit_per_minute
    Window,       \* the minute of the limiter
    Horizon,      \* the window of the monitor
    MinSamples, Ratio,            \* its thresholds, the ratio in percent
    Lag,          \* how long a thread waits for a lock at most (bound)
    MaxClock, MaxRequests,        \* bounds
    NoKey

ASSUME LimitAssumption == Limit \in Nat \ {0} /\ MinSamples \in Nat \ {0}
ASSUME TimeAssumption == {Window, Horizon, Lag, Ratio, MaxClock} \subseteq Nat

VARIABLES
    hits,         \* per key, the times in the limiter's deque
    analysed, escalated,          \* the deques of the monitor
    anomalies,    \* _anomaly_count
    req,          \* per thread, its request
    clock,
    requests,
    passed,       \* history: per key, when requests were let through
    recorded      \* history: the records of the monitor and their verdicts

vars == <<hits, analysed, escalated, anomalies, req, clock, requests, passed, recorded>>

Idle == [pc |-> "idle", key |-> NoKey, now |-> 0]
Times == 0..MaxClock
Pcs == {"idle", "stamp", "allow", "observe", "record"}
Records == [now : Times, esc : BOOLEAN, anomaly : BOOLEAN]

TypeOK ==
    /\ hits \in [Keys -> Seq(Times)] /\ passed \in [Keys -> Seq(Times)]
    /\ \A k \in Keys : Len(hits[k]) <= Limit
    /\ analysed \in Seq(Times) /\ escalated \in Seq(Times)
    /\ req \in [Threads -> [pc : Pcs, key : Keys \cup {NoKey}, now : Times]]
    /\ \A t \in Threads : req[t].pc # "idle" => req[t].key \in Keys
    /\ clock \in Times /\ requests \in Nat
    /\ recorded \in Seq(Records)
    /\ anomalies = Cardinality({i \in DOMAIN recorded : recorded[i].anomaly})

Init ==
    /\ hits = [k \in Keys |-> << >>] /\ passed = [k \in Keys |-> << >>]
    /\ analysed = << >> /\ escalated = << >> /\ recorded = << >>
    /\ anomalies = 0
    /\ req = [t \in Threads |-> Idle]
    /\ clock = 0 /\ requests = 0

(* _evict drops from the front what is older than the cutoff.              *)
Evict(q, cutoff) ==
    LET young == {i \in DOMAIN q : q[i] >= cutoff}
    IN  IF young = {} THEN << >> ELSE SubSeq(q, Min(young), Len(q))

-----------------------------------------------------------------------------
Arrive(t, k) ==
    /\ req[t].pc = "idle" /\ requests < MaxRequests
    /\ requests' = requests + 1
    /\ req' = [req EXCEPT ![t] = [Idle EXCEPT !.pc = "stamp", !.key = k]]
    /\ UNCHANGED <<hits, analysed, escalated, anomalies, clock, passed, recorded>>

(* Both readings of the clock; the lock comes after.                       *)
Stamp(t) ==
    /\ req[t].pc \in {"stamp", "observe"}
    /\ req' = [req EXCEPT ![t].now = clock,
                          ![t].pc = IF @ = "stamp" THEN "allow" ELSE "record"]
    /\ UNCHANGED <<hits, analysed, escalated, anomalies, clock, requests, passed, recorded>>

FullAbove(q) == Len(q) > Limit            \* mutant: > instead of >=
FullBelow(q) == Len(q) >= Limit - 1       \* mutant: the request itself is counted
Full(q) == Len(q) >= Limit

(* Whether the request goes on to ingest a span or to something else.      *)
Allow(t) ==
    LET k == req[t].key
        q == Evict(hits[k], req[t].now - Window)
    IN  /\ req[t].pc = "allow"
        /\ ~Full(q)
        /\ hits' = [hits EXCEPT ![k] = Append(q, req[t].now)]
        /\ passed' = [passed EXCEPT ![k] = Append(@, clock)]
        /\ req' \in {[req EXCEPT ![t] = Idle], [req EXCEPT ![t].pc = "observe"]}
        /\ UNCHANGED <<analysed, escalated, anomalies, clock, requests, recorded>>

Refuse(t) ==
    LET k == req[t].key
        q == Evict(hits[k], req[t].now - Window)
    IN  /\ req[t].pc = "allow"
        /\ Full(q)
        /\ hits' = [hits EXCEPT ![k] = q]
        /\ req' = [req EXCEPT ![t] = Idle]
        /\ UNCHANGED <<analysed, escalated, anomalies, clock, requests, passed, recorded>>

(* _snapshot_locked, without the threshold per minute, which is off by     *)
(* default.                                                                *)
Anomaly(a, e) == Len(a) >= MinSamples /\ 100 * Len(e) > Ratio * Len(a)

RecordUneven(t, esc) ==                   \* mutant: only one deque is evicted
    LET now == req[t].now IN
    /\ req[t].pc = "record"
    /\ analysed' = Evict(Append(analysed, now), now - Horizon)
    /\ escalated' = IF esc THEN Append(escalated, now) ELSE escalated
    /\ LET anomaly == Anomaly(analysed', escalated')
       IN  /\ anomalies' = anomalies + (IF anomaly THEN 1 ELSE 0)
           /\ recorded' = Append(recorded, [now |-> now, esc |-> esc, anomaly |-> anomaly])
    /\ req' = [req EXCEPT ![t] = Idle]
    /\ UNCHANGED <<hits, clock, requests, passed>>
Record(t, esc) ==
    LET now == req[t].now IN
    /\ req[t].pc = "record"
    /\ analysed' = Evict(Append(analysed, now), now - Horizon)
    /\ escalated' = Evict(IF esc THEN Append(escalated, now) ELSE escalated, now - Horizon)
    /\ LET anomaly == Anomaly(analysed', escalated')
       IN  /\ anomalies' = anomalies + (IF anomaly THEN 1 ELSE 0)
           /\ recorded' = Append(recorded, [now |-> now, esc |-> esc, anomaly |-> anomaly])
    /\ req' = [req EXCEPT ![t] = Idle]
    /\ UNCHANGED <<hits, clock, requests, passed>>

(* snapshot, for GET /api/escalation, evicts as well.                      *)
Snapshot ==
    /\ analysed # << >>
    /\ \E now \in {n \in 0..clock : n >= clock - Lag} :
          /\ analysed' = Evict(analysed, now - Horizon)
          /\ escalated' = Evict(escalated, now - Horizon)
    /\ UNCHANGED <<hits, anomalies, req, clock, requests, passed, recorded>>

Tick ==
    /\ clock < MaxClock
    /\ \A t \in Threads : req[t].pc \in {"allow", "record"} => clock < req[t].now + Lag
    /\ clock' = clock + 1
    /\ UNCHANGED <<hits, analysed, escalated, anomalies, req, requests, passed, recorded>>

Next ==
    \/ \E t \in Threads :
          \/ \E k \in Keys : Arrive(t, k)
          \/ Stamp(t) \/ Allow(t) \/ Refuse(t)
          \/ \E esc \in BOOLEAN : Record(t, esc)
    \/ Snapshot
    \/ Tick

Spec == Init /\ [][Next]_vars

-----------------------------------------------------------------------------
Since(q, time) == Cardinality({i \in DOMAIN q : q[i] >= time})
Count(q, x) == Cardinality({i \in DOMAIN q : q[i] = x})

(* security.py:158: however threads wait between the clock and the lock,   *)
(* no more than Limit requests of a key are let through in a Window        *)
(* (shorter by the Lag),                                                   *)
LimitHolds == \A k \in Keys : Since(passed[k], clock - (Window - Lag)) <= Limit

(* and one is refused only when Limit were let through in a Window (longer *)
(* by the Lag).                                                            *)
RefusedOnlyWhenFull ==
    [][\A t \in Threads :
          Refuse(t) => Since(passed[req[t].key], clock - Window - Lag) >= Limit]_vars

(* escalation.py:44: although the deques need not be sorted, what the      *)
(* monitor counts as escalated it also counts as analysed (the ratio is at *)
(* most one), and it counts every span recorded within the last Horizon.   *)
MonitorCovers ==
    LET times == [i \in DOMAIN recorded |-> recorded[i].now]
    IN  /\ \A x \in ToSet(escalated) : Count(escalated, x) <= Count(analysed, x)
        /\ Since(analysed, clock - Horizon) = Since(times, clock - Horizon)
=============================================================================
