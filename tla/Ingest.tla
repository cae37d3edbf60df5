------------------------------- MODULE Ingest -------------------------------
(***************************************************************************)
(* Ingestion of spans: the batch handlers of app.py, Engine.ingest with    *)
(* the proposal of remediations, CostRouter.ingest with its cache, and     *)
(* _commit.                                                                *)
(*                                                                         *)
(* A worker (a thread of a server process) handles one request at a time,  *)
(* span by span.  Every access to the store and every audit entry commits  *)
(* in a transaction of its own and is a step of its own.  The detection    *)
(* cache belongs to a process and is lost with it.                         *)
(*                                                                         *)
(* What a span says is its text: intent, behaviour, task and workflow, the *)
(* four things the cache key is made of.  Scores are reduced to what they  *)
(* decide: where foreign entities come from, and the status.  The other    *)
(* divergences that make a span judged (an undeclared tool, a fabricated   *)
(* effect) take the same path and do not depend on the inputs.             *)
(***************************************************************************)
EXTENDS Naturals, Sequences, FiniteSets, SequencesExt, Bags

CONSTANTS
    Spans,
    Inputs,       \* per span, the sequence of spans it names in inputs_from
    Text,         \* per span, its text
    Foreign,      \* per text, the entities in it foreign to its own task
    Ts,           \* per span, its time
    Sampled,      \* the spans low-privilege thinning lets through
    Denied,       \* the spans with a tool call the guard denies
    Outcomes,     \* the statuses the judges may leave a judged span with
    Anomalies,    \* whether the escalation monitor may report an anomaly
    Workers, Processes,
    Process,      \* per worker, its process
    CacheSize,    \* entries the cache of a process keeps
    Requests,     \* the sequence of batches (sequences of spans) clients send
    Overlap,      \* a client may send a batch again before it was answered
    MaxSends,     \* bound on how often a batch is sent
    MaxFailures,  \* bound on failed spans and dying processes
    Absent        \* no verdict

ASSUME SpanAssumption ==
    /\ Inputs \in [Spans -> Seq(Spans)] /\ Ts \in [Spans -> Nat]
    /\ Sampled \subseteq Spans /\ Denied \subseteq Spans
ASSUME RequestAssumption == Requests \in Seq(Seq(Spans))
ASSUME WorkerAssumption == IsFiniteSet(Workers) /\ Process \in [Workers -> Processes]
ASSUME OutcomeAssumption == Outcomes \subseteq {"ok", "watch", "flagged"}
ASSUME CacheAssumption == CacheSize \in Nat

VARIABLES
    nodes,        \* the node table: a verdict or Absent
    edges,        \* the influence edges
    ckpts,        \* the spans with a checkpoint
    trail,        \* per span, the audit entries about it
    proposals,    \* the bag of proposed actions
    cache,        \* per process, <<text, verdict>> pairs, oldest use first
    seen,         \* the counter spans_seen
    work,         \* per worker, what it is doing
    sends,        \* per request, how often it was sent
    failures,
    order,        \* history: the spans in the order they were first stored
    done          \* history: the spans a worker went all the way through

store == <<nodes, edges, ckpts, trail, proposals>>
env == <<sends, failures>>
vars == <<store, cache, seen, work, env, order, done>>

Origins == {"none", "inherited", "introduced"}
Verdicts == [origin : Origins, status : {"ok", "watch", "flagged"}]
Unsampled == [origin |-> "none", status |-> "ok"]
ASSUME AbsentAssumption == Absent \notin Verdicts \cup Spans

Events == {"escalation.anomaly", "action.blocked", "escalation", "detection"}
Pcs == {"idle", "next", "route", "assess", "judged", "count", "checkpoint",
        "upsert", "inputs", "link", "note", "root", "register", "propose"}
Idle == [pc |-> "idle", from |-> 0, rest |-> << >>, verdict |-> Absent,
         links |-> << >>, existing |-> {}, notes |-> << >>, root |-> Absent, batch |-> {}]
Work == [pc : Pcs, from : 0..Len(Requests), rest : Seq(Spans),
         verdict : Verdicts \cup {Absent}, links : Seq(Spans), existing : SUBSET Spans,
         notes : Seq(Events), root : Spans \cup {Absent},
         batch : SUBSET (Spans \X Spans)]

TypeOK ==
    /\ nodes \in [Spans -> Verdicts \cup {Absent}]
    /\ edges \subseteq Spans \X Spans /\ ckpts \subseteq Spans
    /\ trail \in [Spans -> Seq(Events)]
    /\ IsABag(proposals) /\ BagToSet(proposals) \subseteq Spans \X Spans
    /\ cache \in [Processes -> Seq({Text[s] : s \in Spans} \X Verdicts)]
    /\ \A c \in Processes : Len(cache[c]) <= CacheSize
    /\ work \in [Workers -> Work]
    /\ seen \in Nat /\ order \in Seq(Spans) /\ done \subseteq Spans
    /\ sends \in [DOMAIN Requests -> Nat] /\ failures \in Nat

Stored(s) == nodes[s] # Absent

(* The recursive query behind TwinStore.upstream: the rows reachable from  *)
(* s are the least set with s in it that is closed under the edges.        *)
Closed(R) == \A e \in edges : e[2] \in R => e[1] \in R
Reachable(s) == {u \in Spans : \A R \in SUBSET Spans : s \in R /\ Closed(R) => u \in R}
Upstream(s) == Reachable(s) \ {s}

Init ==
    /\ nodes = [s \in Spans |-> Absent]
    /\ edges = {} /\ ckpts = {}
    /\ trail = [s \in Spans |-> << >>]
    /\ proposals = EmptyBag
    /\ cache = [c \in Processes |-> << >>]
    /\ seen = 0
    /\ work = [w \in Workers |-> Idle]
    /\ sends = [r \in DOMAIN Requests |-> 0]
    /\ failures = 0
    /\ order = << >> /\ done = {}

-----------------------------------------------------------------------------
(* The batch handler.                                                      *)
Span(w) == Head(work[w].rest)
At(w, pc) == work[w].pc = pc
Goto(w, pc) == work' = [work EXCEPT ![w].pc = pc]
NextSpan(w) == [Idle EXCEPT !.pc = "next", !.from = work[w].from,
                            !.rest = Tail(work[w].rest)]

(* A client sends a batch, or sends it again without an answer.            *)
Receive(w, r) ==
    /\ At(w, "idle")
    /\ sends[r] < MaxSends
    /\ Overlap \/ \A v \in Workers : work[v].from # r
    /\ sends' = [sends EXCEPT ![r] = @ + 1]
    /\ work' = [work EXCEPT ![w] =
                   [Idle EXCEPT !.pc = "next", !.from = r, !.rest = Requests[r]]]
    /\ UNCHANGED <<store, cache, seen, failures, order, done>>

KnownNever(s) == FALSE                    \* mutant: duplicates are not looked for
Known(s) == Stored(s)

(* has_node, asked by the handler and again by Engine.ingest.              *)
Look(w) ==
    /\ At(w, "next")
    /\ work[w].rest # << >>
    /\ IF Known(Span(w)) THEN work' = [work EXCEPT ![w] = NextSpan(w)]
                         ELSE Goto(w, "route")
    /\ UNCHANGED <<store, cache, seen, env, order, done>>

Answer(w) ==
    /\ At(w, "next")
    /\ work[w].rest = << >>
    /\ work' = [work EXCEPT ![w] = Idle]
    /\ UNCHANGED <<store, cache, seen, env, order, done>>

-----------------------------------------------------------------------------
(* _SignalsCache                                                           *)
Cached(c, t) == {i \in DOMAIN c : c[i][1] = t}
Place(c, t) == CHOOSE i \in Cached(c, t) : TRUE
Entry(c, t) == c[Place(c, t)]
Without(c, t) == IF Cached(c, t) = {} THEN c ELSE RemoveAt(c, Place(c, t))
Put(c, e) ==
    LET all == Append(Without(c, e[1]), e)
    IN  IF Len(all) > CacheSize THEN Tail(all) ELSE all

(* CostRouter.ingest: thinning, then the cache.                            *)
Route(w) ==
    LET c == Process[w]
        t == Text[Span(w)]
        decided(v) == work' = [work EXCEPT ![w].pc = "count", ![w].verdict = v]
    IN  /\ At(w, "route")
        /\ \/ /\ Span(w) \notin Sampled
              /\ decided(Unsampled)
              /\ UNCHANGED cache
           \/ /\ Span(w) \in Sampled
              /\ Cached(cache[c], t) # {}
              /\ cache' = [cache EXCEPT ![c] = Put(@, Entry(@, t))]
              /\ decided(Entry(cache[c], t)[2])
           \/ /\ Span(w) \in Sampled
              /\ Cached(cache[c], t) = {}
              /\ Goto(w, "assess")
              /\ UNCHANGED cache
        /\ UNCHANGED <<store, seen, env, order, done>>

(* injection_is_introduced: an entity no upstream text has.                *)
Origin(s, upstream) ==
    LET mine == Foreign[Text[s]]
        theirs == UNION {Foreign[Text[u]] : u \in upstream}
    IN  CASE mine = {} -> "none"
          [] mine # {} /\ mine \subseteq theirs -> "inherited"
          [] mine \ theirs # {} -> "introduced"

(* _upstream_texts reads the inputs stored so far; then assess_span and,   *)
(* for a span with a structural divergence, the judges.                    *)
Assess(w) ==
    LET origin == Origin(Span(w), {u \in Range(Inputs[Span(w)]) : Stored(u)})
    IN  /\ At(w, "assess")
        /\ \E status \in IF origin = "none" THEN {"ok"} ELSE Outcomes :
              work' = [work EXCEPT ![w].pc = "judged",
                          ![w].verdict = [origin |-> origin, status |-> status]]
        /\ UNCHANGED <<store, cache, seen, env, order, done>>

Judged(w) ==
    /\ At(w, "judged")
    /\ cache' = [cache EXCEPT ![Process[w]] = Put(@, <<Text[Span(w)], work[w].verdict>>)]
    /\ Goto(w, "count")
    /\ UNCHANGED <<store, seen, env, order, done>>

(* incr_counters adds the counters of the span at once; spans_seen is one. *)
Count(w) ==
    /\ At(w, "count")
    /\ seen' = seen + 1
    /\ Goto(w, "checkpoint")
    /\ UNCHANGED <<store, cache, env, order, done>>

-----------------------------------------------------------------------------
(* _commit: checkpoint, node, then the edges from the inputs stored by now.*)
SaveCheckpoint(w) ==
    /\ At(w, "checkpoint")
    /\ ckpts' = ckpts \cup {Span(w)}
    /\ Goto(w, "upsert")
    /\ UNCHANGED <<nodes, edges, trail, proposals, cache, seen, env, order, done>>

Upsert(w) ==
    LET s == Span(w) IN
    /\ At(w, "upsert")
    /\ nodes' = [nodes EXCEPT ![s] = work[w].verdict]
    /\ order' = IF Stored(s) THEN order ELSE Append(order, s)
    /\ Goto(w, "inputs")
    /\ UNCHANGED <<edges, ckpts, trail, proposals, cache, seen, env, done>>

ExistingParent(s) ==                      \* mutant: only the first input
    {i \in Range(Inputs[s]) : Stored(i) /\ i = Head(Inputs[s])}
Existing(s) == {i \in Range(Inputs[s]) : Stored(i)}

ReadInputs(w) ==
    /\ At(w, "inputs")
    /\ work' = [work EXCEPT ![w].pc = "link", ![w].links = Inputs[Span(w)],
                            ![w].existing = Existing(Span(w))]
    /\ UNCHANGED <<store, cache, seen, env, order, done>>

Link(w) ==
    /\ At(w, "link")
    /\ work[w].links # << >>
    /\ edges' = edges \cup {<<i, Span(w)>> : i \in {Head(work[w].links)} \cap work[w].existing}
    /\ work' = [work EXCEPT ![w].links = Tail(@)]
    /\ UNCHANGED <<nodes, ckpts, trail, proposals, cache, seen, env, order, done>>

-----------------------------------------------------------------------------
(* The rest of Engine.ingest: the monitor, then the audit entries.         *)
NotesUndetected(s, v) ==                  \* mutant: the detection entry is left out
    IF v.origin # "none" THEN <<"escalation">> ELSE << >>
Notes(s, v) ==
    (IF s \in Denied THEN <<"action.blocked">> ELSE << >>)
    \o (IF v.origin # "none" THEN <<"escalation">> ELSE << >>)
    \o (IF v.status # "ok" THEN <<"detection">> ELSE << >>)

Observe(w) ==
    /\ At(w, "link")
    /\ work[w].links = << >>
    /\ \E anomaly \in Anomalies :
          work' = [work EXCEPT ![w].pc = "note",
             ![w].notes = (IF anomaly THEN <<"escalation.anomaly">> ELSE << >>)
                          \o Notes(Span(w), work[w].verdict)]
    /\ UNCHANGED <<store, cache, seen, env, order, done>>

Note(w) ==
    /\ At(w, "note")
    /\ work[w].notes # << >>
    /\ trail' = [trail EXCEPT ![Span(w)] = Append(@, Head(work[w].notes))]
    /\ work' = [work EXCEPT ![w].notes = Tail(@)]
    /\ UNCHANGED <<nodes, edges, ckpts, proposals, cache, seen, env, order, done>>

(* Through with the span; a flagged one goes on to _auto_propose.          *)
Finish(w) == work' = [work EXCEPT ![w] = NextSpan(w)] /\ done' = done \cup {Span(w)}

NotedIntroduced(w) ==                     \* mutant: passing on is not proposed for
    /\ At(w, "note")
    /\ work[w].notes = << >>
    /\ IF work[w].verdict = [origin |-> "introduced", status |-> "flagged"]
       THEN Goto(w, "root") /\ UNCHANGED done
       ELSE Finish(w)
    /\ UNCHANGED <<store, cache, seen, env, order>>

Noted(w) ==
    /\ At(w, "note")
    /\ work[w].notes = << >>
    /\ IF work[w].verdict.status = "flagged" THEN Goto(w, "root") /\ UNCHANGED done
                                             ELSE Finish(w)
    /\ UNCHANGED <<store, cache, seen, env, order>>

-----------------------------------------------------------------------------
(* find_root_cause: a drifted node upstream with none further up; a set of *)
(* ids is searched in an arbitrary order.  On a cycle, the earliest.  Its  *)
(* queries, and those of propose_remediation, are one step here.           *)
Drifted(s) == Stored(s) /\ nodes[s].status # "ok"
DriftedUpstream(s) == {d \in Upstream(s) \cup {s} : Drifted(d)}
Earliest(D) == {d \in D : \A e \in D : Ts[d] <= Ts[e]}
RootCauses(s) ==
    LET D == DriftedUpstream(s)
        tops == {d \in D : Upstream(d) \cap D = {}}
    IN  CASE D = {} -> {s}
          [] tops # {} -> tops
          [] D # {} /\ tops = {} -> Earliest(D)

(* The actions on a root: <<r, r>> stands for those on the node itself,    *)
(* <<r, d>> for the message filter of an edge.  None is decided here, so   *)
(* every one registered is active and register drops its duplicates.       *)
Actions(r) == {<<r, r>>} \cup {e \in edges : e[1] = r}
FreshNever(batch) == {a \in batch : proposals = EmptyBag}
                                          \* mutant: any active action counts
Fresh(batch) == {a \in batch : ~BagIn(a, proposals)}

ReadRoot(w) ==
    /\ At(w, "root")
    /\ \E r \in RootCauses(Span(w)) :
          work' = [work EXCEPT ![w].pc = "register", ![w].root = r,
                               ![w].batch = Actions(r)]
    /\ UNCHANGED <<store, cache, seen, env, order, done>>

Register(w) ==
    /\ At(w, "register")
    /\ work' = [work EXCEPT ![w].pc = "propose", ![w].batch = Fresh(@)]
    /\ UNCHANGED <<store, cache, seen, env, order, done>>

Propose(w) ==
    /\ At(w, "propose")
    /\ proposals' = proposals (+) SetToBag(work[w].batch)
    /\ Finish(w)
    /\ UNCHANGED <<nodes, edges, ckpts, trail, cache, seen, env, order>>

-----------------------------------------------------------------------------
(* A span fails (the database, a judge): the handler logs it and goes on.  *)
(* _auto_propose swallows its own failures, which comes to the same.       *)
Fail(w) ==
    /\ work[w].rest # << >>
    /\ failures < MaxFailures
    /\ failures' = failures + 1
    /\ work' = [work EXCEPT ![w] = NextSpan(w)]
    /\ UNCHANGED <<store, cache, seen, sends, order, done>>

(* A process dies with its requests and its cache.                         *)
Die(c) ==
    /\ failures < MaxFailures
    /\ \E w \in Workers : Process[w] = c /\ ~At(w, "idle")
    /\ failures' = failures + 1
    /\ cache' = [cache EXCEPT ![c] = << >>]
    /\ work' = [w \in Workers |-> IF Process[w] = c THEN Idle ELSE work[w]]
    /\ UNCHANGED <<store, seen, sends, order, done>>

Continue(w) ==
    \/ Look(w) \/ Answer(w) \/ Route(w) \/ Assess(w) \/ Judged(w) \/ Count(w)
    \/ SaveCheckpoint(w) \/ Upsert(w) \/ ReadInputs(w) \/ Link(w)
    \/ Observe(w) \/ Note(w) \/ Noted(w)
    \/ ReadRoot(w) \/ Register(w) \/ Propose(w)

Next ==
    \/ \E w \in Workers :
          \/ \E r \in DOMAIN Requests : Receive(w, r)
          \/ Continue(w)
          \/ Fail(w)
    \/ \E c \in Processes : Die(c)

Spec == Init /\ [][Next]_vars

(* A thread that runs is given its turns.                                  *)
FairSpec == Spec /\ \A w \in Workers : WF_vars(Continue(w))

-----------------------------------------------------------------------------
Quiet == \A w \in Workers : At(w, "idle")
InOrder(s, t) ==
    \E i, j \in DOMAIN order : i < j /\ order[i] = s /\ order[j] = t
Times(e, s) == Cardinality({i \in DOMAIN trail[s] : trail[s][i] = e})

(* _commit links a span to every input stored before it, also when the     *)
(* input is being stored by another request at the same time.              *)
EarlierInputsLinked ==
    \A s \in done : \A i \in Range(Inputs[s]) : InOrder(i, s) => <<i, s>> \in edges

(* Whatever is proposed is explained by the log: an action on a root comes *)
(* after the detection entry of the root or of a node downstream of it.    *)
ProposalExplained ==
    \A a \in BagToSet(proposals) :
        \E s \in Spans : a[1] \in Upstream(s) \cup {s} /\ Times("detection", s) > 0

(* Every flagged span a worker went through has a proposal on itself or on *)
(* a node upstream, concurrent proposals and duplicates notwithstanding.   *)
FlaggedProposed ==
    \A s \in done : nodes[s].status = "flagged" =>
        \E r \in Upstream(s) \cup {s} : BagIn(<<r, r>>, proposals)

(* tests/test_api.py:86, a batch sent twice is ingested once: no span is   *)
(* detected twice, however often its batch was sent.                       *)
DetectedOnce == \A s \in Spans : Times("detection", s) <= 1

(* The ledger covers the graph: spans_seen is at least the nodes stored,   *)
(* and exactly that when nothing failed or is running.                     *)
LedgerMatches ==
    /\ Len(order) <= seen
    /\ Quiet /\ failures = 0 => Len(order) = seen

(* A flagged span that is stored gets its proposal, unless something       *)
(* fails (_auto_propose is the last thing its request does).               *)
ProposalFollows ==
    \A s \in Spans :
        Drifted(s) /\ nodes[s].status = "flagged"
        ~> failures > 0 \/ \E r \in Upstream(s) \cup {s} : BagIn(<<r, r>>, proposals)
=============================================================================
