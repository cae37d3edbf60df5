-------------------------------- MODULE Judging --------------------------------
(***************************************************************************)
(* How the worker threads of one server process judge spans                *)
(* (CostRouter.ingest in twin/router.py after the cache missed, with the   *)
(* judges of twin/llm.py and twin/integrations/llamafirewall_judge.py).    *)
(*                                                                         *)
(* The threads share the two judges: the firewall, which the first of them *)
(* builds, and the tokens each judge measured and nobody has accounted for *)
(* yet.  Tokens are named by the call that used them.  A judge that fails, *)
(* before or after its tokens were counted, is replaced by StubJudge.      *)
(*                                                                         *)
(* Thinning, the cache, the stored node and failures of the database are   *)
(* the business of Ingest.                                                 *)
(***************************************************************************)
EXTENDS Scoring

CONSTANTS
    Workers,
    Queues,       \* the spans the workers may have to judge, one each (bound)
    Settings,     \* the configurations of the process
    PolicyOf,     \* the policy of the workflow of each worker's span
    Base,         \* the default policy
    Confidences,  \* those a model may answer with (bound)
    Nobody

AllSettings == [backend : {"stub", "llm", "firewall"}, deep : BOOLEAN, buildable : BOOLEAN]
Queueable == AllSpans \cup {Nobody}       \* Nobody: the worker has nothing to do

ASSUME PolicyAssumption ==
    /\ PolicyOf \in [Workers -> Policies] /\ Base \in Policies
    /\ \A w \in Workers : PolicyOf[w].flag <= 7000 /\ PolicyOf[w].watch <= 5000
    /\ Base.hard <= 90
ASSUME QueueAssumption ==
    /\ Queues \subseteq [Workers -> Queueable] /\ Settings \subseteq AllSettings
    /\ Nobody \notin AllSpans /\ Nobody \notin Workers
ASSUME ConfidenceAssumption == Confidences \subseteq Percent

VARIABLES
    setting,
    queue,        \* per worker, its span
    pc,
    verdict,      \* per worker, the verdict of its span,
    source,       \* and whose it is
    status, risk, \* of the signals
    handle,       \* _fw: whether the firewall is there
    built, lock,  \* _built, and who builds it
    pending,      \* per judge, the calls whose tokens were measured and not popped
    held,         \* per worker, the calls whose tokens it popped
    ledger,       \* the calls whose tokens the ledger has
    spent         \* history: the calls whose tokens were measured

judge == <<verdict, source, status, risk>>
firewall == <<handle, built, lock>>
tokens == <<pending, held, ledger, spent>>
vars == <<setting, queue, pc, judge, firewall, tokens>>

Judges == {"small", "deep"}
Calls == Workers \X Judges
Sources == {"none", "stub", "model", "outage", "unavailable"}
Verdicts == [serves : BOOLEAN, conf : Percent]
Pcs == {"new", "look", "lock", "build", "mark", "scan", "small", "deep",
        "popSmall", "popDeep", "count", "done"}

TypeOK ==
    /\ setting \in AllSettings
    /\ queue \in [Workers -> Queueable]
    /\ pc \in [Workers -> Pcs]
    /\ verdict \in [Workers -> Verdicts]
    /\ source \in [Workers -> Sources]
    /\ status \in [Workers -> {"flagged", "watch", "ok"}]
    /\ pending \in [Judges -> SUBSET Calls]
    /\ held \in [Workers -> SUBSET Calls]
    /\ ledger \subseteq Calls /\ spent \subseteq Calls

Init ==
    /\ setting \in Settings
    /\ queue \in Queues
    /\ pc = [w \in Workers |-> IF queue[w] = Nobody THEN "done" ELSE "new"]
    /\ verdict = [w \in Workers |-> NoVerdict] /\ source = [w \in Workers |-> "none"]
    /\ status = [w \in Workers |-> "ok"] /\ risk = [w \in Workers |-> "none"]
    /\ handle = FALSE /\ built = FALSE /\ lock = Nobody
    /\ pending = [j \in Judges |-> {}] /\ held = [w \in Workers |-> {}]
    /\ ledger = {} /\ spent = {}

Goto(w, step) == pc' = [pc EXCEPT ![w] = step]

-----------------------------------------------------------------------------
(* assess_span: what the verdict makes of the score; the risk is named     *)
(* here, and a later verdict of the deep judge does not name it again.     *)
Assessed(w, v, from) ==
    LET s == queue[w]
        st == StatusOf(Score(s, v), PolicyOf[w])
    IN  /\ verdict' = [verdict EXCEPT ![w] = v]
        /\ source' = [source EXCEPT ![w] = from]
        /\ status' = [status EXCEPT ![w] = st]
        /\ risk' = [risk EXCEPT ![w] = IF st = "ok" THEN "none" ELSE Risk(s, PolicyOf[w])]
        /\ Goto(w, IF st = "flagged" /\ setting.deep THEN "deep" ELSE "popSmall")

FirstJudge == IF setting.backend = "firewall" THEN "look" ELSE "small"

Detect(w) ==
    /\ pc[w] = "new"
    /\ IF Consulted(queue[w], PolicyOf[w])
       THEN Goto(w, FirstJudge) /\ UNCHANGED judge
       ELSE Assessed(w, NoVerdict, "none")
    /\ UNCHANGED <<setting, queue, firewall, tokens>>

(* What a call comes to: the answer of the model, or StubJudge's after a   *)
(* failure.                                                                *)
ModelVerdicts == [serves : BOOLEAN, conf : Confidences]
Answers(w) ==
    {[verdict |-> v, from |-> "model"] : v \in ModelVerdicts}
    \cup {[verdict |-> v, from |-> "outage"] : v \in StubVerdicts(queue[w], Base)}

Measured(w, j) ==
    /\ pending' = [pending EXCEPT ![j] = @ \cup {<<w, j>>}]
    /\ spent' = spent \cup {<<w, j>>}
    /\ UNCHANGED <<held, ledger>>

(* OpenAICompatibleJudge: tokens may be measured, or not, when it fails.   *)
AskModel(w) ==
    /\ pc[w] = "small" /\ setting.backend = "llm"
    /\ \E a \in Answers(w) :
          /\ Assessed(w, a.verdict, a.from)
          /\ Measured(w, "small") \/ (a.from = "outage" /\ UNCHANGED tokens)
    /\ UNCHANGED <<setting, queue, firewall>>

AskStub(w) ==
    /\ pc[w] = "small" /\ setting.backend = "stub"
    /\ \E v \in StubVerdicts(queue[w], Base) : Assessed(w, v, "stub")
    /\ UNCHANGED <<setting, queue, firewall, tokens>>

(* _get_firewall: looked for without the lock, then again with it.         *)
ReadyEarly == built \/ lock # Nobody      \* mutant: _built is set before the build
Ready == built

Look(w) ==
    /\ pc[w] = "look"
    /\ Goto(w, IF Ready THEN "scan" ELSE "lock")
    /\ UNCHANGED <<setting, queue, judge, firewall, tokens>>

TakeLock(w) ==
    /\ pc[w] = "lock" /\ lock = Nobody
    /\ IF built THEN Goto(w, "scan") /\ UNCHANGED lock
                ELSE Goto(w, "build") /\ lock' = w
    /\ UNCHANGED <<setting, queue, judge, handle, built, tokens>>

Build(w) ==
    /\ pc[w] = "build"
    /\ handle' = setting.buildable
    /\ Goto(w, "mark")
    /\ UNCHANGED <<setting, queue, judge, built, lock, tokens>>

MarkBuilt(w) ==
    /\ pc[w] = "mark"
    /\ built' = TRUE /\ lock' = Nobody
    /\ Goto(w, "scan")
    /\ UNCHANGED <<setting, queue, judge, handle, tokens>>

Scan(w) ==
    /\ pc[w] = "scan"
    /\ IF handle THEN \E a \in Answers(w) : Assessed(w, a.verdict, a.from)
       ELSE \E v \in StubVerdicts(queue[w], Base) : Assessed(w, v, "unavailable")
    /\ UNCHANGED <<setting, queue, firewall, tokens>>

(* CostRouter.ingest: the deep judge on a flagged span.                    *)
AskDeep(w) ==
    /\ pc[w] = "deep"
    /\ \E a \in Answers(w) :
          /\ verdict' = [verdict EXCEPT ![w] = a.verdict]
          /\ source' = [source EXCEPT ![w] = a.from]
          /\ status' = [status EXCEPT ![w] = StatusOf(Score(queue[w], a.verdict), PolicyOf[w])]
          /\ Measured(w, "deep") \/ (a.from = "outage" /\ UNCHANGED tokens)
    /\ Goto(w, "popSmall")
    /\ UNCHANGED <<setting, queue, risk, firewall>>

-----------------------------------------------------------------------------
(* JudgePair.pop_measured_tokens: one judge after the other.  The worker   *)
(* takes what others spent as well.                                        *)
AfterPopKept(j) == pending                \* mutant: the counter is not reset
AfterPop(j) == [pending EXCEPT ![j] = {}]

Pop(w, j, step, next) ==
    /\ pc[w] = step
    /\ held' = [held EXCEPT ![w] = @ \cup pending[j]]
    /\ pending' = AfterPop(j)
    /\ Goto(w, next)
    /\ UNCHANGED <<setting, queue, judge, firewall, ledger, spent>>

(* incr_counters                                                           *)
Count(w) ==
    /\ pc[w] = "count"
    /\ ledger' = ledger \cup held[w]
    /\ held' = [held EXCEPT ![w] = {}]
    /\ Goto(w, "done")
    /\ UNCHANGED <<setting, queue, judge, firewall, pending, spent>>

Next ==
    \E w \in Workers :
        \/ Detect(w)
        \/ AskModel(w) \/ AskStub(w)
        \/ Look(w) \/ TakeLock(w) \/ Build(w) \/ MarkBuilt(w) \/ Scan(w)
        \/ AskDeep(w)
        \/ Pop(w, "small", "popSmall", "popDeep") \/ Pop(w, "deep", "popDeep", "count")
        \/ Count(w)

Spec == Init /\ [][Next]_vars

-----------------------------------------------------------------------------
Judged(w) == pc[w] \notin {"new", "look", "lock", "build", "mark", "scan", "small", "deep"}

(* detection.py:377 and router.py:123-137: a span with a sensitive call    *)
(* that the inline rail denies for want of an intent or task that          *)
(* authorises it ends flagged too, whichever judges answer or fail         *)
(* and with the thresholds of any workflow.  The one way out is the        *)
(* verdict of a model, and that only if the span declares no intent or its *)
(* semantic distance hides the call (line 369: the gap is not structural   *)
(* any more, and then counts nothing).                                     *)
UnjustifiedFlagged ==
    \A w \in Workers :
        /\ queue[w] # Nobody /\ Judged(w)
        /\ "unjustified" \in Denials(queue[w])
        /\ status[w] # "flagged"
        => source[w] = "model" /\ (~queue[w].intent \/ queue[w].semantic >= 90)

(* A judge that objects leaves a trace, however little it is sure (line    *)
(* 114): no span ends ok against the last verdict.                         *)
ObjectionSeen ==
    \A w \in Workers :
        queue[w] # Nobody /\ Judged(w) /\ ~verdict[w].serves => status[w] # "ok"

(* llm.py:78: whoever pops them, the tokens of a call are in exactly one   *)
(* place, and in the ledger once no span is being judged.                  *)
TokensAccounted ==
    /\ spent = ledger \cup (UNION {pending[j] : j \in Judges}) \cup (UNION {held[w] : w \in Workers})
    /\ \A j \in Judges : pending[j] \cap ledger = {}
    /\ \A w \in Workers : held[w] \cap (ledger \cup pending["small"] \cup pending["deep"]) = {}
    /\ \A v, w \in Workers : v # w => held[v] \cap held[w] = {}
    /\ (\A w \in Workers : pc[w] = "done") => ledger = spent

(* llamafirewall_judge.py:121: a firewall that can be built is used by     *)
(* every thread, also by those that look while another builds it.          *)
FirewallUsed == setting.buildable => \A w \in Workers : source[w] # "unavailable"

(* A flagged span that no risk is named for (taxonomy.py, the metric       *)
(* "unclassified") has nothing against it but an unexplained effect.       *)
RiskNamed ==
    \A w \in Workers :
        status[w] = "flagged" /\ risk[w] = "none" => Severities(queue[w]) \ {40} = {55}
=============================================================================
