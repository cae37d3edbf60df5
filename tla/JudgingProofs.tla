----------------------------- MODULE JudgingProofs -----------------------------
(***************************************************************************)
(* For any spans, thresholds, distances and confidences: an unjustified    *)
(* sensitive call ends flagged unless a model says otherwise, an objection *)
(* leaves a trace, every token is accounted for once, every thread gets    *)
(* the firewall that could be built, and a flagged span has a named risk   *)
(* or an unexplained effect.                                               *)
(*                                                                         *)
(* The argument for the first: an unjustified call has severity 90, so the *)
(* judge is asked, and StubJudge objects with at least 82, which is 7460.  *)
(* If the call is structural the gap is 90 too, and with 50 * 90 + 35 * 90 *)
(* no verdict matters any more.                                            *)
(***************************************************************************)
EXTENDS Judging, TLAPS

LEMMA SpanTypes ==
    ASSUME NEW s \in AllSpans
    PROVE  /\ s.semantic \in 0..100 /\ s.traj \in 0..100
           /\ s.intent \in BOOLEAN /\ s.calls \subseteq CallKinds
           /\ Severities(s) \subseteq {40, 50, 55, 60, 80, 90}
           /\ Reasons(s) \subseteq {62, 80, 82, 90}
BY DEF AllSpans, Percent, Severities, SensitiveSeverity, Reasons

LEMMA DetBounds ==
    ASSUME NEW s \in AllSpans
    PROVE  /\ Det(s) \in 0..90
           /\ \A x \in Severities(s) : x <= Det(s)
<1> DEFINE S == {0} \cup Severities(s)
<1>1. S \subseteq {0, 40, 50, 55, 60, 80, 90} /\ 0 \in S
  BY SpanTypes
<1>2. \E x \in S : \A y \in S : x >= y
  BY <1>1
<1>3. Det(s) \in S /\ \A y \in S : Det(s) >= y
  BY <1>2 DEF Det, Max
<1> QED
  BY <1>1, <1>3

LEMMA GapBounds ==
    ASSUME NEW s \in AllSpans
    PROVE  /\ Gap(s) \in 0..100
           /\ s.intent => \A x \in Reasons(s) : x <= Gap(s)
<1> DEFINE S == {s.semantic} \cup Reasons(s)
<1>1. S \subseteq 0..100 /\ s.semantic \in S /\ Reasons(s) \subseteq {62, 80, 82, 90}
  BY SpanTypes
<1>2. \E x \in S : \A y \in S : x >= y
  BY <1>1
<1>3. Max(S) \in S /\ \A y \in S : Max(S) >= y
  BY <1>2 DEF Max
<1> QED
  BY <1>1, <1>3 DEF Gap

LEMMA PolicyTypes ==
    /\ Base.hard \in Nat /\ Base.hard <= 90
    /\ \A pol \in Policies : pol.flag \in Nat /\ pol.watch \in Nat /\ pol.hard \in Nat
    /\ \A w \in Workers : PolicyOf[w] \in Policies
                         /\ PolicyOf[w].flag <= 7000 /\ PolicyOf[w].watch <= 5000
<1>1. ASSUME NEW pol \in Policies
      PROVE  pol.flag \in Nat /\ pol.watch \in Nat /\ pol.hard \in Nat
  BY DEF Policies, Percent
<1>2. Base \in Policies /\ Base.hard <= 90
  BY PolicyAssumption
<1>3. \A w \in Workers : PolicyOf[w] \in Policies
                      /\ PolicyOf[w].flag <= 7000 /\ PolicyOf[w].watch <= 5000
  BY PolicyAssumption
<1> QED
  BY <1>1, <1>2, <1>3

LEMMA EvidenceIsNat ==
    ASSUME NEW s \in AllSpans
    PROVE  Evidence(s) \in Nat
<1> DEFINE g == IF Structural(s) THEN 50 * Gap(s) ELSE 0
<1>1. Det(s) \in Nat /\ Gap(s) \in Nat /\ s.traj \in Nat
  BY SpanTypes, DetBounds, GapBounds
<1>2. g \in Nat
  BY <1>1
<1> HIDE DEF g
<1>3. g + 35 * Det(s) + 15 * s.traj \in Nat
  BY <1>1, <1>2
<1> QED
  BY <1>3 DEF Evidence, g

(* A denial for want of justification has the highest severity, makes the  *)
(* judge be asked and StubJudge object.                                    *)
LEMMA Unjustified ==
    ASSUME NEW s \in AllSpans, "unjustified" \in Denials(s)
    PROVE  /\ Det(s) = 90
           /\ 90 \in Reasons(s)
           /\ \A pol \in Policies : Consulted(s, pol)
           /\ StubObjects(s, Base)
<1>1. "unjustified" \in s.calls \cap Sensitive
  BY DEF Denials, Sensitive
<1>2. 90 \in Severities(s) /\ 90 \in Reasons(s)
  BY <1>1 DEF Severities, SensitiveSeverity, Reasons
<1>3. Det(s) = 90
  BY <1>2, DetBounds
<1> QED
  BY <1>2, <1>3, PolicyTypes DEF Consulted, StubObjects

LEMMA Flagged ==
    ASSUME NEW w \in Workers, NEW x \in Int, x >= 7000
    PROVE  StatusOf(x, PolicyOf[w]) = "flagged"
<1>1. PolicyOf[w].flag \in Nat /\ PolicyOf[w].flag <= 7000
  BY PolicyTypes
<1> QED
  BY <1>1 DEF StatusOf

(* With a structural gap no verdict can clear an unjustified call,         *)
LEMMA StructuralFlagged ==
    ASSUME NEW w \in Workers, NEW s \in AllSpans, "unjustified" \in Denials(s),
           s.intent, s.semantic < 90, NEW v \in Verdicts
    PROVE  StatusOf(Score(s, v), PolicyOf[w]) = "flagged"
<1>1. Structural(s)
  BY SpanTypes, Unjustified DEF Structural
<1>2. Gap(s) \in 90..100 /\ s.traj \in 0..100 /\ Det(s) = 90
  BY Unjustified, GapBounds, SpanTypes
<1>3. Evidence(s) \in Nat /\ Evidence(s) >= 7650
  BY <1>1, <1>2 DEF Evidence
<1>4. v.conf \in 0..100
  BY DEF Verdicts, Percent
<1>5. Score(s, v) \in Int /\ Score(s, v) >= 7000
  BY <1>3, <1>4 DEF Score, Least, Greatest
<1> QED
  BY <1>5, Flagged

(* and without one that of StubJudge cannot.                               *)
LEMMA StubFlagged ==
    ASSUME NEW w \in Workers, NEW s \in AllSpans, "unjustified" \in Denials(s),
           NEW v \in StubVerdicts(s, Base)
    PROVE  StatusOf(Score(s, v), PolicyOf[w]) = "flagged"
<1>1. v.serves = FALSE /\ v.conf \in {82, 90}
  BY Unjustified DEF StubVerdicts
<1>2. Score(s, v) \in Int /\ Score(s, v) >= 7000
  BY <1>1, EvidenceIsNat DEF Score, Least, Greatest
<1> QED
  BY <1>2, Flagged

LEMMA ObjectionNotOk ==
    ASSUME NEW w \in Workers, NEW s \in AllSpans, NEW v \in Verdicts, ~v.serves
    PROVE  StatusOf(Score(s, v), PolicyOf[w]) # "ok"
<1>1. v.conf \in 0..100
  BY DEF Verdicts, Percent
<1>2. Score(s, v) \in Int /\ Score(s, v) >= 5000
  BY <1>1, EvidenceIsNat DEF Score, Least, Greatest
<1>3. PolicyOf[w].watch \in Nat /\ PolicyOf[w].watch <= 5000
  BY PolicyTypes
<1> QED
  BY <1>2, <1>3 DEF StatusOf

LEMMA StubTypes ==
    ASSUME NEW s \in AllSpans
    PROVE  StubVerdicts(s, Base) \subseteq Verdicts
<1>0. {82, 90} \subseteq 0..100 /\ {70} \subseteq 0..100
  OBVIOUS
<1>1. [serves : {FALSE}, conf : {82, 90}] \subseteq [serves : BOOLEAN, conf : 0..100]
  <2> SUFFICES ASSUME NEW v \in [serves : {FALSE}, conf : {82, 90}]
               PROVE  v \in [serves : BOOLEAN, conf : 0..100]
    OBVIOUS
  <2>1. v = [serves |-> v.serves, conf |-> v.conf] /\ v.serves \in {FALSE} /\ v.conf \in {82, 90}
    OBVIOUS
  <2>2. v.serves \in BOOLEAN
    BY <2>1
  <2>3. v.conf \in 0..100
    BY <2>1
  <2> QED
    BY <2>1, <2>2, <2>3
<1>2. [serves : {TRUE}, conf : {70}] \subseteq [serves : BOOLEAN, conf : 0..100]
  <2> SUFFICES ASSUME NEW v \in [serves : {TRUE}, conf : {70}]
               PROVE  v \in [serves : BOOLEAN, conf : 0..100]
    OBVIOUS
  <2>1. v = [serves |-> v.serves, conf |-> v.conf] /\ v.serves \in {TRUE} /\ v.conf \in {70}
    OBVIOUS
  <2>2. v.serves \in BOOLEAN
    BY <2>1
  <2>3. v.conf \in 0..100
    BY <2>1
  <2> QED
    BY <2>1, <2>2, <2>3
<1>3. Verdicts = [serves : BOOLEAN, conf : 0..100]
  BY DEF Verdicts, Percent
<1> QED
  BY <1>1, <1>2, <1>3 DEF StubVerdicts

-----------------------------------------------------------------------------
Asking == {"look", "lock", "build", "mark", "scan", "small"}

(* The status is that of the verdict, and the verdict is whose it says.    *)
VerdictOf(w) ==
    queue[w] # Nobody /\ Judged(w) =>
        /\ status[w] = StatusOf(Score(queue[w], verdict[w]), PolicyOf[w])
        /\ source[w] = "none" => ~Consulted(queue[w], PolicyOf[w])
        /\ source[w] \in {"stub", "outage", "unavailable"} =>
              verdict[w] \in StubVerdicts(queue[w], Base)
VerdictInv ==
    \A w \in Workers : VerdictOf(w) /\ (queue[w] = Nobody => pc[w] = "done")

(* One thread at most builds the firewall, and nobody scans before.        *)
FirewallInv ==
    /\ built => handle = setting.buildable
    /\ \A w \in Workers :
          /\ pc[w] \in {"build", "mark"} => lock = w /\ ~built
          /\ pc[w] = "mark" => handle = setting.buildable
          /\ pc[w] = "scan" => built
          /\ source[w] = "unavailable" => ~setting.buildable

(* Where the tokens of a call are tells how far its worker is: it pops     *)
(* what it spent, if nobody did before.                                    *)
Placed ==
    \A w \in Workers :
        /\ pc[w] \in Asking \cup {"new"} => <<w, "small">> \notin spent
        /\ pc[w] \in Asking \cup {"new", "deep"} => <<w, "deep">> \notin spent
        /\ held[w] # {} => pc[w] \in {"popDeep", "count"}
        /\ <<w, "small">> \in pending["small"] => pc[w] \in {"deep", "popSmall"}
        /\ <<w, "deep">> \in pending["deep"] => pc[w] \in {"popSmall", "popDeep"}
OfJudge == \A j \in Judges : pending[j] \subseteq Workers \X {j}

Apart ==
    /\ \A c \in Calls : c \in spent <=>
          c \in ledger \/ (\E j \in Judges : c \in pending[j]) \/ \E w \in Workers : c \in held[w]
    /\ \A j \in Judges : pending[j] \cap ledger = {}
    /\ \A w \in Workers : held[w] \cap (ledger \cup pending["small"] \cup pending["deep"]) = {}
    /\ \A v, w \in Workers : v # w => held[v] \cap held[w] = {}
TokenInv == Placed /\ OfJudge /\ Apart

IInv == TypeOK /\ VerdictInv /\ FirewallInv /\ TokenInv
-----------------------------------------------------------------------------
LEMMA InitInv == Init => IInv
<1> SUFFICES ASSUME Init PROVE IInv
  OBVIOUS
<1>1. TypeOK
  BY QueueAssumption DEF Init, TypeOK, NoVerdict, Verdicts, Percent, Pcs, Sources, Judges, Calls
<1>2. VerdictInv
  BY DEF Init, VerdictInv, VerdictOf, Judged
<1>3. FirewallInv
  BY DEF Init, FirewallInv
<1>4. TokenInv
  BY DEF Init, TokenInv, Placed, OfJudge, Apart, Asking, Judges
<1> QED
  BY <1>1, <1>2, <1>3, <1>4 DEF IInv

(* The steps that change neither a verdict nor a token.                    *)
LEMMA BuildKeeps ==
    ASSUME IInv, NEW w \in Workers,
           Look(w) \/ TakeLock(w) \/ Build(w) \/ MarkBuilt(w)
    PROVE  IInv'
<1> USE DEF IInv, Look, TakeLock, Build, MarkBuilt, Goto, judge, firewall, tokens, Ready
<1>1. TypeOK'
  BY DEF TypeOK, Pcs
<1>2. VerdictInv'
  BY DEF TypeOK, VerdictInv, VerdictOf, Judged
<1>3. FirewallInv'
  <2>1. CASE Look(w)
    BY <2>1 DEF TypeOK, FirewallInv
  <2>2. CASE TakeLock(w)
    <3>1. lock = Nobody /\ \A v \in Workers : pc[v] \in {"build", "mark"} => lock = v /\ ~built
      BY <2>2 DEF FirewallInv
    <3>2. CASE built
      BY <2>2, <3>2 DEF TypeOK, FirewallInv
    <3>3. CASE ~built
      <4>1. \A v \in Workers : pc[v] \notin {"build", "mark"}
        BY <3>1, QueueAssumption DEF VerdictInv
      <4>2. lock' = w /\ ~built' /\ pc' = [pc EXCEPT ![w] = "build"] /\ pc \in [Workers -> Pcs]
              /\ UNCHANGED <<setting, source, handle>>
        BY <2>2, <3>3 DEF TypeOK
      <4> QED
        BY <4>1, <4>2 DEF FirewallInv
    <3> QED
      BY <3>2, <3>3
  <2>3. CASE Build(w)
    BY <2>3 DEF TypeOK, FirewallInv
  <2>4. CASE MarkBuilt(w)
    BY <2>4 DEF TypeOK, FirewallInv
  <2> QED
    BY <2>1, <2>2, <2>3, <2>4
<1>4. TokenInv'
  BY DEF TypeOK, TokenInv, Placed, OfJudge, Apart, Asking
<1> QED
  BY <1>1, <1>2, <1>3, <1>4

(* What a step of a judge does to the tokens.                              *)
LEMMA MeasuredKeeps ==
    ASSUME IInv, NEW w \in Workers, NEW j \in Judges,
           pc[w] = j,
           Measured(w, j) \/ UNCHANGED tokens,
           NEW step \in {"deep", "popSmall"}, j = "deep" => step = "popSmall", Goto(w, step)
    PROVE  TokenInv' /\ pending' \in [Judges -> SUBSET Calls] /\ spent' \subseteq Calls
             /\ UNCHANGED <<held, ledger>>
<1>1. <<w, j>> \in Calls /\ <<w, j>> \notin spent
  BY DEF IInv, TokenInv, Placed, Asking, Calls, Judges
<1>2. CASE UNCHANGED tokens
  BY <1>2 DEF IInv, TypeOK, TokenInv, Placed, OfJudge, Apart, Asking, tokens, Goto, Judges
<1>3. CASE Measured(w, j)
  <2>1. \A c : \E w1 \in Workers : c \in held[w1] => c \in Calls
    BY DEF IInv, TypeOK
  <2>2. pending' \in [Judges -> SUBSET Calls] /\ spent' \subseteq Calls /\ UNCHANGED <<held, ledger>>
    BY <1>1, <1>3 DEF IInv, TypeOK, Measured
  <2>3. Placed'
    BY <1>1, <1>3 DEF IInv, TypeOK, TokenInv, Placed, Asking, Measured, Goto, Judges
  <2>4. OfJudge'
    BY <1>3 DEF IInv, TypeOK, TokenInv, OfJudge, Measured
  <2>5. Apart'
    BY <1>1, <1>3 DEF IInv, TypeOK, TokenInv, Apart, Measured, Judges
  <2> QED
    BY <2>2, <2>3, <2>4, <2>5 DEF TokenInv
<1> QED
  BY <1>2, <1>3

LEMMA AnswersTyped ==
    ASSUME TypeOK, NEW w \in Workers, queue[w] \in AllSpans, NEW a \in Answers(w)
    PROVE  /\ a.verdict \in Verdicts
           /\ a.from \in {"model", "outage"}
           /\ a.from = "outage" => a.verdict \in StubVerdicts(queue[w], Base)
BY StubTypes, ConfidenceAssumption DEF Answers, ModelVerdicts, Verdicts

(* A verdict that is what it says keeps the invariant of verdicts.         *)
LEMMA AssessedKeeps ==
    ASSUME IInv, NEW w \in Workers, queue[w] \in AllSpans, UNCHANGED <<setting, queue, firewall>>,
           NEW v \in Verdicts, NEW from \in Sources, Assessed(w, v, from),
           pc[w] \in Asking \cup {"new"},
           from = "none" => ~Consulted(queue[w], PolicyOf[w]),
           from \in {"stub", "outage", "unavailable"} => v \in StubVerdicts(queue[w], Base),
           from = "unavailable" => ~setting.buildable
    PROVE  /\ VerdictInv' /\ FirewallInv'
           /\ verdict' \in [Workers -> Verdicts] /\ source' \in [Workers -> Sources]
           /\ status' \in [Workers -> {"flagged", "watch", "ok"}]
           /\ pc' \in [Workers -> Pcs]
           /\ \E step \in {"deep", "popSmall"} : Goto(w, step)
<1> USE DEF IInv, Assessed, Goto, firewall
<1>1. /\ verdict' \in [Workers -> Verdicts] /\ source' \in [Workers -> Sources]
      /\ status' \in [Workers -> {"flagged", "watch", "ok"}]
      /\ pc' \in [Workers -> Pcs]
      /\ \E step \in {"deep", "popSmall"} : pc' = [pc EXCEPT ![w] = step]
  BY DEF TypeOK, StatusOf, Pcs
<1>2. VerdictInv'
  BY QueueAssumption DEF TypeOK, VerdictInv, VerdictOf, Judged
<1>3. FirewallInv'
  BY DEF TypeOK, FirewallInv
<1> QED
  BY <1>1, <1>2, <1>3

LEMMA AskKeeps ==
    ASSUME IInv, NEW w \in Workers,
           Detect(w) \/ AskModel(w) \/ AskStub(w) \/ Scan(w)
    PROVE  IInv'
<1>1. queue[w] \in AllSpans /\ pc[w] \in Asking \cup {"new"}
  BY QueueAssumption
     DEF IInv, TypeOK, VerdictInv, Queueable, Detect, AskModel, AskStub, Scan, Asking
<1>2. CASE Detect(w) /\ Consulted(queue[w], PolicyOf[w])
  <2> USE <1>2 DEF IInv, Detect, Goto, judge, firewall, tokens, FirstJudge
  <2>1. TypeOK'
    BY DEF TypeOK, Pcs
  <2>2. VerdictInv'
    BY <1>1, QueueAssumption DEF TypeOK, VerdictInv, VerdictOf, Judged
  <2>3. FirewallInv' /\ TokenInv'
    BY DEF TypeOK, FirewallInv, TokenInv, Placed, OfJudge, Apart, Asking
  <2> QED
    BY <2>1, <2>2, <2>3
<1>3. ASSUME NEW v \in Verdicts, NEW from \in Sources, Assessed(w, v, from),
             UNCHANGED <<setting, queue, firewall>>,
             UNCHANGED tokens \/ (pc[w] = "small" /\ Measured(w, "small")),
             from = "none" => ~Consulted(queue[w], PolicyOf[w]),
             from \in {"stub", "outage", "unavailable"} => v \in StubVerdicts(queue[w], Base),
             from = "unavailable" => ~setting.buildable
      PROVE  IInv'
  <2>1. /\ VerdictInv' /\ FirewallInv'
        /\ verdict' \in [Workers -> Verdicts] /\ source' \in [Workers -> Sources]
        /\ status' \in [Workers -> {"flagged", "watch", "ok"}]
        /\ pc' \in [Workers -> Pcs]
    BY <1>1, <1>3, AssessedKeeps
  <2>2. PICK step \in {"deep", "popSmall"} : Goto(w, step)
    BY <1>1, <1>3, AssessedKeeps
  <2>3. TokenInv' /\ pending' \in [Judges -> SUBSET Calls] /\ spent' \subseteq Calls
          /\ UNCHANGED <<held, ledger>>
    <3>1. CASE UNCHANGED tokens
      BY <1>1, <2>2, <3>1
         DEF IInv, TypeOK, TokenInv, Placed, OfJudge, Apart, Asking, tokens, Goto
    <3>2. CASE pc[w] = "small" /\ Measured(w, "small")
      BY <2>2, <3>2, MeasuredKeeps DEF Judges
    <3> QED
      BY <1>3, <3>1, <3>2
  <2>4. TypeOK'
    BY <1>3, <2>1, <2>3 DEF IInv, TypeOK
  <2> QED
    BY <2>1, <2>3, <2>4 DEF IInv
<1>4. CASE Detect(w) /\ ~Consulted(queue[w], PolicyOf[w])
  <2>1. NoVerdict \in Verdicts /\ "none" \in Sources
    BY DEF NoVerdict, Verdicts, Percent, Sources
  <2> QED
    BY <1>3, <1>4, <2>1 DEF Detect
<1>5. CASE AskModel(w)
  <2>1. PICK a \in Answers(w) :
          /\ Assessed(w, a.verdict, a.from)
          /\ Measured(w, "small") \/ (a.from = "outage" /\ UNCHANGED tokens)
    BY <1>5 DEF AskModel
  <2>2. a.from \in Sources /\ a.from \in {"model", "outage"} /\ a.verdict \in Verdicts
          /\ (a.from = "outage" => a.verdict \in StubVerdicts(queue[w], Base))
    BY <1>1, AnswersTyped DEF IInv, Sources
  <2> QED
    BY <1>3, <1>5, <2>1, <2>2 DEF AskModel
<1>6. CASE AskStub(w)
  BY <1>1, <1>3, <1>6, StubTypes DEF AskStub, Sources
<1>7. CASE Scan(w) /\ handle
  <2>1. PICK a \in Answers(w) : Assessed(w, a.verdict, a.from)
    BY <1>7 DEF Scan
  <2>2. a.from \in Sources /\ a.from \in {"model", "outage"} /\ a.verdict \in Verdicts
          /\ (a.from = "outage" => a.verdict \in StubVerdicts(queue[w], Base))
    BY <1>1, AnswersTyped DEF IInv, Sources
  <2> QED
    BY <1>3, <1>7, <2>1, <2>2 DEF Scan
<1>8. CASE Scan(w) /\ ~handle
  <2>1. ~setting.buildable
    BY <1>8 DEF Scan, IInv, FirewallInv
  <2> QED
    BY <1>1, <1>3, <1>8, <2>1, StubTypes DEF Scan, Sources
<1> QED
  BY <1>2, <1>4, <1>5, <1>6, <1>7, <1>8

LEMMA DeepKeeps ==
    ASSUME IInv, NEW w \in Workers, AskDeep(w)
    PROVE  IInv'
<1>1. queue[w] \in AllSpans /\ pc[w] = "deep"
  BY QueueAssumption DEF IInv, TypeOK, VerdictInv, Queueable, AskDeep
<1>2. PICK a \in Answers(w) :
        /\ verdict' = [verdict EXCEPT ![w] = a.verdict]
        /\ source' = [source EXCEPT ![w] = a.from]
        /\ status' = [status EXCEPT ![w] = StatusOf(Score(queue[w], a.verdict), PolicyOf[w])]
        /\ Measured(w, "deep") \/ (a.from = "outage" /\ UNCHANGED tokens)
  BY DEF AskDeep
<1>3. /\ a.verdict \in Verdicts /\ a.from \in {"model", "outage"}
      /\ a.from = "outage" => a.verdict \in StubVerdicts(queue[w], Base)
  BY <1>1, AnswersTyped DEF IInv
<1>4. Goto(w, "popSmall") /\ UNCHANGED <<setting, queue, firewall>>
  BY DEF AskDeep
<1>5. TokenInv' /\ pending' \in [Judges -> SUBSET Calls] /\ spent' \subseteq Calls
        /\ UNCHANGED <<held, ledger>>
  BY <1>1, <1>2, <1>4, MeasuredKeeps DEF Judges
<1>6. TypeOK'
  BY <1>2, <1>3, <1>4, <1>5 DEF IInv, TypeOK, Goto, Pcs, Sources, StatusOf
<1>7. VerdictInv'
  BY <1>1, <1>2, <1>3, <1>4, QueueAssumption
     DEF IInv, TypeOK, VerdictInv, VerdictOf, Judged, Goto
<1>8. FirewallInv'
  BY <1>2, <1>3, <1>4 DEF IInv, TypeOK, FirewallInv, Goto, firewall
<1> QED
  BY <1>5, <1>6, <1>7, <1>8 DEF IInv

LEMMA PopKeeps ==
    ASSUME IInv, NEW w \in Workers,
           Pop(w, "small", "popSmall", "popDeep") \/ Pop(w, "deep", "popDeep", "count")
    PROVE  IInv'
<1> USE DEF IInv, Pop, AfterPop, Goto, judge, firewall
<1>1. TypeOK'
  BY DEF TypeOK, Pcs, Judges
<1>2. VerdictInv' /\ FirewallInv'
  BY DEF TypeOK, VerdictInv, VerdictOf, Judged, FirewallInv
<1>3. Placed'
  BY DEF TypeOK, TokenInv, Placed, OfJudge, Asking, Judges
<1>4. OfJudge'
  BY DEF TypeOK, TokenInv, OfJudge, Judges
<1>5. Apart'
  <2>1. CASE Pop(w, "small", "popSmall", "popDeep")
    BY <2>1 DEF TypeOK, TokenInv, Apart, OfJudge, Judges
  <2>2. CASE Pop(w, "deep", "popDeep", "count")
    BY <2>2 DEF TypeOK, TokenInv, Apart, OfJudge, Judges
  <2> QED
    BY <2>1, <2>2
<1> QED
  BY <1>1, <1>2, <1>3, <1>4, <1>5 DEF TokenInv

LEMMA CountKeeps ==
    ASSUME IInv, NEW w \in Workers, Count(w)
    PROVE  IInv'
<1> USE DEF IInv, Count, Goto, judge, firewall
<1>1. TypeOK'
  BY DEF TypeOK, Pcs
<1>2. VerdictInv' /\ FirewallInv'
  BY DEF TypeOK, VerdictInv, VerdictOf, Judged, FirewallInv
<1>3. Placed' /\ OfJudge'
  BY DEF TypeOK, TokenInv, Placed, OfJudge, Asking
<1>4. Apart'
  BY DEF TypeOK, TokenInv, Apart, Judges
<1> QED
  BY <1>1, <1>2, <1>3, <1>4 DEF TokenInv

LEMMA NextInv == IInv /\ [Next]_vars => IInv'
<1>1. SUFFICES ASSUME IInv, [Next]_vars PROVE IInv'
  OBVIOUS
<1>2. CASE UNCHANGED vars
  BY <1>1, <1>2 DEF vars, judge, firewall, tokens, IInv, TypeOK, VerdictInv, VerdictOf, Judged,
     FirewallInv, TokenInv, Placed, OfJudge, Apart
<1>3. CASE Next
  BY <1>1, <1>3, BuildKeeps, AskKeeps, DeepKeeps, PopKeeps, CountKeeps DEF Next
<1> QED
  BY <1>1, <1>2, <1>3

LEMMA Invariance == Spec => []IInv
BY InitInv, NextInv, PTL DEF Spec

-----------------------------------------------------------------------------
(* Every worker, judge and token keeps its type (Judging).                 *)
THEOREM JudgingTypeOK == Spec => []TypeOK
<1>1. IInv => TypeOK
  BY DEF IInv
<1> QED
  BY <1>1, Invariance, PTL

(* A sensitive call that nothing authorises ends flagged for all distances,*)
(* confidences and thresholds up to those of PolicyAssumption, unless a    *)
(* model's verdict counts (assess_span, CostRouter.ingest).                *)
THEOREM JudgingUnjustified == Spec => []UnjustifiedFlagged
<1>1. ASSUME IInv, NEW w \in Workers, queue[w] # Nobody, Judged(w),
             "unjustified" \in Denials(queue[w]), status[w] # "flagged"
      PROVE  source[w] = "model" /\ (~queue[w].intent \/ queue[w].semantic >= 90)
  <2>1. queue[w] \in AllSpans /\ PolicyOf[w] \in Policies
    BY <1>1, PolicyAssumption DEF IInv, TypeOK, Queueable
  <2>2. verdict[w] \in Verdicts /\ source[w] \in Sources /\ VerdictOf(w)
    BY <1>1 DEF IInv, TypeOK, VerdictInv
  <2>3. source[w] # "none"
    BY <1>1, <2>1, <2>2, Unjustified DEF VerdictOf
  <2>4. source[w] = "model"
    BY <1>1, <2>1, <2>2, <2>3, StubFlagged DEF VerdictOf, Sources
  <2>5. ~(queue[w].intent /\ queue[w].semantic < 90)
    BY <1>1, <2>1, <2>2, StructuralFlagged DEF VerdictOf
  <2> QED
    BY <2>1, <2>4, <2>5, SpanTypes
<1>2. IInv => UnjustifiedFlagged
  BY <1>1 DEF UnjustifiedFlagged
<1> QED
  BY <1>2, Invariance, PTL

(* An objection leaves a trace (aggregate).                                *)
THEOREM JudgingObjection == Spec => []ObjectionSeen
<1>1. IInv => ObjectionSeen
  <2> SUFFICES ASSUME IInv, NEW w \in Workers, queue[w] # Nobody, Judged(w), ~verdict[w].serves
               PROVE  status[w] # "ok"
    BY DEF ObjectionSeen
  <2>1. queue[w] \in AllSpans /\ verdict[w] \in Verdicts /\ VerdictOf(w)
    BY DEF IInv, TypeOK, VerdictInv, Queueable
  <2> QED
    BY <2>1, ObjectionNotOk DEF VerdictOf
<1> QED
  BY <1>1, Invariance, PTL

(* Tokens are accounted for once (pop_measured_tokens, incr_counters), for *)
(* any number of threads.                                                  *)
THEOREM JudgingTokens == Spec => []TokensAccounted
<1>1. ASSUME IInv PROVE TokensAccounted
  <2>1. spent = ledger \cup (UNION {pending[j] : j \in Judges}) \cup (UNION {held[w] : w \in Workers})
    <3>1. /\ ledger \subseteq Calls /\ spent \subseteq Calls
          /\ \A j \in Judges : pending[j] \subseteq Calls
          /\ \A w \in Workers : held[w] \subseteq Calls
      BY <1>1 DEF IInv, TypeOK
    <3>2. \A c \in Calls : c \in spent <=>
            c \in ledger \/ (\E j \in Judges : c \in pending[j]) \/ \E w \in Workers : c \in held[w]
      BY <1>1 DEF IInv, TokenInv, Apart
    <3>3. spent = ledger \cup {c \in Calls : \E j \in Judges : c \in pending[j]}
                         \cup {c \in Calls : \E w \in Workers : c \in held[w]}
      BY <3>1, <3>2
    <3>4. UNION {pending[j] : j \in Judges} = {c \in Calls : \E j \in Judges : c \in pending[j]}
      BY <3>1, Zenon
    <3>5. UNION {held[w] : w \in Workers} = {c \in Calls : \E w \in Workers : c \in held[w]}
      BY <3>1, Zenon
    <3> QED
      BY <3>3, <3>4, <3>5, Zenon
  <2>2. ASSUME \A w \in Workers : pc[w] = "done" PROVE ledger = spent
    <3>1. \A w \in Workers : held[w] = {}
      BY <1>1, <2>2 DEF IInv, TokenInv, Placed
    <3>2. pending["small"] = {} /\ pending["deep"] = {}
      <4>1. \A w \in Workers : <<w, "small">> \notin pending["small"]
                               /\ <<w, "deep">> \notin pending["deep"]
        BY <1>1, <2>2 DEF IInv, TokenInv, Placed
      <4>2. pending["small"] \subseteq Workers \X {"small"}
              /\ pending["deep"] \subseteq Workers \X {"deep"}
        BY <1>1 DEF IInv, TokenInv, OfJudge, Judges
      <4>3. ASSUME NEW c \in pending["small"] PROVE FALSE
        <5>1. PICK w \in Workers : c = <<w, "small">>
          BY <4>2, <4>3
        <5> QED
          BY <4>1, <4>3, <5>1
      <4>4. ASSUME NEW c \in pending["deep"] PROVE FALSE
        <5>1. PICK w \in Workers : c = <<w, "deep">>
          BY <4>2, <4>4
        <5> QED
          BY <4>1, <4>4, <5>1
      <4> QED
        BY <4>3, <4>4
    <3>3. ledger \subseteq Calls /\ spent \subseteq Calls
      BY <1>1 DEF IInv, TypeOK
    <3>4. \A c \in Calls : c \in spent <=>
            c \in ledger \/ (\E j \in Judges : c \in pending[j]) \/ \E w \in Workers : c \in held[w]
      BY <1>1 DEF IInv, TokenInv, Apart
    <3>5. \A j \in Judges : pending[j] = {}
      BY <3>2 DEF Judges
    <3>6. \A c \in Calls : c \in spent <=> c \in ledger
      BY <3>1, <3>4, <3>5
    <3> QED
      BY <3>3, <3>6
  <2> QED
    BY <1>1, <2>1, <2>2 DEF IInv, TokenInv, Apart, TokensAccounted
<1> QED
  BY <1>1, Invariance, PTL

(* Every thread gets the firewall (_get_firewall).                         *)
THEOREM JudgingFirewall == Spec => []FirewallUsed
<1>1. IInv => FirewallUsed
  BY DEF IInv, FirewallInv, FirewallUsed
<1> QED
  BY <1>1, Invariance, PTL

-----------------------------------------------------------------------------
(* The risk that is named.  A workflow's thresholds are taken to be such   *)
(* that the trajectory and an authorised sensitive call, which are 15 * 59 *)
(* and 35 * 40 at most without naming a risk, do not flag a span alone,    *)
(* and that the severity that asks the judge is one a rule may have.       *)
NamingPolicies ==
    \A w \in Workers : PolicyOf[w].flag > 2285 /\ PolicyOf[w].hard \in 1..90

(* When no rule of classify_risk applies.                                  *)
LEMMA NoRuleApplies ==
    ASSUME NEW s \in AllSpans, NEW pol \in Policies, Risk(s, pol) = "none"
    PROVE  /\ s.foreign = "none" /\ ~Fabricated(s) /\ ~s.lowconf /\ ~s.schema
           /\ Gap(s) < 60 /\ s.traj < 60
           /\ \A c \in s.calls \cap Sensitive : ~(SensitiveSeverity(c) >= pol.hard)
<1> DEFINE hits == {i \in DOMAIN RiskRules : Applies(s, pol)[RiskRules[i]]}
<1>1. DOMAIN RiskRules = 1..8
  BY DEF RiskRules
<1>2. hits = {}
  <2>1. SUFFICES ASSUME hits # {} PROVE FALSE
    OBVIOUS
  <2>2. hits \subseteq 1..8
    BY <1>1
  <2>3. \A i \in 1..8 : RiskOf[RiskRules[i]] # "none"
    BY DEF RiskRules, RiskOf
  <2>4. Risk(s, pol) = RiskOf[RiskRules[Min(hits)]]
    BY <2>1 DEF Risk
  <2> HIDE DEF hits
  <2>5. \E x \in hits : \A y \in hits : x <= y
    <3>1. \A y \in hits : y \in {1, 2, 3, 4, 5, 6, 7, 8}
      BY <2>2
    <3>2. CASE hits \cap {1, 2, 3, 4} = {}
      <4>1. \A y \in hits : y \in {5, 6, 7, 8}
        BY <3>1, <3>2
      <4> QED
        BY <2>1, <4>1
    <3>3. CASE hits \cap {1, 2, 3, 4} # {}
      <4>1. \E x \in hits \cap {1, 2, 3, 4} : \A y \in hits \cap {1, 2, 3, 4} : x <= y
        BY <3>3
      <4> QED
        BY <3>1, <4>1
    <3> QED
      BY <3>2, <3>3
  <2>6. Min(hits) \in hits
    BY <2>5 DEF Min
  <2> QED
    BY <2>2, <2>3, <2>4, <2>6
<1>3. \A i \in 1..8 : ~Applies(s, pol)[RiskRules[i]]
  BY <1>1, <1>2
<1>4. /\ RiskRules[1] = "introduced" /\ RiskRules[2] = "misuse" /\ RiskRules[3] = "fabricated"
      /\ RiskRules[4] = "foreign" /\ RiskRules[5] = "collapse" /\ RiskRules[6] = "gap"
      /\ RiskRules[7] = "drift" /\ RiskRules[8] = "schema"
  BY DEF RiskRules
<1>5. \A r \in {"misuse", "fabricated", "foreign", "collapse", "gap", "drift", "schema"} :
         ~Applies(s, pol)[r]
  BY <1>3, <1>4
<1>6. s.foreign = "none" /\ ~Fabricated(s) /\ ~s.lowconf /\ ~s.schema
  BY <1>5 DEF Applies
<1>7. ~(Gap(s) >= 60) /\ ~(s.traj >= 60)
  BY <1>5 DEF Applies
<1>8. ~(\E c \in s.calls \cap Sensitive : SensitiveSeverity(c) >= pol.hard)
  BY <1>5 DEF Applies
<1> QED
  BY <1>6, <1>7, <1>8, SpanTypes, GapBounds

(* A span with no risk and no unexplained effect is not shown to the judge *)
(* and scores 2285 at most.                                                *)
LEMMA UnnamedIsUnexplained ==
    ASSUME NEW s \in AllSpans, NEW pol \in Policies, pol.flag > 2285, pol.hard \in 1..90,
           NEW v \in Verdicts, ~Consulted(s, pol) => v = NoVerdict,
           StatusOf(Score(s, v), pol) = "flagged", Risk(s, pol) = "none"
    PROVE  Severities(s) \ {40} = {55}
<1>1. /\ s.foreign = "none" /\ ~Fabricated(s) /\ ~s.lowconf /\ ~s.schema
      /\ Gap(s) < 60 /\ s.traj < 60
      /\ \A c \in s.calls \cap Sensitive : ~(SensitiveSeverity(c) >= pol.hard)
  BY NoRuleApplies
<1>2. "unjustified" \notin s.calls
  BY <1>1 DEF SensitiveSeverity, Sensitive
<1>3. \A c \in s.calls \cap Sensitive : SensitiveSeverity(c) = 40
  BY <1>2 DEF SensitiveSeverity
<1>4. CASE "unexplained" \in s.effects
  BY <1>1, <1>3, <1>4 DEF Severities
<1>5. CASE "unexplained" \notin s.effects
  <2>1. Severities(s) \subseteq {40} /\ (40 \in Severities(s) => pol.hard > 40)
    BY <1>1, <1>3, <1>5 DEF Severities
  <2>2. Det(s) \in {0} \cup Severities(s)
    <3>1. \E x \in {0} \cup Severities(s) : \A y \in {0} \cup Severities(s) : x >= y
      BY <2>1
    <3> QED
      BY <3>1 DEF Det, Max
  <2>3. Det(s) \in {0, 40} /\ Det(s) < pol.hard
    BY <2>1, <2>2
  <2>4. ~Structural(s)
    <3>1. Reasons(s) \subseteq {90}
      BY <1>1 DEF Reasons
    <3> QED
      BY <1>1, <3>1, GapBounds DEF Structural
  <2>5. ~Consulted(s, pol)
    BY <2>3, <2>4 DEF Consulted
  <2>6. s.traj \in 0..59
    BY <1>1, SpanTypes
  <2>7. Evidence(s) <= 2285 /\ Evidence(s) \in Int
    BY <2>3, <2>4, <2>6 DEF Evidence
  <2>8. Score(s, v) = Evidence(s)
    BY <2>5, <2>7 DEF Score, NoVerdict, Least
  <2>9. StatusOf(Score(s, v), pol) # "flagged"
    <3>1. pol.flag \in Nat
      BY DEF Policies
    <3> QED
      BY <2>7, <2>8, <3>1 DEF StatusOf
  <2> QED
    BY <2>9
<1> QED
  BY <1>4, <1>5

(* The first assessment of a span names its risk, and the deep judge, who  *)
(* does not name it again, is asked only when that flagged the span.  The  *)
(* other judges are asked only about spans that call for them.             *)
NamingInv ==
    /\ RiskNamed
    /\ \A w \in Workers :
          /\ pc[w] = "deep" => status[w] = "flagged"
          /\ pc[w] \in Asking => Consulted(queue[w], PolicyOf[w])
    /\ risk = [w \in Workers |-> risk[w]]

LEMMA NamingStart == Init => NamingInv
BY DEF Init, NamingInv, RiskNamed, Asking

LEMMA GotoNames ==
    ASSUME IInv, NamingInv, NEW w \in Workers, NEW step \in Pcs \ {"deep"}, Goto(w, step),
           UNCHANGED <<queue, judge>>,
           step \in Asking => Consulted(queue[w], PolicyOf[w])
    PROVE  NamingInv'
BY DEF IInv, TypeOK, NamingInv, RiskNamed, judge, Goto

LEMMA AssessedNames ==
    ASSUME NamingPolicies, IInv, NamingInv, NEW w \in Workers, queue[w] \in AllSpans,
           UNCHANGED queue,
           NEW v \in Verdicts, NEW from, Assessed(w, v, from),
           Consulted(queue[w], PolicyOf[w]) \/ v = NoVerdict
    PROVE  NamingInv'
<1> DEFINE st == StatusOf(Score(queue[w], v), PolicyOf[w])
           r == IF st = "ok" THEN "none" ELSE Risk(queue[w], PolicyOf[w])
           step == IF st = "flagged" /\ setting.deep THEN "deep" ELSE "popSmall"
<1>1. /\ status' = [status EXCEPT ![w] = st] /\ risk' = [risk EXCEPT ![w] = r]
      /\ pc' = [pc EXCEPT ![w] = step] /\ queue' = queue
  BY DEF Assessed, Goto
<1>2. status \in [Workers -> {"flagged", "watch", "ok"}] /\ pc \in [Workers -> Pcs]
  BY DEF IInv, TypeOK
<1>3. step \in {"deep", "popSmall"} /\ (step = "deep" => st = "flagged")
  OBVIOUS
<1>4. st = "flagged" /\ r = "none" => Severities(queue[w]) \ {40} = {55}
  BY UnnamedIsUnexplained, PolicyTypes DEF NamingPolicies
<1> HIDE DEF st, r, step
<1>5. risk' = [u \in Workers |-> risk'[u]]
  BY <1>1 DEF NamingInv
<1>6. /\ \A u \in Workers \ {w} :
            status'[u] = status[u] /\ risk'[u] = risk[u] /\ pc'[u] = pc[u]
      /\ status'[w] = st /\ risk'[w] = r /\ pc'[w] = step
  BY <1>1, <1>2 DEF NamingInv
<1>7. RiskNamed'
  BY <1>1, <1>4, <1>6 DEF NamingInv, RiskNamed
<1>8. \A u \in Workers :
          /\ pc'[u] = "deep" => status'[u] = "flagged"
          /\ pc'[u] \in Asking => Consulted(queue[u], PolicyOf[u])
  BY <1>3, <1>6 DEF NamingInv, Asking
<1> QED
  BY <1>1, <1>5, <1>7, <1>8 DEF NamingInv

LEMMA AskNames ==
    ASSUME NamingPolicies, IInv, NamingInv, NEW w \in Workers,
           Detect(w) \/ AskModel(w) \/ AskStub(w) \/ Scan(w)
    PROVE  NamingInv'
<1>1. queue[w] \in AllSpans /\ pc[w] \in Asking \cup {"new"} /\ UNCHANGED queue
  BY QueueAssumption
     DEF IInv, TypeOK, VerdictInv, Queueable, Detect, AskModel, AskStub, Scan, Asking
<1>2. ASSUME NEW v \in Verdicts, NEW from, Assessed(w, v, from),
             Consulted(queue[w], PolicyOf[w]) \/ v = NoVerdict
      PROVE  NamingInv'
  BY <1>1, <1>2, AssessedNames
<1>3. \A a \in Answers(w) : a.verdict \in Verdicts
  BY <1>1, AnswersTyped DEF IInv
<1>4. pc[w] # "new" => Consulted(queue[w], PolicyOf[w])
  BY <1>1 DEF NamingInv
<1>5. CASE Detect(w) /\ Consulted(queue[w], PolicyOf[w])
  <2>1. Goto(w, FirstJudge) /\ UNCHANGED judge /\ FirstJudge \in Pcs \ {"deep"}
    BY <1>5 DEF Detect, FirstJudge, Pcs
  <2> QED
    BY <1>1, <1>5, <2>1, GotoNames
<1>6. CASE Detect(w) /\ ~Consulted(queue[w], PolicyOf[w])
  <2>1. NoVerdict \in Verdicts
    BY DEF NoVerdict, Verdicts, Percent
  <2> QED
    BY <1>2, <1>6, <2>1 DEF Detect
<1>7. CASE AskModel(w)
  BY <1>2, <1>3, <1>4, <1>7 DEF AskModel
<1>8. CASE AskStub(w)
  BY <1>1, <1>2, <1>4, <1>8, StubTypes DEF AskStub
<1>9. CASE Scan(w)
  BY <1>1, <1>2, <1>3, <1>4, <1>9, StubTypes DEF Scan
<1> QED
  BY <1>5, <1>6, <1>7, <1>8, <1>9

LEMMA NamingStep ==
    ASSUME NamingPolicies, IInv, NamingInv, [Next]_vars
    PROVE  NamingInv'
<1>1. ASSUME NEW w \in Workers, Look(w) \/ TakeLock(w) \/ Build(w) \/ MarkBuilt(w)
      PROVE  NamingInv'
  <2>1. Consulted(queue[w], PolicyOf[w])
    BY <1>1 DEF NamingInv, Asking, Look, TakeLock, Build, MarkBuilt
  <2> QED
    BY <1>1, <2>1, GotoNames DEF Look, TakeLock, Build, MarkBuilt, Pcs
<1>2. ASSUME NEW w \in Workers, Detect(w) \/ AskModel(w) \/ AskStub(w) \/ Scan(w)
      PROVE  NamingInv'
  BY <1>2, AskNames
<1>3. ASSUME NEW w \in Workers, AskDeep(w) PROVE NamingInv'
  <2>1. status[w] = "flagged" /\ UNCHANGED <<queue, risk>>
    BY <1>3 DEF AskDeep, NamingInv
  <2>2. PICK st : status' = [status EXCEPT ![w] = st]
    BY <1>3 DEF AskDeep
  <2>3. pc' = [pc EXCEPT ![w] = "popSmall"]
    BY <1>3 DEF AskDeep, Goto
  <2> QED
    BY <2>1, <2>2, <2>3 DEF IInv, TypeOK, NamingInv, RiskNamed, Asking
<1>4. ASSUME NEW w \in Workers,
             \/ Pop(w, "small", "popSmall", "popDeep") \/ Pop(w, "deep", "popDeep", "count")
             \/ Count(w)
      PROVE  NamingInv'
  BY <1>4, GotoNames DEF Pop, Count, Pcs, Asking
<1>5. CASE UNCHANGED vars
  BY <1>5 DEF vars, judge, NamingInv, RiskNamed
<1> QED
  BY <1>1, <1>2, <1>3, <1>4, <1>5 DEF Next

(* RiskNamed: a flagged span that classify_risk has no name for has an     *)
(* unexplained effect against it and nothing else but authorised sensitive *)
(* calls, whatever the judges answered and in which order.                 *)
THEOREM JudgingRisk ==
    ASSUME NamingPolicies
    PROVE  Spec => []RiskNamed
<1>1. IInv /\ NamingInv /\ [Next]_vars => NamingInv'
  BY NamingStep
<1>2. NamingInv => RiskNamed
  BY DEF NamingInv
<1> QED
  BY NamingStart, <1>1, <1>2, Invariance, PTL DEF Spec
=============================================================================
