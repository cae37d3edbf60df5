-------------------------------- MODULE Scoring --------------------------------
(***************************************************************************)
(* What the signals of one span amount to (twin/detection.py, the judge    *)
(* that works without a model included, and twin/guard.py).                *)
(*                                                                         *)
(* Distances, severities and confidences are in hundredths, scores in ten- *)
(* thousandths, so that every sum of the code is exact.  Of the texts of a *)
(* span only what the rules ask of them is kept:                           *)
(*   intent      whether it declares one,                                  *)
(*   calls       the kinds of its tool calls: "harmless", "mutating", and  *)
(*               for the sensitive tools "declared", "tasked" (named in    *)
(*               the task only) or "unjustified" (in neither),             *)
(*   effects     whether one claims a change, whether one is unexplained,  *)
(*   foreign     entities foreign to the task, and where they come from,   *)
(*   semantic, traj   the distances of the embedder,                       *)
(*   schema, lowconf  missing fields, low confidence of the model,         *)
(*   forbids     whether the task has a prohibition marker.                *)
(***************************************************************************)
EXTENDS Integers, Sequences, FiniteSets, FiniteSetsExt

Percent == 0..100
Sensitive == {"declared", "tasked", "unjustified"}
CallKinds == {"harmless", "mutating"} \cup Sensitive

AllSpans ==
    [intent : BOOLEAN, calls : SUBSET CallKinds, effects : SUBSET {"claims", "unexplained"},
     foreign : {"none", "inherited", "introduced"}, semantic : Percent, traj : Percent,
     schema : BOOLEAN, lowconf : BOOLEAN, forbids : BOOLEAN]

(* flag_threshold and watch_threshold, hard_flag_severity, of the workflow *)
(* of the span or the defaults.                                            *)
Policies == [flag : Nat, watch : Nat, hard : Percent]

-----------------------------------------------------------------------------
(* A mutating effect without a mutating tool call; every sensitive tool is *)
(* a mutating one.                                                         *)
Fabricated(s) == "claims" \in s.effects /\ s.calls \subseteq {"harmless"}

(* run_deterministic: the severities of the rules that fire.               *)
SensitiveSeverityMild(c) == 40            \* mutant: the intent is not asked
SensitiveSeverity(c) == IF c = "unjustified" THEN 90 ELSE 40

Severities(s) ==
    {SensitiveSeverity(c) : c \in s.calls \cap Sensitive}
    \cup (IF s.schema THEN {60} ELSE {})
    \cup (IF s.lowconf THEN {50} ELSE {})
    \cup (IF Fabricated(s) THEN {80} ELSE {})
    \cup (IF "unexplained" \in s.effects THEN {55} ELSE {})
Det(s) == Max({0} \cup Severities(s))

(* stated_vs_revealed_gap: the semantic distance, or a structural reason   *)
(* that is greater.  Here a task that names the tool does not declare it.  *)
Reasons(s) ==
    (IF s.foreign = "introduced" THEN {82} ELSE {})
    \cup (IF s.foreign = "inherited" THEN {62} ELSE {})
    \cup (IF Fabricated(s) THEN {80} ELSE {})
    \cup (IF {"tasked", "unjustified"} \cap s.calls # {} THEN {90} ELSE {})
Gap(s) == IF s.intent THEN Max({s.semantic} \cup Reasons(s)) ELSE 0
Structural(s) == s.intent /\ \E r \in Reasons(s) : r > s.semantic

(* assess_span asks the judge when a cheap signal says so.                 *)
Consulted(s, pol) == Structural(s) \/ Det(s) >= pol.hard \/ Det(s) >= 50

(* StubJudge, with the policy it was built with; its confidence depends on *)
(* the markers in the text.                                                *)
StubObjects(s, base) == s.foreign = "introduced" \/ Structural(s) \/ Det(s) >= base.hard
StubVerdicts(s, base) ==
    IF StubObjects(s, base) THEN [serves : {FALSE}, conf : {82, 90}]
    ELSE [serves : {TRUE}, conf : {70}]

NoVerdict == [serves |-> TRUE, conf |-> 0]        \* nobody was asked

(* aggregate                                                               *)
Least(a, b) == IF a <= b THEN a ELSE b
Greatest(a, b) == IF a >= b THEN a ELSE b
Evidence(s) == (IF Structural(s) THEN 50 * Gap(s) ELSE 0) + 35 * Det(s) + 15 * s.traj
ScoreUnfloored(s, v) ==                   \* mutant: the objection is not given a floor
    Least(10000, IF v.serves THEN Evidence(s) ELSE Greatest(Evidence(s), 80 * v.conf))
Score(s, v) ==
    Least(10000, IF v.serves THEN Evidence(s) ELSE Greatest(Evidence(s), 5000 + 30 * v.conf))

StatusOf(score, pol) ==
    IF score >= pol.flag THEN "flagged" ELSE IF score >= pol.watch THEN "watch" ELSE "ok"

(* classify_risk: the first rule that applies names the risk.              *)
RiskRulesFew ==                           \* mutant: the gap names no risk
    <<"introduced", "misuse", "fabricated", "foreign", "collapse", "drift", "schema">>
RiskRules ==
    <<"introduced", "misuse", "fabricated", "foreign", "collapse", "gap", "drift", "schema">>
Applies(s, pol) ==
    [introduced |-> s.foreign = "introduced",
     misuse     |-> \E c \in s.calls \cap Sensitive : SensitiveSeverity(c) >= pol.hard,
     fabricated |-> Fabricated(s),
     foreign    |-> s.foreign # "none",
     collapse   |-> s.lowconf,
     gap        |-> Gap(s) >= 60,
     drift      |-> s.traj >= 60,
     schema     |-> s.schema]
RiskOf ==
    [introduced |-> "prompt_injection", misuse |-> "tool_misuse", fabricated |-> "tool_misuse",
     foreign |-> "context_rot", collapse |-> "confidence_collapse",
     gap |-> "goal_misgeneralization", drift |-> "context_rot", schema |-> "hallucination"]
Risk(s, pol) ==
    LET hits == {i \in DOMAIN RiskRules : Applies(s, pol)[RiskRules[i]]}
    IN  IF hits = {} THEN "none" ELSE RiskOf[RiskRules[Min(hits)]]

-----------------------------------------------------------------------------
(* The inline rail: check_span of guard.py.                                *)
Denials(s) == {c \in s.calls \cap Sensitive : c = "unjustified" \/ s.forbids}
=============================================================================
