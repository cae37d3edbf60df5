------------------------------- MODULE MCJudging -------------------------------
EXTENDS Judging, TLC

(* One worker judges any of the spans of Wide, or two judge those of       *)
(* Narrow side by side.                                                    *)
Wide ==
    {s \in [intent : BOOLEAN, calls : {c \in SUBSET CallKinds : Cardinality(c) <= 2},
            effects : SUBSET {"claims", "unexplained"},
            foreign : {"none", "inherited", "introduced"}, semantic : {0, 61, 95}, traj : {0, 60},
            schema : BOOLEAN, lowconf : BOOLEAN, forbids : BOOLEAN] :
        /\ s.intent \/ "declared" \notin s.calls
        /\ "harmless" \in s.calls => Cardinality(s.calls) = 1
        /\ s.lowconf => ~s.schema}
Narrow ==
    {s \in Wide : /\ s.intent /\ s.effects = {} /\ s.calls \in {{}, {"unjustified"}, {"tasked"}}
                  /\ s.foreign = "none" /\ s.semantic = 0 /\ s.traj = 0 /\ ~s.schema /\ ~s.forbids}

MCQueues ==
    {[w \in {"w1", "w2"} |-> IF w = "w1" THEN s ELSE Nobody] : s \in Wide}
    \cup [{"w1", "w2"} -> Narrow]
MCSettings ==
    {s \in AllSettings : /\ s.backend # "firewall" => s.buildable
                         /\ s.backend = "stub" => ~s.deep
                         /\ s.backend = "llm" => s.deep}
MCBase == [flag |-> 6000, watch |-> 3500, hard |-> 85]
MCPolicyOf == ("w1" :> MCBase) @@ ("w2" :> [MCBase EXCEPT !.flag = 7000, !.hard = 40])
=============================================================================
