--------------------------- MODULE MCRemediation ---------------------------
(***************************************************************************)
(* Three spans: "a" drifted and fed "b"; "p" is an earlier span of the     *)
(* agent of "a", whose checkpoint a rollback of "a" restores.              *)
(***************************************************************************)
EXTENDS Remediation

MCNodes == {"p", "a", "b"}
MCRecord(n, status, score) ==
    [status |-> status, quarantined |-> FALSE, context |-> n, score |-> score]
MCStartNodes ==
    [n \in MCNodes |-> CASE n = "p" -> MCRecord(n, "ok", 10)
                         [] n = "a" -> MCRecord(n, "flagged", 80)
                         [] n = "b" -> MCRecord(n, "watch", 45)]
MCStartEdges == {<<"a", "b">>}
MCAgent == [n \in MCNodes |-> IF n = "b" THEN "writer" ELSE "planner"]
MCTs == [n \in MCNodes |-> CASE n = "p" -> 1 [] n = "a" -> 2 [] n = "b" -> 3]
=============================================================================
