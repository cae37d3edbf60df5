------------------------------ MODULE MCIngest ------------------------------
(***************************************************************************)
(* Span "p" brings a foreign entity in; "c" follows it and passes it on;   *)
(* "d" follows both and is clean.                                          *)
(***************************************************************************)
EXTENDS Ingest

MCSpans == {"p", "c", "d"}
MCInputs == [s \in MCSpans |-> CASE s = "p" -> << >> [] s = "c" -> <<"p">>
                                 [] s = "d" -> <<"p", "c">>]
MCText == [s \in MCSpans |-> s]
MCForeign == [t \in MCSpans |-> IF t = "d" THEN {} ELSE {"acct"}]
MCTs == [s \in MCSpans |-> CASE s = "p" -> 1 [] s = "c" -> 2 [] s = "d" -> 3]

MCProcess == [w \in {"w1", "w2"} |-> IF w = "w1" THEN "A" ELSE "B"]

MCTwoBatches == <<<<"p">>, <<"c", "d">>>>
=============================================================================
