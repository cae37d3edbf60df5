------------------------------- MODULE Telemetry -------------------------------
(***************************************************************************)
(* How the turns of one trace of agents reach the twin: converted by the   *)
(* handoff tap (twin/integrations/handoff.py) from the messages so far, or *)
(* exported by OpenTelemetry and mapped by twin/otel_ingest.py, with the   *)
(* batch handlers of app.py behind either.                                 *)
(*                                                                         *)
(* The tap sends the whole conversation each time and gives a span its     *)
(* number among the turns as identity; an exporter sends each span once    *)
(* after it ended, and again while nobody answers.  A client that gives up *)
(* waiting does not stop the server.  Of a span only its identity, the     *)
(* turn it stands for and its inputs are kept, of the attributes those     *)
(* that name inputs; verdicts and proposals are the business of Ingest.    *)
(***************************************************************************)
EXTENDS Naturals, Sequences, FiniteSets, SequencesExt, FiniteSetsExt

CONSTANTS
    Slots,                        \* the requests served at the same time
    Routes,                       \* the ways of sending considered
    MaxTurns, MaxSends, MaxFaults,                    \* bounds
    None

ASSUME RouteAssumption == Routes \subseteq {"autogen", "langgraph", "otlp"}
ASSUME TurnAssumption == {MaxTurns, MaxSends, MaxFaults} \subseteq Nat /\ None \notin Slots

VARIABLES
    route,
    said,         \* the turns, what the tap or the span of each is made of
    open, ended,  \* otlp: the spans that have not ended, and the others in that order
    done,         \* otlp: how many of ended were answered or given up
    waits,        \* the request the client waits for
    post,         \* per slot, the batch and where its handler is
    stored,       \* per identity, the turn of the stored node; 0 if there is none
    edges,
    told,         \* the spans the tap's caller was told are stored
    hit,          \* history: the turns whose ingestion failed or was given up
    sends, faults

telemetry == <<route, said, open, ended, done, waits, post, stored, edges, told, hit, sends, faults>>

Kinds(r) == IF r = "otlp" THEN {"twin", "link", "parent", "graph"} ELSE {"text", "empty"}
Ids == 0..MaxTurns                \* 0: the span of the whole workflow, never exported
Free == [pc |-> "free", batch |-> << >>, at |-> 1, ok |-> {}]

TelemetryInit ==
    /\ route \in Routes
    /\ said = << >> /\ open = {} /\ ended = << >> /\ done = 0
    /\ waits = None
    /\ post = [s \in Slots |-> Free]
    /\ stored = [i \in Ids |-> 0] /\ edges = {}
    /\ told = {} /\ hit = {}
    /\ sends = 0 /\ faults = 0

-----------------------------------------------------------------------------
(* from_autogen_messages leaves out turns without content and tool calls,  *)
(* from_langgraph_updates none.  Each turn is linked to the one before.    *)
Counts(i) == route # "autogen" \/ said[i] = "text"
Turns == {i \in DOMAIN said : Counts(i)}
Converted == [k \in 1..Cardinality(Turns) |->
                 CHOOSE i \in Turns : Cardinality({j \in Turns : j <= i}) = k]

TapSpansCounting ==               \* mutant: skipped turns are counted as well
    LET turns == Converted
    IN  [k \in DOMAIN turns |-> [id |-> turns[k], turn |-> turns[k],
                                 inputs |-> IF k = 1 THEN {} ELSE {turns[k] - 1}]]
TapSpans ==
    LET turns == Converted
    IN  [k \in DOMAIN turns |-> [id |-> k, turn |-> turns[k],
                                 inputs |-> IF k = 1 THEN {} ELSE {k - 1}]]

(* _map_span: twin.inputs_from, or else the links and the parent, for      *)
(* which LangGraph has an attribute too.  A turn that does not name the    *)
(* span before it as its parent has the span of the workflow there.        *)
Raw(i) ==
    LET before == IF i = 1 THEN {} ELSE {i - 1}
    IN  [named  |-> IF said[i] = "twin" THEN before ELSE {},
         links  |-> IF said[i] = "link" THEN before ELSE {},
         parent |-> IF said[i] = "parent" THEN before ELSE IF said[i] = "graph" THEN {} ELSE {0},
         graph  |-> IF said[i] = "graph" THEN before ELSE {}]
InputsOf(raw) ==
    IF raw.named # {} THEN raw.named
    ELSE raw.links \cup (IF raw.parent # {} THEN raw.parent ELSE raw.graph)
Mapped(turns) ==
    [k \in DOMAIN turns |-> [id |-> turns[k], turn |-> turns[k], inputs |-> InputsOf(Raw(turns[k]))]]

-----------------------------------------------------------------------------
(* The agents go on, those with a tap once it is back.  A turn that names  *)
(* the one before as its parent runs inside it, the others start when that *)
(* has ended.                                                              *)
Going == route = "otlp" \/ waits = None

Say(kind) ==
    /\ Len(said) < MaxTurns /\ Going
    /\ kind \in {"parent", "graph"} => said = << >> \/ Len(said) \in open
    /\ kind \in {"twin", "link"} => Len(said) \notin open
    /\ said' = Append(said, kind)
    /\ open' = IF route = "otlp" THEN open \cup {Len(said')} ELSE open
    /\ UNCHANGED <<route, ended, done, waits, post, stored, edges, told, hit, sends, faults>>

End(i) ==
    /\ i \in open
    /\ open' = open \ {i}
    /\ ended' = Append(ended, i)
    /\ UNCHANGED <<route, said, done, waits, post, stored, edges, told, hit, sends, faults>>

(* TwinTap.emit, which never sends an empty batch, or the exporter.        *)
Batch == IF route = "otlp" THEN Mapped(SubSeq(ended, done + 1, Len(ended))) ELSE TapSpans

Emit(s) ==
    /\ waits = None /\ post[s] = Free /\ sends < MaxSends
    /\ Batch # << >>
    /\ post' = [post EXCEPT ![s] = [pc |-> "look", batch |-> Batch, at |-> 1, ok |-> {}]]
    /\ waits' = s
    /\ sends' = sends + 1
    /\ UNCHANGED <<route, said, open, ended, done, stored, edges, told, hit, faults>>

(* The timeout of five seconds, or a lost connection: the tap's caller is  *)
(* told of an error, the exporter sends again or gives the batch up.       *)
GiveUp ==
    /\ waits # None /\ faults < MaxFaults
    /\ waits' = None
    /\ faults' = faults + 1
    /\ \/ UNCHANGED <<done, hit>>
       \/ /\ route = "otlp"
          /\ done' = done + Len(post[waits].batch)
          /\ hit' = hit \cup {x.turn : x \in ToSet(post[waits].batch)}
    /\ UNCHANGED <<route, said, open, ended, post, stored, edges, told, sends>>

-----------------------------------------------------------------------------
Span(s) == post[s].batch[post[s].at]
Goto(s, step) == post' = [post EXCEPT ![s].pc = step]
(* The next span of the batch, or the answer.                              *)
Onward(s, ok) ==
    post' = [post EXCEPT ![s] =
                [pc    |-> IF post[s].at = Len(post[s].batch) THEN "answer" ELSE "look",
                 batch |-> post[s].batch,
                 at    |-> post[s].at + 1,
                 ok    |-> post[s].ok \cup ok]]
Client == <<route, said, open, ended, done, waits, told, sends>>

(* The handlers of /api/spans and /v1/traces: a span that is known is      *)
(* skipped, which Engine.ingest asks once more.                            *)
Look(s) ==
    /\ post[s].pc \in {"look", "again"}
    /\ IF stored[Span(s).id] # 0 THEN Onward(s, {Span(s)})
       ELSE Goto(s, IF post[s].pc = "look" THEN "again" ELSE "store")
    /\ UNCHANGED <<Client, stored, edges, hit, faults>>

(* _commit: the node, then the edges from the inputs that are there.       *)
Store(s) ==
    /\ post[s].pc = "store"
    /\ stored' = [stored EXCEPT ![Span(s).id] = Span(s).turn]
    /\ Goto(s, "link")
    /\ UNCHANGED <<Client, edges, hit, faults>>

Link(s) ==
    /\ post[s].pc = "link"
    /\ edges' = edges \cup {<<i, Span(s).id>> : i \in {i \in Span(s).inputs : stored[i] # 0}}
    /\ Onward(s, {Span(s)})
    /\ UNCHANGED <<Client, stored, hit, faults>>

(* An exception is logged and the batch goes on; the tap's caller reads    *)
(* of it, the exporter does not.                                           *)
Fail(s) ==
    /\ post[s].pc \in {"look", "again", "store", "link"} /\ faults < MaxFaults
    /\ faults' = faults + 1
    /\ hit' = hit \cup {Span(s).turn}
    /\ Onward(s, {})
    /\ UNCHANGED <<Client, stored, edges>>

(* The process is killed: the client's connection breaks.                  *)
Killed(s) ==
    /\ post[s].pc \in {"look", "again", "store", "link"} /\ faults < MaxFaults
    /\ faults' = faults + 1
    /\ hit' = hit \cup {Span(s).turn}
    /\ post' = [post EXCEPT ![s] = Free]
    /\ waits' = IF waits = s THEN None ELSE waits
    /\ UNCHANGED <<route, said, open, ended, done, told, sends, stored, edges>>

(* The three lists of /api/spans, or the empty export response: success    *)
(* whatever happened to the spans.                                         *)
Answer(s) ==
    /\ post[s].pc = "answer"
    /\ post' = [post EXCEPT ![s] = Free]
    /\ IF waits # s THEN UNCHANGED <<waits, told, done>>
       ELSE /\ waits' = None
            /\ told' = IF route = "otlp" THEN told ELSE told \cup post[s].ok
            /\ done' = IF route = "otlp" THEN done + Len(post[s].batch) ELSE done
    /\ UNCHANGED <<route, said, open, ended, stored, edges, hit, sends, faults>>

TelemetryNext ==
    \/ \E kind \in Kinds(route) : Say(kind)
    \/ \E i \in open : End(i)
    \/ GiveUp
    \/ \E s \in Slots :
          \/ Emit(s) \/ Look(s) \/ Store(s) \/ Link(s) \/ Fail(s) \/ Killed(s) \/ Answer(s)

TelemetrySpec == TelemetryInit /\ [][TelemetryNext]_telemetry

-----------------------------------------------------------------------------
(* The turn a turn follows, whatever the spans say.                        *)
Before(i) == {j \in 1..(i - 1) : Counts(j) /\ \A k \in (j + 1)..(i - 1) : ~Counts(k)}
IsStored(i) == \E id \in Ids : stored[id] = i
Joined(j, i) == \E e \in edges : stored[e[1]] = j /\ stored[e[2]] = i
Linking(i) == \E s \in Slots : post[s].pc = "link" /\ Span(s).turn = i

(* A conversation sent in overlapping, repeated and broken batches is      *)
(* recorded as it went: what the tap's caller is told is stored is stored, *)
(* as the turn it stands for, and a stored turn is linked to the stored    *)
(* turn before it.  The exceptions are turns whose ingestion failed or was *)
(* given up, and spans that only name the turn before as their parent: a   *)
(* parent ends, and is exported, after its children (router.py:193).       *)
ConversationRecorded ==
    /\ \A x \in told : stored[x.id] = x.turn
    /\ \A i \in DOMAIN said : \A j \in Before(i) :
          IsStored(i) /\ IsStored(j) /\ ~Joined(j, i) /\ ~Linking(i)
          => {i, j} \cap hit # {} \/ said[i] \in {"parent", "graph"}
=============================================================================
