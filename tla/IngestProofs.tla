---------------------------- MODULE IngestProofs ----------------------------
(***************************************************************************)
(* Proofs about Ingest.                                                    *)
(*                                                                         *)
(* What a worker has read, decided or still has to do for its span is      *)
(* stated step by step; the store only grows, except that a node can be    *)
(* written again, so what others do in between takes nothing away.  The    *)
(* results about duplicates need that no two workers hold the same span.   *)
(***************************************************************************)
EXTENDS Ingest, FiniteSetTheorems, SequenceTheorems, TLAPS

-----------------------------------------------------------------------------
(* The steps of a span, in groups.                                         *)
Before == {"route", "assess", "judged", "count", "checkpoint", "upsert"}
After == {"inputs", "link", "note", "root", "register", "propose"}
Decided == {"judged", "count", "checkpoint", "upsert"} \cup After
Proposing == {"root", "register", "propose"}

In(w, pcs) == work[w].pc \in pcs

(* A worker at a step of a span has one, its verdict once it is decided,   *)
(* and its node from upsert_node on.                                       *)
Underway ==
    \A w \in Workers :
        /\ In(w, Before \cup After) => work[w].rest # << >>
        /\ In(w, Decided) => work[w].verdict \in Verdicts
        /\ In(w, After) => Stored(Span(w))

OrderKept ==
    /\ \A s \in Spans : Stored(s) <=> \E i \in DOMAIN order : order[i] = s
    /\ \A s \in done : Stored(s)

(* EarlierInputsLinked of a span that is on its way: the edge is there, or *)
(* still to be added in the loop of _commit.                               *)
LinkedSoFar(w) ==
    \A i \in Range(Inputs[Span(w)]) : InOrder(i, Span(w)) =>
        \/ <<i, Span(w)>> \in edges
        \/ At(w, "link") /\ i \in work[w].existing /\ i \in Range(work[w].links)
Linked(s) == \A i \in Range(Inputs[s]) : InOrder(i, s) => <<i, s>> \in edges
Linking == \A w \in Workers : In(w, After \ {"inputs"}) => LinkedSoFar(w)

LinkInv == OrderKept /\ Linking /\ EarlierInputsLinked

-----------------------------------------------------------------------------
(* ProposalExplained of a span on its way: its detection entry is written  *)
(* or to be written, before a root is looked for.                          *)
Detects(q) == \E i \in DOMAIN q : q[i] = "detection"
Noticed(s) == Detects(trail[s])
ToNotice(w) == Detects(work[w].notes)

Explaining(w) ==
    /\ At(w, "note") /\ work[w].verdict.status # "ok" => Noticed(Span(w)) \/ ToNotice(w)
    /\ In(w, Proposing) => Noticed(Span(w))
    /\ In(w, {"register", "propose"}) =>
          /\ work[w].root \in Reachable(Span(w))
          /\ \A a \in work[w].batch : a[1] = work[w].root
Explained(a) == \E s \in Spans : a[1] \in Reachable(s) /\ Noticed(s)

ExplainInv ==
    /\ \A w \in Workers : Explaining(w)
    /\ \A a \in DOMAIN proposals : Explained(a)

-----------------------------------------------------------------------------
(* LedgerMatches: the spans counted and not yet stored.                    *)
Counting(w) == In(w, {"checkpoint", "upsert"})
Counted == {w \in Workers : Counting(w)}
Owed == Len(order) + Cardinality(Counted)
Ahead == Owed <= seen
Exact == failures = 0 => Owed = seen

-----------------------------------------------------------------------------
(* No span is in two batches, or twice in one, and a client waits for the  *)
(* answer before it sends a batch again.                                   *)
OneDelivery ==
    /\ ~Overlap
    /\ \A q, r \in DOMAIN Requests :
          \A i \in DOMAIN Requests[q], j \in DOMAIN Requests[r] :
             Requests[q][i] = Requests[r][j] => q = r /\ i = j

(* What is left of a batch is a suffix of it; two workers never have the   *)
(* same batch.                                                             *)
RestOf(w) ==
    LET batch == Requests[work[w].from]
    IN  /\ work[w].from \in DOMAIN Requests
        /\ \E k \in 1..(Len(batch) + 1) : work[w].rest = SubSeq(batch, k, Len(batch))
Shared ==
    \A w \in Workers :
        /\ At(w, "idle") => work[w].rest = << >>
        /\ ~At(w, "idle") => RestOf(w)
        /\ \A v \in Workers : v # w /\ ~At(v, "idle") => work[v].from # work[w].from

(* So a span that is held is stored by its holder or by nobody.            *)
Held ==
    \A w \in Workers :
        /\ In(w, Before) => ~Stored(Span(w))
        /\ In(w, After) => nodes[Span(w)] = work[w].verdict /\ Span(w) \notin done

(* FlaggedProposed of a span on its way.                                   *)
RootProposed ==
    \A w \in Workers :
        /\ At(w, "register") => <<work[w].root, work[w].root>> \in work[w].batch
        /\ At(w, "propose") => <<work[w].root, work[w].root>> \in work[w].batch \cup DOMAIN proposals

(* DetectedOnce: at most one detection entry, in the log or to come.       *)
Once(q) == \A i, j \in DOMAIN q : q[i] = "detection" /\ q[j] = "detection" => i = j
NoticedOnce ==
    /\ \A s \in Spans : Once(trail[s]) /\ (Noticed(s) => Stored(s))
    /\ \A w \in Workers :
          /\ In(w, {"inputs", "link"}) => ~Noticed(Span(w))
          /\ At(w, "note") => Once(work[w].notes) /\ (ToNotice(w) => ~Noticed(Span(w)))

-----------------------------------------------------------------------------
(* The model's operators.                                                  *)

Entries == {Text[s] : s \in Spans} \X Verdicts

(* The cache of a process keeps its type and its size.                     *)
LEMMA WithoutType ==
    ASSUME NEW c \in Seq(Entries), NEW t
    PROVE  Without(c, t) \in Seq(Entries) /\ Len(Without(c, t)) <= Len(c)
<1>1. CASE Cached(c, t) = {}
  BY <1>1, LenProperties DEF Without
<1>2. CASE Cached(c, t) # {}
  <2> DEFINE i == Place(c, t)
  <2>1. i \in 1..Len(c)
    BY <1>2, LenProperties DEF Cached, Place
  <2>2. /\ SubSeq(c, 1, i - 1) \in Seq(Entries) /\ Len(SubSeq(c, 1, i - 1)) = i - 1
        /\ SubSeq(c, i + 1, Len(c)) \in Seq(Entries)
        /\ Len(SubSeq(c, i + 1, Len(c))) = Len(c) - i
    BY <2>1, SubSeqProperties, LenProperties
  <2>3. Without(c, t) = SubSeq(c, 1, i - 1) \o SubSeq(c, i + 1, Len(c))
    BY <1>2 DEF Without, RemoveAt
  <2> QED
    BY <2>1, <2>2, <2>3, ConcatProperties
<1> QED
  BY <1>1, <1>2

LEMMA PutType ==
    ASSUME NEW c \in Seq(Entries), Len(c) <= CacheSize, NEW e \in Entries
    PROVE  Put(c, e) \in Seq(Entries) /\ Len(Put(c, e)) <= CacheSize
<1> DEFINE all == Append(Without(c, e[1]), e)
<1>1. all \in Seq(Entries) /\ Len(all) <= CacheSize + 1 /\ Len(all) > 0 /\ all # << >>
  BY WithoutType, CacheAssumption, AppendProperties, LenProperties
<1>2. Tail(all) \in Seq(Entries) /\ Len(Tail(all)) = Len(all) - 1
  BY <1>1, HeadTailProperties
<1>3. Put(c, e) = IF Len(all) > CacheSize THEN Tail(all) ELSE all
  BY DEF Put
<1> HIDE DEF all
<1> QED
  BY <1>1, <1>2, <1>3, CacheAssumption, LenProperties

LEMMA EntryType ==
    ASSUME NEW c \in Seq(Entries), NEW t, Cached(c, t) # {}
    PROVE  Entry(c, t) \in Entries /\ Entry(c, t)[2] \in Verdicts
<1>1. Place(c, t) \in 1..Len(c)
  BY LenProperties DEF Cached, Place
<1>2. Entry(c, t) \in Entries
  BY <1>1, ElementOfSeq DEF Entry
<1> QED
  BY <1>2 DEF Entries

(* What can be read off the inputs of the rules.                           *)
LEMMA OriginType == ASSUME NEW s, NEW U PROVE Origin(s, U) \in Origins
BY DEF Origin, Origins

LEMMA ReachableType ==
    ASSUME NEW s \in Spans
    PROVE  Reachable(s) \subseteq Spans /\ s \in Reachable(s)
BY DEF Reachable

LEMMA RootType ==
    ASSUME NEW s \in Spans, NEW r \in RootCauses(s)
    PROVE  r \in Reachable(s) /\ r \in Spans
BY ReachableType DEF RootCauses, DriftedUpstream, Earliest, Upstream

LEMMA NotesType == ASSUME NEW s, NEW v PROVE Notes(s, v) \in Seq(Events)
<1>1. /\ << >> \in Seq(Events) /\ <<"action.blocked">> \in Seq(Events)
      /\ <<"escalation">> \in Seq(Events) /\ <<"detection">> \in Seq(Events)
  BY DEF Events
<1> QED
  BY <1>1, ConcatProperties DEF Notes

(* A bag of proposals grows to a bag with the new ones in it.              *)
LEMMA AddProposals ==
    ASSUME NEW B, IsABag(B), NEW S
    PROVE  IsABag(B (+) SetToBag(S)) /\ DOMAIN (B (+) SetToBag(S)) = DOMAIN B \cup S
<1> DEFINE C == B (+) SetToBag(S)
<1>1. DOMAIN C = DOMAIN B \cup S
  BY DEF (+), SetToBag, BagToSet
<1>2. \A e \in DOMAIN C : C[e] \in {n \in Nat : n > 0}
  BY DEF (+), SetToBag, BagToSet, IsABag
<1>3. C = [e \in DOMAIN C |-> C[e]]
  BY DEF (+), SetToBag, BagToSet
<1> QED
  BY <1>1, <1>2, <1>3 DEF IsABag

LEMMA IdleType == Idle \in Work
BY RequestAssumption, LenProperties DEF Idle, Work, Pcs

(* The rest of a batch after its first span.                               *)
LEMMA NextSpanType ==
    ASSUME TypeOK, NEW w \in Workers, work[w].rest # << >>
    PROVE  NextSpan(w) \in Work /\ Span(w) \in Spans
<1>1. work[w] \in Work /\ work[w].rest \in Seq(Spans) /\ work[w].from \in 0..Len(Requests)
  BY DEF TypeOK, Work
<1>2. Head(work[w].rest) \in Spans /\ Tail(work[w].rest) \in Seq(Spans)
  BY <1>1, HeadTailProperties
<1> QED
  BY <1>1, <1>2, IdleType DEF NextSpan, Span, Work, Idle, Pcs

LEMMA TypeInit == Init => TypeOK
BY IdleType, RequestAssumption, CacheAssumption, LenProperties
   DEF Init, TypeOK, EmptyBag, SetToBag, IsABag, BagToSet

-----------------------------------------------------------------------------
(* Type correctness, with the shape of what is under way.                  *)

Shape == TypeOK /\ Underway

Tables ==
    /\ nodes \in [Spans -> Verdicts \cup {Absent}]
    /\ edges \subseteq Spans \X Spans /\ ckpts \subseteq Spans
    /\ trail \in [Spans -> Seq(Events)]
    /\ IsABag(proposals) /\ DOMAIN proposals \subseteq Spans \X Spans
    /\ cache \in [Processes -> Seq(Entries)]
    /\ \A c \in Processes : Len(cache[c]) <= CacheSize
    /\ seen \in Nat /\ order \in Seq(Spans) /\ done \subseteq Spans
    /\ sends \in [DOMAIN Requests -> Nat] /\ failures \in Nat

LEMMA TypeParts == TypeOK <=> Tables /\ work \in [Workers -> Work]
BY DEF TypeOK, Tables, BagToSet, Entries

LEMMA ShapeOf ==
    ASSUME Shape, NEW w \in Workers
    PROVE  /\ work[w] \in Work /\ work \in [Workers -> Work]
           /\ work[w].pc \in Pcs /\ work[w].rest \in Seq(Spans)
           /\ work[w].rest # << >> => Span(w) \in Spans /\ NextSpan(w) \in Work
           /\ In(w, Before \cup After) => work[w].rest # << >>
           /\ In(w, Decided) => work[w].verdict \in Verdicts
           /\ In(w, After) => Stored(Span(w))
<1>1. work[w].rest # << >> => Span(w) \in Spans /\ NextSpan(w) \in Work
  BY NextSpanType DEF Shape
<1> QED
  BY <1>1 DEF Shape, TypeOK, Underway, Work

(* A worker's record after the assignments of a step: a new position, with a *)
(* new verdict or with new links.                                          *)
WithPc(x, p) == [x EXCEPT !.pc = p]
WithVerdict(x, p, v) == [x EXCEPT !.pc = p, !.verdict = v]
WithNotes(x, p, q) == [x EXCEPT !.pc = p, !.notes = q]
WithLinks(x, q) == [x EXCEPT !.links = q]

LEMMA RecordMoves ==
    ASSUME NEW x \in Work, NEW p \in Pcs
    PROVE  /\ WithPc(x, p) \in Work /\ WithPc(x, p).pc = p
           /\ WithPc(x, p).rest = x.rest /\ WithPc(x, p).verdict = x.verdict
BY DEF WithPc, Work

LEMMA RecordJudged ==
    ASSUME NEW x \in Work, NEW p \in Pcs, NEW v \in Verdicts
    PROVE  /\ WithVerdict(x, p, v) \in Work /\ WithVerdict(x, p, v).pc = p
           /\ WithVerdict(x, p, v).verdict = v /\ WithVerdict(x, p, v).rest = x.rest
<1> DEFINE y == [x EXCEPT !.verdict = v]
<1>1. y \in Work /\ y.verdict = v /\ y.rest = x.rest
  BY DEF Work
<1>2. WithVerdict(x, p, v) = WithPc(y, p)
  BY DEF Work, WithPc, WithVerdict
<1> HIDE DEF y
<1> QED
  BY <1>1, <1>2, RecordMoves

LEMMA RecordNoted ==
    ASSUME NEW x \in Work, NEW p \in Pcs, NEW q \in Seq(Events)
    PROVE  /\ WithNotes(x, p, q) \in Work /\ WithNotes(x, p, q).pc = p
           /\ WithNotes(x, p, q).verdict = x.verdict /\ WithNotes(x, p, q).rest = x.rest
<1> DEFINE y == [x EXCEPT !.notes = q]
<1>1. y \in Work /\ y.verdict = x.verdict /\ y.rest = x.rest
  BY DEF Work
<1>2. WithNotes(x, p, q) = WithPc(y, p)
  BY DEF Work, WithPc, WithNotes
<1> HIDE DEF y
<1> QED
  BY <1>1, <1>2, RecordMoves

LEMMA RecordLinks ==
    ASSUME NEW x \in Work, NEW q \in Seq(Spans)
    PROVE  /\ WithLinks(x, q) \in Work /\ WithLinks(x, q).pc = x.pc
           /\ WithLinks(x, q).verdict = x.verdict /\ WithLinks(x, q).rest = x.rest
BY DEF WithLinks, Work

(* One worker moves on and no node goes away.                              *)
LEMMA ShapeMove ==
    ASSUME Shape, NEW w \in Workers, NEW r \in Work, work' = [work EXCEPT ![w] = r],
           Tables', \A s \in Spans : Stored(s) => Stored(s)',
           r.pc \in Before \cup After => r.rest # << >>,
           r.pc \in Decided => r.verdict \in Verdicts,
           r.pc \in After => Stored(Head(r.rest))'
    PROVE  Shape'
<1>1. work' \in [Workers -> Work] /\ work'[w] = r /\ \A v \in Workers \ {w} : work'[v] = work[v]
  BY DEF Shape, TypeOK
<1>2. Span(w)' = Head(r.rest)
  BY <1>1 DEF Span
<1>3. \A v \in Workers \ {w} : (In(v, Before \cup After) => Span(v) \in Spans) /\ Span(v)' = Span(v)
  BY <1>1, ShapeOf DEF Span
<1>4. \A v \in Workers \ {w} :
         /\ In(v, Before \cup After)' => work'[v].rest # << >>
         /\ In(v, Decided)' => work'[v].verdict \in Verdicts
         /\ In(v, After)' => Stored(Span(v))'
  BY <1>1, <1>3, ShapeOf DEF In
<1>5. Underway'
  BY <1>1, <1>2, <1>4 DEF Underway, In
<1>6. TypeOK'
  BY <1>1 DEF TypeOK, Tables, BagToSet, Entries
<1> QED
  BY <1>5, <1>6 DEF Shape

(* The same when only the step of the worker and fields of its own change. *)
LEMMA ShapeNext ==
    ASSUME Shape, NEW w \in Workers, In(w, Before \cup After), NEW r \in Work,
           work' = [work EXCEPT ![w] = r], r.rest = work[w].rest,
           Tables', \A s \in Spans : Stored(s) => Stored(s)',
           r.pc \in Decided => r.verdict \in Verdicts,
           r.pc \in After => Stored(Span(w))'
    PROVE  Shape'
<1>1. work[w].rest # << >>
  BY ShapeOf
<1>2. r.pc \in After => Stored(Head(r.rest))'
  <2>1. ASSUME r.pc \in After PROVE nodes'[Head(work[w].rest)] # Absent
    BY <2>1, <1>1 DEF Stored, Span
  <2> QED
    BY <2>1 DEF Stored
<1> QED
  BY <1>1, <1>2, ShapeMove

(* A worker alone goes on to step.                                         *)
LEMMA GotoType ==
    ASSUME Shape, NEW w \in Workers, NEW step \in Pcs, Goto(w, step)
    PROVE  \E r \in Work : /\ work' = [work EXCEPT ![w] = r] /\ r.pc = step
                           /\ r.rest = work[w].rest /\ r.verdict = work[w].verdict
<1> DEFINE r == [work[w] EXCEPT !.pc = step]
<1>1. r \in Work /\ r.pc = step /\ r.rest = work[w].rest /\ r.verdict = work[w].verdict
  BY ShapeOf DEF Work
<1>2. work' = [work EXCEPT ![w] = r]
  BY DEF Goto
<1> HIDE DEF r
<1> QED
  BY <1>1, <1>2

LEMMA ShapeGoto ==
    ASSUME Shape, NEW w \in Workers, In(w, Before \cup After), NEW step \in Pcs, Goto(w, step),
           Tables', \A s \in Spans : Stored(s) => Stored(s)',
           step \in Decided => In(w, Decided), step \in After => In(w, After) \/ Stored(Span(w))'
    PROVE  Shape'
<1>1. PICK r \in Work : /\ work' = [work EXCEPT ![w] = r] /\ r.pc = step
                        /\ r.rest = work[w].rest /\ r.verdict = work[w].verdict
  BY GotoType
<1>2. Span(w)' = Span(w) /\ Span(w) \in Spans
  BY <1>1, ShapeOf DEF Span
<1>3. r.pc \in After => Stored(Span(w))'
  <2>1. CASE In(w, After)
    <3>1. Stored(Span(w))
      BY <2>1, ShapeOf
    <3> QED
      BY <1>2, <3>1 DEF Stored
  <2> QED
    BY <1>1, <2>1
<1> QED
  BY <1>1, <1>3, ShapeNext, ShapeOf

(* On to the next span of the batch.                                       *)
LEMMA ShapeNextSpan ==
    ASSUME Shape, NEW w \in Workers, work[w].rest # << >>,
           work' = [work EXCEPT ![w] = NextSpan(w)],
           Tables', \A s \in Spans : Stored(s) => Stored(s)'
    PROVE  Shape'
<1>1. NextSpan(w) \in Work /\ NextSpan(w).pc = "next"
  BY ShapeOf DEF NextSpan, Idle
<1> QED
  BY <1>1, ShapeMove DEF Before, After, Decided

LEMMA TablesSame ==
    ASSUME Shape, UNCHANGED <<store, cache, seen, env, order>>, done' \subseteq Spans
    PROVE  Tables' /\ \A s \in Spans : Stored(s) => Stored(s)'
BY TypeParts DEF Shape, Tables, store, env, Stored

LEMMA ReceiveShape ==
    ASSUME Shape, NEW w \in Workers, NEW r \in DOMAIN Requests, Receive(w, r)
    PROVE  Shape'
<1> DEFINE new == [Idle EXCEPT !.pc = "next", !.from = r, !.rest = Requests[r]]
<1>1. Requests[r] \in Seq(Spans) /\ r \in 0..Len(Requests)
  BY RequestAssumption, LenProperties, ElementOfSeq
<1>2. new \in Work /\ new.pc = "next"
  BY <1>1, IdleType DEF Idle, Work, Pcs
<1>3. work' = [work EXCEPT ![w] = new]
  BY DEF Receive
<1>4. Tables' /\ \A s \in Spans : Stored(s) => Stored(s)'
  <2>1. sends \in [DOMAIN Requests -> Nat] /\ sends' = [sends EXCEPT ![r] = @ + 1]
    BY TypeParts DEF Shape, Tables, Receive
  <2>2. sends' \in [DOMAIN Requests -> Nat]
    BY <2>1
  <2> QED
    BY <2>2, TypeParts DEF Shape, Tables, Receive, store, Stored
<1> HIDE DEF new
<1> QED
  BY <1>2, <1>3, <1>4, ShapeMove DEF Before, After, Decided

LEMMA LookShape ==
    ASSUME Shape, NEW w \in Workers, Look(w) \/ Answer(w)
    PROVE  Shape'
<1>1. Tables' /\ \A s \in Spans : Stored(s) => Stored(s)'
  BY TablesSame, TypeParts DEF Look, Answer, Shape, Tables
<1>2. CASE Answer(w)
  BY <1>1, <1>2, IdleType, ShapeMove DEF Answer, Idle, Before, After, Decided
<1>3. CASE Look(w) /\ Known(Span(w))
  BY <1>1, <1>3, ShapeNextSpan DEF Look
<1>4. CASE Look(w) /\ ~Known(Span(w))
  <2>1. PICK r \in Work : /\ work' = [work EXCEPT ![w] = r] /\ r.pc = "route"
                          /\ r.rest = work[w].rest
    BY <1>4, GotoType DEF Look, Pcs
  <2> QED
    BY <1>1, <1>4, <2>1, ShapeMove DEF Look, Before, After, Decided
<1> QED
  BY <1>2, <1>3, <1>4

LEMMA RouteShape ==
    ASSUME Shape, NEW w \in Workers, Route(w)
    PROVE  Shape'
<1> DEFINE c == Process[w]
           t == Text[Span(w)]
<1>1. /\ In(w, Before \cup After) /\ Span(w) \in Spans /\ c \in Processes
      /\ cache \in [Processes -> Seq(Entries)] /\ Len(cache[c]) <= CacheSize
  BY ShapeOf, WorkerAssumption, TypeParts DEF Route, At, In, Before, Shape, Tables
<1>2. \A s \in Spans : Stored(s) => Stored(s)'
  BY DEF Route, store, Stored
<1>3. ASSUME Cached(cache[c], t) # {}, cache' = [cache EXCEPT ![c] = Put(@, Entry(@, t))]
      PROVE  Tables'
  <2>1. Put(cache[c], Entry(cache[c], t)) \in Seq(Entries)
        /\ Len(Put(cache[c], Entry(cache[c], t))) <= CacheSize
    BY <1>1, <1>3, EntryType, PutType
  <2>2. cache' \in [Processes -> Seq(Entries)] /\ \A d \in Processes : Len(cache'[d]) <= CacheSize
    BY <1>1, <1>3, <2>1, TypeParts DEF Shape, Tables
  <2> QED
    BY <2>2, TypeParts DEF Route, store, env, Shape, Tables
<1>4. ASSUME UNCHANGED cache PROVE Tables'
  BY <1>4, TypeParts DEF Route, store, env, Shape, Tables
<1>5. ASSUME NEW v \in Verdicts, work' = [work EXCEPT ![w].pc = "count", ![w].verdict = v], Tables'
      PROVE  Shape'
  <2> DEFINE r == [work[w] EXCEPT !.pc = "count", !.verdict = v]
  <2>1. r \in Work /\ r.pc = "count" /\ r.verdict = v /\ r.rest = work[w].rest
    <3>1. work[w] \in Work /\ "count" \in Pcs
      BY ShapeOf DEF Pcs
    <3>2. r = WithVerdict(work[w], "count", v)
      BY DEF WithVerdict
    <3> HIDE DEF r
    <3> QED
      BY <3>1, <3>2, RecordJudged
  <2>2. work' = [work EXCEPT ![w] = r]
    BY <1>5, ShapeOf
  <2>3. r.pc \notin After
    BY <2>1 DEF After
  <2> HIDE DEF r, c, t
  <2> QED
    BY <1>1, <1>2, <1>5, <2>1, <2>2, <2>3, ShapeNext
<1>6. CASE Span(w) \notin Sampled
  <2>1. Unsampled \in Verdicts
    BY DEF Unsampled, Verdicts, Origins
  <2>2. UNCHANGED cache /\ work' = [work EXCEPT ![w].pc = "count", ![w].verdict = Unsampled]
    BY <1>6 DEF Route
  <2> HIDE DEF c, t
  <2> QED
    BY <1>4, <1>5, <2>1, <2>2
<1>7. CASE Span(w) \in Sampled /\ Cached(cache[c], t) # {}
  <2>1. Entry(cache[c], t)[2] \in Verdicts
    BY <1>1, <1>7, EntryType
  <2>2. Tables'
    BY <1>3, <1>7 DEF Route
  <2>3. work' = [work EXCEPT ![w].pc = "count", ![w].verdict = Entry(cache[c], t)[2]]
    BY <1>7 DEF Route
  <2> HIDE DEF c, t
  <2> QED
    BY <1>5, <2>1, <2>2, <2>3
<1>8. CASE Span(w) \in Sampled /\ Cached(cache[c], t) = {}
  BY <1>1, <1>2, <1>4, <1>8, ShapeGoto DEF Route, Pcs, Decided, After
<1> QED
  BY <1>6, <1>7, <1>8

LEMMA JudgeShape ==
    ASSUME Shape, NEW w \in Workers, Assess(w) \/ Judged(w)
    PROVE  Shape'
<1>1. In(w, Before \cup After) /\ Span(w) \in Spans
  BY ShapeOf DEF Assess, Judged, At, In, Before
<1>2. CASE Assess(w)
  <2>1. PICK v \in Verdicts : work' = [work EXCEPT ![w].pc = "judged", ![w].verdict = v]
    <3> DEFINE origin == Origin(Span(w), {u \in Range(Inputs[Span(w)]) : Stored(u)})
    <3>1. \A status \in (IF origin = "none" THEN {"ok"} ELSE Outcomes) :
             [origin |-> origin, status |-> status] \in Verdicts
      BY OriginType, OutcomeAssumption DEF Verdicts
    <3> QED
      BY <1>2, <3>1 DEF Assess
  <2> DEFINE r == [work[w] EXCEPT !.pc = "judged", !.verdict = v]
  <2>2. r \in Work /\ r.pc = "judged" /\ r.verdict = v /\ r.rest = work[w].rest
    <3>1. work[w] \in Work /\ "judged" \in Pcs
      BY ShapeOf DEF Pcs
    <3>2. r = WithVerdict(work[w], "judged", v)
      BY DEF WithVerdict
    <3> HIDE DEF r
    <3> QED
      BY <3>1, <3>2, RecordJudged
  <2>3. work' = [work EXCEPT ![w] = r]
    BY <2>1, ShapeOf
  <2>4. Tables' /\ \A s \in Spans : Stored(s) => Stored(s)'
    BY <1>2, TablesSame, TypeParts DEF Assess, Shape, Tables
  <2> HIDE DEF r
  <2> QED
    BY <1>1, <2>2, <2>3, <2>4, ShapeNext DEF After
<1>3. CASE Judged(w)
  <2> DEFINE c == Process[w]
             e == <<Text[Span(w)], work[w].verdict>>
  <2>1. e \in Entries /\ In(w, Decided)
    BY <1>1, <1>3, ShapeOf DEF Judged, At, In, Decided, Entries
  <2>2. c \in Processes /\ cache \in [Processes -> Seq(Entries)] /\ Len(cache[c]) <= CacheSize
    BY WorkerAssumption, TypeParts DEF Shape, Tables
  <2>3. cache' = [cache EXCEPT ![c] = Put(@, e)]
    BY <1>3 DEF Judged
  <2>4. Put(cache[c], e) \in Seq(Entries) /\ Len(Put(cache[c], e)) <= CacheSize
    BY <2>1, <2>2, PutType
  <2>5. cache' \in [Processes -> Seq(Entries)] /\ \A d \in Processes : Len(cache'[d]) <= CacheSize
    BY <2>2, <2>3, <2>4, TypeParts DEF Shape, Tables
  <2>6. Tables' /\ \A s \in Spans : Stored(s) => Stored(s)'
    BY <1>3, <2>5, TypeParts DEF Judged, store, env, Stored, Shape, Tables
  <2> QED
    BY <1>1, <1>3, <2>1, <2>6, ShapeGoto DEF Judged, Pcs, After
<1> QED
  BY <1>2, <1>3

(* The steps of _commit.                                                   *)
LEMMA CommitShape ==
    ASSUME Shape, NEW w \in Workers,
           Count(w) \/ SaveCheckpoint(w) \/ Upsert(w) \/ ReadInputs(w) \/ Link(w)
    PROVE  Shape'
<1>1. In(w, Decided) /\ In(w, Before \cup After) /\ Span(w) \in Spans
  BY ShapeOf DEF Count, SaveCheckpoint, Upsert, ReadInputs, Link, At, In, Before, After, Decided
<1>2. CASE Count(w)
  <2>1. Tables' /\ \A s \in Spans : Stored(s) => Stored(s)'
    BY <1>2, TypeParts DEF Count, store, env, Stored, Shape, Tables
  <2> QED
    BY <1>1, <1>2, <2>1, ShapeGoto DEF Count, Pcs, After
<1>3. CASE SaveCheckpoint(w)
  <2>1. Tables' /\ \A s \in Spans : Stored(s) => Stored(s)'
    BY <1>1, <1>3, TypeParts DEF SaveCheckpoint, env, Stored, Shape, Tables
  <2> QED
    BY <1>1, <1>3, <2>1, ShapeGoto DEF SaveCheckpoint, Pcs, After
<1>4. CASE Upsert(w)
  <2> DEFINE s == Span(w)
  <2>1. work[w].verdict \in Verdicts /\ nodes \in [Spans -> Verdicts \cup {Absent}]
        /\ order \in Seq(Spans)
    BY <1>1, ShapeOf, TypeParts DEF Shape, Tables
  <2>2. nodes' = [nodes EXCEPT ![s] = work[w].verdict]
        /\ order' = (IF Stored(s) THEN order ELSE Append(order, s))
    BY <1>4 DEF Upsert
  <2>3. nodes' \in [Spans -> Verdicts \cup {Absent}] /\ order' \in Seq(Spans)
    BY <1>1, <2>1, <2>2, AppendProperties
  <2>4. Tables'
    BY <1>4, <2>3, TypeParts DEF Upsert, env, Shape, Tables
  <2>5. nodes'[s] # Absent /\ \A x \in Spans : Stored(x) => Stored(x)'
    BY <1>1, <2>1, <2>2, AbsentAssumption DEF Stored
  <2>6. Stored(Span(w))'
    <3>1. work'[w].rest = work[w].rest
      BY <1>4, ShapeOf DEF Upsert, Goto
    <3> QED
      BY <2>5, <3>1 DEF Stored, Span
  <2> QED
    BY <1>1, <1>4, <2>4, <2>5, <2>6, ShapeGoto DEF Upsert, Pcs
<1>5. CASE ReadInputs(w)
  <2> DEFINE r == [work[w] EXCEPT !.pc = "link", !.links = Inputs[Span(w)],
                                  !.existing = Existing(Span(w))]
  <2>1. Inputs[Span(w)] \in Seq(Spans) /\ Existing(Span(w)) \subseteq Spans
    BY <1>1, SpanAssumption, ElementOfSeq DEF Existing, Range
  <2>2. /\ r \in Work /\ r.pc = "link" /\ r.rest = work[w].rest
        /\ r.verdict = work[w].verdict
    <3> DEFINE x == [work[w] EXCEPT !.links = Inputs[Span(w)]]
               y == [x EXCEPT !.existing = Existing(Span(w))]
    <3>1. x \in Work /\ x.rest = work[w].rest /\ x.verdict = work[w].verdict
      BY <2>1, ShapeOf DEF Work
    <3>2. r = [y EXCEPT !.pc = "link"]
      BY ShapeOf DEF Work
    <3> HIDE DEF x, r
    <3>3. y \in Work /\ y.rest = x.rest /\ y.verdict = x.verdict
      BY <2>1, <3>1 DEF Work
    <3> HIDE DEF y
    <3> QED
      BY <3>1, <3>2, <3>3 DEF Work, Pcs
  <2>3. work' = [work EXCEPT ![w] = r]
    BY <1>5, ShapeOf DEF ReadInputs
  <2>4. Tables' /\ \A s \in Spans : Stored(s) => Stored(s)'
    BY <1>5, TablesSame, TypeParts DEF ReadInputs, Shape, Tables
  <2>5. Stored(Span(w))'
    <3>1. Stored(Span(w)) /\ UNCHANGED nodes
      BY <1>5, ShapeOf DEF ReadInputs, At, In, After, store
    <3> QED
      BY <2>2, <2>3, <3>1, ShapeOf DEF Stored, Span
  <2> HIDE DEF r
  <2> QED
    BY <1>1, <2>2, <2>3, <2>4, <2>5, ShapeNext, ShapeOf
<1>6. CASE Link(w)
  <2> DEFINE r == [work[w] EXCEPT !.links = Tail(@)]
  <2>1. work[w].links \in Seq(Spans) /\ work[w].links # << >>
    BY <1>6, ShapeOf DEF Link, Work
  <2>2. Head(work[w].links) \in Spans /\ Tail(work[w].links) \in Seq(Spans)
    BY <2>1, HeadTailProperties
  <2>3. /\ r \in Work /\ r.pc = "link" /\ r.rest = work[w].rest
        /\ r.verdict = work[w].verdict
    <3>1. work[w] \in Work /\ work[w].pc = "link"
      BY <1>6, ShapeOf DEF Link, At
    <3>2. Tail(work[w].links) \in Seq(Spans) /\ r = WithLinks(work[w], Tail(work[w].links))
      BY <2>2 DEF WithLinks
    <3> HIDE DEF r
    <3> QED
      BY <3>1, <3>2, RecordLinks
  <2>4. work' = [work EXCEPT ![w] = r]
    BY <1>6, ShapeOf DEF Link
  <2>5. edges' \subseteq Spans \X Spans
    BY <1>1, <1>6, <2>2, TypeParts DEF Link, Shape, Tables
  <2>6. Tables' /\ \A s \in Spans : Stored(s) => Stored(s)'
    BY <1>6, <2>5, TypeParts DEF Link, Shape, Tables, env, Stored
  <2>7. Stored(Span(w))'
    <3>1. Stored(Span(w)) /\ UNCHANGED nodes
      BY <1>6, ShapeOf DEF Link, At, In, After
    <3> QED
      BY <2>3, <2>4, <3>1, ShapeOf DEF Stored, Span
  <2> HIDE DEF r
  <2> QED
    BY <1>1, <2>3, <2>4, <2>6, <2>7, ShapeNext, ShapeOf
<1> QED
  BY <1>2, <1>3, <1>4, <1>5, <1>6

LEMMA FinishShape ==
    ASSUME Shape, NEW w \in Workers, work[w].rest # << >>, Finish(w), Tables',
           UNCHANGED nodes
    PROVE  Shape'
BY ShapeNextSpan DEF Finish, Stored

(* The entries and the proposals.                                          *)
LEMMA EntryShape ==
    ASSUME Shape, NEW w \in Workers, Observe(w) \/ Note(w) \/ Noted(w)
    PROVE  Shape'
<1>1. In(w, After) /\ In(w, Before \cup After) /\ Span(w) \in Spans /\ Stored(Span(w))
      /\ work[w].rest # << >>
  BY ShapeOf DEF Observe, Note, Noted, At, In, After
<1>2. ASSUME NEW q \in Seq(Events), UNCHANGED nodes, Tables',
             work' = [work EXCEPT ![w].pc = "note", ![w].notes = q]
      PROVE  Shape'
  <2> DEFINE r == [work[w] EXCEPT !.pc = "note", !.notes = q]
  <2>1. r \in Work /\ r.pc = "note" /\ r.rest = work[w].rest /\ r.verdict = work[w].verdict
    <3>1. work[w] \in Work /\ "note" \in Pcs
      BY ShapeOf DEF Pcs
    <3>2. r = WithNotes(work[w], "note", q)
      BY DEF WithNotes
    <3> HIDE DEF r
    <3> QED
      BY <3>1, <3>2, RecordNoted
  <2>2. work' = [work EXCEPT ![w] = r]
    BY <1>2, ShapeOf
  <2>3. Stored(Span(w))'
    BY <1>1, <1>2, <2>1, <2>2, ShapeOf DEF Stored, Span
  <2>4. In(w, Decided) /\ \A s \in Spans : Stored(s) => Stored(s)'
    BY <1>1, <1>2 DEF Stored, In, Decided
  <2> HIDE DEF r
  <2> QED
    BY <1>1, <1>2, <2>1, <2>2, <2>3, <2>4, ShapeNext, ShapeOf
<1>3. CASE Observe(w)
  <2>1. PICK anomaly \in Anomalies :
           work' = [work EXCEPT ![w].pc = "note",
             ![w].notes = (IF anomaly THEN <<"escalation.anomaly">> ELSE << >>)
                          \o Notes(Span(w), work[w].verdict)]
    BY <1>3 DEF Observe
  <2>2. (IF anomaly THEN <<"escalation.anomaly">> ELSE << >>) \in Seq(Events)
    <3>1. << >> \in Seq(Events) /\ <<"escalation.anomaly">> \in Seq(Events)
      BY DEF Events
    <3> QED
      BY <3>1
  <2>3. (IF anomaly THEN <<"escalation.anomaly">> ELSE << >>)
           \o Notes(Span(w), work[w].verdict) \in Seq(Events)
    BY <2>2, NotesType, ConcatProperties
  <2>4. Tables' /\ UNCHANGED nodes
    BY <1>3, TablesSame, TypeParts DEF Observe, Shape, Tables, store
  <2> QED
    BY <1>2, <2>1, <2>3, <2>4
<1>4. CASE Note(w)
  <2> DEFINE q == work[w].notes
  <2>1. q \in Seq(Events) /\ q # << >> /\ trail \in [Spans -> Seq(Events)]
    BY <1>4, ShapeOf, TypeParts DEF Note, Work, Shape, Tables
  <2>2. Head(q) \in Events /\ Tail(q) \in Seq(Events)
    BY <2>1, HeadTailProperties
  <2>3. Append(trail[Span(w)], Head(q)) \in Seq(Events)
    BY <1>1, <2>1, <2>2, AppendProperties
  <2>4. trail' \in [Spans -> Seq(Events)]
    BY <1>4, <2>1, <2>3 DEF Note
  <2>5. Tables' /\ UNCHANGED nodes
    BY <1>4, <2>4, TypeParts DEF Note, Shape, Tables, env
  <2>6. work' = [work EXCEPT ![w].pc = "note", ![w].notes = Tail(q)]
    BY <1>4, ShapeOf DEF Note, At, Work
  <2> QED
    BY <1>2, <2>2, <2>5, <2>6
<1>5. CASE Noted(w)
  <2>1. Tables' /\ \A s \in Spans : Stored(s) => Stored(s)'
    BY <1>1, <1>5, TablesSame, TypeParts DEF Noted, Finish, Shape, Tables
  <2>2. CASE Goto(w, "root")
    BY <1>1, <2>1, <2>2, ShapeGoto DEF Pcs, Decided, In
  <2>3. CASE Finish(w)
    BY <1>1, <1>5, <2>1, <2>3, ShapeNextSpan DEF Finish
  <2> QED
    BY <1>5, <2>2, <2>3 DEF Noted
<1> QED
  BY <1>3, <1>4, <1>5

LEMMA ProposeShape ==
    ASSUME Shape, NEW w \in Workers, ReadRoot(w) \/ Register(w) \/ Propose(w)
    PROVE  Shape'
<1>1. In(w, Decided) /\ In(w, Before \cup After) /\ Span(w) \in Spans /\ Stored(Span(w))
      /\ work[w].rest # << >>
  BY ShapeOf DEF ReadRoot, Register, Propose, At, In, After, Decided
<1>2. ASSUME NEW r \in Work, r.rest = work[w].rest, r.verdict = work[w].verdict,
             work' = [work EXCEPT ![w] = r], UNCHANGED nodes, Tables'
      PROVE  Shape'
  <2>1. Stored(Span(w))' /\ \A s \in Spans : Stored(s) => Stored(s)'
    BY <1>1, <1>2, ShapeOf DEF Stored, Span
  <2> QED
    BY <1>1, <1>2, <2>1, ShapeNext, ShapeOf
<1>3. CASE ReadRoot(w)
  <2>1. PICK root \in RootCauses(Span(w)) :
           work' = [work EXCEPT ![w].pc = "register", ![w].root = root,
                                ![w].batch = Actions(root)]
    BY <1>3 DEF ReadRoot
  <2>2. root \in Spans /\ Actions(root) \subseteq Spans \X Spans
    <3>1. root \in Spans /\ edges \subseteq Spans \X Spans
      BY <1>1, RootType, TypeParts DEF Shape, Tables
    <3> QED
      BY <3>1 DEF Actions
  <2> DEFINE x == [work[w] EXCEPT !.root = root]
             y == [x EXCEPT !.batch = Actions(root)]
             r == [work[w] EXCEPT !.pc = "register", !.root = root, !.batch = Actions(root)]
  <2>3. x \in Work /\ x.rest = work[w].rest /\ x.verdict = work[w].verdict
    BY <2>2, ShapeOf DEF Work
  <2>4. r = [y EXCEPT !.pc = "register"]
    BY ShapeOf DEF Work
  <2>5. work' = [work EXCEPT ![w] = r]
    BY <2>1, ShapeOf
  <2> HIDE DEF x, r
  <2>6. y \in Work /\ y.rest = x.rest /\ y.verdict = x.verdict
    BY <2>2, <2>3 DEF Work
  <2> HIDE DEF y
  <2>7. r \in Work /\ r.rest = work[w].rest /\ r.verdict = work[w].verdict
    BY <2>3, <2>4, <2>6 DEF Work, Pcs
  <2>8. Tables' /\ UNCHANGED nodes
    BY <1>3, TablesSame, TypeParts DEF ReadRoot, Shape, Tables, store
  <2> QED
    BY <1>2, <2>5, <2>7, <2>8
<1>4. CASE Register(w)
  <2> DEFINE x == [work[w] EXCEPT !.batch = Fresh(@)]
             r == [work[w] EXCEPT !.pc = "propose", !.batch = Fresh(@)]
  <2>1. Fresh(work[w].batch) \subseteq Spans \X Spans
    BY ShapeOf DEF Fresh, Work
  <2>2. x \in Work /\ x.rest = work[w].rest /\ x.verdict = work[w].verdict
    BY <2>1, ShapeOf DEF Work
  <2>3. r = [x EXCEPT !.pc = "propose"]
    BY ShapeOf DEF Work
  <2>4. work' = [work EXCEPT ![w] = r]
    BY <1>4, ShapeOf DEF Register
  <2> HIDE DEF x, r
  <2>5. r \in Work /\ r.rest = work[w].rest /\ r.verdict = work[w].verdict
    BY <2>2, <2>3 DEF Work, Pcs
  <2>6. Tables' /\ UNCHANGED nodes
    BY <1>4, TablesSame, TypeParts DEF Register, Shape, Tables, store
  <2> QED
    BY <1>2, <2>4, <2>5, <2>6
<1>5. CASE Propose(w)
  <2>1. IsABag(proposals) /\ DOMAIN proposals \subseteq Spans \X Spans
        /\ work[w].batch \subseteq Spans \X Spans
    BY ShapeOf, TypeParts DEF Shape, Tables, Work
  <2>2. IsABag(proposals)' /\ (DOMAIN proposals)' \subseteq Spans \X Spans
    BY <1>5, <2>1, AddProposals DEF Propose
  <2>3. Tables' /\ \A s \in Spans : Stored(s) => Stored(s)'
    BY <1>1, <1>5, <2>2, TypeParts DEF Propose, Finish, env, Stored, Shape, Tables
  <2> QED
    BY <1>1, <1>5, <2>3, ShapeNextSpan DEF Propose, Finish
<1> QED
  BY <1>3, <1>4, <1>5

LEMMA FailShape ==
    ASSUME Shape, NEW w \in Workers, Fail(w)
    PROVE  Shape'
<1>1. Tables' /\ \A s \in Spans : Stored(s) => Stored(s)'
  BY TypeParts DEF Fail, store, Stored, Shape, Tables
<1> QED
  BY <1>1, ShapeNextSpan DEF Fail

LEMMA DieShape ==
    ASSUME Shape, NEW c \in Processes, Die(c)
    PROVE  Shape'
<1>1. << >> \in Seq(Entries) /\ Len(<< >>) = 0
  BY LenProperties
<1>2. cache' \in [Processes -> Seq(Entries)] /\ \A d \in Processes : Len(cache'[d]) <= CacheSize
  BY <1>1, TypeParts, CacheAssumption DEF Die, Shape, Tables
<1>3. Tables'
  BY <1>2, TypeParts DEF Die, store, Shape, Tables
<1>4. work' \in [Workers -> Work] /\ \A v \in Workers : work'[v] = Idle \/ work'[v] = work[v]
  BY ShapeOf, IdleType DEF Die
<1>5. \A v \in Workers :
         /\ In(v, Before \cup After)' => work'[v].rest # << >>
         /\ In(v, Decided)' => work'[v].verdict \in Verdicts
         /\ In(v, After)' => Stored(Span(v))'
  <2> SUFFICES ASSUME NEW v \in Workers
               PROVE  /\ In(v, Before \cup After)' => work'[v].rest # << >>
                      /\ In(v, Decided)' => work'[v].verdict \in Verdicts
                      /\ In(v, After)' => Stored(Span(v))'
    OBVIOUS
  <2>1. CASE work'[v] = Idle
    BY <2>1 DEF Idle, In, Before, After, Decided
  <2>2. CASE work'[v] = work[v]
    BY <2>2, ShapeOf DEF In, Stored, Span, Die, store
  <2> QED
    BY <1>4, <2>1, <2>2
<1>6. TypeOK'
  BY <1>3, <1>4 DEF TypeOK, Tables, BagToSet, Entries
<1> QED
  BY <1>5, <1>6 DEF Shape, Underway

LEMMA ShapeStep == Shape /\ [Next]_vars => Shape'
<1> SUFFICES ASSUME Shape, [Next]_vars PROVE Shape'
  OBVIOUS
<1>1. ASSUME NEW w \in Workers, Continue(w) PROVE Shape'
  BY <1>1, LookShape, RouteShape, JudgeShape, CommitShape, EntryShape, ProposeShape DEF Continue
<1>2. CASE UNCHANGED vars
  BY <1>2 DEF vars, store, env, Shape, TypeOK, Underway, In, Stored, Span
<1> QED
  BY <1>1, <1>2, ReceiveShape, FailShape, DieShape DEF Next

LEMMA ShapeInit == Init => Shape
BY TypeInit DEF Init, Shape, Underway, In, Idle, Before, After, Decided

(* TypeOK: tables, caches and workers keep their shape; a cache never      *)
(* exceeds its size (router.py:49).                                        *)
THEOREM IngestTypeOK == Spec => []TypeOK
<1>1. Shape => TypeOK
  BY DEF Shape
<1> QED
  BY ShapeInit, ShapeStep, <1>1, PTL DEF Spec

-----------------------------------------------------------------------------
(* The edges from inputs that were there before.                           *)

(* Everyone but w, and perhaps w, is where he was or was killed.           *)
OnlyMoves(w) == \A v \in Workers \ {w} : work'[v] = work[v] \/ work'[v] = Idle

LEMMA LinkFrame ==
    ASSUME Shape, LinkInv, NEW w \in Workers, OnlyMoves(w),
           UNCHANGED <<nodes, order>>, edges \subseteq edges',
           work'[w].pc \in After \ {"inputs"} => LinkedSoFar(w)',
           \A s \in done' : s \in done \/ (s \in Spans /\ Stored(s) /\ Linked(s))
    PROVE  LinkInv'
<1>1. \A i, s : InOrder(i, s)' <=> InOrder(i, s)
  BY DEF InOrder
<1>2. OrderKept'
  BY DEF LinkInv, OrderKept, Stored
<1>3. ASSUME NEW v \in Workers \ {w}, work'[v].pc \in After \ {"inputs"} PROVE LinkedSoFar(v)'
  <2>1. work'[v] = work[v]
    BY <1>3 DEF OnlyMoves, Idle, After
  <2>2. LinkedSoFar(v)
    BY <1>3, <2>1 DEF LinkInv, Linking, In
  <2> QED
    BY <1>1, <2>1, <2>2 DEF LinkedSoFar, Span, At
<1>4. EarlierInputsLinked'
  BY <1>1 DEF LinkInv, EarlierInputsLinked, Linked
<1> QED
  BY <1>2, <1>3, <1>4 DEF LinkInv, Linking, In

(* A worker that has read no inputs yet, or is done with its span.         *)
LEMMA LinkAway ==
    ASSUME Shape, LinkInv, NEW w \in Workers, OnlyMoves(w),
           UNCHANGED <<nodes, order, edges, done>>, work'[w].pc \notin After \ {"inputs"}
    PROVE  LinkInv'
BY LinkFrame

(* A worker through with the loop of _commit.                              *)
LEMMA LinkDone ==
    ASSUME Shape, LinkInv, NEW w \in Workers, In(w, {"note"} \cup Proposing)
           \/ (At(w, "link") /\ work[w].links = << >>)
    PROVE  Linked(Span(w)) /\ Stored(Span(w)) /\ Span(w) \in Spans
<1>1. In(w, After \ {"inputs"}) /\ In(w, After)
  BY DEF In, At, After, Proposing
<1>2. LinkedSoFar(w) /\ Stored(Span(w)) /\ Span(w) \in Spans
  BY <1>1, ShapeOf DEF LinkInv, Linking, In
<1>3. ~(At(w, "link") /\ work[w].links # << >>)
  BY DEF In, At, Proposing
<1>4. work[w].links = << >> => Range(work[w].links) = {}
  BY DEF Range
<1> QED
  BY <1>2, <1>3, <1>4 DEF LinkedSoFar, Linked

LEMMA LinkStay ==
    ASSUME Shape, LinkInv, NEW w \in Workers, OnlyMoves(w),
           UNCHANGED <<nodes, order, edges, done>>,
           In(w, {"note"} \cup Proposing) \/ (At(w, "link") /\ work[w].links = << >>),
           work'[w].rest = work[w].rest, work'[w].pc \in {"note"} \cup Proposing
    PROVE  LinkInv'
<1>1. LinkedSoFar(w)'
  BY LinkDone DEF LinkedSoFar, Linked, Span, InOrder
<1> QED
  BY <1>1, LinkFrame

LEMMA LinkFinish ==
    ASSUME Shape, LinkInv, NEW w \in Workers, UNCHANGED <<nodes, order, edges>>,
           In(w, {"note"} \cup Proposing), Finish(w)
    PROVE  LinkInv'
<1>1. OnlyMoves(w) /\ work'[w].pc = "next"
  BY ShapeOf DEF OnlyMoves, Finish, NextSpan, Idle
<1>2. done' = done \cup {Span(w)}
  BY DEF Finish
<1> QED
  BY <1>1, <1>2, LinkDone, LinkFrame DEF After

LEMMA LinkUpsert ==
    ASSUME Shape, LinkInv, NEW w \in Workers, Upsert(w)
    PROVE  LinkInv'
<1> DEFINE s == Span(w)
<1>1. /\ s \in Spans /\ work[w].verdict \in Verdicts /\ order \in Seq(Spans)
      /\ nodes \in [Spans -> Verdicts \cup {Absent}] /\ done \subseteq Spans
  BY ShapeOf, TypeParts DEF Upsert, At, In, Before, Decided, Shape, Tables
<1>2. /\ nodes' = [nodes EXCEPT ![s] = work[w].verdict]
      /\ order' = (IF Stored(s) THEN order ELSE Append(order, s))
      /\ UNCHANGED <<edges, done>>
  BY DEF Upsert
<1>3. work'[w].pc = "inputs" /\ \A v \in Workers \ {w} : work'[v] = work[v]
  BY ShapeOf DEF Upsert, Goto
<1>4. /\ Len(order) \in Nat /\ DOMAIN order = 1..Len(order)
      /\ ~Stored(s) => /\ DOMAIN order' = 1..(Len(order) + 1) /\ order'[Len(order) + 1] = s
                       /\ \A i \in 1..Len(order) : order'[i] = order[i]
  BY <1>1, <1>2, LenProperties, AppendProperties
<1>5. OrderKept'
  <2>1. \A t \in Spans : Stored(t)' <=> Stored(t) \/ t = s
    BY <1>1, <1>2, AbsentAssumption DEF Stored
  <2>2. \A t : (\E i \in DOMAIN order' : order'[i] = t) <=> (\E i \in DOMAIN order : order[i] = t) \/ t = s
    BY <1>1, <1>2, <1>4 DEF LinkInv, OrderKept
  <2> QED
    BY <1>1, <1>2, <2>1, <2>2 DEF LinkInv, OrderKept
<1>6. ASSUME NEW t \in Spans, Stored(t), NEW i, InOrder(i, t)' PROVE InOrder(i, t)
  BY <1>2, <1>4, <1>6 DEF InOrder
<1>7. EarlierInputsLinked'
  BY <1>1, <1>2, <1>6 DEF LinkInv, EarlierInputsLinked, OrderKept
<1>8. ASSUME NEW v \in Workers, work'[v].pc \in After \ {"inputs"} PROVE LinkedSoFar(v)'
  <2>1. v # w /\ work'[v] = work[v]
    BY <1>3, <1>8
  <2>2. LinkedSoFar(v) /\ Span(v) \in Spans /\ Stored(Span(v))
    BY <1>8, <2>1, ShapeOf DEF LinkInv, Linking, In
  <2> QED
    BY <1>2, <1>6, <2>1, <2>2 DEF LinkedSoFar, Span, At
<1> QED
  BY <1>5, <1>7, <1>8 DEF LinkInv, Linking, In

LEMMA LinkRead ==
    ASSUME Shape, LinkInv, NEW w \in Workers, ReadInputs(w)
    PROVE  LinkInv'
<1> DEFINE s == Span(w)
<1>1. OnlyMoves(w) /\ UNCHANGED <<nodes, order, edges, done>>
  BY ShapeOf DEF OnlyMoves, ReadInputs, store
<1>2. /\ work'[w].pc = "link" /\ work'[w].links = Inputs[s]
      /\ work'[w].existing = Existing(s) /\ work'[w].rest = work[w].rest
  BY ShapeOf DEF ReadInputs, Work
<1>3. s \in Spans /\ Inputs[s] \in Seq(Spans)
  BY ShapeOf, SpanAssumption DEF ReadInputs, At, In, After
<1>4. ASSUME NEW i \in Range(Inputs[s]), InOrder(i, s) PROVE i \in Existing(s)
  <2>1. i \in Spans
    BY <1>3, ElementOfSeq DEF Range
  <2> QED
    BY <1>4, <2>1 DEF InOrder, LinkInv, OrderKept, Existing
<1>5. LinkedSoFar(w)'
  BY <1>1, <1>2, <1>4 DEF LinkedSoFar, Span, At, InOrder
<1> QED
  BY <1>1, <1>5, LinkFrame

LEMMA LinkLoop ==
    ASSUME Shape, LinkInv, NEW w \in Workers, Link(w)
    PROVE  LinkInv'
<1> DEFINE s == Span(w)
           q == work[w].links
<1>1. OnlyMoves(w) /\ UNCHANGED <<nodes, order, done>>
  BY ShapeOf DEF OnlyMoves, Link
<1>2. q \in Seq(Spans) /\ q # << >>
  BY ShapeOf DEF Link, Work
<1>3. /\ work'[w].pc = "link" /\ work'[w].links = Tail(q)
      /\ work'[w].existing = work[w].existing /\ work'[w].rest = work[w].rest
  BY ShapeOf DEF Link, At, Work
<1>4. edges' = edges \cup {<<i, s>> : i \in {Head(q)} \cap work[w].existing}
  BY DEF Link
<1>5. \A x \in Range(q) : x = Head(q) \/ x \in Range(Tail(q))
  <2>1. \A i \in 1..Len(q) : i = 1 \/ (i - 1 \in 1..Len(Tail(q)) /\ Tail(q)[i - 1] = q[i])
    BY <1>2, HeadTailProperties, LenProperties
  <2>2. DOMAIN q = 1..Len(q) /\ DOMAIN Tail(q) = 1..Len(Tail(q)) /\ Head(q) = q[1]
    BY <1>2, HeadTailProperties, LenProperties
  <2>3. ASSUME NEW i \in DOMAIN q, q[i] # Head(q) PROVE q[i] \in Range(Tail(q))
    BY <2>1, <2>2, <2>3 DEF Range
  <2> QED
    BY <2>3 DEF Range
<1>6. LinkedSoFar(w)
  BY DEF Link, At, In, LinkInv, Linking, After
<1>7. LinkedSoFar(w)'
  BY <1>1, <1>3, <1>4, <1>5, <1>6 DEF LinkedSoFar, Span, At, InOrder
<1> QED
  BY <1>1, <1>4, <1>7, LinkFrame

(* What a step of w leaves alone.                                          *)
LEMMA MovesAlone ==
    ASSUME Shape, NEW w \in Workers,
           Continue(w) \/ Fail(w) \/ \E r \in DOMAIN Requests : Receive(w, r)
    PROVE  OnlyMoves(w) /\ \A v \in Workers \ {w} : work'[v] = work[v]
<1> SUFFICES \A v \in Workers \ {w} : work'[v] = work[v]
  BY DEF OnlyMoves
<1>1. ASSUME NEW r, work' = [work EXCEPT ![w] = r] PROVE \A v \in Workers \ {w} : work'[v] = work[v]
  BY <1>1, ShapeOf
<1>2. ASSUME \E r \in DOMAIN Requests : Receive(w, r) PROVE \A v \in Workers \ {w} : work'[v] = work[v]
  BY <1>1, <1>2 DEF Receive
<1>3. ASSUME Look(w) \/ Answer(w) \/ Fail(w) \/ Propose(w) PROVE \A v \in Workers \ {w} : work'[v] = work[v]
  BY <1>1, <1>3, ShapeOf DEF Look, Answer, Fail, Propose, Goto, Finish
<1>4. ASSUME Route(w) \/ Assess(w) \/ Judged(w) \/ Count(w) PROVE \A v \in Workers \ {w} : work'[v] = work[v]
  BY <1>4, ShapeOf DEF Route, Assess, Judged, Count, Goto
<1>5. ASSUME SaveCheckpoint(w) \/ Upsert(w) \/ ReadInputs(w) \/ Link(w) PROVE \A v \in Workers \ {w} : work'[v] = work[v]
  BY <1>5, ShapeOf DEF SaveCheckpoint, Upsert, ReadInputs, Link, Goto
<1>6. ASSUME Observe(w) \/ Note(w) \/ Noted(w) PROVE \A v \in Workers \ {w} : work'[v] = work[v]
  BY <1>6, ShapeOf DEF Observe, Note, Noted, Goto, Finish
<1>7. ASSUME ReadRoot(w) \/ Register(w) PROVE \A v \in Workers \ {w} : work'[v] = work[v]
  BY <1>7, ShapeOf DEF ReadRoot, Register, Goto
<1> QED
  BY <1>2, <1>3, <1>4, <1>5, <1>6, <1>7 DEF Continue

(* The steps before the node is stored, and those that leave a span.       *)
LEMMA AwaySteps ==
    ASSUME Shape, NEW w \in Workers,
           \/ \E r \in DOMAIN Requests : Receive(w, r)
           \/ Look(w) \/ Answer(w) \/ Fail(w) \/ Route(w) \/ Assess(w) \/ Judged(w)
           \/ Count(w) \/ SaveCheckpoint(w)
    PROVE  /\ work'[w].pc \notin After
           /\ UNCHANGED <<nodes, order, edges, trail, proposals, done>>
<1>1. work \in [Workers -> Work]
  BY ShapeOf
<1>2. ASSUME NEW step, Goto(w, step) PROVE work'[w].pc = step
  BY <1>1, <1>2 DEF Goto, Work
<1>3. ASSUME work' = [work EXCEPT ![w] = NextSpan(w)] PROVE work'[w].pc = "next"
  BY <1>1, <1>3 DEF NextSpan, Idle
<1>4. work'[w].pc \in {"idle", "next"} \cup Before
  <2>1. ASSUME NEW r \in DOMAIN Requests, Receive(w, r) PROVE work'[w].pc = "next"
    BY <1>1, <2>1 DEF Receive, Idle
  <2>2. ASSUME Answer(w) PROVE work'[w].pc = "idle"
    BY <1>1, <2>2 DEF Answer, Idle
  <2>3. ASSUME Fail(w) PROVE work'[w].pc = "next"
    BY <1>3, <2>3 DEF Fail
  <2>4. ASSUME Look(w) PROVE work'[w].pc \in {"next", "route"}
    BY <1>2, <1>3, <2>4 DEF Look
  <2>5. ASSUME Route(w) PROVE work'[w].pc \in {"assess", "count"}
    <3>1. (\E v : work' = [work EXCEPT ![w].pc = "count", ![w].verdict = v]) \/ Goto(w, "assess")
      BY <2>5 DEF Route
    <3> QED
      BY <1>1, <1>2, <3>1 DEF Work
  <2>6. ASSUME Assess(w) PROVE work'[w].pc = "judged"
    <3>1. \E v : work' = [work EXCEPT ![w].pc = "judged", ![w].verdict = v]
      BY <2>6 DEF Assess
    <3> QED
      BY <1>1, <3>1 DEF Work
  <2>7. ASSUME Judged(w) \/ Count(w) \/ SaveCheckpoint(w)
        PROVE  work'[w].pc \in {"count", "checkpoint", "upsert"}
    BY <1>2, <2>7 DEF Judged, Count, SaveCheckpoint
  <2> QED
    BY <2>1, <2>2, <2>3, <2>4, <2>5, <2>6, <2>7 DEF Before
<1>5. UNCHANGED <<nodes, order, edges, trail, proposals, done>>
  BY DEF Receive, Look, Answer, Fail, Route, Assess, Judged, Count, SaveCheckpoint, store
<1> QED
  BY <1>4, <1>5 DEF Before, After

(* The steps between the loop of _commit and the end of a span.            *)
LEMMA StaySteps ==
    ASSUME Shape, NEW w \in Workers, Observe(w) \/ Note(w) \/ ReadRoot(w) \/ Register(w)
    PROVE  /\ work'[w].rest = work[w].rest /\ work'[w].verdict = work[w].verdict
           /\ work'[w].pc \in {"note"} \cup Proposing
<1>1. work \in [Workers -> Work]
  BY ShapeOf
<1>2. CASE Observe(w)
  <2>1. \E q : work' = [work EXCEPT ![w].pc = "note", ![w].notes = q]
    BY <1>2 DEF Observe
  <2> QED
    BY <1>1, <2>1 DEF Work
<1>3. CASE Note(w)
  BY <1>1, <1>3 DEF Note, At, Work
<1>4. CASE ReadRoot(w)
  <2>1. \E r, b : work' = [work EXCEPT ![w].pc = "register", ![w].root = r, ![w].batch = b]
    BY <1>4 DEF ReadRoot
  <2> QED
    BY <1>1, <2>1 DEF Work, Proposing
<1>5. CASE Register(w)
  BY <1>1, <1>5 DEF Register, Work, Proposing
<1> QED
  BY <1>2, <1>3, <1>4, <1>5

LEMMA LinkStep == Shape /\ LinkInv /\ [Next]_vars => LinkInv'
<1> SUFFICES ASSUME Shape, LinkInv, [Next]_vars PROVE LinkInv'
  OBVIOUS
<1>1. ASSUME NEW w \in Workers,
             \/ \E r \in DOMAIN Requests : Receive(w, r)
             \/ Look(w) \/ Answer(w) \/ Fail(w) \/ Route(w) \/ Assess(w) \/ Judged(w)
             \/ Count(w) \/ SaveCheckpoint(w)
      PROVE  LinkInv'
  BY <1>1, MovesAlone, AwaySteps, LinkAway DEF Continue
<1>2. ASSUME NEW w \in Workers, Observe(w) \/ Note(w) \/ ReadRoot(w) \/ Register(w)
      PROVE  LinkInv'
  <2>1. OnlyMoves(w) /\ UNCHANGED <<nodes, order, edges, done>>
    BY <1>2, MovesAlone DEF Continue, Observe, Note, ReadRoot, Register, store
  <2>2. In(w, {"note"} \cup Proposing) \/ (At(w, "link") /\ work[w].links = << >>)
    BY <1>2 DEF Observe, Note, ReadRoot, Register, At, In, Proposing
  <2>3. work'[w].rest = work[w].rest /\ work'[w].pc \in {"note"} \cup Proposing
    BY <1>2, StaySteps
  <2> QED
    BY <2>1, <2>2, <2>3, LinkStay
<1>3. ASSUME NEW w \in Workers, Noted(w) PROVE LinkInv'
  <2>1. In(w, {"note"} \cup Proposing) /\ UNCHANGED <<nodes, order, edges>>
    BY <1>3 DEF Noted, At, In, store
  <2>2. CASE Finish(w)
    BY <2>1, <2>2, LinkFinish
  <2>3. CASE Goto(w, "root") /\ UNCHANGED done
    <3>1. work'[w].rest = work[w].rest /\ work'[w].pc \in Proposing
      BY <2>3, ShapeOf DEF Goto, Proposing, Work
    <3> QED
      BY <1>3, <2>1, <2>3, <3>1, MovesAlone, LinkStay DEF Continue
  <2> QED
    BY <1>3, <2>2, <2>3 DEF Noted
<1>4. ASSUME NEW w \in Workers, Propose(w) PROVE LinkInv'
  BY <1>4, LinkFinish DEF Propose, At, In, Proposing
<1>5. ASSUME NEW c \in Processes, Die(c) PROVE LinkInv'
  <2>1. PICK w \in Workers : Process[w] = c
    BY <1>5 DEF Die
  <2>2. OnlyMoves(w) /\ work'[w] = Idle /\ UNCHANGED <<nodes, order, edges, done>>
    BY <1>5, <2>1 DEF Die, OnlyMoves, store
  <2> QED
    BY <2>2, LinkAway DEF Idle, After
<1>6. CASE UNCHANGED vars
  BY <1>6 DEF vars, store, LinkInv, OrderKept, Linking, LinkedSoFar, EarlierInputsLinked,
     InOrder, Stored, Span, In, At
<1> QED
  BY <1>1, <1>2, <1>3, <1>4, <1>5, <1>6, LinkUpsert, LinkRead, LinkLoop DEF Next, Continue

LEMMA LinkInit == Init => LinkInv
BY DEF Init, LinkInv, OrderKept, Linking, EarlierInputsLinked, Idle, In, After, Stored

(* EarlierInputsLinked: _commit of twin/router.py links a span to every    *)
(* input whose node was stored before its own, however requests, failures  *)
(* and dying processes are interleaved and however often batches are sent. *)
THEOREM IngestLinks == Spec => []EarlierInputsLinked
<1>1. Init => Shape /\ LinkInv
  BY ShapeInit, LinkInit
<1>2. Shape /\ LinkInv /\ [Next]_vars => (Shape /\ LinkInv)'
  BY ShapeStep, LinkStep
<1>3. LinkInv => EarlierInputsLinked
  BY DEF LinkInv
<1> QED
  BY <1>1, <1>2, <1>3, PTL DEF Spec

-----------------------------------------------------------------------------
(* Proposals explained by the log.                                         *)

LEMMA ReachableGrows ==
    ASSUME edges \subseteq edges', NEW s
    PROVE  Reachable(s) \subseteq Reachable(s)'
<1>1. \A R : Closed(R)' => Closed(R)
  BY DEF Closed
<1> QED
  BY <1>1 DEF Reachable

LEMMA ExplainFrame ==
    ASSUME Shape, ExplainInv, NEW w \in Workers, OnlyMoves(w), edges \subseteq edges',
           \A s \in Spans : Noticed(s) => Noticed(s)', Explaining(w)',
           \A a \in DOMAIN proposals' : a \in DOMAIN proposals \/ Explained(a)
    PROVE  ExplainInv'
<1>1. \A a \in DOMAIN proposals' : Explained(a)'
  <2> SUFFICES ASSUME NEW a \in DOMAIN proposals' PROVE Explained(a)'
    OBVIOUS
  <2>1. PICK s \in Spans : a[1] \in Reachable(s) /\ Noticed(s)
    BY DEF ExplainInv, Explained
  <2>2. a[1] \in Reachable(s)' /\ Noticed(s)'
    BY <2>1, ReachableGrows
  <2> QED
    BY <2>2 DEF Explained
<1>2. ASSUME NEW v \in Workers \ {w} PROVE Explaining(v)'
  <2>1. CASE work'[v] = Idle
    BY <2>1 DEF Explaining, At, In, Idle, Proposing
  <2>2. CASE work'[v] = work[v]
    <3>1. In(v, {"note"} \cup Proposing) => Span(v) \in Spans
      BY ShapeOf DEF In, After, Proposing
    <3>2. Explaining(v)
      BY DEF ExplainInv
    <3>3. Span(v)' = Span(v) /\ (ToNotice(v) <=> ToNotice(v)')
      BY <2>2 DEF Span, ToNotice
    <3>4. Reachable(Span(v)) \subseteq Reachable(Span(v))'
      BY <3>3, ReachableGrows DEF Reachable, Closed
    <3>5. Span(v) \in Spans /\ Noticed(Span(v)) => Noticed(Span(v))'
      BY <3>3 DEF Noticed
    <3>6. CASE At(v, "note")
      BY <2>2, <3>1, <3>2, <3>3, <3>5, <3>6 DEF Explaining, At, In, Proposing
    <3>7. CASE In(v, Proposing)
      BY <2>2, <3>1, <3>2, <3>4, <3>5, <3>7 DEF Explaining, At, In, Proposing
    <3>8. CASE ~At(v, "note") /\ ~In(v, Proposing)
      BY <2>2, <3>8 DEF Explaining, At, In, Proposing
    <3> QED
      BY <3>6, <3>7, <3>8
  <2> QED
    BY <2>1, <2>2 DEF OnlyMoves
<1> QED
  BY <1>1, <1>2 DEF ExplainInv

LEMMA ExplainAway ==
    ASSUME Shape, ExplainInv, NEW w \in Workers, OnlyMoves(w), edges \subseteq edges',
           UNCHANGED <<trail, proposals>>, work'[w].pc \notin {"note"} \cup Proposing
    PROVE  ExplainInv'
<1>1. \A s \in Spans : Noticed(s) => Noticed(s)'
  BY DEF Noticed
<1>2. Explaining(w)'
  BY DEF Explaining, At, In, Proposing
<1> QED
  BY <1>1, <1>2, ExplainFrame

(* A detection entry in a part of a sequence is one in the sequence.       *)
LEMMA DetectsConcat ==
    ASSUME NEW p \in Seq(Events), NEW q \in Seq(Events)
    PROVE  Detects(p \o q) <=> Detects(p) \/ Detects(q)
<1> DEFINE r == p \o q
<1>1. /\ r \in Seq(Events) /\ Len(r) = Len(p) + Len(q) /\ Len(p) \in Nat /\ Len(q) \in Nat
      /\ DOMAIN r = 1..Len(r) /\ DOMAIN p = 1..Len(p) /\ DOMAIN q = 1..Len(q)
  BY ConcatProperties, LenProperties
<1>2. /\ \A i \in 1..Len(p) : r[i] = p[i]
      /\ \A i \in 1..Len(q) : r[Len(p) + i] = q[i]
  BY ConcatProperties
<1> HIDE DEF r
<1>3. ASSUME NEW i \in DOMAIN r, r[i] = "detection" PROVE Detects(p) \/ Detects(q)
  <2>1. CASE i <= Len(p)
    BY <1>1, <1>2, <1>3, <2>1 DEF Detects
  <2>2. CASE i > Len(p)
    <3>1. i - Len(p) \in 1..Len(q) /\ Len(p) + (i - Len(p)) = i
      BY <1>1, <2>2
    <3>2. r[i] = q[i - Len(p)]
      BY <1>2, <3>1
    <3> QED
      BY <1>1, <1>3, <3>1, <3>2 DEF Detects
  <2> QED
    BY <1>1, <2>1, <2>2
<1>4. \A i \in DOMAIN p : i \in DOMAIN r /\ r[i] = p[i]
  BY <1>1, <1>2
<1>5. \A i \in DOMAIN q : Len(p) + i \in DOMAIN r /\ r[Len(p) + i] = q[i]
  BY <1>1, <1>2
<1>6. Detects(r) <=> Detects(p) \/ Detects(q)
  BY <1>3, <1>4, <1>5 DEF Detects
<1> QED
  BY <1>6 DEF r

LEMMA NotesDetect == ASSUME NEW s, NEW v PROVE Detects(Notes(s, v)) <=> v.status # "ok"
<1> DEFINE a == IF s \in Denied THEN <<"action.blocked">> ELSE << >>
           b == IF v.origin # "none" THEN <<"escalation">> ELSE << >>
           c == IF v.status # "ok" THEN <<"detection">> ELSE << >>
<1>1. /\ << >> \in Seq(Events) /\ <<"action.blocked">> \in Seq(Events)
      /\ <<"escalation">> \in Seq(Events) /\ <<"detection">> \in Seq(Events)
  BY DEF Events
<1>2. a \in Seq(Events) /\ b \in Seq(Events) /\ c \in Seq(Events) /\ a \o b \in Seq(Events)
  BY <1>1, ConcatProperties
<1>3. ~Detects(a) /\ ~Detects(b) /\ (Detects(c) <=> v.status # "ok")
  BY DEF Detects
<1>4. Notes(s, v) = (a \o b) \o c
  BY <1>2, ConcatAssociative DEF Notes
<1> HIDE DEF a, b, c
<1>5. Detects(a \o b) <=> Detects(a) \/ Detects(b)
  BY <1>2, DetectsConcat
<1>6. Detects((a \o b) \o c) <=> Detects(a \o b) \/ Detects(c)
  BY <1>2, DetectsConcat
<1> QED
  BY <1>3, <1>4, <1>5, <1>6

(* What the steps after the loop of _commit write into the worker.         *)
LEMMA ObserveFields ==
    ASSUME Shape, NEW w \in Workers, Observe(w)
    PROVE  /\ work'[w].pc = "note"
           /\ \E p \in Seq(Events) :
                 /\ ~Detects(p)
                 /\ work'[w].notes = p \o Notes(Span(w), work[w].verdict)
<1>1. PICK anomaly \in Anomalies :
         work' = [work EXCEPT ![w].pc = "note",
             ![w].notes = (IF anomaly THEN <<"escalation.anomaly">> ELSE << >>)
                          \o Notes(Span(w), work[w].verdict)]
  BY DEF Observe
<1> DEFINE p == IF anomaly THEN <<"escalation.anomaly">> ELSE << >>
           q == p \o Notes(Span(w), work[w].verdict)
<1>2. p \in Seq(Events) /\ ~Detects(p)
  <2>1. << >> \in Seq(Events) /\ <<"escalation.anomaly">> \in Seq(Events)
    BY DEF Events
  <2> QED
    BY <2>1 DEF Detects
<1>3. work' = [work EXCEPT ![w].pc = "note", ![w].notes = q]
  BY <1>1
<1> HIDE DEF q
<1>4. work'[w].pc = "note" /\ work'[w].notes = q
  BY <1>3, ShapeOf DEF Work
<1> HIDE DEF p
<1> QED
  BY <1>2, <1>4 DEF q

LEMMA NoteFields ==
    ASSUME Shape, NEW w \in Workers, Note(w)
    PROVE  /\ work'[w].pc = "note" /\ work'[w].notes = Tail(work[w].notes)
           /\ work[w].notes \in Seq(Events) /\ work[w].notes # << >>
           /\ trail[Span(w)] \in Seq(Events)
           /\ trail'[Span(w)] = Append(trail[Span(w)], Head(work[w].notes))
           /\ \A s \in Spans \ {Span(w)} : trail'[s] = trail[s]
           /\ Span(w) \in Spans
<1>1. work'[w].pc = "note" /\ work'[w].notes = Tail(work[w].notes)
  BY ShapeOf DEF Note, At, Work
<1>2. trail \in [Spans -> Seq(Events)] /\ Span(w) \in Spans
  BY ShapeOf, TypeParts DEF Note, At, In, After, Shape, Tables
<1>3. work[w].notes \in Seq(Events) /\ work[w].notes # << >>
  BY ShapeOf DEF Note, Work
<1> QED
  BY <1>1, <1>2, <1>3 DEF Note

LEMMA RootFields ==
    ASSUME Shape, NEW w \in Workers, ReadRoot(w)
    PROVE  /\ work'[w].pc = "register" /\ work'[w].root \in Reachable(Span(w))
           /\ work'[w].batch = Actions(work'[w].root)
<1>1. Span(w) \in Spans
  BY ShapeOf DEF ReadRoot, At, In, After
<1>2. PICK r \in RootCauses(Span(w)) :
         work' = [work EXCEPT ![w].pc = "register", ![w].root = r, ![w].batch = Actions(r)]
  BY DEF ReadRoot
<1>3. r \in Reachable(Span(w))
  BY <1>1, RootType
<1>4. \A b : work' = [work EXCEPT ![w].pc = "register", ![w].root = r, ![w].batch = b]
         => work'[w].pc = "register" /\ work'[w].root = r /\ work'[w].batch = b
  BY ShapeOf DEF Work
<1> QED
  BY <1>2, <1>3, <1>4

LEMMA RegisterFields ==
    ASSUME Shape, NEW w \in Workers, Register(w)
    PROVE  /\ work'[w].pc = "propose" /\ work'[w].root = work[w].root
           /\ work'[w].batch = Fresh(work[w].batch)
<1>1. \A b : work' = [work EXCEPT ![w].pc = "propose", ![w].batch = b]
         => work'[w].pc = "propose" /\ work'[w].root = work[w].root /\ work'[w].batch = b
  BY ShapeOf DEF Work
<1> QED
  BY <1>1 DEF Register

(* A note to write goes to the log, the others stay to be written.         *)
LEMMA NoticedByNote ==
    ASSUME Shape, NEW w \in Workers, Note(w)
    PROVE  /\ Noticed(Span(w))' <=> Noticed(Span(w)) \/ Head(work[w].notes) = "detection"
           /\ ToNotice(w) <=> ToNotice(w)' \/ Head(work[w].notes) = "detection"
           /\ \A s \in Spans : Noticed(s) => Noticed(s)'
<1> DEFINE s == Span(w)
           q == work[w].notes
           p == trail[s]
<1>1. /\ q \in Seq(Events) /\ q # << >> /\ p \in Seq(Events) /\ s \in Spans
      /\ s' = s /\ work'[w].notes = Tail(q) /\ trail'[s] = Append(p, Head(q))
  BY NoteFields, StaySteps DEF Span
<1>2. /\ DOMAIN Append(p, Head(q)) = 1..(Len(p) + 1) /\ DOMAIN p = 1..Len(p) /\ Len(p) \in Nat
      /\ Append(p, Head(q))[Len(p) + 1] = Head(q)
      /\ \A i \in 1..Len(p) : Append(p, Head(q))[i] = p[i]
  BY <1>1, AppendProperties, LenProperties
<1>3. /\ DOMAIN Tail(q) = 1..Len(Tail(q)) /\ Len(Tail(q)) = Len(q) - 1 /\ Len(q) \in Nat
      /\ DOMAIN q = 1..Len(q) /\ Len(q) > 0 /\ Head(q) = q[1]
      /\ \A i \in 1..Len(Tail(q)) : Tail(q)[i] = q[i + 1]
  BY <1>1, HeadTailProperties, LenProperties
<1>4. Noticed(s)' <=> Noticed(s) \/ Head(q) = "detection"
  <2>1. Noticed(s)' <=> \E i \in 1..(Len(p) + 1) : Append(p, Head(q))[i] = "detection"
    BY <1>1, <1>2 DEF Noticed, Detects
  <2>2. Noticed(s) <=> \E i \in 1..Len(p) : p[i] = "detection"
    BY <1>2 DEF Noticed, Detects
  <2> HIDE DEF p, q
  <2> QED
    BY <1>2, <2>1, <2>2
<1>5. ToNotice(w) <=> ToNotice(w)' \/ Head(q) = "detection"
  <2>1. ToNotice(w)' <=> \E i \in 1..Len(Tail(q)) : Tail(q)[i] = "detection"
    BY <1>1, <1>3 DEF ToNotice, Detects
  <2>2. ToNotice(w) <=> \E i \in 1..Len(q) : q[i] = "detection"
    BY <1>3 DEF ToNotice, Detects
  <2>3. ASSUME NEW i \in 1..Len(q), i # 1 PROVE i - 1 \in 1..Len(Tail(q)) /\ Tail(q)[i - 1] = q[i]
    BY <1>3, <2>3
  <2>4. \A i \in 1..Len(Tail(q)) : i + 1 \in 1..Len(q)
    BY <1>3
  <2> HIDE DEF q
  <2> QED
    BY <1>3, <2>1, <2>2, <2>3, <2>4
<1>6. \A t \in Spans : Noticed(t) => Noticed(t)'
  BY <1>1, <1>4, NoteFields DEF Noticed
<1> QED
  BY <1>1, <1>4, <1>5, <1>6

(* Times counts the entries of a kind in the log of a span.                *)
LEMMA TimesFinite ==
    ASSUME Shape, NEW s \in Spans, NEW e
    PROVE  IsFiniteSet({i \in DOMAIN trail[s] : trail[s][i] = e})
<1>1. trail[s] \in Seq(Events)
  BY TypeParts DEF Shape, Tables
<1>2. DOMAIN trail[s] = 1..Len(trail[s]) /\ Len(trail[s]) \in Nat
  BY <1>1, LenProperties
<1>3. IsFiniteSet(1..Len(trail[s]))
  BY <1>2, FS_Interval
<1> QED
  BY <1>2, <1>3, FS_Subset

LEMMA TimesPositive ==
    ASSUME Shape, NEW s \in Spans, Noticed(s)
    PROVE  Times("detection", s) > 0
<1> DEFINE I == {i \in DOMAIN trail[s] : trail[s][i] = "detection"}
<1>1. IsFiniteSet(I) /\ I # {}
  BY TimesFinite DEF Noticed, Detects
<1>2. Cardinality(I) \in Nat /\ Cardinality(I) # 0
  BY <1>1, FS_CardinalityType, FS_EmptySet
<1> QED
  BY <1>2 DEF Times

LEMMA ExplainEntries ==
    ASSUME Shape, ExplainInv, NEW w \in Workers, Observe(w) \/ Note(w) \/ Noted(w)
    PROVE  ExplainInv'
<1> DEFINE s == Span(w)
<1>1. OnlyMoves(w) /\ UNCHANGED <<edges, proposals>>
  BY MovesAlone DEF Continue, Observe, Note, Noted, store
<1>2. Explaining(w) /\ s \in Spans /\ work[w].rest # << >> /\ work[w].verdict \in Verdicts
  BY ShapeOf DEF ExplainInv, Observe, Note, Noted, At, In, After, Decided
<1>3. CASE Observe(w)
  <2>1. s' = s /\ work'[w].verdict = work[w].verdict /\ work'[w].pc = "note"
    BY <1>3, StaySteps, ObserveFields DEF Span
  <2>2. PICK p \in Seq(Events) : work'[w].notes = p \o Notes(s, work[w].verdict)
    BY <1>3, ObserveFields
  <2>3. work[w].verdict.status # "ok" => ToNotice(w)'
    BY <2>2, NotesType, NotesDetect, DetectsConcat DEF ToNotice
  <2>4. Explaining(w)'
    BY <2>1, <2>3 DEF Explaining, At, In, Proposing
  <2>5. \A t \in Spans : Noticed(t) => Noticed(t)'
    BY <1>3 DEF Observe, store, Noticed
  <2> QED
    BY <1>1, <2>4, <2>5, ExplainFrame
<1>4. CASE Note(w)
  <2>1. s' = s /\ work'[w].verdict = work[w].verdict /\ work'[w].pc = "note" /\ At(w, "note")
    BY <1>4, StaySteps, NoteFields DEF Span, Note
  <2>2. Noticed(s) \/ ToNotice(w) => Noticed(s)' \/ ToNotice(w)'
    BY <1>4, NoticedByNote
  <2>3. Noticed(Span(w))' <=> Noticed(s)'
    BY <2>1
  <2>4. Explaining(w)'
    BY <1>2, <2>1, <2>2, <2>3 DEF Explaining, At, In, Proposing
  <2> QED
    BY <1>1, <1>4, <2>4, NoticedByNote, ExplainFrame
<1>5. CASE Noted(w)
  <2>1. trail' = trail
    BY <1>5 DEF Noted, store
  <2>2. CASE Finish(w)
    <3>1. work'[w].pc = "next"
      BY <2>2, ShapeOf DEF Finish, NextSpan, Idle
    <3> QED
      BY <1>1, <2>1, <3>1, ExplainAway DEF Proposing
  <2>3. CASE work[w].verdict.status = "flagged" /\ Goto(w, "root")
    <3>1. work'[w].pc = "root" /\ s' = s
      BY <2>3, ShapeOf DEF Goto, Span, Work
    <3>2. ~ToNotice(w)
      BY <1>5 DEF Noted, ToNotice, Detects
    <3>3. Noticed(s)
      BY <1>2, <1>5, <2>3, <3>2 DEF Explaining, Noted
    <3>4. Noticed(Span(w))'
      BY <2>1, <3>1, <3>3 DEF Noticed
    <3>5. Explaining(w)'
      BY <3>1, <3>4 DEF Explaining, At, In, Proposing
    <3>6. \A t \in Spans : Noticed(t) => Noticed(t)'
      BY <2>1 DEF Noticed
    <3> QED
      BY <1>1, <3>5, <3>6, ExplainFrame
  <2> QED
    BY <1>5, <2>2, <2>3 DEF Noted
<1> QED
  BY <1>3, <1>4, <1>5

LEMMA ExplainProposes ==
    ASSUME Shape, ExplainInv, NEW w \in Workers, ReadRoot(w) \/ Register(w) \/ Propose(w)
    PROVE  ExplainInv'
<1> DEFINE s == Span(w)
<1>1. OnlyMoves(w) /\ UNCHANGED <<edges, trail>>
  BY MovesAlone DEF Continue, ReadRoot, Register, Propose, store
<1>2. Noticed(s) /\ s \in Spans /\ \A t \in Spans : Noticed(t) => Noticed(t)'
  BY <1>1, ShapeOf DEF ExplainInv, Explaining, ReadRoot, Register, Propose, At, In, After,
     Proposing, Noticed
<1>3. \A t : Reachable(t)' = Reachable(t)
  BY <1>1 DEF Reachable, Closed
<1>4. ASSUME UNCHANGED proposals, work'[w].rest = work[w].rest,
             work'[w].pc \in {"register", "propose"},
             work'[w].root \in Reachable(s), \A a \in work'[w].batch : a[1] = work'[w].root
      PROVE  ExplainInv'
  <2>1. s' = s
    BY <1>4 DEF Span
  <2>2. Noticed(Span(w))' /\ Reachable(Span(w))' = Reachable(s)
    BY <1>1, <1>2, <2>1 DEF Noticed, Reachable, Closed
  <2>3. Explaining(w)'
    BY <1>4, <2>2 DEF Explaining, At, In, Proposing
  <2> QED
    BY <1>1, <1>2, <1>4, <2>3, ExplainFrame
<1>5. CASE ReadRoot(w)
  <2>1. \A a \in Actions(work'[w].root) : a[1] = work'[w].root
    BY DEF Actions
  <2> QED
    BY <1>4, <1>5, <2>1, RootFields, StaySteps DEF ReadRoot, store
<1>7. CASE Register(w)
  <2>1. Fresh(work[w].batch) \subseteq work[w].batch
    BY DEF Fresh
  <2>2. work[w].root \in Reachable(s) /\ \A a \in work[w].batch : a[1] = work[w].root
    BY <1>7 DEF ExplainInv, Explaining, Register, At, In
  <2> QED
    BY <1>4, <1>7, <2>1, <2>2, RegisterFields, StaySteps DEF Register, store
<1>8. CASE Propose(w)
  <2>1. work[w].root \in Reachable(s) /\ \A a \in work[w].batch : a[1] = work[w].root
    BY <1>8 DEF ExplainInv, Explaining, Propose, At, In
  <2>2. DOMAIN proposals' = DOMAIN proposals \cup work[w].batch
    BY <1>8, AddProposals, TypeParts DEF Propose, Shape, Tables
  <2>3. \A a \in DOMAIN proposals' : a \in DOMAIN proposals \/ Explained(a)
    BY <1>2, <2>1, <2>2 DEF Explained
  <2>4. work'[w].pc = "next"
    BY <1>8, ShapeOf DEF Propose, Finish, NextSpan, Idle
  <2>5. Explaining(w)'
    BY <2>4 DEF Explaining, At, In, Proposing
  <2> QED
    BY <1>1, <1>2, <2>3, <2>5, ExplainFrame
<1> QED
  BY <1>5, <1>7, <1>8

LEMMA ExplainStep == Shape /\ ExplainInv /\ [Next]_vars => ExplainInv'
<1> SUFFICES ASSUME Shape, ExplainInv, [Next]_vars PROVE ExplainInv'
  OBVIOUS
<1>1. ASSUME NEW w \in Workers,
             \/ \E r \in DOMAIN Requests : Receive(w, r)
             \/ Look(w) \/ Answer(w) \/ Fail(w) \/ Route(w) \/ Assess(w) \/ Judged(w)
             \/ Count(w) \/ SaveCheckpoint(w)
      PROVE  ExplainInv'
  <2>1. OnlyMoves(w) /\ work'[w].pc \notin {"note"} \cup Proposing
    BY <1>1, MovesAlone, AwaySteps DEF Continue, After, Proposing
  <2>2. UNCHANGED <<edges, trail, proposals>>
    BY <1>1 DEF Receive, Look, Answer, Fail, Route, Assess, Judged, Count, SaveCheckpoint, store
  <2> QED
    BY <2>1, <2>2, ExplainAway
<1>2. ASSUME NEW w \in Workers, Upsert(w) \/ ReadInputs(w) \/ Link(w) PROVE ExplainInv'
  <2>1. OnlyMoves(w) /\ UNCHANGED <<trail, proposals>> /\ edges \subseteq edges'
    BY <1>2, MovesAlone DEF Continue, Upsert, ReadInputs, Link, store
  <2>2. work'[w].pc \in {"inputs", "link"}
    <3>1. work \in [Workers -> Work]
      BY ShapeOf
    <3>2. CASE Upsert(w)
      BY <3>1, <3>2 DEF Upsert, Goto, Work
    <3>3. CASE ReadInputs(w)
      BY <3>1, <3>3 DEF ReadInputs, Work
    <3>4. CASE Link(w)
      BY <3>1, <3>4 DEF Link, At, Work
    <3> QED
      BY <1>2, <3>2, <3>3, <3>4
  <2> QED
    BY <2>1, <2>2, ExplainAway DEF Proposing
<1>3. ASSUME NEW c \in Processes, Die(c) PROVE ExplainInv'
  <2>1. PICK w \in Workers : Process[w] = c
    BY <1>3 DEF Die
  <2>2. OnlyMoves(w) /\ work'[w] = Idle /\ UNCHANGED <<edges, trail, proposals>>
    BY <1>3, <2>1 DEF Die, OnlyMoves, store
  <2> QED
    BY <2>2, ExplainAway DEF Idle, Proposing
<1>4. CASE UNCHANGED vars
  BY <1>4 DEF vars, store, ExplainInv, Explaining, Explained, Noticed, ToNotice, Reachable,
     Closed, Span, In, At
<1> QED
  BY <1>1, <1>2, <1>3, <1>4, ExplainEntries, ExplainProposes DEF Next, Continue

LEMMA ExplainInit == Init => ExplainInv
BY DEF Init, ExplainInv, Explaining, Idle, In, At, Proposing, EmptyBag, SetToBag

(* ProposalExplained: what _auto_propose puts forward (twin/engine.py) is  *)
(* about a node upstream of one, or one, with a detection entry in the     *)
(* audit log; another request in between, a failure or a dead process      *)
(* leaves no proposal without its reason on record.                        *)
THEOREM IngestExplained == Spec => []ProposalExplained
<1>1. Init => Shape /\ ExplainInv
  BY ShapeInit, ExplainInit
<1>2. Shape /\ ExplainInv /\ [Next]_vars => (Shape /\ ExplainInv)'
  BY ShapeStep, ExplainStep
<1>3. Shape /\ ExplainInv => ProposalExplained
  <2> SUFFICES ASSUME Shape, ExplainInv, NEW a \in DOMAIN proposals
               PROVE  \E s \in Spans : a[1] \in Upstream(s) \cup {s} /\ Times("detection", s) > 0
    BY DEF ProposalExplained, BagToSet
  <2>1. PICK s \in Spans : a[1] \in Reachable(s) /\ Noticed(s)
    BY DEF ExplainInv, Explained
  <2>2. a[1] \in Upstream(s) \cup {s}
    BY <2>1 DEF Upstream
  <2>3. Times("detection", s) > 0
    BY <2>1, TimesPositive
  <2> QED
    BY <2>2, <2>3
<1> QED
  BY <1>1, <1>2, <1>3, PTL DEF Spec

-----------------------------------------------------------------------------
(* One delivery: who holds which span.                                     *)

(* The steps of a span leave the batch where it is.                        *)
Steps(w) ==
    \/ Route(w) \/ Assess(w) \/ Judged(w) \/ Count(w) \/ SaveCheckpoint(w)
    \/ Upsert(w) \/ ReadInputs(w) \/ Link(w)
    \/ Observe(w) \/ Note(w) \/ (Noted(w) /\ Goto(w, "root"))
    \/ ReadRoot(w) \/ Register(w)

LEMMA StepsKeep ==
    ASSUME Shape, NEW w \in Workers, Steps(w)
    PROVE  /\ work'[w].from = work[w].from /\ work'[w].rest = work[w].rest
           /\ In(w, Before \cup After) /\ In(w, Before \cup After)'
           /\ In(w, After) => In(w, After)' /\ work'[w].verdict = work[w].verdict
           /\ In(w, After)' => In(w, After) \/ Upsert(w)
<1>1. work \in [Workers -> Work]
  BY ShapeOf
<1>2. ASSUME NEW step, Goto(w, step)
      PROVE  /\ work'[w].pc = step /\ work'[w].from = work[w].from
             /\ work'[w].rest = work[w].rest /\ work'[w].verdict = work[w].verdict
  BY <1>1, <1>2 DEF Goto, Work
<1>3. CASE Route(w)
  <2>1. (\E v : work' = [work EXCEPT ![w].pc = "count", ![w].verdict = v]) \/ Goto(w, "assess")
    BY <1>3 DEF Route
  <2>2. At(w, "route")
    BY <1>3 DEF Route
  <2>3. work'[w].from = work[w].from /\ work'[w].rest = work[w].rest
        /\ work'[w].pc \in {"count", "assess"}
    BY <1>1, <1>2, <2>1 DEF Work
  <2> QED
    BY <2>2, <2>3 DEF At, In, Before, After
<1>4. CASE Assess(w)
  <2>1. \E v : work' = [work EXCEPT ![w].pc = "judged", ![w].verdict = v]
    BY <1>4 DEF Assess
  <2>2. work'[w].from = work[w].from /\ work'[w].rest = work[w].rest /\ work'[w].pc = "judged"
    BY <1>1, <2>1 DEF Work
  <2> QED
    BY <1>4, <2>2 DEF Assess, At, In, Before, After
<1>5. CASE Judged(w) \/ Count(w) \/ SaveCheckpoint(w)
  BY <1>2, <1>5 DEF Judged, Count, SaveCheckpoint, At, In, Before, After
<1>6. CASE Upsert(w)
  BY <1>2, <1>6 DEF Upsert, At, In, Before, After
<1>7. CASE ReadInputs(w)
  <2>1. /\ work'[w].from = work[w].from /\ work'[w].rest = work[w].rest
        /\ work'[w].verdict = work[w].verdict /\ work'[w].pc = "link"
    BY <1>1, <1>7 DEF ReadInputs, Work
  <2> QED
    BY <1>7, <2>1 DEF ReadInputs, At, In, After
<1>8. CASE Link(w)
  <2>1. /\ work'[w].from = work[w].from /\ work'[w].rest = work[w].rest
        /\ work'[w].verdict = work[w].verdict /\ work'[w].pc = work[w].pc
    BY <1>1, <1>8 DEF Link, Work
  <2> QED
    BY <1>8, <2>1 DEF Link, At, In, After
<1>9. CASE Observe(w) \/ Note(w) \/ ReadRoot(w) \/ Register(w)
  <2>1. work'[w].from = work[w].from
    <3>1. CASE Observe(w)
      <4>1. \E q : work' = [work EXCEPT ![w].pc = "note", ![w].notes = q]
        BY <3>1 DEF Observe
      <4> QED
        BY <1>1, <4>1 DEF Work
    <3>2. CASE Note(w)
      BY <1>1, <3>2 DEF Note, Work
    <3>3. CASE ReadRoot(w)
      <4>1. \E r, b : work' = [work EXCEPT ![w].pc = "register", ![w].root = r, ![w].batch = b]
        BY <3>3 DEF ReadRoot
      <4> QED
        BY <1>1, <4>1 DEF Work
    <3>4. CASE Register(w)
      BY <1>1, <3>4 DEF Register, Work
    <3> QED
      BY <1>9, <3>1, <3>2, <3>3, <3>4
  <2>2. In(w, After)
    BY <1>9 DEF Observe, Note, ReadRoot, Register, At, In, After
  <2> QED
    BY <1>9, <2>1, <2>2, StaySteps DEF In, After, Proposing
<1>10. CASE Noted(w) /\ Goto(w, "root")
  BY <1>2, <1>10 DEF Noted, At, In, After
<1> QED
  BY <1>3, <1>4, <1>5, <1>6, <1>7, <1>8, <1>9, <1>10 DEF Steps

(* The other steps of a worker: it takes a batch, turns to its span, or    *)
(* leaves it.                                                              *)
LEMMA StepKinds ==
    ASSUME Shape, NEW w \in Workers, Continue(w) \/ Fail(w)
    PROVE  \/ Steps(w)
           \/ Answer(w) /\ work'[w] = Idle
           \/ Look(w) /\ ~Stored(Span(w)) /\ Goto(w, "route")
           \/ work[w].rest # << >> /\ work'[w] = NextSpan(w) /\ ~At(w, "idle") /\ Look(w)
           \/ work[w].rest # << >> /\ work'[w] = NextSpan(w) /\ Fail(w)
           \/ work[w].rest # << >> /\ work'[w] = NextSpan(w) /\ ~At(w, "idle")
              /\ Finish(w) /\ (Noted(w) \/ Propose(w))
<1>1. work \in [Workers -> Work]
  BY ShapeOf
<1>2. ASSUME work' = [work EXCEPT ![w] = NextSpan(w)] PROVE work'[w] = NextSpan(w)
  BY <1>1, <1>2
<1>3. CASE Answer(w)
  BY <1>1, <1>3 DEF Answer
<1>4. CASE Look(w)
  BY <1>2, <1>4 DEF Look, Known, At
<1>5. CASE Fail(w)
  BY <1>2, <1>5 DEF Fail
<1>6. CASE Noted(w)
  BY <1>2, <1>6, ShapeOf DEF Noted, Finish, Steps, At, In, After
<1>7. CASE Propose(w)
  BY <1>2, <1>7, ShapeOf DEF Propose, Finish, At, In, After
<1> QED
  BY <1>3, <1>4, <1>5, <1>6, <1>7 DEF Continue, Steps

(* The rest of a suffix is a suffix.                                       *)
LEMMA SuffixTail ==
    ASSUME Shape, NEW w \in Workers, RestOf(w), work[w].rest # << >>
    PROVE  \E k \in 1..Len(Requests[work[w].from]) :
              /\ work[w].rest = SubSeq(Requests[work[w].from], k, Len(Requests[work[w].from]))
              /\ Tail(work[w].rest)
                    = SubSeq(Requests[work[w].from], k + 1, Len(Requests[work[w].from]))
              /\ Span(w) = Requests[work[w].from][k]
<1> DEFINE q == Requests[work[w].from]
           n == Len(q)
<1>1. q \in Seq(Spans) /\ n \in Nat
  <2>1. DOMAIN Requests = 1..Len(Requests)
    BY RequestAssumption, LenProperties
  <2>2. q \in Seq(Spans)
    BY <2>1, RequestAssumption, ElementOfSeq DEF RestOf
  <2> QED
    BY <2>2, LenProperties
<1>2. PICK k \in 1..(n + 1) : work[w].rest = SubSeq(q, k, n)
  BY DEF RestOf
<1> HIDE DEF q, n
<1>3. SubSeq(q, n + 1, n) = << >>
  BY <1>1, SubSeqProperties, LenProperties, EmptySeq DEF n
<1>4. k \in 1..n
  BY <1>1, <1>2, <1>3
<1>5. /\ SubSeq(q, k, n) \in Seq(Spans) /\ Len(SubSeq(q, k, n)) = n - k + 1
      /\ \A i \in 1..(n - k + 1) : SubSeq(q, k, n)[i] = q[k + i - 1]
      /\ SubSeq(q, k + 1, n) \in Seq(Spans) /\ Len(SubSeq(q, k + 1, n)) = n - k
      /\ \A i \in 1..(n - k) : SubSeq(q, k + 1, n)[i] = q[k + i]
  BY <1>1, <1>4, SubSeqProperties DEF n
<1>6. Span(w) = q[k]
  <2>1. 1 \in 1..(n - k + 1) /\ k + 1 - 1 = k
    BY <1>1, <1>4
  <2>2. SubSeq(q, k, n)[1] = q[k]
    BY <1>5, <2>1
  <2>3. ASSUME NEW a \in Seq(Spans), a # << >> PROVE Head(a) = a[1]
    BY <2>3, HeadTailProperties, LenProperties
  <2> QED
    BY <1>2, <1>5, <2>2, <2>3 DEF Span
<1>7. Tail(SubSeq(q, k, n)) = SubSeq(q, k + 1, n)
  <2> DEFINE a == SubSeq(q, k, n)
             b == SubSeq(q, k + 1, n)
  <2>1. a \in Seq(Spans) /\ b \in Seq(Spans) /\ Len(a) = n - k + 1 /\ Len(b) = n - k /\ n - k \in Nat
        /\ \A i \in 1..(n - k) : a[i + 1] = b[i]
    <3>1. ASSUME NEW i \in 1..(n - k) PROVE a[i + 1] = b[i]
      <4>1. i + 1 \in 1..(n - k + 1) /\ k + (i + 1) - 1 = k + i
        BY <1>1, <1>4
      <4> QED
        BY <1>5, <4>1
    <3> QED
      BY <1>1, <1>4, <1>5, <3>1
  <2> HIDE DEF a, b
  <2>2. Tail(a) \in Seq(Spans) /\ Len(Tail(a)) = n - k /\ \A i \in 1..(n - k) : Tail(a)[i] = a[i + 1]
    BY <1>1, <1>4, <2>1, HeadTailProperties, EmptySeq
  <2>3. Tail(a) = b
    BY <2>1, <2>2, SeqEqual
  <2> QED
    BY <2>3 DEF a, b
<1> QED
  BY <1>2, <1>4, <1>6, <1>7 DEF q, n

(* Two workers never hold the same span.                                   *)
LEMMA HoldersApart ==
    ASSUME OneDelivery, Shape, Shared, NEW v \in Workers, NEW w \in Workers, v # w,
           work[v].rest # << >>, work[w].rest # << >>
    PROVE  Span(v) # Span(w)
<1>1. /\ work[v].from \in DOMAIN Requests /\ work[w].from \in DOMAIN Requests
      /\ work[v].from # work[w].from /\ RestOf(v) /\ RestOf(w)
  BY DEF Shared, RestOf
<1>2. \A u \in {v, w} : Requests[work[u].from] \in Seq(Spans)
  BY <1>1, RequestAssumption, ElementOfSeq, LenProperties
<1>3. PICK k \in 1..Len(Requests[work[v].from]) : Span(v) = Requests[work[v].from][k]
  BY <1>1, SuffixTail
<1>4. PICK l \in 1..Len(Requests[work[w].from]) : Span(w) = Requests[work[w].from][l]
  BY <1>1, SuffixTail
<1>5. k \in DOMAIN Requests[work[v].from] /\ l \in DOMAIN Requests[work[w].from]
  BY <1>2, <1>3, <1>4, LenProperties
<1> QED
  BY <1>1, <1>3, <1>4, <1>5 DEF OneDelivery

LEMMA SharedStep ==
    ASSUME OneDelivery, Shape, Shared, [Next]_vars
    PROVE  Shared'
<1>1. ASSUME NEW w \in Workers, OnlyMoves(w),
             \/ work'[w] = Idle
             \/ /\ work'[w].from = work[w].from /\ ~At(w, "idle") /\ work'[w].pc # "idle"
                /\ RestOf(w)'
      PROVE  Shared'
  <2>1. ASSUME NEW v \in Workers, work'[v].pc # "idle"
        PROVE  ~At(v, "idle") /\ work'[v].from = work[v].from /\ RestOf(v)'
    <3>1. CASE v = w
      BY <1>1, <2>1, <3>1 DEF Idle
    <3>2. CASE v # w
      <4>1. work'[v] = work[v]
        BY <1>1, <2>1, <3>2 DEF OnlyMoves, Idle
      <4> QED
        BY <2>1, <4>1 DEF Shared, RestOf, At
    <3> QED
      BY <3>1, <3>2
  <2>2. ASSUME NEW v \in Workers, work'[v].pc = "idle" PROVE work'[v].rest = << >>
    BY <1>1, <2>2 DEF OnlyMoves, Idle, Shared, At
  <2>3. ASSUME NEW v \in Workers, NEW u \in Workers, v # u, work'[v].pc # "idle"
        PROVE  work'[v].from # work'[u].from
    <3>1. CASE work'[u].pc # "idle"
      BY <2>1, <2>3, <3>1 DEF Shared
    <3>2. CASE work'[u].pc = "idle"
      <4>1. work'[u] = Idle \/ (work'[u] = work[u] /\ At(u, "idle"))
        BY <1>1, <3>2 DEF OnlyMoves, At
      <4>2. work[v].from \in DOMAIN Requests /\ work[v].from # 0
        BY <2>1, <2>3, RequestAssumption, LenProperties DEF Shared, RestOf
      <4>3. work'[u].from = 0 \/ (work'[u].from = work[u].from)
        BY <4>1 DEF Idle
      <4> QED
        BY <2>1, <2>3, <4>2, <4>3 DEF Shared
    <3> QED
      BY <3>1, <3>2
  <2> QED
    BY <2>1, <2>2, <2>3 DEF Shared, At
<1>2. ASSUME NEW w \in Workers, NEW r \in DOMAIN Requests, Receive(w, r) PROVE Shared'
  <2>1. /\ work'[w].pc = "next" /\ work'[w].from = r /\ work'[w].rest = Requests[r]
        /\ \A v \in Workers \ {w} : work'[v] = work[v]
    BY <1>2, ShapeOf DEF Receive, Idle
  <2>2. \A v \in Workers : work[v].from # r
    BY <1>2 DEF Receive, OneDelivery
  <2>3. Requests[r] = SubSeq(Requests[r], 1, Len(Requests[r])) /\ 1 \in 1..(Len(Requests[r]) + 1)
    <3>1. Requests[r] \in Seq(Spans)
      BY RequestAssumption, ElementOfSeq, LenProperties
    <3> DEFINE q == Requests[r]
               n == Len(q)
    <3>2. q \in Seq(Spans) /\ n \in Nat /\ \A i \in 1..n : q[i] \in Spans
      BY <3>1, LenProperties, ElementOfSeq
    <3> HIDE DEF q
    <3>3. /\ SubSeq(q, 1, n) \in Seq(Spans) /\ Len(SubSeq(q, 1, n)) = n
          /\ \A i \in 1..n : SubSeq(q, 1, n)[i] = q[i]
      BY <3>2, SubSeqProperties
    <3> QED
      BY <3>2, <3>3, SeqEqual DEF q
  <2>4. RestOf(w)'
    BY <2>1, <2>3 DEF RestOf
  <2>5. \A v \in Workers \ {w} : RestOf(v)' <=> RestOf(v)
    BY <2>1 DEF RestOf
  <2> QED
    BY <2>1, <2>2, <2>4, <2>5 DEF Shared, At
<1>3. ASSUME NEW w \in Workers, Continue(w) \/ Fail(w) PROVE Shared'
  <2>1. OnlyMoves(w)
    BY <1>3, MovesAlone
  <2>2. ASSUME work'[w].from = work[w].from, work'[w].rest = work[w].rest, ~At(w, "idle"),
               work'[w].pc # "idle"
        PROVE  Shared'
    <3>1. RestOf(w)'
      BY <2>2 DEF Shared, RestOf
    <3> QED
      BY <1>1, <2>1, <2>2, <3>1
  <2>3. CASE Steps(w)
    BY <2>2, <2>3, StepsKeep DEF At, In, Before, After
  <2>4. CASE Look(w) /\ ~Stored(Span(w)) /\ Goto(w, "route")
    <3>1. work'[w].from = work[w].from /\ work'[w].rest = work[w].rest /\ work'[w].pc = "route"
      BY <2>4, ShapeOf DEF Goto, Work
    <3> QED
      BY <2>2, <2>4, <3>1 DEF Look, At
  <2>5. CASE work[w].rest # << >> /\ work'[w] = NextSpan(w)
    <3>1. ~At(w, "idle") /\ RestOf(w)
      BY <2>5 DEF Shared
    <3>2. /\ work'[w].from = work[w].from /\ work'[w].rest = Tail(work[w].rest)
          /\ work'[w].pc = "next"
      BY <2>5 DEF NextSpan, Idle
    <3> DEFINE n == Len(Requests[work[w].from])
    <3>3. PICK k \in 1..n : Tail(work[w].rest) = SubSeq(Requests[work[w].from], k + 1, n)
      BY <2>5, <3>1, SuffixTail
    <3>4. n \in Nat
      BY <3>1, RequestAssumption, ElementOfSeq, LenProperties DEF RestOf
    <3>5. k + 1 \in 1..(n + 1)
      BY <3>4
    <3>6. RestOf(w)'
      BY <3>1, <3>2, <3>3, <3>5 DEF RestOf
    <3> QED
      BY <1>1, <2>1, <3>1, <3>2, <3>6
  <2> QED
    BY <1>1, <1>3, <2>1, <2>3, <2>4, <2>5, StepKinds
<1>4. ASSUME NEW c \in Processes, Die(c) PROVE Shared'
  <2>1. PICK w \in Workers : Process[w] = c
    BY <1>4 DEF Die
  <2>2. OnlyMoves(w) /\ work'[w] = Idle
    BY <1>4, <2>1 DEF Die, OnlyMoves
  <2> QED
    BY <1>1, <2>2
<1>5. CASE UNCHANGED vars
  BY <1>5 DEF vars, Shared, RestOf, At
<1> QED
  BY <1>2, <1>3, <1>4, <1>5 DEF Next

LEMMA SharedInit == Init => Shared
BY DEF Init, Shared, Idle, At

(* A span that is held is stored by its holder or by nobody.               *)
LEMMA HeldFrame ==
    ASSUME OneDelivery, Shape, Shared, Held, NEW w \in Workers, OnlyMoves(w),
           In(w, Before)' => ~Stored(Span(w))',
           In(w, After)' => nodes'[Span(w)'] = work'[w].verdict /\ Span(w)' \notin done',
           \/ UNCHANGED <<nodes, done>>
           \/ /\ work[w].rest # << >> /\ \A s \in Spans \ {Span(w)} : nodes'[s] = nodes[s]
              /\ done' \subseteq done \cup {Span(w)}
    PROVE  Held'
<1>1. ASSUME NEW v \in Workers \ {w}, In(v, Before \cup After)'
      PROVE  /\ work'[v] = work[v] /\ In(v, Before \cup After)
             /\ Span(v)' = Span(v) /\ nodes'[Span(v)] = nodes[Span(v)]
             /\ Span(v) \in done' => Span(v) \in done
  <2>1. work'[v] = work[v]
    BY <1>1 DEF OnlyMoves, In, Idle, Before, After
  <2>2. In(v, Before \cup After) /\ work[v].rest # << >> /\ Span(v) \in Spans
    BY <1>1, <2>1, ShapeOf DEF In
  <2>3. Span(v)' = Span(v)
    BY <2>1 DEF Span
  <2>4. work[w].rest # << >> => Span(v) # Span(w)
    BY <2>2, HoldersApart
  <2> QED
    BY <2>1, <2>2, <2>3, <2>4
<1>2. ASSUME NEW v \in Workers \ {w}
      PROVE  /\ In(v, Before)' => nodes'[Span(v)'] = Absent
             /\ In(v, After)' => nodes'[Span(v)'] = work'[v].verdict /\ Span(v)' \notin done'
  BY <1>1 DEF Held, In, Stored
<1>3. In(w, Before)' => nodes'[Span(w)'] = Absent
  BY DEF Stored
<1> QED
  BY <1>2, <1>3 DEF Held, Stored

LEMMA HeldStep ==
    ASSUME OneDelivery, Shape, LinkInv, Shared, Held, [Next]_vars
    PROVE  Held'
<1>1. ASSUME NEW w \in Workers, OnlyMoves(w), UNCHANGED <<nodes, done>>,
             work'[w].pc \notin Before \cup After
      PROVE  Held'
  BY <1>1, HeldFrame DEF In
<1>2. ASSUME NEW w \in Workers, NEW r \in DOMAIN Requests, Receive(w, r) PROVE Held'
  <2>1. work'[w].pc = "next" /\ UNCHANGED <<nodes, done>>
    BY <1>2, ShapeOf DEF Receive, Idle, store
  <2> QED
    BY <1>1, <1>2, <2>1, MovesAlone DEF Before, After
<1>3. ASSUME NEW w \in Workers, Steps(w) PROVE Held'
  <2>1. OnlyMoves(w) /\ Span(w)' = Span(w) /\ Span(w) \in Spans /\ work[w].rest # << >>
    BY <1>3, MovesAlone, StepsKeep, ShapeOf DEF Steps, Continue, Span, Noted
  <2>2. CASE Upsert(w)
    <3>1. nodes' = [nodes EXCEPT ![Span(w)] = work[w].verdict] /\ done' = done
      BY <2>2 DEF Upsert
    <3>2. nodes \in [Spans -> Verdicts \cup {Absent}]
      BY TypeParts DEF Shape, Tables
    <3>3. work'[w].pc = "inputs" /\ work'[w].verdict = work[w].verdict
      BY <2>2, ShapeOf DEF Upsert, Goto, Work
    <3>4. Span(w) \notin done
      BY <2>2 DEF Upsert, Held, At, In, Before, LinkInv, OrderKept
    <3> QED
      BY <2>1, <3>1, <3>2, <3>3, <3>4, HeldFrame DEF In, Before
  <2>3. CASE ~Upsert(w)
    <3>1. UNCHANGED <<nodes, done>>
      <4>1. Route(w) \/ Assess(w) \/ Judged(w) \/ Count(w) \/ SaveCheckpoint(w) \/ ReadInputs(w)
            => UNCHANGED <<nodes, done>>
        BY DEF Route, Assess, Judged, Count, SaveCheckpoint, ReadInputs, store
      <4>2. Link(w) \/ Observe(w) \/ Note(w) \/ ReadRoot(w) \/ Register(w)
            => UNCHANGED <<nodes, done>>
        BY DEF Link, Observe, Note, ReadRoot, Register, store
      <4>3. Noted(w) /\ Goto(w, "root") => UNCHANGED <<nodes, done>>
        <5> SUFFICES ASSUME Noted(w), Goto(w, "root") PROVE UNCHANGED <<nodes, done>>
          OBVIOUS
        <5>1. work'[w].pc = "root"
          BY ShapeOf DEF Goto, Work
        <5>2. Finish(w) => work'[w].pc = "next"
          BY ShapeOf DEF Finish, NextSpan, Idle
        <5> QED
          BY <5>1, <5>2 DEF Noted, store
      <4> QED
        BY <1>3, <2>3, <4>1, <4>2, <4>3 DEF Steps
    <3>2. In(w, Before)' => ~Stored(Span(w))'
      <4>1. In(w, Before)' => In(w, Before)
        BY <1>3, StepsKeep DEF In, Before, After
      <4>2. Stored(Span(w))' <=> Stored(Span(w))
        BY <2>1, <3>1 DEF Stored
      <4> QED
        BY <4>1, <4>2 DEF Held
    <3>3. In(w, After)' => nodes'[Span(w)'] = work'[w].verdict /\ Span(w)' \notin done'
      BY <1>3, <2>1, <2>3, <3>1, StepsKeep DEF Held
    <3> QED
      BY <2>1, <3>1, <3>2, <3>3, HeldFrame
  <2> QED
    BY <2>2, <2>3
<1>4. ASSUME NEW w \in Workers, Look(w) /\ ~Stored(Span(w)) /\ Goto(w, "route") PROVE Held'
  <2>1. /\ OnlyMoves(w) /\ UNCHANGED <<nodes, done>> /\ work'[w].pc = "route"
        /\ work'[w].rest = work[w].rest
    BY <1>4, MovesAlone, ShapeOf DEF Continue, Look, Goto, Work, store
  <2>2. ~Stored(Span(w))'
    BY <1>4, <2>1 DEF Stored, Span
  <2> QED
    BY <2>1, <2>2, HeldFrame DEF In, After
<1>5. ASSUME NEW w \in Workers, work[w].rest # << >>, work'[w] = NextSpan(w),
             Look(w) \/ Fail(w) \/ Noted(w) \/ Propose(w)
      PROVE  Held'
  <2>1. OnlyMoves(w) /\ work'[w].pc = "next"
    BY <1>5, MovesAlone DEF Continue, NextSpan, Idle
  <2>2. nodes' = nodes /\ done' \subseteq done \cup {Span(w)}
    BY <1>5 DEF Look, Fail, Noted, Propose, Finish, store
  <2> QED
    BY <1>5, <2>1, <2>2, HeldFrame DEF In, Before, After
<1>6. ASSUME NEW w \in Workers, Answer(w) /\ work'[w] = Idle PROVE Held'
  <2>1. OnlyMoves(w) /\ UNCHANGED <<nodes, done>>
    BY <1>6, MovesAlone DEF Continue, Answer, store
  <2>2. work'[w].pc \notin Before \cup After
    BY <1>6 DEF Idle, Before, After
  <2> QED
    BY <1>1, <2>1, <2>2
<1>7. ASSUME NEW c \in Processes, Die(c) PROVE Held'
  <2>1. PICK w \in Workers : Process[w] = c
    BY <1>7 DEF Die
  <2>2. OnlyMoves(w) /\ work'[w] = Idle /\ UNCHANGED <<nodes, done>>
    BY <1>7, <2>1 DEF Die, OnlyMoves, store
  <2> QED
    BY <1>1, <2>2 DEF Idle, Before, After
<1>8. CASE UNCHANGED vars
  <2>1. UNCHANGED <<nodes, work, done>>
    BY <1>8 DEF vars, store
  <2>2. ASSUME NEW w \in Workers
        PROVE  /\ In(w, Before)' => ~Stored(Span(w))'
               /\ In(w, After)' => nodes'[Span(w)'] = work'[w].verdict /\ Span(w)' \notin done'
    <3>1. Span(w)' = Span(w) /\ (Stored(Span(w))' <=> Stored(Span(w)))
      BY <2>1 DEF Span, Stored
    <3> QED
      BY <2>1, <3>1 DEF Held, In
  <2> QED
    BY <2>2 DEF Held, Stored
<1> QED
  BY <1>2, <1>3, <1>4, <1>5, <1>6, <1>7, <1>8, StepKinds DEF Next

LEMMA HeldInit == Init => Held
BY DEF Init, Held, Idle, In, Before, After

-----------------------------------------------------------------------------
(* The ledger.                                                             *)

LEMMA CountedType ==
    ASSUME Shape
    PROVE  /\ IsFiniteSet(Counted) /\ Cardinality(Counted) \in Nat
           /\ Len(order) \in Nat /\ seen \in Nat /\ failures \in Nat
<1>1. IsFiniteSet(Counted)
  BY WorkerAssumption, FS_Subset DEF Counted
<1> QED
  BY <1>1, FS_CardinalityType, TypeParts, LenProperties DEF Shape, Tables

(* A worker comes in with incr_counters and leaves with upsert_node, or    *)
(* because something failed.                                               *)
LEMMA CountedAlone ==
    ASSUME Shape, NEW w \in Workers, \A v \in Workers \ {w} : work'[v] = work[v]
    PROVE  /\ (Counting(w) <=> Counting(w)') => Counted' = Counted
           /\ ~Counting(w) /\ Counting(w)' => Cardinality(Counted)' = Cardinality(Counted) + 1
           /\ Counting(w) /\ ~Counting(w)' => Cardinality(Counted)' = Cardinality(Counted) - 1
<1>1. (\A v \in Workers \ {w} : v \in Counted' <=> v \in Counted) /\ Counted' \subseteq Workers
      /\ (w \in Counted <=> Counting(w)) /\ (w \in Counted' <=> Counting(w)')
  BY DEF Counted, Counting, In
<1>2. Counted \subseteq Workers
  BY DEF Counted
<1>3. (Counting(w) <=> Counting(w)') => Counted' = Counted
  BY <1>1, <1>2
<1>4. ~Counting(w) /\ Counting(w)' => Counted' = Counted \cup {w} /\ w \notin Counted
  BY <1>1, <1>2
<1>5. Counting(w) /\ ~Counting(w)' => Counted' = Counted \ {w} /\ w \in Counted
  BY <1>1, <1>2
<1>6. IsFiniteSet(Counted)
  BY CountedType
<1>7. ~Counting(w) /\ Counting(w)' => Cardinality(Counted)' = Cardinality(Counted) + 1
  BY <1>4, <1>6, FS_AddElement
<1>8. Counting(w) /\ ~Counting(w)' => Cardinality(Counted)' = Cardinality(Counted) - 1
  BY <1>5, <1>6, FS_RemoveElement
<1> QED
  BY <1>3, <1>7, <1>8

(* No step adds to what is stored or about to be without counting it; only *)
(* a failure, or a node stored a second time, takes from it.               *)
LEMMA LedgerMove ==
    ASSUME Shape, NEW w \in Workers,
           Continue(w) \/ Fail(w) \/ \E r \in DOMAIN Requests : Receive(w, r)
    PROVE  /\ seen' \in Nat /\ Owed' \in Int
           /\ Owed' - seen' <= Owed - seen
           /\ ~Fail(w) /\ ~(Upsert(w) /\ Stored(Span(w))) => Owed' - seen' = Owed - seen
<1>1. /\ Cardinality(Counted) \in Nat /\ Len(order) \in Nat /\ seen \in Nat /\ order \in Seq(Spans)
      /\ \A v \in Workers \ {w} : work'[v] = work[v]
  BY CountedType, MovesAlone, TypeParts DEF Shape, Tables
<1>2. ASSUME UNCHANGED <<order, seen>>, Counting(w)' <=> Counting(w)
      PROVE  seen' \in Nat /\ Owed' \in Int /\ Owed' - seen' = Owed - seen
  <2>1. Counted' = Counted
    BY <1>1, <1>2, CountedAlone
  <2> QED
    BY <1>1, <1>2, <2>1 DEF Owed
<1>3. CASE Count(w)
  <2>1. ~Counting(w) /\ seen' = seen + 1 /\ order' = order
    BY <1>3 DEF Count, At, In, Counting
  <2>2. Counting(w)'
    BY <1>3, ShapeOf DEF Count, Goto, Work, In, Counting
  <2>3. Cardinality(Counted)' = Cardinality(Counted) + 1
    BY <1>1, <2>1, <2>2, CountedAlone
  <2> QED
    BY <1>1, <2>1, <2>3 DEF Owed
<1>4. CASE Upsert(w)
  <2>1. Counting(w) /\ work'[w].pc = "inputs" /\ seen' = seen /\ Span(w) \in Spans
    BY <1>4, ShapeOf DEF Upsert, Goto, Work, At, In, Counting, Before
  <2>2. Cardinality(Counted)' = Cardinality(Counted) - 1
    BY <1>1, <2>1, CountedAlone DEF In, Counting
  <2>3. /\ Len(order') \in Nat /\ Len(order') <= Len(order) + 1
        /\ ~Stored(Span(w)) => Len(order') = Len(order) + 1
    BY <1>1, <1>4, <2>1, AppendProperties DEF Upsert
  <2> QED
    BY <1>1, <1>4, <2>1, <2>2, <2>3 DEF Owed
<1>5. CASE Fail(w)
  <2>1. UNCHANGED <<order, seen>>
    BY <1>5 DEF Fail
  <2>2. ~Counting(w)'
    BY <1>5, ShapeOf DEF Fail, NextSpan, Idle, In, Counting
  <2>3. Counted' = Counted \/ Cardinality(Counted)' = Cardinality(Counted) - 1
    BY <1>1, <2>2, CountedAlone
  <2> QED
    BY <1>1, <1>5, <2>1, <2>3 DEF Owed
<1>6. CASE SaveCheckpoint(w)
  BY <1>2, <1>6, ShapeOf DEF SaveCheckpoint, Goto, Work, At, In, Counting
<1>7. CASE ~Count(w) /\ ~Upsert(w) /\ ~Fail(w) /\ ~SaveCheckpoint(w)
  <2>1. UNCHANGED <<order, seen>>
    BY <1>7 DEF Continue, Receive, Look, Answer, Route, Assess, Judged, ReadInputs, Link,
       Observe, Note, Noted, ReadRoot, Register, Propose
  <2>2. ~Counting(w)
    BY <1>7 DEF Continue, Receive, Look, Answer, Route, Assess, Judged, ReadInputs, Link,
       Observe, Note, Noted, ReadRoot, Register, Propose, At, In, Counting
  <2>3. ~Counting(w)'
    <3>1. CASE Steps(w)
      <4>1. CASE Route(w)
        <5>1. (\E v : work' = [work EXCEPT ![w].pc = "count", ![w].verdict = v]) \/ Goto(w, "assess")
          BY <4>1 DEF Route
        <5> QED
          BY <5>1, ShapeOf DEF Goto, Work, In, Counting
      <4>2. CASE Assess(w)
        <5>1. \E v : work' = [work EXCEPT ![w].pc = "judged", ![w].verdict = v]
          BY <4>2 DEF Assess
        <5> QED
          BY <5>1, ShapeOf DEF Work, In, Counting
      <4>3. CASE Judged(w)
        BY <4>3, ShapeOf DEF Judged, Goto, Work, In, Counting
      <4>4. CASE ~Route(w) /\ ~Assess(w) /\ ~Judged(w)
        <5>1. In(w, After)
          BY <1>7, <3>1, <4>4 DEF Steps, ReadInputs, Link, Observe, Note, Noted, ReadRoot,
             Register, At, In, After
        <5> QED
          BY <3>1, <5>1, StepsKeep DEF In, After, Counting
      <4> QED
        BY <4>1, <4>2, <4>3, <4>4
    <3>2. CASE Continue(w) /\ ~Steps(w)
      <4>1. Goto(w, "route") => work'[w].pc = "route"
        BY ShapeOf DEF Goto, Work
      <4>2. NextSpan(w).pc = "next" /\ Idle.pc = "idle"
        BY DEF NextSpan, Idle
      <4>3. Goto(w, "route") \/ work'[w] = NextSpan(w) \/ work'[w] = Idle
        BY <3>2, StepKinds
      <4>4. work'[w].pc \in {"idle", "next", "route"}
        BY <4>1, <4>2, <4>3
      <4> QED
        BY <4>4 DEF In, Counting
    <3>3. CASE \E r \in DOMAIN Requests : Receive(w, r)
      <4>1. PICK r \in DOMAIN Requests : Receive(w, r)
        BY <3>3
      <4>2. work'[w].pc = "next"
        BY <4>1, ShapeOf DEF Receive, Idle
      <4> QED
        BY <4>2 DEF In, Counting
    <3> QED
      BY <1>7, <3>1, <3>2, <3>3
  <2> QED
    BY <1>2, <2>1, <2>2, <2>3
<1> QED
  BY <1>3, <1>4, <1>5, <1>6, <1>7

LEMMA LedgerDie ==
    ASSUME Shape, NEW c \in Processes, Die(c)
    PROVE  Owed' \in Int /\ Owed' <= Owed /\ seen' = seen
<1>1. Counted' \subseteq Counted /\ UNCHANGED <<order, seen>>
  BY DEF Die, Counted, Counting, In, Idle
<1>2. /\ Cardinality(Counted') <= Cardinality(Counted) /\ IsFiniteSet(Counted')
      /\ Cardinality(Counted') \in Nat
  BY <1>1, CountedType, FS_Subset, FS_CardinalityType
<1> QED
  BY <1>1, <1>2, CountedType DEF Owed

LEMMA AheadStep == Shape /\ Ahead /\ [Next]_vars => Ahead'
<1> SUFFICES ASSUME Shape, Ahead, [Next]_vars PROVE Ahead'
  OBVIOUS
<1>1. seen \in Nat /\ Owed \in Int
  BY CountedType DEF Owed
<1>2. CASE UNCHANGED vars
  BY <1>2 DEF vars, Ahead, Owed, Counted, Counting, In
<1> QED
  BY <1>1, <1>2, LedgerMove, LedgerDie DEF Next, Ahead

LEMMA ExactStep ==
    ASSUME Shape, Held, Exact, [Next]_vars
    PROVE  Exact'
<1>1. seen \in Nat /\ Owed \in Int /\ failures \in Nat
  BY CountedType DEF Owed
<1>2. ASSUME NEW w \in Workers,
             Continue(w) \/ Fail(w) \/ \E r \in DOMAIN Requests : Receive(w, r)
      PROVE  Exact'
  <2>1. ~(Upsert(w) /\ Stored(Span(w)))
    BY DEF Held, Upsert, At, In, Before
  <2>2. CASE Fail(w)
    BY <1>1, <2>2 DEF Fail, Exact
  <2>3. CASE ~Fail(w)
    <3>1. failures' = failures
      BY <1>2, <2>3 DEF Continue, Receive, Look, Answer, Route, Assess, Judged, Count,
         SaveCheckpoint, Upsert, ReadInputs, Link, Observe, Note, Noted, ReadRoot, Register,
         Propose, env
    <3> QED
      BY <1>1, <1>2, <2>1, <2>3, <3>1, LedgerMove DEF Exact
  <2> QED
    BY <2>2, <2>3
<1>3. ASSUME NEW c \in Processes, Die(c) PROVE Exact'
  BY <1>1, <1>3 DEF Die, Exact
<1>4. CASE UNCHANGED vars
  BY <1>4 DEF vars, env, Exact, Owed, Counted, Counting, In
<1> QED
  BY <1>2, <1>3, <1>4 DEF Next

LEMMA LedgerInit == Init => Ahead /\ Exact
<1> SUFFICES ASSUME Init PROVE Ahead /\ Exact
  OBVIOUS
<1>1. Counted = {} /\ Len(order) = 0 /\ seen = 0
  BY DEF Init, Idle, Counted, Counting, In
<1> QED
  BY <1>1, FS_EmptySet DEF Ahead, Exact, Owed

(* The counters of the ledger run ahead of the graph, never behind it.     *)
THEOREM IngestLedgerCovers == Spec => [](Len(order) <= seen)
<1>1. Init => Shape /\ Ahead
  BY ShapeInit, LedgerInit
<1>2. Shape /\ Ahead /\ [Next]_vars => (Shape /\ Ahead)'
  BY ShapeStep, AheadStep
<1>3. Shape /\ Ahead => Len(order) <= seen
  BY CountedType DEF Ahead, Owed
<1> QED
  BY <1>1, <1>2, <1>3, PTL DEF Spec

-----------------------------------------------------------------------------
(* What one delivery gives.                                                *)
Delivery == Shape /\ LinkInv /\ ExplainInv /\ Shared /\ Held

LEMMA DeliveryStep ==
    ASSUME OneDelivery
    PROVE  Delivery /\ [Next]_vars => Delivery'
BY ShapeStep, LinkStep, ExplainStep, SharedStep, HeldStep DEF Delivery

LEMMA DeliveryInit == Init => Delivery
BY ShapeInit, LinkInit, ExplainInit, SharedInit, HeldInit DEF Delivery

(* LedgerMatches: incr_counters and upsert_node of a span are two          *)
(* transactions; the books agree whenever nothing is running and nothing   *)
(* failed, and cover the graph at any time.                                *)
THEOREM IngestLedger ==
    ASSUME OneDelivery
    PROVE  Spec => []LedgerMatches
<1>1. Init => Delivery /\ Ahead /\ Exact
  BY DeliveryInit, LedgerInit
<1>2. Delivery /\ Ahead /\ Exact /\ [Next]_vars => (Delivery /\ Ahead /\ Exact)'
  BY DeliveryStep, AheadStep, ExactStep DEF Delivery
<1>3. Delivery /\ Ahead /\ Exact => LedgerMatches
  <2> SUFFICES ASSUME Delivery, Ahead, Exact PROVE LedgerMatches
    OBVIOUS
  <2>1. /\ Cardinality(Counted) \in Nat /\ Len(order) \in Nat /\ seen \in Nat
        /\ Len(order) + Cardinality(Counted) <= seen
        /\ failures = 0 => Len(order) + Cardinality(Counted) = seen
    BY CountedType DEF Delivery, Ahead, Exact, Owed
  <2>2. ASSUME Quiet PROVE Cardinality(Counted) = 0
    <3>1. Counted = {}
      BY <2>2 DEF Quiet, Counted, Counting, In, At
    <3> QED
      BY <3>1, FS_EmptySet
  <2> QED
    BY <2>1, <2>2 DEF LedgerMatches
<1> QED
  BY <1>1, <1>2, <1>3, PTL DEF Spec

(* FlaggedProposed of the spans gone through and of those on their way.    *)
ProposedFor(s) == \E r \in Reachable(s) : <<r, r>> \in DOMAIN proposals
Proposed == \A s \in done : nodes[s].status = "flagged" => ProposedFor(s)

LEMMA RootProposedStep ==
    ASSUME Shape, RootProposed, [Next]_vars
    PROVE  RootProposed'
<1>1. ASSUME NEW w \in Workers, OnlyMoves(w), DOMAIN proposals \subseteq DOMAIN proposals',
             At(w, "register")' => <<work'[w].root, work'[w].root>> \in work'[w].batch,
             At(w, "propose")' => <<work'[w].root, work'[w].root>> \in work'[w].batch \cup DOMAIN proposals
      PROVE  RootProposed'
  <2>1. ASSUME NEW v \in Workers \ {w}
        PROVE  /\ At(v, "register")' => <<work'[v].root, work'[v].root>> \in work'[v].batch
               /\ At(v, "propose")' =>
                     <<work'[v].root, work'[v].root>> \in work'[v].batch \cup DOMAIN proposals'
    BY <1>1 DEF OnlyMoves, RootProposed, At, Idle
  <2> QED
    BY <1>1, <2>1 DEF RootProposed
<1>2. ASSUME NEW w \in Workers, ReadRoot(w) PROVE RootProposed'
  <2>1. work'[w].pc = "register" /\ <<work'[w].root, work'[w].root>> \in work'[w].batch
    BY <1>2, RootFields DEF Actions
  <2> QED
    BY <1>1, <1>2, <2>1, MovesAlone DEF Continue, ReadRoot, store, At
<1>3. ASSUME NEW w \in Workers, Register(w) PROVE RootProposed'
  <2> DEFINE a == <<work[w].root, work[w].root>>
  <2>1. a \in work[w].batch
    BY <1>3 DEF Register, RootProposed
  <2>2. a \in Fresh(work[w].batch) \cup DOMAIN proposals
    BY <2>1 DEF Fresh, BagIn, BagToSet
  <2>3. work'[w].pc = "propose" /\ a \in work'[w].batch \cup DOMAIN proposals
        /\ a = <<work'[w].root, work'[w].root>>
    BY <1>3, <2>2, RegisterFields
  <2> HIDE DEF a
  <2> QED
    BY <1>1, <1>3, <2>3, MovesAlone DEF Continue, Register, store, At
<1>4. ASSUME NEW w \in Workers, Propose(w) PROVE RootProposed'
  <2>1. work'[w].pc = "next"
    BY <1>4, ShapeOf DEF Propose, Finish, NextSpan, Idle
  <2>2. DOMAIN proposals \subseteq DOMAIN proposals'
    <3>1. IsABag(proposals)
      BY TypeParts DEF Shape, Tables
    <3>2. DOMAIN proposals' = DOMAIN proposals \cup work[w].batch
      BY <1>4, <3>1, AddProposals DEF Propose
    <3> QED
      BY <3>2
  <2> QED
    BY <1>1, <1>4, <2>1, <2>2, MovesAlone DEF Continue, At
<1>5. ASSUME NEW w \in Workers, Continue(w) \/ Fail(w),
             ~ReadRoot(w), ~Register(w), ~Propose(w)
      PROVE  RootProposed'
  <2>1. OnlyMoves(w) /\ UNCHANGED proposals
    BY <1>5, MovesAlone DEF Continue, Fail, Look, Answer, Route, Assess, Judged, Count,
       SaveCheckpoint, Upsert, ReadInputs, Link, Observe, Note, Noted, store
  <2>2. work'[w].pc \notin {"register", "propose"}
    <3>1. CASE Fail(w) \/ Look(w) \/ Answer(w) \/ Route(w) \/ Assess(w) \/ Judged(w)
               \/ Count(w) \/ SaveCheckpoint(w)
      BY <3>1, AwaySteps DEF After
    <3>2. CASE Upsert(w)
      BY <3>2, ShapeOf DEF Upsert, Goto, Work
    <3>3. CASE ReadInputs(w)
      BY <3>3, ShapeOf DEF ReadInputs, Work
    <3>4. CASE Link(w)
      BY <3>4, ShapeOf DEF Link, At, Work
    <3>5. CASE Observe(w) \/ Note(w)
      BY <3>5, ObserveFields, NoteFields
    <3>6. CASE Noted(w)
      <4>1. Goto(w, "root") => work'[w].pc = "root"
        BY ShapeOf DEF Goto, Work
      <4>2. Finish(w) => work'[w].pc = "next"
        BY ShapeOf DEF Finish, NextSpan, Idle
      <4> QED
        BY <3>6, <4>1, <4>2 DEF Noted
    <3> QED
      BY <1>5, <3>1, <3>2, <3>3, <3>4, <3>5, <3>6 DEF Continue
  <2> QED
    BY <1>1, <2>1, <2>2 DEF At
<1>6. ASSUME NEW w \in Workers, NEW r \in DOMAIN Requests, Receive(w, r) PROVE RootProposed'
  <2>1. work'[w].pc = "next" /\ UNCHANGED proposals
    BY <1>6, ShapeOf DEF Receive, Idle, store
  <2>2. OnlyMoves(w)
    BY <1>6, MovesAlone
  <2> QED
    BY <1>1, <2>1, <2>2 DEF At
<1>7. ASSUME NEW c \in Processes, Die(c) PROVE RootProposed'
  <2>1. PICK w \in Workers : Process[w] = c
    BY <1>7 DEF Die
  <2>2. OnlyMoves(w) /\ work'[w] = Idle /\ UNCHANGED proposals
    BY <1>7, <2>1 DEF Die, OnlyMoves, store
  <2>3. work'[w].pc = "idle" /\ DOMAIN proposals \subseteq DOMAIN proposals'
    BY <2>2 DEF Idle
  <2> QED
    BY <1>1, <2>2, <2>3 DEF At
<1>8. CASE UNCHANGED vars
  BY <1>8 DEF vars, store, RootProposed, At
<1> QED
  BY <1>2, <1>3, <1>4, <1>5, <1>6, <1>7, <1>8 DEF Next

LEMMA ProposedStep ==
    ASSUME OneDelivery, Delivery, RootProposed, Proposed, [Next]_vars
    PROVE  Proposed'
<1>1. ASSUME edges \subseteq edges', DOMAIN proposals \subseteq DOMAIN proposals',
             NEW s, ProposedFor(s)
      PROVE  ProposedFor(s)'
  <2>1. PICK r \in Reachable(s) : <<r, r>> \in DOMAIN proposals
    BY <1>1 DEF ProposedFor
  <2>2. r \in Reachable(s)'
    BY <1>1, <2>1, ReachableGrows
  <2> QED
    BY <1>1, <2>1, <2>2 DEF ProposedFor
<1>2. ASSUME edges \subseteq edges', UNCHANGED <<nodes, proposals, done>> PROVE Proposed'
  BY <1>1, <1>2 DEF Proposed
<1>3. ASSUME NEW w \in Workers, Upsert(w) PROVE Proposed'
  <2>1. Span(w) \notin done /\ done \subseteq Spans
    BY <1>3, TypeParts DEF Delivery, Shape, Tables, Held, LinkInv, OrderKept, Upsert, At, In, Before
  <2>2. \A s \in done : nodes'[s] = nodes[s]
    BY <1>3, <2>1, TypeParts DEF Upsert, Delivery, Shape, Tables
  <2> QED
    BY <1>1, <1>3, <2>2 DEF Upsert, Proposed
<1>4. ASSUME NEW w \in Workers, Noted(w) PROVE Proposed'
  <2>1. UNCHANGED <<nodes, edges, proposals>>
    BY <1>4 DEF Noted, store
  <2>2. CASE UNCHANGED done
    BY <1>2, <2>1, <2>2
  <2>3. CASE work[w].verdict.status # "flagged" /\ done' = done \cup {Span(w)}
    <3>1. nodes[Span(w)].status # "flagged"
      BY <1>4, <2>3 DEF Delivery, Held, Noted, At, In, After
    <3> QED
      BY <1>1, <2>1, <2>3, <3>1 DEF Proposed
  <2> QED
    BY <1>4, <2>2, <2>3 DEF Noted, Finish
<1>5. ASSUME NEW w \in Workers, Propose(w) PROVE Proposed'
  <2>1. DOMAIN proposals' = DOMAIN proposals \cup work[w].batch
    BY <1>5, AddProposals, TypeParts DEF Propose, Delivery, Shape, Tables
  <2>2. <<work[w].root, work[w].root>> \in DOMAIN proposals' /\ work[w].root \in Reachable(Span(w))
    BY <1>5, <2>1 DEF Propose, RootProposed, Delivery, ExplainInv, Explaining, At, In
  <2>3. UNCHANGED <<nodes, edges>> /\ done' = done \cup {Span(w)}
    BY <1>5 DEF Propose, Finish
  <2>4. ASSUME NEW s \in done' PROVE nodes'[s].status = "flagged" => ProposedFor(s)'
    <3>1. CASE s \in done
      BY <1>1, <2>1, <2>3, <3>1 DEF Proposed
    <3>2. CASE s = Span(w)
      <4>1. work[w].root \in Reachable(s)
        BY <2>2, <3>2
      <4>2. work[w].root \in Reachable(s)'
        BY <2>3, <4>1 DEF Reachable, Closed
      <4> QED
        BY <2>2, <4>2 DEF ProposedFor
    <3> QED
      BY <2>3, <2>4, <3>1, <3>2
  <2> QED
    BY <2>4 DEF Proposed
<1>6. ASSUME NEW w \in Workers,
             Continue(w) \/ Fail(w) \/ \E r \in DOMAIN Requests : Receive(w, r),
             ~Upsert(w), ~Noted(w), ~Propose(w)
      PROVE  Proposed'
  <2>1. edges \subseteq edges' /\ UNCHANGED <<nodes, proposals, done>>
    BY <1>6 DEF Continue, Fail, Receive, Look, Answer, Route, Assess, Judged, Count,
       SaveCheckpoint, ReadInputs, Link, Observe, Note, ReadRoot, Register, store
  <2> QED
    BY <1>2, <2>1
<1>7. ASSUME NEW c \in Processes, Die(c) PROVE Proposed'
  BY <1>2, <1>7 DEF Die, store
<1>8. CASE UNCHANGED vars
  BY <1>2, <1>8 DEF vars, store
<1> QED
  BY <1>3, <1>4, <1>5, <1>6, <1>7, <1>8 DEF Next

LEMMA ProposedInit == Init => RootProposed /\ Proposed
BY DEF Init, RootProposed, Proposed, Idle, At

(* FlaggedProposed: _auto_propose leaves no flagged span without an active *)
(* action on it or on a node upstream.  Of two requests that propose for   *)
(* the same root at once, register drops an action only when another one   *)
(* stands (twin/engine.py, twin/remediation.py).                           *)
THEOREM IngestProposed ==
    ASSUME OneDelivery
    PROVE  Spec => []FlaggedProposed
<1>1. Init => Delivery /\ RootProposed /\ Proposed
  BY DeliveryInit, ProposedInit
<1>2. Delivery /\ RootProposed /\ Proposed /\ [Next]_vars
      => (Delivery /\ RootProposed /\ Proposed)'
  BY DeliveryStep, RootProposedStep, ProposedStep DEF Delivery
<1>3. Delivery /\ Proposed => FlaggedProposed
  BY DEF Proposed, ProposedFor, FlaggedProposed, Upstream, BagIn, BagToSet
<1> QED
  BY <1>1, <1>2, <1>3, PTL DEF Spec

(* A detection is noted once.                                              *)
LEMMA OnceConcat ==
    ASSUME NEW p \in Seq(Events), NEW q \in Seq(Events), ~Detects(p), Once(q)
    PROVE  Once(p \o q)
<1> DEFINE r == p \o q
<1>1. /\ Len(r) = Len(p) + Len(q) /\ Len(p) \in Nat /\ Len(q) \in Nat
      /\ DOMAIN r = 1..Len(r) /\ DOMAIN p = 1..Len(p) /\ DOMAIN q = 1..Len(q)
  BY ConcatProperties, LenProperties
<1>2. /\ \A i \in 1..Len(p) : r[i] = p[i]
      /\ \A i \in 1..Len(q) : r[Len(p) + i] = q[i]
  BY ConcatProperties
<1> HIDE DEF r
<1>3. ASSUME NEW i \in DOMAIN r, r[i] = "detection"
      PROVE  i - Len(p) \in DOMAIN q /\ q[i - Len(p)] = "detection"
  <2>1. i > Len(p)
    BY <1>1, <1>2, <1>3 DEF Detects
  <2>2. i - Len(p) \in 1..Len(q) /\ Len(p) + (i - Len(p)) = i
    BY <1>1, <2>1
  <2> QED
    BY <1>1, <1>2, <1>3, <2>2
<1>4. ASSUME NEW i \in DOMAIN r, NEW j \in DOMAIN r, r[i] = "detection", r[j] = "detection"
      PROVE  i = j
  <2>1. i - Len(p) = j - Len(p)
    BY <1>3, <1>4 DEF Once
  <2> QED
    BY <1>1, <2>1
<1> QED
  BY <1>4 DEF Once, r

LEMMA OnceNotes == ASSUME NEW s, NEW v PROVE Once(Notes(s, v))
<1> DEFINE a == IF s \in Denied THEN <<"action.blocked">> ELSE << >>
           b == IF v.origin # "none" THEN <<"escalation">> ELSE << >>
           c == IF v.status # "ok" THEN <<"detection">> ELSE << >>
<1>1. /\ << >> \in Seq(Events) /\ <<"action.blocked">> \in Seq(Events)
      /\ <<"escalation">> \in Seq(Events) /\ <<"detection">> \in Seq(Events)
  BY DEF Events
<1>2. a \in Seq(Events) /\ b \in Seq(Events) /\ c \in Seq(Events) /\ a \o b \in Seq(Events)
  BY <1>1, ConcatProperties
<1>3. ~Detects(a) /\ ~Detects(b) /\ Once(c)
  BY DEF Detects, Once
<1>4. Notes(s, v) = (a \o b) \o c
  BY <1>2, ConcatAssociative DEF Notes
<1> HIDE DEF a, b, c
<1>5. ~Detects(a \o b)
  BY <1>2, <1>3, DetectsConcat
<1>6. Once((a \o b) \o c)
  BY <1>2, <1>3, <1>5, OnceConcat
<1> QED
  BY <1>4, <1>6

LEMMA OnceAppend ==
    ASSUME NEW p \in Seq(Events), NEW e \in Events, Once(p), ~(Detects(p) /\ e = "detection")
    PROVE  Once(Append(p, e))
<1>1. /\ DOMAIN Append(p, e) = 1..(Len(p) + 1) /\ DOMAIN p = 1..Len(p) /\ Len(p) \in Nat
      /\ Append(p, e)[Len(p) + 1] = e
      /\ \A i \in 1..Len(p) : Append(p, e)[i] = p[i]
  BY AppendProperties, LenProperties
<1> DEFINE r == Append(p, e)
<1> HIDE DEF r
<1> SUFFICES ASSUME NEW i \in DOMAIN r, NEW j \in DOMAIN r, r[i] = "detection", r[j] = "detection"
             PROVE  i = j
  BY DEF Once, r
<1>2. i \in 1..(Len(p) + 1) /\ j \in 1..(Len(p) + 1)
  BY <1>1 DEF r
<1>3. CASE i \in 1..Len(p) /\ j \in 1..Len(p)
  BY <1>1, <1>3 DEF Once, r
<1>4. CASE i = Len(p) + 1 \/ j = Len(p) + 1
  <2>1. e = "detection" \/ (i = j)
    BY <1>1, <1>4 DEF r
  <2>2. ~Detects(p) \/ i = j
    BY <2>1
  <2> QED
    BY <1>1, <1>2, <2>2 DEF Detects, r
<1> QED
  BY <1>1, <1>2, <1>3, <1>4

LEMMA OnceTail ==
    ASSUME NEW q \in Seq(Events), q # << >>, Once(q)
    PROVE  Once(Tail(q)) /\ (Head(q) = "detection" => ~Detects(Tail(q)))
<1>1. /\ DOMAIN Tail(q) = 1..Len(Tail(q)) /\ Len(Tail(q)) = Len(q) - 1 /\ Len(q) \in Nat
      /\ DOMAIN q = 1..Len(q) /\ Len(q) > 0 /\ Head(q) = q[1]
      /\ \A i \in 1..Len(Tail(q)) : Tail(q)[i] = q[i + 1]
  BY HeadTailProperties, LenProperties
<1>2. \A i \in DOMAIN Tail(q) : i \in Nat /\ i # 0 /\ i + 1 \in DOMAIN q /\ Tail(q)[i] = q[i + 1]
      /\ 1 \in DOMAIN q
  BY <1>1
<1> DEFINE r == Tail(q)
<1> HIDE DEF r
<1>3. \A i \in DOMAIN r : i \in Nat /\ i # 0 /\ i + 1 \in DOMAIN q /\ r[i] = q[i + 1] /\ 1 \in DOMAIN q
  BY <1>2 DEF r
<1>4. ASSUME NEW i \in DOMAIN r, NEW j \in DOMAIN r, r[i] = "detection", r[j] = "detection"
      PROVE  i = j
  <2>1. i + 1 = j + 1
    BY <1>3, <1>4 DEF Once
  <2> QED
    BY <1>3, <2>1
<1>5. ASSUME Head(q) = "detection", NEW i \in DOMAIN r, r[i] = "detection" PROVE FALSE
  <2>1. i + 1 = 1
    BY <1>1, <1>3, <1>5 DEF Once
  <2> QED
    BY <1>3, <2>1
<1> QED
  BY <1>4, <1>5 DEF Once, Detects, r

LEMMA NoticedFrame ==
    ASSUME OneDelivery, Delivery, NoticedOnce, NEW w \in Workers, OnlyMoves(w),
           \A s \in Spans : Stored(s) => Stored(s)',
           \A s \in Spans : trail'[s] = trail[s] \/ (s = Span(w) /\ work[w].rest # << >>),
           \A s \in Spans : trail'[s] # trail[s] =>
              Once(trail'[s]) /\ (Detects(trail'[s]) => Stored(s)'),
           work'[w].pc \in {"inputs", "link"} => ~Detects(trail'[Span(w)']),
           work'[w].pc = "note" =>
              Once(work'[w].notes) /\ (Detects(work'[w].notes) => ~Detects(trail'[Span(w)']))
    PROVE  NoticedOnce'
<1>1. \A s \in Spans : Once(trail'[s]) /\ (Detects(trail'[s]) => Stored(s)')
  BY DEF NoticedOnce, Noticed
<1>2. ASSUME NEW v \in Workers \ {w}
      PROVE  /\ work'[v].pc \in {"inputs", "link"} => ~Detects(trail'[Span(v)'])
             /\ work'[v].pc = "note" =>
                  Once(work'[v].notes) /\ (Detects(work'[v].notes) => ~Detects(trail'[Span(v)']))
  <2>1. CASE work'[v] = Idle
    BY <2>1 DEF Idle
  <2>2. CASE work'[v] = work[v] /\ In(v, {"inputs", "link", "note"})
    <3>1. Span(v)' = Span(v) /\ Span(v) \in Spans /\ work[v].rest # << >>
      BY <2>2, ShapeOf DEF Delivery, Span, In, After
    <3>2. trail'[Span(v)] = trail[Span(v)]
      BY <3>1, HoldersApart DEF Delivery
    <3> QED
      BY <2>2, <3>1, <3>2 DEF NoticedOnce, Noticed, ToNotice, In, At
  <2>3. CASE work'[v] = work[v] /\ ~In(v, {"inputs", "link", "note"})
    BY <2>3 DEF In
  <2> QED
    BY <2>1, <2>2, <2>3 DEF OnlyMoves
<1>3. ASSUME NEW v \in Workers
      PROVE  /\ work'[v].pc \in {"inputs", "link"} => ~Detects(trail'[Span(v)'])
             /\ work'[v].pc = "note" =>
                  Once(work'[v].notes) /\ (Detects(work'[v].notes) => ~Detects(trail'[Span(v)']))
  BY <1>2
<1> QED
  BY <1>1, <1>3 DEF NoticedOnce, Noticed, ToNotice, In, At

LEMMA NoticedStep ==
    ASSUME OneDelivery, Delivery, NoticedOnce, [Next]_vars
    PROVE  NoticedOnce'
<1>1. ASSUME NEW w \in Workers, OnlyMoves(w), UNCHANGED <<nodes, trail>>,
             work'[w].pc \notin {"inputs", "link", "note"}
      PROVE  NoticedOnce'
  BY <1>1, NoticedFrame DEF Stored
<1>2. ASSUME NEW w \in Workers,
             \/ \E r \in DOMAIN Requests : Receive(w, r)
             \/ Look(w) \/ Answer(w) \/ Fail(w) \/ Route(w) \/ Assess(w) \/ Judged(w)
             \/ Count(w) \/ SaveCheckpoint(w)
      PROVE  NoticedOnce'
  <2>1. OnlyMoves(w)
    BY <1>2, MovesAlone DEF Continue, Delivery
  <2>2. UNCHANGED <<nodes, trail>> /\ work'[w].pc \notin {"inputs", "link", "note"}
    BY <1>2, AwaySteps DEF Delivery, After
  <2> QED
    BY <1>1, <2>1, <2>2
<1>3. ASSUME NEW w \in Workers, Upsert(w) PROVE NoticedOnce'
  <2>1. /\ Shape /\ Span(w) \in Spans /\ ~Stored(Span(w)) /\ work[w].verdict \in Verdicts
        /\ nodes \in [Spans -> Verdicts \cup {Absent}]
    BY <1>3, ShapeOf, TypeParts DEF Delivery, Shape, Tables, Held, Upsert, At, In, Before, Decided
  <2>2. /\ work'[w].pc = "inputs" /\ Span(w)' = Span(w) /\ OnlyMoves(w)
    BY <1>3, <2>1, ShapeOf, MovesAlone DEF Upsert, Goto, Work, Span, Continue
  <2>3. UNCHANGED trail /\ nodes' = [nodes EXCEPT ![Span(w)] = work[w].verdict]
    BY <1>3 DEF Upsert
  <2>4. \A s \in Spans : Stored(s) => Stored(s)'
    BY <2>1, <2>3, AbsentAssumption DEF Stored
  <2>5. ~Detects(trail'[Span(w)'])
    BY <2>1, <2>2, <2>3 DEF NoticedOnce, Noticed
  <2> QED
    BY <2>2, <2>3, <2>4, <2>5, NoticedFrame
<1>4. ASSUME NEW w \in Workers, ReadInputs(w) \/ Link(w) PROVE NoticedOnce'
  <2>1. OnlyMoves(w) /\ UNCHANGED <<nodes, trail>>
    BY <1>4, MovesAlone DEF Continue, Delivery, ReadInputs, Link, store
  <2>2. work'[w].pc = "link" /\ Span(w)' = Span(w)
    <3>1. work \in [Workers -> Work]
      BY ShapeOf DEF Delivery
    <3>2. CASE ReadInputs(w)
      BY <3>1, <3>2 DEF ReadInputs, Work, Span
    <3>3. CASE Link(w)
      BY <3>1, <3>3 DEF Link, At, Work, Span
    <3> QED
      BY <1>4, <3>2, <3>3
  <2>3. ~Noticed(Span(w))
    BY <1>4 DEF NoticedOnce, ReadInputs, Link, At, In
  <2>4. ~Detects(trail'[Span(w)'])
    BY <2>1, <2>2, <2>3 DEF Noticed
  <2> QED
    BY <2>1, <2>2, <2>4, NoticedFrame DEF Stored
<1>5. ASSUME NEW w \in Workers, Observe(w) PROVE NoticedOnce'
  <2>1. OnlyMoves(w) /\ UNCHANGED <<nodes, trail>>
    BY <1>5, MovesAlone DEF Continue, Delivery, Observe, store
  <2>2. work'[w].pc = "note" /\ Span(w)' = Span(w)
    BY <1>5, StaySteps, ObserveFields DEF Delivery, Span
  <2>3. PICK p \in Seq(Events) : /\ ~Detects(p)
                                 /\ work'[w].notes = p \o Notes(Span(w), work[w].verdict)
    BY <1>5, ObserveFields DEF Delivery
  <2>4. Once(work'[w].notes)
    <3>1. Notes(Span(w), work[w].verdict) \in Seq(Events) /\ Once(Notes(Span(w), work[w].verdict))
      BY NotesType, OnceNotes
    <3> QED
      BY <2>3, <3>1, OnceConcat
  <2>5. ~Noticed(Span(w))
    BY <1>5 DEF NoticedOnce, Observe, At, In
  <2>6. ~Detects(trail'[Span(w)'])
    BY <2>1, <2>2, <2>5 DEF Noticed
  <2> QED
    BY <2>1, <2>2, <2>4, <2>6, NoticedFrame DEF Stored
<1>6. ASSUME NEW w \in Workers, Note(w) PROVE NoticedOnce'
  <2> DEFINE s == Span(w)
             q == work[w].notes
             p == trail[s]
  <2>1. OnlyMoves(w) /\ UNCHANGED nodes
    BY <1>6, MovesAlone DEF Continue, Delivery, Note
  <2>2. /\ work'[w].pc = "note" /\ work'[w].notes = Tail(q) /\ q \in Seq(Events) /\ q # << >>
        /\ p \in Seq(Events) /\ trail'[s] = Append(p, Head(q)) /\ s \in Spans
        /\ \A t \in Spans \ {s} : trail'[t] = trail[t]
    BY <1>6, NoteFields DEF Delivery
  <2>3. Span(w)' = s /\ work[w].rest # << >> /\ Stored(s)
    BY <1>6, StaySteps, ShapeOf DEF Delivery, Span, Note, At, In, After
  <2>4. Once(q) /\ (Detects(q) => ~Detects(p)) /\ Once(p) /\ Head(q) \in Events
    <3>1. Head(q) \in Events
      BY <2>2, HeadTailProperties
    <3> QED
      BY <1>6, <2>2, <3>1 DEF NoticedOnce, Noticed, ToNotice, Note
  <2>5. Head(q) = "detection" => Detects(q)
    <3>1. 1 \in DOMAIN q /\ Head(q) = q[1]
      BY <2>2, HeadTailProperties, LenProperties
    <3> QED
      BY <3>1 DEF Detects
  <2>6. Once(trail'[s])
    BY <2>2, <2>4, <2>5, OnceAppend
  <2>7. /\ Detects(trail'[s]) <=> Detects(p) \/ Head(q) = "detection"
        /\ Detects(q) <=> Detects(work'[w].notes) \/ Head(q) = "detection"
    BY <1>6, <2>3, NoticedByNote DEF Delivery, Noticed, ToNotice
  <2>8. Once(work'[w].notes) /\ (Detects(work'[w].notes) => ~Detects(trail'[Span(w)']))
    BY <2>2, <2>3, <2>4, <2>7, OnceTail
  <2> HIDE DEF s, p, q
  <2>9. \A t \in Spans : Stored(t) => Stored(t)'
    BY <2>1 DEF Stored
  <2> QED
    BY <2>1, <2>2, <2>3, <2>6, <2>8, <2>9, NoticedFrame DEF s
<1>7. ASSUME NEW w \in Workers, Noted(w) \/ ReadRoot(w) \/ Register(w) \/ Propose(w)
      PROVE  NoticedOnce'
  <2>1. OnlyMoves(w) /\ UNCHANGED <<nodes, trail>>
    BY <1>7, MovesAlone DEF Continue, Delivery, Noted, ReadRoot, Register, Propose, store
  <2>2. Finish(w) /\ (Noted(w) \/ Propose(w)) => work'[w].pc = "next"
    BY ShapeOf DEF Delivery, Finish, NextSpan, Idle
  <2>3. Goto(w, "root") => work'[w].pc = "root"
    BY ShapeOf DEF Delivery, Goto, Work
  <2>4. work'[w].pc \notin {"inputs", "link", "note"}
    BY <1>7, <2>2, <2>3, RootFields, RegisterFields DEF Delivery, Noted, Propose
  <2> QED
    BY <1>1, <2>1, <2>4
<1>8. ASSUME NEW c \in Processes, Die(c) PROVE NoticedOnce'
  <2>1. PICK w \in Workers : Process[w] = c
    BY <1>8 DEF Die
  <2>2. OnlyMoves(w) /\ work'[w] = Idle /\ UNCHANGED <<nodes, trail>>
    BY <1>8, <2>1 DEF Die, OnlyMoves, store
  <2>3. work'[w].pc = "idle"
    BY <2>2 DEF Idle
  <2> QED
    BY <1>1, <2>2, <2>3
<1>9. CASE UNCHANGED vars
  <2>1. UNCHANGED <<nodes, trail, work>>
    BY <1>9 DEF vars, store
  <2> QED
    BY <2>1 DEF NoticedOnce, Noticed, ToNotice, Stored, Span, In, At
<1> QED
  BY <1>2, <1>3, <1>4, <1>5, <1>6, <1>7, <1>8, <1>9 DEF Next, Continue

LEMMA NoticedInit == Init => NoticedOnce
<1> SUFFICES ASSUME Init PROVE NoticedOnce
  OBVIOUS
<1>1. \A s \in Spans : trail[s] = << >>
  BY DEF Init
<1>2. \A w \in Workers : work[w].pc = "idle"
  BY DEF Init, Idle
<1> QED
  BY <1>1, <1>2 DEF NoticedOnce, Noticed, ToNotice, Once, Detects, In, At

(* DetectedOnce: has_node keeps a batch sent again, after an answer that   *)
(* was lost or a process that died, from being detected a second time.     *)
THEOREM IngestDetectedOnce ==
    ASSUME OneDelivery
    PROVE  Spec => []DetectedOnce
<1>1. Init => Delivery /\ NoticedOnce
  BY DeliveryInit, NoticedInit
<1>2. Delivery /\ NoticedOnce /\ [Next]_vars => (Delivery /\ NoticedOnce)'
  BY DeliveryStep, NoticedStep
<1>3. Delivery /\ NoticedOnce => DetectedOnce
  <2> SUFFICES ASSUME Delivery, NoticedOnce, NEW s \in Spans PROVE Times("detection", s) <= 1
    BY DEF DetectedOnce
  <2> DEFINE I == {i \in DOMAIN trail[s] : trail[s][i] = "detection"}
  <2>1. I = {} \/ \E i : I = {i}
    <3>1. \A i, j \in I : i = j
      BY DEF NoticedOnce, Once
    <3> QED
      BY <3>1
  <2> HIDE DEF I
  <2>2. Cardinality(I) <= 1
    <3>1. CASE I = {}
      <4>1. Cardinality(I) = 0
        BY <3>1, FS_EmptySet
      <4> QED
        BY <4>1
    <3>2. CASE \E i : I = {i}
      <4>1. Cardinality(I) = 1
        BY <3>2, FS_Singleton
      <4> QED
        BY <4>1
    <3> QED
      BY <2>1, <3>1, <3>2
  <2> QED
    BY <2>2 DEF Times, I
<1> QED
  BY <1>1, <1>2, <1>3, PTL DEF Spec
=============================================================================
