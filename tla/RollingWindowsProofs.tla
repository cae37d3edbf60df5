------------------------- MODULE RollingWindowsProofs -------------------------
(***************************************************************************)
(* Proofs about RollingWindows.                                            *)
(*                                                                         *)
(* A deque is what is left of the times appended to it: evicting drops a   *)
(* part of its front, all of it older than the cutoff.  So the limiter's   *)
(* deque of a key goes with the last requests let through, whose time is   *)
(* within the Lag of the one in the deque, the monitor's first deque is    *)
(* the end of its records, and its second one is embedded in the first.    *)
(***************************************************************************)
EXTENDS RollingWindows, FiniteSetTheorems, SequenceTheorems, WellFoundedInduction, TLAPS

(* A thread before the lock has a time at most Lag old.                    *)
Fresh(t) == req[t].pc \in {"allow", "record"} => req[t].now <= clock /\ clock <= req[t].now + Lag

(* The deque h of a key and the requests p let through, at time c: the     *)
(* last of p belong to h, the others are longer ago than the window.       *)
Trails(h, p, c) ==
    LET gone == Len(p) - Len(h)
    IN  /\ gone >= 0 /\ Len(h) <= Limit
        /\ \A i \in 1..gone : p[i] < c - Window + Lag
        /\ \A i \in 1..Len(h) : h[i] <= p[gone + i] /\ p[gone + i] <= h[i] + Lag
        /\ \A i \in 1..Len(p) : p[i] <= c
        /\ \A i, j \in 1..Len(p) : i <= j => p[i] <= p[j]

LimiterInv == \A k \in Keys : Trails(hits[k], passed[k], clock)

(* The deque a of the monitor and the times r it recorded.                 *)
Covers(a, r, c) ==
    LET gone == Len(r) - Len(a)
    IN  /\ gone >= 0
        /\ \A i \in 1..gone : r[i] < c - Horizon
        /\ \A i \in 1..Len(a) : a[i] = r[gone + i]

(* The sequence e is embedded in a.                                        *)
Rising(g, n) == \A i, j \in 1..n : i < j => g[i] < g[j]
Embedded(e, a) ==
    \E g \in [1..Len(e) -> 1..Len(a)] :
        Rising(g, Len(e)) /\ \A i \in 1..Len(e) : e[i] = a[g[i]]

TimesOf(r) == [i \in DOMAIN r |-> r[i].now]
MonitorInv == Covers(analysed, TimesOf(recorded), clock) /\ Embedded(escalated, analysed)

-----------------------------------------------------------------------------
(* Evicting.                                                               *)

(* The least of a set of naturals.                                         *)
LEMMA MinProperties ==
    ASSUME NEW S \in SUBSET Nat, S # {}
    PROVE  Min(S) \in S /\ \A y \in S : Min(S) <= y
<1>1. PICK x \in S : \A y \in S : <<y, x>> \notin OpToRel(<, Nat)
  BY NatLessThanWellFounded, WFMin
<1>2. \A y \in S : ~(y < x)
  <2>1. ASSUME NEW y \in S, y < x PROVE <<y, x>> \in OpToRel(<, Nat)
    BY <2>1 DEF OpToRel
  <2> QED
    BY <1>1, <2>1
<1>3. \A y \in S : x <= y
  BY <1>2
<1> QED
  BY <1>3 DEF Min

(* What is left of q without its first d, which are older than the cutoff; *)
(* the next one is not.                                                    *)
Left(q, r, d, cutoff) ==
    /\ d \in 0..Len(q) /\ r \in Seq(Times) /\ Len(r) = Len(q) - d
    /\ \A i \in 1..Len(r) : r[i] = q[d + i]
    /\ \A i \in 1..d : q[i] < cutoff
    /\ d < Len(q) => q[d + 1] >= cutoff

LEMMA TimesType == Times \subseteq Nat /\ MaxClock \in Nat
BY TimeAssumption DEF Times

LEMMA TimesSeq ==
    ASSUME NEW q \in Seq(Times)
    PROVE  /\ Len(q) \in Nat /\ DOMAIN q = 1..Len(q)
           /\ \A i \in 1..Len(q) : q[i] \in Times /\ q[i] \in Nat
BY LenProperties, ElementOfSeq, TimesType

LEMMA EvictLeaves ==
    ASSUME NEW q \in Seq(Times), NEW cutoff \in Int
    PROVE  \E d \in 0..Len(q) : Left(q, Evict(q, cutoff), d, cutoff)
<1> DEFINE young == {i \in DOMAIN q : q[i] >= cutoff}
<1>1. Len(q) \in Nat /\ DOMAIN q = 1..Len(q) /\ \A i \in 1..Len(q) : q[i] \in Nat /\ q[i] \in Times
  BY LenProperties, ElementOfSeq, TimesType
<1>2. CASE young = {}
  <2>1. Evict(q, cutoff) = << >>
    BY <1>2 DEF Evict
  <2>2. \A i \in 1..Len(q) : q[i] < cutoff
    BY <1>1, <1>2
  <2>3. Left(q, << >>, Len(q), cutoff)
    BY <1>1, <2>2, EmptySeq DEF Left
  <2> QED
    BY <1>1, <2>1, <2>3
<1>3. CASE young # {}
  <2> DEFINE m == Min(young)
             r == SubSeq(q, m, Len(q))
  <2>1. young \in SUBSET Nat
    BY <1>1
  <2>2. m \in young /\ \A y \in young : m <= y
    BY <1>3, <2>1, MinProperties
  <2>3. m \in 1..Len(q) /\ q[m] >= cutoff
    BY <1>1, <2>2
  <2>4. \A i \in 1..(m - 1) : q[i] < cutoff
    <3> SUFFICES ASSUME NEW i \in 1..(m - 1), ~(q[i] < cutoff) PROVE FALSE
      OBVIOUS
    <3>1. i \in 1..Len(q) /\ q[i] >= cutoff /\ ~(m <= i)
      BY <1>1, <2>3
    <3> QED
      BY <1>1, <2>2, <3>1
  <2> HIDE DEF m
  <2>5. /\ r \in Seq(Times) /\ Len(r) = Len(q) - (m - 1)
        /\ \A i \in 1..Len(r) : r[i] = q[m + i - 1]
    BY <1>1, <2>3, SubSeqProperties
  <2>6. Evict(q, cutoff) = r
    BY <1>3 DEF Evict, m
  <2> HIDE DEF r
  <2>7. m - 1 \in 0..Len(q) /\ (m - 1) + 1 = m
    BY <1>1, <2>3
  <2>8. \A i \in 1..Len(r) : r[i] = q[(m - 1) + i]
    <3> SUFFICES ASSUME NEW i \in 1..Len(r) PROVE r[i] = q[(m - 1) + i]
      OBVIOUS
    <3>1. (m - 1) + i = m + i - 1
      BY <1>1, <2>3, <2>5
    <3> QED
      BY <2>5, <3>1
  <2>9. Left(q, r, m - 1, cutoff)
    BY <2>3, <2>4, <2>5, <2>7, <2>8 DEF Left
  <2> QED
    BY <2>6, <2>7, <2>9
<1> QED
  BY <1>2, <1>3

-----------------------------------------------------------------------------
(* The limiter's deque follows the requests let through.                   *)
LEMMA TrailsEvict ==
    ASSUME NEW h \in Seq(Times), NEW p \in Seq(Times), NEW c \in Nat, Trails(h, p, c),
           NEW now \in Nat, now <= c
    PROVE  /\ Trails(Evict(h, now - Window), p, c) /\ Evict(h, now - Window) \in Seq(Times)
<1> DEFINE r == Evict(h, now - Window)
           gone == Len(p) - Len(h)
<1>1. now - Window \in Int /\ Window \in Nat /\ Lag \in Nat
  BY TimeAssumption
<1>2. PICK d \in 0..Len(h) : Left(h, r, d, now - Window)
  BY <1>1, EvictLeaves
<1> HIDE DEF r
<1>3. /\ Len(h) \in Nat /\ Len(p) \in Nat /\ gone \in Nat /\ Limit \in Nat
      /\ \A i \in 1..Len(h) : h[i] \in Nat
      /\ \A i \in 1..Len(p) : p[i] \in Nat
  <2>1. gone >= 0
    BY DEF Trails
  <2> QED
    BY <2>1, TimesSeq, LimitAssumption
<1>4. /\ r \in Seq(Times) /\ Len(r) = Len(h) - d /\ Len(r) \in Nat
      /\ Len(p) - Len(r) = gone + d
  BY <1>2, <1>3 DEF Left
<1>5. ASSUME NEW i \in 1..(gone + d) PROVE p[i] < c - Window + Lag
  <2>1. CASE i <= gone
    BY <1>3, <2>1 DEF Trails
  <2>2. CASE i > gone
    <3>1. i - gone \in 1..d /\ i - gone \in 1..Len(h) /\ gone + (i - gone) = i
      BY <1>3, <2>2
    <3>2. h[i - gone] < now - Window
      BY <1>2, <3>1 DEF Left
    <3>3. p[i] <= h[i - gone] + Lag
      BY <3>1 DEF Trails
    <3>4. i \in 1..Len(p) /\ h[i - gone] \in Nat /\ p[i] \in Nat
      BY <1>3, <3>1
    <3> QED
      BY <1>1, <3>2, <3>3, <3>4
  <2> QED
    BY <1>3, <2>1, <2>2
<1>6. ASSUME NEW i \in 1..Len(r) PROVE r[i] <= p[gone + d + i] /\ p[gone + d + i] <= r[i] + Lag
  <2>1. d + i \in 1..Len(h) /\ gone + (d + i) = gone + d + i
    BY <1>3, <1>4
  <2>2. r[i] = h[d + i]
    BY <1>2 DEF Left
  <2> QED
    BY <2>1, <2>2 DEF Trails
<1>7. /\ \A i \in 1..Len(p) : p[i] <= c
      /\ \A i, j \in 1..Len(p) : i <= j => p[i] <= p[j]
      /\ Len(r) <= Limit /\ gone + d >= 0
  BY <1>3, <1>4 DEF Trails
<1> HIDE DEF gone
<1>8. Trails(r, p, c)
  BY <1>4, <1>5, <1>6, <1>7 DEF Trails
<1> QED
  BY <1>4, <1>8 DEF r

LEMMA TrailsAppend ==
    ASSUME NEW h \in Seq(Times), NEW p \in Seq(Times), NEW c \in Times, Trails(h, p, c),
           NEW now \in Times, now <= c, c <= now + Lag, Len(h) < Limit
    PROVE  Trails(Append(h, now), Append(p, c), c)
<1> DEFINE r == Append(h, now)
           s == Append(p, c)
           gone == Len(p) - Len(h)
<1>1. /\ Len(h) \in Nat /\ Len(p) \in Nat /\ gone \in Nat /\ Limit \in Nat /\ c \in Nat /\ now \in Nat
      /\ \A i \in 1..Len(h) : h[i] \in Nat
      /\ \A i \in 1..Len(p) : p[i] \in Nat /\ p[i] <= c
  <2>1. gone >= 0 /\ \A i \in 1..Len(p) : p[i] <= c
    BY DEF Trails
  <2> QED
    BY <2>1, TimesSeq, TimesType, LimitAssumption
<1>2. /\ Len(r) = Len(h) + 1 /\ Len(s) = Len(p) + 1
      /\ r[Len(h) + 1] = now /\ s[Len(p) + 1] = c
      /\ \A i \in 1..Len(h) : r[i] = h[i]
      /\ \A i \in 1..Len(p) : s[i] = p[i]
  BY AppendProperties
<1> HIDE DEF r, s
<1>3. Len(s) - Len(r) = gone
  BY <1>1, <1>2
<1>4. ASSUME NEW i \in 1..gone PROVE s[i] < c - Window + Lag
  BY <1>1, <1>2, <1>4 DEF Trails
<1>5. ASSUME NEW i \in 1..Len(r) PROVE r[i] <= s[gone + i] /\ s[gone + i] <= r[i] + Lag
  <2>1. CASE i = Len(h) + 1
    <3>1. gone + i = Len(p) + 1
      BY <1>1, <2>1
    <3> QED
      BY <1>2, <2>1, <3>1
  <2>2. CASE i \in 1..Len(h)
    <3>1. gone + i \in 1..Len(p)
      BY <1>1, <2>2
    <3> QED
      BY <1>2, <2>2, <3>1 DEF Trails
  <2> QED
    BY <1>1, <1>2, <2>1, <2>2
<1>6. ASSUME NEW i \in 1..Len(s) PROVE s[i] <= c
  BY <1>1, <1>2
<1>7. ASSUME NEW i \in 1..Len(s), NEW j \in 1..Len(s), i <= j PROVE s[i] <= s[j]
  <2>1. CASE j = Len(p) + 1
    BY <1>2, <1>6, <2>1
  <2>2. CASE j \in 1..Len(p)
    <3>1. i \in 1..Len(p)
      BY <1>1, <1>7, <2>2
    <3> QED
      BY <1>2, <1>7, <2>2, <3>1 DEF Trails
  <2> QED
    BY <1>1, <1>2, <2>1, <2>2
<1>8. gone >= 0 /\ Len(r) <= Limit
  BY <1>1, <1>2
<1> HIDE DEF gone
<1>9. Trails(r, s, c)
  BY <1>3, <1>4, <1>5, <1>6, <1>7, <1>8 DEF Trails
<1> QED
  BY <1>9 DEF r, s

LEMMA TrailsTick ==
    ASSUME NEW h \in Seq(Times), NEW p \in Seq(Times), NEW c \in Nat, Trails(h, p, c)
    PROVE  Trails(h, p, c + 1)
<1>1. Window \in Nat /\ Lag \in Nat /\ Len(h) \in Nat /\ Len(p) \in Nat
      /\ Len(p) - Len(h) \in Nat /\ \A i \in 1..Len(p) : p[i] \in Nat
  <2>1. Len(p) - Len(h) >= 0
    BY DEF Trails
  <2> QED
    BY <2>1, TimeAssumption, TimesSeq
<1> DEFINE gone == Len(p) - Len(h)
<1>2. \A i \in 1..gone : i \in 1..Len(p)
  BY <1>1
<1> DEFINE x == c + 1
<1>3. \A i \in 1..gone : p[i] < x - Window + Lag
  BY <1>1, <1>2 DEF Trails
<1>4. \A i \in 1..Len(p) : p[i] <= x
  BY <1>1 DEF Trails
<1>5. /\ gone >= 0 /\ Len(h) <= Limit
      /\ \A i \in 1..Len(h) : h[i] <= p[gone + i] /\ p[gone + i] <= h[i] + Lag
      /\ \A i, j \in 1..Len(p) : i <= j => p[i] <= p[j]
  BY DEF Trails
<1> HIDE DEF x
<1>6. Trails(h, p, x)
  BY <1>3, <1>4, <1>5 DEF Trails
<1> QED
  BY <1>6 DEF x

LEMMA SinceType ==
    ASSUME NEW p \in Seq(Times), NEW x
    PROVE  Since(p, x) \in Nat
<1> DEFINE I == {i \in DOMAIN p : p[i] >= x}
<1>1. I \subseteq DOMAIN p /\ DOMAIN p = 1..Len(p) /\ Len(p) \in Nat
  BY TimesSeq
<1>2. IsFiniteSet(1..Len(p))
  BY <1>1, FS_Interval
<1> HIDE DEF I
<1>3. IsFiniteSet(I)
  BY <1>1, <1>2, FS_Subset
<1>4. Cardinality(I) \in Nat
  BY <1>3, FS_CardinalityType
<1> QED
  BY <1>4 DEF Since, I

(* Counting the times since x: those at the end of a sequence.             *)
LEMMA SinceAtMost ==
    ASSUME NEW p \in Seq(Times), NEW x \in Int, NEW m \in Nat, m <= Len(p),
           \A i \in 1..(Len(p) - m) : p[i] < x
    PROVE  Since(p, x) <= m
<1> DEFINE I == {i \in DOMAIN p : p[i] >= x}
           n == Len(p)
<1>1. n \in Nat /\ DOMAIN p = 1..n /\ \A i \in 1..n : p[i] \in Nat
  BY LenProperties, ElementOfSeq, TimesType
<1>2. I \subseteq (n - m + 1)..n
  BY <1>1
<1> HIDE DEF I
<1>3. IsFiniteSet((n - m + 1)..n) /\ Cardinality((n - m + 1)..n) = m
  BY <1>1, FS_Interval
<1>4. Cardinality(I) <= m
  BY <1>2, <1>3, FS_Subset
<1> QED
  BY <1>4 DEF Since, I

LEMMA SinceAtLeast ==
    ASSUME NEW p \in Seq(Times), NEW x \in Int, NEW m \in Nat, m <= Len(p),
           \A i \in (Len(p) - m + 1)..Len(p) : p[i] >= x
    PROVE  Since(p, x) >= m
<1> DEFINE I == {i \in DOMAIN p : p[i] >= x}
           n == Len(p)
<1>1. n \in Nat /\ DOMAIN p = 1..n
  BY LenProperties
<1>2. (n - m + 1)..n \subseteq I
  BY <1>1
<1>3. IsFiniteSet(I) /\ Cardinality(I) \in Nat
  <2>1. I \subseteq 1..n /\ IsFiniteSet(1..n)
    BY <1>1, FS_Interval
  <2> HIDE DEF I
  <2> QED
    BY <2>1, FS_Subset, FS_CardinalityType
<1> HIDE DEF I
<1>4. Cardinality((n - m + 1)..n) = m
  BY <1>1, FS_Interval
<1>5. Cardinality((n - m + 1)..n) <= Cardinality(I)
  BY <1>2, <1>3, FS_Subset
<1> QED
  BY <1>3, <1>4, <1>5 DEF Since, I

-----------------------------------------------------------------------------
(* The monitor's deques.                                                   *)
LEMMA CoversEvict ==
    ASSUME NEW a \in Seq(Times), NEW r \in Seq(Times), NEW c \in Nat, Covers(a, r, c),
           NEW now \in Nat, now <= c
    PROVE  Covers(Evict(a, now - Horizon), r, c)
<1> DEFINE b == Evict(a, now - Horizon)
           gone == Len(r) - Len(a)
<1>1. now - Horizon \in Int /\ Horizon \in Nat
  BY TimeAssumption
<1>2. PICK d \in 0..Len(a) : Left(a, b, d, now - Horizon)
  BY <1>1, EvictLeaves
<1> HIDE DEF b
<1>3. /\ Len(a) \in Nat /\ Len(r) \in Nat /\ gone \in Nat
      /\ \A i \in 1..Len(r) : r[i] \in Nat
  <2>1. gone >= 0
    BY DEF Covers
  <2> QED
    BY <2>1, TimesSeq
<1>4. Len(b) = Len(a) - d /\ Len(b) \in Nat /\ Len(r) - Len(b) = gone + d
  BY <1>2, <1>3 DEF Left
<1>5. ASSUME NEW i \in 1..(gone + d) PROVE r[i] < c - Horizon
  <2>1. CASE i <= gone
    BY <1>3, <2>1 DEF Covers
  <2>2. CASE i > gone
    <3>1. i - gone \in 1..d /\ i - gone \in 1..Len(a) /\ gone + (i - gone) = i /\ i \in 1..Len(r)
      BY <1>3, <2>2
    <3>2. a[i - gone] < now - Horizon /\ a[i - gone] = r[i]
      BY <1>2, <3>1 DEF Left, Covers
    <3> QED
      BY <1>1, <1>3, <3>1, <3>2
  <2> QED
    BY <1>3, <2>1, <2>2
<1>6. ASSUME NEW i \in 1..Len(b) PROVE b[i] = r[gone + d + i]
  <2>1. d + i \in 1..Len(a) /\ gone + (d + i) = gone + d + i
    BY <1>3, <1>4
  <2>2. b[i] = a[d + i]
    BY <1>2 DEF Left
  <2> QED
    BY <2>1, <2>2 DEF Covers
<1>7. gone + d >= 0
  BY <1>3
<1> HIDE DEF gone
<1>8. Covers(b, r, c)
  BY <1>4, <1>5, <1>6, <1>7 DEF Covers
<1> QED
  BY <1>8 DEF b

LEMMA CoversAppend ==
    ASSUME NEW a \in Seq(Times), NEW r \in Seq(Times), NEW c \in Nat, Covers(a, r, c),
           NEW now \in Times
    PROVE  Covers(Append(a, now), Append(r, now), c)
<1> DEFINE b == Append(a, now)
           s == Append(r, now)
           gone == Len(r) - Len(a)
<1>1. Len(a) \in Nat /\ Len(r) \in Nat /\ gone \in Nat
  <2>1. gone >= 0
    BY DEF Covers
  <2> QED
    BY <2>1, TimesSeq
<1>2. /\ Len(b) = Len(a) + 1 /\ Len(s) = Len(r) + 1
      /\ b[Len(a) + 1] = now /\ s[Len(r) + 1] = now
      /\ \A i \in 1..Len(a) : b[i] = a[i]
      /\ \A i \in 1..Len(r) : s[i] = r[i]
  BY AppendProperties
<1> HIDE DEF b, s
<1>3. Len(s) - Len(b) = gone /\ gone >= 0
  BY <1>1, <1>2
<1>4. ASSUME NEW i \in 1..gone PROVE s[i] < c - Horizon
  <2>1. r[i] < c - Horizon
    BY DEF Covers
  <2>2. i \in 1..Len(r)
    BY <1>1
  <2> QED
    BY <1>2, <2>1, <2>2
<1>5. ASSUME NEW i \in 1..Len(b) PROVE b[i] = s[gone + i]
  <2>1. CASE i = Len(a) + 1
    <3>1. gone + i = Len(r) + 1
      BY <1>1, <2>1
    <3> QED
      BY <1>2, <2>1, <3>1
  <2>2. CASE i \in 1..Len(a)
    <3>1. gone + i \in 1..Len(r)
      BY <1>1, <2>2
    <3> QED
      BY <1>2, <2>2, <3>1 DEF Covers
  <2> QED
    BY <1>1, <1>2, <2>1, <2>2
<1> HIDE DEF gone
<1>6. Covers(b, s, c)
  BY <1>3, <1>4, <1>5 DEF Covers
<1> QED
  BY <1>6 DEF b, s

LEMMA CoversTick ==
    ASSUME NEW a \in Seq(Times), NEW r \in Seq(Times), NEW c \in Nat, Covers(a, r, c)
    PROVE  Covers(a, r, c + 1)
<1> DEFINE gone == Len(r) - Len(a)
<1>1. /\ Horizon \in Nat /\ gone \in Int
      /\ \A i \in 1..gone : i \in 1..Len(r) /\ r[i] \in Nat /\ r[i] < c - Horizon
  <2>1. Len(a) \in Nat /\ Len(r) \in Nat /\ \A i \in 1..Len(r) : r[i] \in Nat
    BY TimesSeq
  <2>2. \A i \in 1..gone : r[i] < c - Horizon
    BY DEF Covers
  <2> QED
    BY <2>1, <2>2, TimeAssumption
<1> DEFINE x == c + 1
<1>2. \A i \in 1..gone : r[i] < x - Horizon
  BY <1>1
<1>3. gone >= 0 /\ \A i \in 1..Len(a) : a[i] = r[gone + i]
  BY DEF Covers
<1> HIDE DEF x
<1>4. Covers(a, r, x)
  BY <1>2, <1>3 DEF Covers
<1> QED
  BY <1>4 DEF x

(* A deque embedded in another stays so when both are evicted: what the    *)
(* other has lost is older than the cutoff and lost here as well.          *)
LEMMA EmbeddedEvict ==
    ASSUME NEW e \in Seq(Times), NEW a \in Seq(Times), NEW cutoff \in Int, Embedded(e, a)
    PROVE  Embedded(Evict(e, cutoff), Evict(a, cutoff))
<1> DEFINE f == Evict(e, cutoff)
           b == Evict(a, cutoff)
<1>1. PICK d \in 0..Len(e) : Left(e, f, d, cutoff)
  BY EvictLeaves
<1>2. PICK l \in 0..Len(a) : Left(a, b, l, cutoff)
  BY EvictLeaves
<1> HIDE DEF f, b
<1>3. PICK g \in [1..Len(e) -> 1..Len(a)] :
         Rising(g, Len(e)) /\ \A i \in 1..Len(e) : e[i] = a[g[i]]
  BY DEF Embedded
<1>4. /\ Len(e) \in Nat /\ Len(a) \in Nat
      /\ \A i \in 1..Len(e) : e[i] \in Nat
      /\ \A i \in 1..Len(a) : a[i] \in Nat
  BY TimesSeq
<1>5. Len(f) = Len(e) - d /\ Len(b) = Len(a) - l /\ Len(f) \in Nat /\ Len(b) \in Nat
  BY <1>1, <1>2, <1>4 DEF Left
<1>6. ASSUME NEW i \in 1..Len(f) PROVE g[d + i] > l
  <2>1. d + 1 \in 1..Len(e) /\ d + i \in 1..Len(e) /\ d < Len(e)
    BY <1>4, <1>5
  <2>2. e[d + 1] >= cutoff /\ e[d + 1] = a[g[d + 1]] /\ g[d + 1] \in 1..Len(a)
    BY <1>1, <1>3, <2>1 DEF Left
  <2>3. g[d + 1] > l
    <3>1. CASE g[d + 1] \in 1..l
      <4>1. a[g[d + 1]] < cutoff
        BY <1>2, <3>1 DEF Left
      <4> QED
        BY <1>4, <2>1, <2>2, <4>1
    <3> QED
      BY <1>4, <2>2, <3>1
  <2>4. g[d + i] \in Nat /\ g[d + 1] \in Nat /\ g[d + i] >= g[d + 1]
    BY <1>3, <1>4, <2>1 DEF Rising
  <2> QED
    BY <2>3, <2>4
<1> DEFINE k == [i \in 1..Len(f) |-> g[d + i] - l]
<1>7. ASSUME NEW i \in 1..Len(f) PROVE /\ d + i \in 1..Len(e) /\ g[d + i] \in 1..Len(a)
                                       /\ k[i] \in 1..Len(b) /\ l + k[i] = g[d + i]
  <2>1. d + i \in 1..Len(e)
    BY <1>4, <1>5
  <2>2. g[d + i] \in 1..Len(a) /\ g[d + i] > l /\ k[i] = g[d + i] - l
    BY <1>3, <1>6, <2>1
  <2> HIDE DEF k
  <2> QED
    BY <1>4, <1>5, <2>1, <2>2
<1>8. k \in [1..Len(f) -> 1..Len(b)]
  BY <1>7
<1>9. ASSUME NEW i \in 1..Len(f), NEW j \in 1..Len(f), i < j PROVE k[i] < k[j]
  <2>1. d + i < d + j
    BY <1>1, <1>4, <1>9
  <2>2. g[d + i] < g[d + j]
    BY <1>3, <1>7, <2>1 DEF Rising
  <2> QED
    BY <1>4, <1>7, <2>2
<1> HIDE DEF k
<1>10. ASSUME NEW i \in 1..Len(f) PROVE f[i] = b[k[i]]
  <2>1. f[i] = e[d + i] /\ e[d + i] = a[g[d + i]]
    BY <1>1, <1>3, <1>7 DEF Left
  <2>2. b[k[i]] = a[l + k[i]]
    BY <1>2, <1>7 DEF Left
  <2> QED
    BY <1>7, <2>1, <2>2
<1>11. Embedded(f, b)
  BY <1>8, <1>9, <1>10 DEF Embedded, Rising
<1> QED
  BY <1>11 DEF f, b

LEMMA EmbeddedAppend ==
    ASSUME NEW e \in Seq(Times), NEW a \in Seq(Times), NEW now \in Times, Embedded(e, a)
    PROVE  Embedded(e, Append(a, now)) /\ Embedded(Append(e, now), Append(a, now))
<1> DEFINE f == Append(e, now)
           b == Append(a, now)
<1>1. PICK g \in [1..Len(e) -> 1..Len(a)] :
         Rising(g, Len(e)) /\ \A i \in 1..Len(e) : e[i] = a[g[i]]
  BY DEF Embedded
<1>2. /\ Len(e) \in Nat /\ Len(a) \in Nat
      /\ Len(f) = Len(e) + 1 /\ f[Len(e) + 1] = now /\ \A i \in 1..Len(e) : f[i] = e[i]
      /\ Len(b) = Len(a) + 1 /\ b[Len(a) + 1] = now /\ \A i \in 1..Len(a) : b[i] = a[i]
  BY AppendProperties, LenProperties
<1> HIDE DEF f, b
<1>3. Embedded(e, b)
  <2>1. g \in [1..Len(e) -> 1..Len(b)]
    BY <1>2
  <2>2. \A i \in 1..Len(e) : e[i] = b[g[i]]
    BY <1>1, <1>2
  <2> QED
    BY <1>1, <2>1, <2>2 DEF Embedded
<1>4. Embedded(f, b)
  <2> DEFINE k == [i \in 1..Len(f) |-> IF i = Len(f) THEN Len(b) ELSE g[i]]
  <2>1. ASSUME NEW i \in 1..Len(f)
        PROVE  \/ i = Len(f) /\ k[i] = Len(b)
               \/ i \in 1..Len(e) /\ k[i] = g[i] /\ g[i] \in 1..Len(a)
    BY <1>2
  <2>2. k \in [1..Len(f) -> 1..Len(b)]
    <3>1. \A i \in 1..Len(f) : k[i] \in 1..Len(b)
      BY <1>2, <2>1
    <3> QED
      BY <3>1
  <2> HIDE DEF k
  <2>3. ASSUME NEW i \in 1..Len(f), NEW j \in 1..Len(f), i < j PROVE k[i] < k[j]
    <3>1. i \in 1..Len(e) /\ k[i] = g[i] /\ g[i] \in 1..Len(a)
      BY <1>2, <2>1, <2>3
    <3>2. CASE j = Len(f) /\ k[j] = Len(b)
      BY <1>2, <3>1, <3>2
    <3>3. CASE j \in 1..Len(e) /\ k[j] = g[j]
      BY <1>1, <2>3, <3>1, <3>3 DEF Rising
    <3> QED
      BY <2>1, <3>2, <3>3
  <2>4. ASSUME NEW i \in 1..Len(f) PROVE f[i] = b[k[i]]
    BY <1>1, <1>2, <2>1
  <2> QED
    BY <2>2, <2>3, <2>4 DEF Embedded, Rising
<1> QED
  BY <1>3, <1>4 DEF f, b

(* No time is more often in e than in a.                                   *)
LEMMA EmbeddedCount ==
    ASSUME NEW e \in Seq(Times), NEW a \in Seq(Times), NEW x, Embedded(e, a)
    PROVE  Count(e, x) <= Count(a, x)
<1> DEFINE E == {i \in DOMAIN e : e[i] = x}
           A == {i \in DOMAIN a : a[i] = x}
<1>1. PICK g \in [1..Len(e) -> 1..Len(a)] :
         Rising(g, Len(e)) /\ \A i \in 1..Len(e) : e[i] = a[g[i]]
  BY DEF Embedded
<1>2. DOMAIN e = 1..Len(e) /\ DOMAIN a = 1..Len(a) /\ Len(a) \in Nat /\ Len(e) \in Nat
  BY TimesSeq
<1> DEFINE f == [i \in E |-> g[i]]
<1>3. f \in [E -> A]
  BY <1>1, <1>2
<1>4. ASSUME NEW i \in E, NEW j \in E, f[i] = f[j] PROVE i = j
  <2>1. i \in 1..Len(e) /\ j \in 1..Len(e) /\ g[i] = g[j] /\ g[i] \in Nat
    BY <1>1, <1>2, <1>4
  <2> QED
    BY <1>1, <1>2, <2>1 DEF Rising
<1>5. IsFiniteSet(A)
  <2>1. A \subseteq 1..Len(a) /\ IsFiniteSet(1..Len(a))
    BY <1>2, FS_Interval
  <2> HIDE DEF A
  <2> QED
    BY <2>1, FS_Subset
<1> HIDE DEF A, E, f
<1>6. f \in Injection(E, A)
  BY <1>3, <1>4 DEF Injection, IsInjective
<1>7. Cardinality(E) <= Cardinality(A)
  BY <1>5, <1>6, FS_Injection
<1> QED
  BY <1>7 DEF Count, E, A

(* The recent ones of a sequence of times are in the part that is left.    *)
LEMMA CoversSince ==
    ASSUME NEW a \in Seq(Times), NEW r \in Seq(Times), NEW c \in Nat, Covers(a, r, c)
    PROVE  Since(a, c - Horizon) = Since(r, c - Horizon)
<1> DEFINE x == c - Horizon
           gone == Len(r) - Len(a)
           A == {i \in DOMAIN a : a[i] >= x}
           R == {i \in DOMAIN r : r[i] >= x}
           f == [i \in A |-> gone + i]
<1>1. /\ Horizon \in Nat /\ x \in Int
      /\ Len(a) \in Nat /\ Len(r) \in Nat /\ DOMAIN a = 1..Len(a) /\ DOMAIN r = 1..Len(r)
      /\ \A i \in 1..Len(r) : r[i] \in Nat
  BY TimesSeq, TimeAssumption
<1>2. /\ gone \in Nat
      /\ \A i \in 1..gone : r[i] < x
      /\ \A i \in 1..Len(a) : a[i] = r[gone + i]
  BY <1>1 DEF Covers
<1> HIDE DEF x
<1>3. ASSUME NEW i \in A PROVE gone + i \in R
  BY <1>1, <1>2
<1>4. ASSUME NEW i \in R PROVE i - gone \in A /\ gone + (i - gone) = i
  <2>1. i \in 1..Len(r) /\ r[i] >= x
    BY <1>1
  <2>2. ~(i \in 1..gone)
    BY <1>1, <1>2, <2>1
  <2>3. i - gone \in 1..Len(a) /\ gone + (i - gone) = i
    BY <1>1, <1>2, <2>1, <2>2
  <2>4. a[i - gone] = r[i]
    BY <1>2, <2>3
  <2> QED
    BY <1>1, <2>1, <2>3, <2>4
<1>5. A \subseteq Nat /\ IsFiniteSet(A)
  <2>1. A \subseteq Nat /\ A \subseteq 1..Len(a)
    BY <1>1
  <2>2. IsFiniteSet(1..Len(a))
    BY <1>1, FS_Interval
  <2> HIDE DEF A
  <2> QED
    BY <2>1, <2>2, FS_Subset
<1> HIDE DEF A, R, gone
<1>6. f \in [A -> R]
  BY <1>3
<1>7. \A i, j \in A : f[i] = f[j] => i = j
  BY <1>2, <1>5
<1>8. \A j \in R : \E i \in A : f[i] = j
  BY <1>4
<1> HIDE DEF f
<1>9. f \in Bijection(A, R)
  BY <1>6, <1>7, <1>8 DEF Bijection, Injection, Surjection, IsInjective
<1>10. Cardinality(R) = Cardinality(A)
  BY <1>5, <1>9, FS_Bijection DEF ExistsBijection
<1> QED
  BY <1>10 DEF Since, A, R, x

-----------------------------------------------------------------------------
(* The types, and a thread before the lock.                                *)
Waiting == \A t \in Threads : Fresh(t)
Requested == [pc : Pcs, key : Keys \cup {NoKey}, now : Times]

LEMMA EvictType ==
    ASSUME NEW q \in Seq(Times), NEW now \in Nat, NEW w \in Nat
    PROVE  Evict(q, now - w) \in Seq(Times) /\ Len(Evict(q, now - w)) <= Len(q)
<1>1. PICK d \in 0..Len(q) : Left(q, Evict(q, now - w), d, now - w)
  BY EvictLeaves
<1> QED
  BY <1>1, TimesSeq DEF Left

LEMMA TypeInit == Init => TypeOK /\ Waiting
<1> SUFFICES ASSUME Init PROVE TypeOK /\ Waiting
  OBVIOUS
<1>1. 0 \in Times /\ Limit \in Nat
  BY TimeAssumption, LimitAssumption DEF Times
<1>2. << >> \in Seq(Times) /\ << >> \in Seq(Records) /\ Len(<< >>) = 0
  OBVIOUS
<1>3. Idle \in Requested /\ Idle.pc = "idle"
  BY <1>1 DEF Idle, Requested, Pcs
<1>4. anomalies = Cardinality({i \in DOMAIN recorded : recorded[i].anomaly})
  <2>1. {i \in DOMAIN recorded : recorded[i].anomaly} = {}
    BY DEF Init
  <2>2. Cardinality({}) = 0
    BY FS_EmptySet
  <2> QED
    BY <2>1, <2>2 DEF Init
<1> QED
  BY <1>1, <1>2, <1>3, <1>4 DEF Init, TypeOK, Waiting, Fresh, Requested

(* The request of one thread changes.                                      *)
LEMMA RequestType ==
    ASSUME TypeOK, NEW t \in Threads, NEW r \in Requested, req' = [req EXCEPT ![t] = r],
           r.pc # "idle" => r.key \in Keys
    PROVE  /\ req' \in [Threads -> Requested]
           /\ \A u \in Threads : req'[u].pc # "idle" => req'[u].key \in Keys
           /\ req'[t] = r /\ \A u \in Threads \ {t} : req'[u] = req[u]
BY DEF TypeOK, Requested

LEMMA RequestOf ==
    ASSUME TypeOK, NEW t \in Threads
    PROVE  /\ req[t] \in Requested /\ req[t].now \in Times /\ req[t].now \in Nat
           /\ req[t].pc # "idle" => req[t].key \in Keys
           /\ clock \in Times /\ clock \in Nat
           /\ Idle \in Requested /\ Idle.pc = "idle"
<1>1. req[t] \in Requested /\ clock \in Times /\ (req[t].pc # "idle" => req[t].key \in Keys)
  BY DEF TypeOK, Requested
<1>2. 0 \in Times
  BY TimeAssumption DEF Times
<1>3. Idle \in Requested /\ Idle.pc = "idle"
  BY <1>2 DEF Idle, Requested, Pcs
<1> QED
  BY <1>1, <1>3, TimesType DEF Requested

LEMMA WaitingMove ==
    ASSUME TypeOK, Waiting, NEW t \in Threads, UNCHANGED clock, Fresh(t)',
           \A u \in Threads \ {t} : req'[u] = req[u]
    PROVE  Waiting'
BY DEF Waiting, Fresh

LEMMA RequestStep ==
    ASSUME TypeOK, Waiting, NEW t \in Threads,
           (\E k \in Keys : Arrive(t, k)) \/ Stamp(t)
    PROVE  TypeOK' /\ Waiting'
<1>1. CASE \E k \in Keys : Arrive(t, k)
  <2>1. PICK k \in Keys : Arrive(t, k)
    BY <1>1
  <2> DEFINE r == [Idle EXCEPT !.pc = "stamp", !.key = k]
  <2>2. r \in Requested /\ r.pc = "stamp" /\ r.key \in Keys
    BY RequestOf DEF Idle, Requested, Pcs
  <2>3. req' = [req EXCEPT ![t] = r]
    BY <2>1 DEF Arrive
  <2> HIDE DEF r
  <2>4. /\ req' \in [Threads -> Requested]
        /\ \A u \in Threads : req'[u].pc # "idle" => req'[u].key \in Keys
        /\ req'[t] = r /\ \A u \in Threads \ {t} : req'[u] = req[u]
    BY <2>2, <2>3, RequestType
  <2>5. TypeOK'
    <3>1. requests' \in Nat
      <4>1. requests' = requests + 1
        BY <2>1 DEF Arrive
      <4>2. requests \in Nat
        BY DEF TypeOK
      <4> QED
        BY <4>1, <4>2
    <3>2. UNCHANGED <<hits, analysed, escalated, anomalies, clock, passed, recorded>>
      BY <2>1 DEF Arrive
    <3> QED
      BY <2>4, <3>1, <3>2 DEF TypeOK, Requested
  <2>6. Fresh(t)'
    BY <2>2, <2>4 DEF Fresh
  <2> QED
    BY <2>1, <2>4, <2>5, <2>6, WaitingMove DEF Arrive
<1>2. CASE Stamp(t)
  <2> DEFINE x == [req[t] EXCEPT !.now = clock]
             r == [x EXCEPT !.pc = IF @ = "stamp" THEN "allow" ELSE "record"]
  <2>1. x \in Requested /\ x.now = clock /\ x.key = req[t].key /\ x.pc = req[t].pc
    BY RequestOf DEF Requested
  <2>2. req' = [req EXCEPT ![t] = r]
    BY <1>2, RequestOf DEF Stamp, Requested, TypeOK
  <2> HIDE DEF x
  <2>3. r \in Requested /\ r.now = clock /\ r.key = req[t].key /\ r.pc \in {"allow", "record"}
    BY <2>1 DEF Requested, Pcs
  <2> HIDE DEF r
  <2>4. req[t].key \in Keys
    BY <1>2, RequestOf DEF Stamp
  <2>5. /\ req' \in [Threads -> Requested]
        /\ \A u \in Threads : req'[u].pc # "idle" => req'[u].key \in Keys
        /\ req'[t] = r /\ \A u \in Threads \ {t} : req'[u] = req[u]
    BY <2>2, <2>3, <2>4, RequestType
  <2>6. TypeOK'
    BY <1>2, <2>5 DEF Stamp, TypeOK, Requested
  <2>7. Fresh(t)'
    BY <1>2, <2>3, <2>5, RequestOf, TimeAssumption DEF Fresh, Stamp
  <2> QED
    BY <1>2, <2>5, <2>6, <2>7, WaitingMove DEF Stamp
<1> QED
  BY <1>1, <1>2

(* allow ends the request or sends it on to be observed.                   *)
LEMMA LimiterStep ==
    ASSUME TypeOK, Waiting, NEW t \in Threads, Allow(t) \/ Refuse(t)
    PROVE  TypeOK' /\ Waiting'
<1> DEFINE k == req[t].key
           q == Evict(hits[k], req[t].now - Window)
<1>1. k \in Keys /\ req[t] \in Requested /\ req[t].now \in Nat /\ req[t].now \in Times
      /\ hits[k] \in Seq(Times) /\ Len(hits[k]) <= Limit /\ passed[k] \in Seq(Times)
      /\ Limit \in Nat /\ clock \in Times
  BY RequestOf, LimitAssumption DEF Allow, Refuse, TypeOK
<1>2. q \in Seq(Times) /\ Len(q) <= Len(hits[k]) /\ Len(q) \in Nat /\ Len(hits[k]) \in Nat
  BY <1>1, EvictType, TimesSeq, TimeAssumption
<1> HIDE DEF q
<1>3. PICK r \in Requested : /\ req' = [req EXCEPT ![t] = r]
                             /\ r.pc \in {"idle", "observe"} /\ (r.pc # "idle" => r.key \in Keys)
  <2> DEFINE x == [req[t] EXCEPT !.pc = "observe"]
  <2>1. x \in Requested /\ x.pc = "observe" /\ x.key \in Keys
    BY <1>1 DEF Requested, Pcs
  <2>2. [req EXCEPT ![t].pc = "observe"] = [req EXCEPT ![t] = x]
    OBVIOUS
  <2>3. req' = [req EXCEPT ![t] = Idle] \/ req' = [req EXCEPT ![t] = x]
    BY <2>2 DEF Allow, Refuse
  <2> HIDE DEF x
  <2> QED
    BY <2>1, <2>3, RequestOf
<1>4. /\ req' \in [Threads -> Requested]
      /\ \A u \in Threads : req'[u].pc # "idle" => req'[u].key \in Keys
      /\ req'[t] = r /\ \A u \in Threads \ {t} : req'[u] = req[u]
  BY <1>3, RequestType
<1>5. Fresh(t)'
  BY <1>3, <1>4 DEF Fresh
<1>6. /\ hits' \in [Keys -> Seq(Times)] /\ passed' \in [Keys -> Seq(Times)]
      /\ \A l \in Keys : Len(hits'[l]) <= Limit
  <2>1. CASE Allow(t)
    <3>1. /\ Append(q, req[t].now) \in Seq(Times) /\ Append(passed[k], clock) \in Seq(Times)
          /\ Len(Append(q, req[t].now)) = Len(q) + 1
      BY <1>1, <1>2, AppendProperties
    <3>2. Len(q) < Limit
      BY <1>1, <1>2, <2>1 DEF Allow, Full, q
    <3>3. /\ hits' = [hits EXCEPT ![k] = Append(q, req[t].now)]
          /\ passed' = [passed EXCEPT ![k] = Append(@, clock)]
      BY <2>1 DEF Allow, q
    <3> QED
      BY <1>1, <1>2, <3>1, <3>2, <3>3 DEF TypeOK
  <2>2. CASE Refuse(t)
    <3>1. hits' = [hits EXCEPT ![k] = q] /\ passed' = passed
      BY <2>2 DEF Refuse, q
    <3> QED
      BY <1>1, <1>2, <3>1 DEF TypeOK
  <2> QED
    BY <2>1, <2>2
<1>7. UNCHANGED <<analysed, escalated, anomalies, clock, requests, recorded>>
  BY DEF Allow, Refuse
<1>8. TypeOK'
  BY <1>4, <1>6, <1>7 DEF TypeOK, Requested
<1> QED
  BY <1>4, <1>5, <1>7, <1>8, WaitingMove

(* The records grow by one, the anomalies with them.                       *)
LEMMA TimesOfAppend ==
    ASSUME NEW r \in Seq(Records), NEW x \in Records
    PROVE  /\ TimesOf(r) \in Seq(Times)
           /\ TimesOf(Append(r, x)) = Append(TimesOf(r), x.now)
<1>1. /\ Len(r) \in Nat /\ DOMAIN r = 1..Len(r) /\ \A i \in 1..Len(r) : r[i] \in Records
      /\ Append(r, x) \in Seq(Records) /\ Len(Append(r, x)) = Len(r) + 1
      /\ DOMAIN Append(r, x) = 1..(Len(r) + 1)
      /\ Append(r, x)[Len(r) + 1] = x
      /\ \A i \in 1..Len(r) : Append(r, x)[i] = r[i]
  BY LenProperties, ElementOfSeq, AppendProperties
<1>2. TimesOf(r) \in Seq(Times) /\ Len(TimesOf(r)) = Len(r)
  <2>1. TimesOf(r) \in [1..Len(r) -> Times]
    BY <1>1 DEF TimesOf, Records
  <2>2. TimesOf(r) \in Seq(Times)
    BY <1>1, <2>1, SeqDef
  <2> QED
    BY <1>1, <2>1, <2>2, LenProperties
<1> DEFINE s == Append(r, x)
           a == TimesOf(s)
           b == Append(TimesOf(r), x.now)
<1>3. /\ a \in Seq(Times) /\ Len(a) = Len(r) + 1
      /\ \A i \in 1..Len(r) : a[i] = r[i].now
      /\ a[Len(r) + 1] = x.now
  <2>1. s \in Seq(Records) /\ DOMAIN s = 1..(Len(r) + 1) /\ \A i \in 1..(Len(r) + 1) : s[i] \in Records
    BY <1>1
  <2> HIDE DEF s
  <2>2. a \in [1..(Len(r) + 1) -> Times]
    BY <2>1 DEF TimesOf, Records
  <2>3. a \in Seq(Times) /\ Len(a) = Len(r) + 1
    BY <1>1, <2>2, SeqDef, LenProperties
  <2>4. \A i \in 1..(Len(r) + 1) : a[i] = s[i].now
    BY <2>1 DEF TimesOf
  <2> QED
    BY <1>1, <2>3, <2>4 DEF s
<1>4. /\ b \in Seq(Times) /\ Len(b) = Len(r) + 1
      /\ \A i \in 1..Len(r) : b[i] = TimesOf(r)[i] /\ TimesOf(r)[i] = r[i].now
      /\ b[Len(r) + 1] = x.now
  <2>1. x.now \in Times
    BY DEF Records
  <2>2. /\ b \in Seq(Times) /\ Len(b) = Len(r) + 1
        /\ \A i \in 1..Len(r) : b[i] = TimesOf(r)[i]
        /\ b[Len(r) + 1] = x.now
    BY <1>2, <2>1, AppendProperties
  <2>3. \A i \in 1..Len(r) : TimesOf(r)[i] = r[i].now
    BY <1>1 DEF TimesOf
  <2> QED
    BY <2>2, <2>3
<1> HIDE DEF a, b
<1>5. \A i \in 1..Len(a) : a[i] = b[i]
  BY <1>1, <1>3, <1>4
<1>6. a = b
  BY <1>3, <1>4, <1>5, SeqEqual
<1> QED
  BY <1>2, <1>6 DEF a, b, s

LEMMA AnomaliesAppend ==
    ASSUME NEW r \in Seq(Records), NEW x \in Records
    PROVE  Cardinality({i \in DOMAIN Append(r, x) : Append(r, x)[i].anomaly})
             = Cardinality({i \in DOMAIN r : r[i].anomaly}) + (IF x.anomaly THEN 1 ELSE 0)
<1> DEFINE I == {i \in DOMAIN r : r[i].anomaly}
           s == Append(r, x)
           J == {i \in DOMAIN s : s[i].anomaly}
           n == Len(r) + 1
<1>1. /\ Len(r) \in Nat /\ DOMAIN r = 1..Len(r)
      /\ DOMAIN s = 1..n /\ s[n] = x
      /\ \A i \in 1..Len(r) : s[i] = r[i]
  BY LenProperties, AppendProperties
<1>2. IsFiniteSet(I) /\ Cardinality(I) \in Nat
  <2>1. I \subseteq 1..Len(r) /\ IsFiniteSet(1..Len(r))
    BY <1>1, FS_Interval
  <2> HIDE DEF I
  <2> QED
    BY <2>1, FS_Subset, FS_CardinalityType
<1> HIDE DEF s
<1>3. n \notin I
  BY <1>1
<1>4. x.anomaly => J = I \cup {n}
  BY <1>1
<1>5. ~x.anomaly => J = I
  BY <1>1
<1> HIDE DEF I, J, n
<1>6. Cardinality(I \cup {n}) = Cardinality(I) + 1
  BY <1>2, <1>3, FS_AddElement
<1>7. Cardinality(J) = Cardinality(I) + (IF x.anomaly THEN 1 ELSE 0)
  <2>1. CASE x.anomaly
    BY <1>4, <1>6, <2>1
  <2>2. CASE ~x.anomaly
    BY <1>2, <1>5, <2>2
  <2> QED
    BY <2>1, <2>2
<1> QED
  BY <1>7 DEF I, J, s

(* A span is recorded: what the deques and the records become.             *)
LEMMA RecordStep ==
    ASSUME TypeOK, Waiting, NEW t \in Threads, NEW esc \in BOOLEAN, Record(t, esc)
    PROVE  /\ TypeOK' /\ Waiting'
           /\ TimesOf(recorded)' = Append(TimesOf(recorded), req[t].now)
<1> DEFINE now == req[t].now
           a == Append(analysed, now)
           e == IF esc THEN Append(escalated, now) ELSE escalated
           x == [now |-> now, esc |-> esc, anomaly |-> Anomaly(analysed', escalated')]
<1>1. /\ now \in Times /\ now \in Nat /\ Horizon \in Nat /\ clock \in Nat
      /\ analysed \in Seq(Times) /\ escalated \in Seq(Times) /\ recorded \in Seq(Records)
  BY RequestOf, TimeAssumption DEF TypeOK
<1>2. a \in Seq(Times) /\ e \in Seq(Times)
  BY <1>1, AppendProperties
<1>3. /\ analysed' = Evict(a, now - Horizon) /\ escalated' = Evict(e, now - Horizon)
      /\ anomalies' = anomalies + (IF x.anomaly THEN 1 ELSE 0)
      /\ recorded' = Append(recorded, x)
      /\ req' = [req EXCEPT ![t] = Idle]
      /\ UNCHANGED <<hits, clock, requests, passed>>
  BY DEF Record
<1>4. x \in Records /\ x.now = now
  BY <1>1 DEF Records, Anomaly
<1> HIDE DEF a, e, x
<1>5. analysed' \in Seq(Times) /\ escalated' \in Seq(Times)
  BY <1>1, <1>2, <1>3, EvictType
<1>6. recorded' \in Seq(Records)
  BY <1>1, <1>3, <1>4, AppendProperties
<1>7. anomalies' = Cardinality({i \in DOMAIN recorded' : recorded'[i].anomaly})
  <2>1. anomalies = Cardinality({i \in DOMAIN recorded : recorded[i].anomaly})
    BY DEF TypeOK
  <2> QED
    BY <1>1, <1>3, <1>4, <2>1, AnomaliesAppend
<1>8. /\ req' \in [Threads -> Requested]
      /\ \A u \in Threads : req'[u].pc # "idle" => req'[u].key \in Keys
      /\ req'[t] = Idle /\ \A u \in Threads \ {t} : req'[u] = req[u]
  BY <1>3, RequestOf, RequestType
<1>9. TypeOK'
  BY <1>3, <1>5, <1>6, <1>7, <1>8 DEF TypeOK, Requested
<1>10. Fresh(t)'
  BY <1>8 DEF Fresh, Idle
<1>11. TimesOf(recorded)' = TimesOf(recorded')
  BY DEF TimesOf
<1> QED
  BY <1>1, <1>3, <1>4, <1>8, <1>9, <1>10, <1>11, WaitingMove, TimesOfAppend

LEMMA SnapshotStep ==
    ASSUME TypeOK, Waiting, Snapshot
    PROVE  TypeOK' /\ Waiting'
<1>1. PICK now \in {n \in 0..clock : n >= clock - Lag} :
         /\ analysed' = Evict(analysed, now - Horizon)
         /\ escalated' = Evict(escalated, now - Horizon)
  BY DEF Snapshot
<1>2. now \in Nat /\ Horizon \in Nat /\ analysed \in Seq(Times) /\ escalated \in Seq(Times)
  BY TimeAssumption DEF TypeOK
<1>3. analysed' \in Seq(Times) /\ escalated' \in Seq(Times)
  BY <1>1, <1>2, EvictType
<1>4. UNCHANGED <<hits, anomalies, req, clock, requests, passed, recorded>>
  BY DEF Snapshot
<1> QED
  BY <1>3, <1>4 DEF TypeOK, Waiting, Fresh

LEMMA TickStep ==
    ASSUME TypeOK, Waiting, Tick
    PROVE  TypeOK' /\ Waiting'
<1>1. clock \in Nat /\ MaxClock \in Nat /\ Lag \in Nat
  BY TimesType, TimeAssumption DEF TypeOK
<1>2. /\ clock < MaxClock /\ clock' = clock + 1
      /\ \A t \in Threads : req[t].pc \in {"allow", "record"} => clock < req[t].now + Lag
      /\ UNCHANGED <<hits, analysed, escalated, anomalies, req, requests, passed, recorded>>
  BY DEF Tick
<1>3. clock' \in Times
  BY <1>1, <1>2 DEF Times
<1>4. TypeOK'
  BY <1>2, <1>3 DEF TypeOK
<1>5. ASSUME NEW t \in Threads PROVE Fresh(t)'
  <2>1. req[t].now \in Nat
    BY RequestOf
  <2>2. Fresh(t)
    BY DEF Waiting
  <2> QED
    BY <1>1, <1>2, <2>1, <2>2 DEF Fresh
<1> QED
  BY <1>4, <1>5 DEF Waiting

LEMMA TypeStep == TypeOK /\ Waiting /\ [Next]_vars => TypeOK' /\ Waiting'
<1> SUFFICES ASSUME TypeOK, Waiting, [Next]_vars PROVE TypeOK' /\ Waiting'
  OBVIOUS
<1>1. CASE UNCHANGED vars
  BY <1>1 DEF vars, TypeOK, Waiting, Fresh
<1>2. ASSUME NEW t \in Threads, (\E k \in Keys : Arrive(t, k)) \/ Stamp(t)
      PROVE  TypeOK' /\ Waiting'
  BY <1>2, RequestStep
<1>3. ASSUME NEW t \in Threads, Allow(t) \/ Refuse(t) PROVE TypeOK' /\ Waiting'
  BY <1>3, LimiterStep
<1>4. ASSUME NEW t \in Threads, NEW esc \in BOOLEAN, Record(t, esc) PROVE TypeOK' /\ Waiting'
  BY <1>4, RecordStep
<1>5. CASE Snapshot
  BY <1>5, SnapshotStep
<1>6. CASE Tick
  BY <1>6, TickStep
<1> QED
  BY <1>1, <1>2, <1>3, <1>4, <1>5, <1>6 DEF Next

-----------------------------------------------------------------------------
(* The limiter.                                                            *)
LEMMA LimiterInit == Init => LimiterInv
<1> SUFFICES ASSUME Init, NEW k \in Keys PROVE Trails(hits[k], passed[k], clock)
  BY DEF LimiterInv
<1>1. hits[k] = << >> /\ passed[k] = << >> /\ Len(<< >>) = 0 /\ Limit \in Nat
  BY LimitAssumption DEF Init
<1> QED
  BY <1>1 DEF Trails

LEMMA LimiterInvStep == TypeOK /\ Waiting /\ LimiterInv /\ [Next]_vars => LimiterInv'
<1> SUFFICES ASSUME TypeOK, Waiting, LimiterInv, [Next]_vars, NEW l \in Keys
             PROVE  Trails(hits[l], passed[l], clock)'
  BY DEF LimiterInv
<1>1. /\ hits[l] \in Seq(Times) /\ passed[l] \in Seq(Times) /\ clock \in Times /\ clock \in Nat
      /\ Trails(hits[l], passed[l], clock)
  BY TimesType DEF TypeOK, LimiterInv
<1>2. CASE hits' = hits /\ passed' = passed /\ clock' = clock
  BY <1>1, <1>2 DEF Trails
<1>3. ASSUME NEW t \in Threads, Allow(t) \/ Refuse(t) PROVE Trails(hits[l], passed[l], clock)'
  <2> DEFINE k == req[t].key
             now == req[t].now
             q == Evict(hits[k], now - Window)
  <2>1. k \in Keys /\ now \in Nat /\ now \in Times
    BY <1>3, RequestOf DEF Allow, Refuse
  <2>2. /\ now <= clock /\ clock <= now + Lag /\ clock' = clock
        /\ hits \in [Keys -> Seq(Times)] /\ passed \in [Keys -> Seq(Times)]
    BY <1>3 DEF Allow, Refuse, Waiting, Fresh, TypeOK
  <2>3. CASE l # k
    <3>1. hits'[l] = hits[l] /\ passed'[l] = passed[l]
      BY <1>3, <2>2, <2>3 DEF Allow, Refuse
    <3> QED
      BY <1>1, <2>2, <3>1 DEF Trails
  <2>4. CASE l = k
    <3>1. Trails(q, passed[l], clock) /\ q \in Seq(Times) /\ Len(q) \in Nat /\ Limit \in Nat
      BY <1>1, <2>1, <2>2, <2>4, TrailsEvict, TimesSeq, LimitAssumption
    <3>2. CASE Allow(t)
      <4>1. ~Full(q) /\ hits'[l] = Append(q, now) /\ passed'[l] = Append(passed[l], clock)
        BY <2>1, <2>2, <2>4, <3>2 DEF Allow
      <4> HIDE DEF q
      <4>2. Len(q) < Limit
        BY <3>1, <4>1 DEF Full
      <4>3. Trails(Append(q, now), Append(passed[l], clock), clock)
        BY <1>1, <2>1, <2>2, <3>1, <4>2, TrailsAppend
      <4> QED
        BY <2>2, <4>1, <4>3 DEF Trails
    <3>3. CASE Refuse(t)
      <4>1. hits'[l] = q /\ passed'[l] = passed[l]
        BY <2>1, <2>2, <2>4, <3>3 DEF Refuse
      <4> HIDE DEF q
      <4> QED
        BY <2>2, <3>1, <4>1 DEF Trails
    <3> QED
      BY <1>3, <3>2, <3>3
  <2> QED
    BY <2>3, <2>4
<1>4. CASE Tick
  <2>1. hits' = hits /\ passed' = passed /\ clock' = clock + 1
    BY <1>4 DEF Tick
  <2>2. Trails(hits[l], passed[l], clock + 1)
    BY <1>1, TrailsTick
  <2> QED
    BY <2>1, <2>2 DEF Trails
<1>5. ASSUME NEW t \in Threads, (\E k \in Keys : Arrive(t, k)) \/ Stamp(t)
      PROVE  hits' = hits /\ passed' = passed /\ clock' = clock
  BY <1>5 DEF Arrive, Stamp
<1>6. ASSUME NEW t \in Threads, NEW esc \in BOOLEAN, Record(t, esc)
      PROVE  hits' = hits /\ passed' = passed /\ clock' = clock
  BY <1>6 DEF Record
<1>7. Snapshot \/ UNCHANGED vars => hits' = hits /\ passed' = passed /\ clock' = clock
  BY DEF Snapshot, vars
<1> QED
  BY <1>2, <1>3, <1>4, <1>5, <1>6, <1>7 DEF Next

(* What is let through within the window has an entry in the deque, which  *)
(* is never longer than the limit.                                         *)
LEMMA TrailsLimit == TypeOK /\ LimiterInv => LimitHolds
<1> SUFFICES ASSUME TypeOK, LimiterInv, NEW k \in Keys
             PROVE  Since(passed[k], clock - (Window - Lag)) <= Limit
  BY DEF LimitHolds
<1> DEFINE h == hits[k]
           p == passed[k]
           x == clock - (Window - Lag)
<1>1. /\ h \in Seq(Times) /\ p \in Seq(Times) /\ Trails(h, p, clock)
      /\ clock \in Nat /\ Window \in Nat /\ Lag \in Nat /\ Limit \in Nat
  BY TimesType, TimeAssumption, LimitAssumption DEF TypeOK, LimiterInv
<1> HIDE DEF h, p
<1>2. Len(h) \in Nat /\ Len(p) \in Nat /\ \A i \in 1..Len(p) : p[i] \in Nat
  BY <1>1, TimesSeq
<1>3. /\ Len(h) <= Len(p) /\ Len(h) <= Limit
      /\ \A i \in 1..(Len(p) - Len(h)) : p[i] < clock - Window + Lag
  BY <1>1, <1>2 DEF Trails
<1>4. x \in Int /\ x = clock - Window + Lag
  BY <1>1
<1> HIDE DEF x
<1>5. Since(p, x) <= Len(h)
  BY <1>1, <1>2, <1>3, <1>4, SinceAtMost
<1>6. Since(p, x) \in Nat
  BY <1>1, SinceType
<1>7. Since(p, x) <= Limit
  BY <1>1, <1>2, <1>3, <1>5, <1>6
<1> QED
  BY <1>7 DEF p, x

LEMMA RefuseFull ==
    ASSUME TypeOK, Waiting, LimiterInv, NEW t \in Threads, Refuse(t)
    PROVE  Since(passed[req[t].key], clock - Window - Lag) >= Limit
<1> DEFINE k == req[t].key
           now == req[t].now
           h == hits[k]
           p == passed[k]
           q == Evict(h, now - Window)
           x == clock - Window - Lag
           first == Len(p) - Len(q) + 1
<1>1. /\ k \in Keys /\ now \in Nat /\ now <= clock /\ clock <= now + Lag
      /\ clock \in Nat /\ Window \in Nat /\ Lag \in Nat /\ Limit \in Nat \ {0}
  BY RequestOf, TimeAssumption, LimitAssumption DEF Refuse, Waiting, Fresh
<1>2. h \in Seq(Times) /\ p \in Seq(Times) /\ Trails(h, p, clock)
  BY <1>1 DEF TypeOK, LimiterInv
<1>3. Full(q)
  BY DEF Refuse
<1> HIDE DEF h, p, now
<1>4. now - Window \in Int
  BY <1>1
<1>5. PICK d \in 0..Len(h) : Left(h, q, d, now - Window)
  BY <1>2, <1>4, EvictLeaves
<1>6. Trails(q, p, clock) /\ q \in Seq(Times)
  BY <1>1, <1>2, TrailsEvict
<1> HIDE DEF q, x
<1>7. /\ Len(q) \in Nat /\ Len(p) \in Nat /\ Len(h) \in Nat /\ Len(q) >= Limit /\ Len(q) >= 1
      /\ \A i \in 1..Len(q) : q[i] \in Nat
      /\ \A i \in 1..Len(p) : p[i] \in Nat
  <2>1. Len(q) \in Nat /\ Len(q) >= Limit
    BY <1>3, <1>6, TimesSeq DEF Full
  <2> QED
    BY <1>1, <1>2, <1>6, <2>1, TimesSeq
<1>8. q[1] >= now - Window
  <2>1. d < Len(h) /\ q[1] = h[d + 1]
    BY <1>5, <1>7 DEF Left
  <2> QED
    BY <1>5, <2>1 DEF Left
<1>9. Len(p) >= Len(q) /\ first \in 1..Len(p) /\ p[first] >= q[1]
  <2>1. Len(p) - Len(q) >= 0
    BY <1>6 DEF Trails
  <2>2. q[1] <= p[(Len(p) - Len(q)) + 1]
    BY <1>6, <1>7 DEF Trails
  <2>3. Len(p) >= Len(q) /\ first \in 1..Len(p) /\ p[first] \in Nat /\ q[1] \in Nat
    BY <1>7, <2>1
  <2> QED
    BY <2>2, <2>3
<1>10. ASSUME NEW i \in first..Len(p) PROVE p[i] >= x
  <2>1. i \in 1..Len(p) /\ p[i] \in Nat /\ p[first] \in Nat /\ q[1] \in Nat /\ first <= i
    BY <1>7, <1>9
  <2>2. p[first] <= p[i]
    BY <1>6, <1>9, <2>1 DEF Trails
  <2>3. x = clock - Window - Lag
    BY DEF x
  <2> HIDE DEF first
  <2> QED
    BY <1>1, <1>8, <1>9, <2>1, <2>2, <2>3
<1>11. x \in Int
  BY <1>1 DEF x
<1>12. Since(p, x) >= Len(q)
  BY <1>2, <1>7, <1>9, <1>10, <1>11, SinceAtLeast
<1>13. Since(p, x) \in Nat
  BY <1>2, SinceType
<1>14. Since(p, x) >= Limit
  BY <1>1, <1>7, <1>12, <1>13
<1> QED
  BY <1>14 DEF p, x

(* RollingWindows' limiter lets no more than Limit requests of a key       *)
(* through in a Window less the Lag, for any number of threads.            *)
LEMMA LimiterSafe == Spec => [](TypeOK /\ Waiting /\ LimiterInv)
<1>1. Init => TypeOK /\ Waiting /\ LimiterInv
  BY TypeInit, LimiterInit
<1>2. TypeOK /\ Waiting /\ LimiterInv /\ [Next]_vars => (TypeOK /\ Waiting /\ LimiterInv)'
  BY TypeStep, LimiterInvStep
<1> QED
  BY <1>1, <1>2, PTL DEF Spec

(* The deques, the requests and the counters have their types.             *)
THEOREM RollingWindowsTypeOK == Spec => []TypeOK
BY LimiterSafe, PTL

(* security.py:158: however many threads wait between reading the clock    *)
(* and taking the lock, at most Limit requests of a key are let through    *)
(* within a Window less the Lag.                                           *)
THEOREM RollingWindowsLimit == Spec => []LimitHolds
BY LimiterSafe, TrailsLimit, PTL

(* A request is refused only when Limit requests of its key were let       *)
(* through within a Window and the Lag.                                    *)
THEOREM RollingWindowsRefusal == Spec => RefusedOnlyWhenFull
<1> DEFINE Justified == \A t \in Threads :
             Refuse(t) => Since(passed[req[t].key], clock - Window - Lag) >= Limit
<1>1. TypeOK /\ Waiting /\ LimiterInv => Justified
  BY RefuseFull
<1>2. [](TypeOK /\ Waiting /\ LimiterInv) => [][Justified]_vars
  BY <1>1, PTL
<1> QED
  BY <1>2, LimiterSafe, PTL DEF RefusedOnlyWhenFull

-----------------------------------------------------------------------------
(* The monitor.                                                            *)
LEMMA MonitorInit == Init => MonitorInv
<1> SUFFICES ASSUME Init PROVE MonitorInv
  OBVIOUS
<1>1. analysed = << >> /\ escalated = << >> /\ recorded = << >>
  BY DEF Init
<1>2. Len(analysed) = 0 /\ Len(escalated) = 0
  BY <1>1
<1>3. TimesOf(recorded) = << >>
  BY <1>1 DEF TimesOf
<1>4. Covers(analysed, TimesOf(recorded), clock)
  BY <1>1, <1>3 DEF Covers
<1>5. Embedded(escalated, analysed)
  <2> DEFINE g == [i \in 1..0 |-> 0]
  <2>1. g \in [1..Len(escalated) -> 1..Len(analysed)]
    BY <1>2
  <2>2. Rising(g, Len(escalated)) /\ \A i \in 1..Len(escalated) : escalated[i] = analysed[g[i]]
    BY <1>2 DEF Rising
  <2> QED
    BY <2>1, <2>2 DEF Embedded
<1> QED
  BY <1>4, <1>5 DEF MonitorInv

LEMMA TimesOfType ==
    ASSUME NEW r \in Seq(Records)
    PROVE  TimesOf(r) \in Seq(Times)
<1>1. Len(r) \in Nat /\ DOMAIN r = 1..Len(r) /\ \A i \in 1..Len(r) : r[i] \in Records
  BY LenProperties, ElementOfSeq
<1>2. TimesOf(r) \in [1..Len(r) -> Times]
  BY <1>1 DEF TimesOf, Records
<1> QED
  BY <1>1, <1>2, SeqDef

LEMMA MonitorTyped ==
    TypeOK => /\ analysed \in Seq(Times) /\ escalated \in Seq(Times)
              /\ TimesOf(recorded) \in Seq(Times) /\ clock \in Nat /\ Horizon \in Nat
BY TimesOfType, TimesType, TimeAssumption DEF TypeOK

LEMMA MonitorInvStep == TypeOK /\ Waiting /\ MonitorInv /\ [Next]_vars => MonitorInv'
<1> SUFFICES ASSUME TypeOK, Waiting, MonitorInv, [Next]_vars PROVE MonitorInv'
  OBVIOUS
<1> DEFINE r == TimesOf(recorded)
<1>1. /\ analysed \in Seq(Times) /\ escalated \in Seq(Times) /\ r \in Seq(Times)
      /\ clock \in Nat /\ Horizon \in Nat
  BY MonitorTyped
<1>2. Covers(analysed, r, clock) /\ Embedded(escalated, analysed)
  BY DEF MonitorInv
<1>3. CASE UNCHANGED <<analysed, escalated, recorded, clock>>
  BY <1>2, <1>3 DEF MonitorInv, Covers, Embedded, Rising, TimesOf
<1>4. ASSUME NEW t \in Threads, NEW esc \in BOOLEAN, Record(t, esc) PROVE MonitorInv'
  <2> DEFINE now == req[t].now
             a == Append(analysed, now)
             e == IF esc THEN Append(escalated, now) ELSE escalated
             s == Append(r, now)
  <2>1. now \in Times /\ now \in Nat /\ now <= clock /\ clock' = clock
    BY <1>4, RequestOf DEF Record, Waiting, Fresh
  <2>2. /\ analysed' = Evict(a, now - Horizon) /\ escalated' = Evict(e, now - Horizon)
        /\ TimesOf(recorded)' = s
    BY <1>4, RecordStep DEF Record
  <2>3. Covers(a, s, clock)
    BY <1>1, <1>2, <2>1, CoversAppend
  <2>4. Embedded(e, a)
    BY <1>1, <1>2, <2>1, EmbeddedAppend
  <2>5. a \in Seq(Times) /\ e \in Seq(Times) /\ s \in Seq(Times)
    BY <1>1, <2>1, AppendProperties
  <2>6. now - Horizon \in Int
    BY <1>1, <2>1
  <2> HIDE DEF a, e, s, now, r
  <2>7. Covers(Evict(a, now - Horizon), s, clock)
    BY <1>1, <2>1, <2>3, <2>5, CoversEvict
  <2>8. Embedded(Evict(e, now - Horizon), Evict(a, now - Horizon))
    BY <2>4, <2>5, <2>6, EmbeddedEvict
  <2> QED
    BY <2>1, <2>2, <2>7, <2>8 DEF MonitorInv, Covers, Embedded, Rising
<1>5. CASE Snapshot
  <2>1. PICK now \in {n \in 0..clock : n >= clock - Lag} :
           /\ analysed' = Evict(analysed, now - Horizon)
           /\ escalated' = Evict(escalated, now - Horizon)
    BY <1>5 DEF Snapshot
  <2>2. now \in Nat /\ now <= clock /\ now - Horizon \in Int
    BY <1>1
  <2>3. clock' = clock /\ recorded' = recorded
    BY <1>5 DEF Snapshot
  <2> HIDE DEF r
  <2>4. Covers(Evict(analysed, now - Horizon), r, clock)
    BY <1>1, <1>2, <2>2, CoversEvict
  <2>5. Embedded(Evict(escalated, now - Horizon), Evict(analysed, now - Horizon))
    BY <1>1, <1>2, <2>2, EmbeddedEvict
  <2> QED
    BY <2>1, <2>3, <2>4, <2>5 DEF MonitorInv, Covers, Embedded, Rising, r, TimesOf
<1>6. CASE Tick
  <2>1. clock' = clock + 1 /\ UNCHANGED <<analysed, escalated, recorded>>
    BY <1>6 DEF Tick
  <2> HIDE DEF r
  <2>2. Covers(analysed, r, clock + 1)
    BY <1>1, <1>2, CoversTick
  <2> QED
    BY <1>2, <2>1, <2>2 DEF MonitorInv, Covers, Embedded, Rising, r, TimesOf
<1>7. ASSUME NEW t \in Threads,
             (\E k \in Keys : Arrive(t, k)) \/ Stamp(t) \/ Allow(t) \/ Refuse(t)
      PROVE  UNCHANGED <<analysed, escalated, recorded, clock>>
  BY <1>7 DEF Arrive, Stamp, Allow, Refuse
<1>8. UNCHANGED vars => UNCHANGED <<analysed, escalated, recorded, clock>>
  BY DEF vars
<1> QED
  BY <1>3, <1>4, <1>5, <1>6, <1>7, <1>8 DEF Next

LEMMA MonitorCovered == TypeOK /\ MonitorInv => MonitorCovers
<1> SUFFICES ASSUME TypeOK, MonitorInv PROVE MonitorCovers
  OBVIOUS
<1> DEFINE r == TimesOf(recorded)
<1>1. /\ analysed \in Seq(Times) /\ escalated \in Seq(Times) /\ r \in Seq(Times)
      /\ clock \in Nat /\ Horizon \in Nat
  BY MonitorTyped
<1>2. Covers(analysed, r, clock) /\ Embedded(escalated, analysed)
  BY DEF MonitorInv
<1>3. r = [i \in DOMAIN recorded |-> recorded[i].now]
  BY DEF TimesOf
<1> HIDE DEF r
<1>4. \A x : Count(escalated, x) <= Count(analysed, x)
  BY <1>1, <1>2, EmbeddedCount
<1>5. Since(analysed, clock - Horizon) = Since(r, clock - Horizon)
  BY <1>1, <1>2, CoversSince
<1> QED
  BY <1>3, <1>4, <1>5 DEF MonitorCovers

(* escalation.py:44: although the deques need not be sorted, a time counts *)
(* as escalated no more often than as analysed, and every span recorded    *)
(* within the Horizon is counted, for any number of threads.               *)
THEOREM RollingWindowsCovered == Spec => []MonitorCovers
<1>1. Init => TypeOK /\ Waiting /\ MonitorInv
  BY TypeInit, MonitorInit
<1>2. TypeOK /\ Waiting /\ MonitorInv /\ [Next]_vars => (TypeOK /\ Waiting /\ MonitorInv)'
  BY TypeStep, MonitorInvStep
<1> QED
  BY <1>1, <1>2, MonitorCovered, PTL DEF Spec
=============================================================================
