----------------------- MODULE ContextInfluenceProofs -----------------------
(***************************************************************************)
(* The context/answer influence map, for any prompts, limits, floor and    *)
(* sizes of deltas.                                                        *)
(*                                                                         *)
(* A text is cut up (CutsUp): by induction on what is left of a sentence   *)
(* (ChunksCut), sentence after sentence (TextCut), and then in groups      *)
(* (GroupedCuts), every visible character lands in one range, in order,    *)
(* and no range cuts a word.  So the coarse spans measure the selected     *)
(* sources, within their bound, which the spans given out keep (SlotsAre). *)
(* MapInv says that this stays so while parts are added, that each step    *)
(* asks for the score it reports, and that the queue holds, in order of    *)
(* strength, whatever is still to be refined.                              *)
(***************************************************************************)
EXTENDS ContextInfluence, DataLemmas, TLAPS

-----------------------------------------------------------------------------
(* The order of a set *)

\* InOrder lists the set, each element once and after those that come before it.
LEMMA InOrderLists ==
    ASSUME NEW S, IsFiniteSet(S), NEW before, TotalOrder(S, before)
    PROVE  /\ InOrder(S, before) \in Seq(S) /\ Len(InOrder(S, before)) = Cardinality(S)
           /\ \A x \in S : \E k \in 1..Cardinality(S) : InOrder(S, before)[k] = x
           /\ \A k, l \in 1..Cardinality(S) :
                 k < l => <<InOrder(S, before)[k], InOrder(S, before)[l]>> \in before
<1> DEFINE Rank == RankIn(S, before)
           n == Cardinality(S)
           q == InOrder(S, before)
<1>1. n \in Nat
  BY FS_CardinalityType
<1>2. q = [k \in 1..n |-> CHOOSE i \in S : Cardinality({j \in S : <<j, i>> \in before}) = k - 1]
  BY DEF InOrder
<1>a. \A i \in S : Rank[i] = Cardinality({j \in S : <<j, i>> \in before})
  BY DEF RankIn
<1> HIDE DEF Rank, n, q
<1>3. /\ Rank \in [S -> 0..(n - 1)]
      /\ \A i, j \in S : <<i, j>> \in before => Rank[i] < Rank[j]
      /\ \A i, j \in S : Rank[i] = Rank[j] => i = j
      /\ \A k \in 0..(n - 1) : \E i \in S : Rank[i] = k
  BY Ranks DEF Ranking, Rank, n
<1>4. ASSUME NEW k \in 1..n PROVE q[k] \in S /\ Rank[q[k]] = k - 1
  <2>1. k - 1 \in 0..(n - 1)
    BY <1>1
  <2>2. \E i \in S : Cardinality({j \in S : <<j, i>> \in before}) = k - 1
    BY <1>3, <1>a, <2>1
  <2>3. q[k] = CHOOSE i \in S : Cardinality({j \in S : <<j, i>> \in before}) = k - 1
    BY <1>2
  <2>4. q[k] \in S /\ Cardinality({j \in S : <<j, q[k]>> \in before}) = k - 1
    BY <2>2, <2>3
  <2> QED BY <1>a, <2>4
<1>5. q \in Seq(S) /\ Len(q) = n
  <2>1. q \in [1..n -> S]
    BY <1>2, <1>4
  <2> QED BY <1>1, <2>1
<1>6. ASSUME NEW x \in S PROVE \E k \in 1..n : q[k] = x
  <2> DEFINE k == Rank[x] + 1
  <2>1. k \in 1..n /\ k - 1 = Rank[x]
    BY <1>1, <1>3
  <2> HIDE DEF k
  <2>2. q[k] \in S /\ Rank[q[k]] = Rank[x]
    BY <1>4, <2>1
  <2>3. q[k] = x
    BY <1>3, <2>2
  <2> QED BY <2>1, <2>3
<1>7. ASSUME NEW k \in 1..n, NEW l \in 1..n, k < l PROVE <<q[k], q[l]>> \in before
  <2>1. /\ q[k] \in S /\ q[l] \in S /\ Rank[q[k]] < Rank[q[l]]
        /\ Rank[q[k]] \in Int /\ Rank[q[l]] \in Int
    BY <1>1, <1>4, <1>7
  <2>2. q[k] # q[l] /\ ~(<<q[l], q[k]>> \in before)
    <3>1. <<q[l], q[k]>> \in before => Rank[q[l]] < Rank[q[k]]
      BY <1>3, <2>1
    <3> QED BY <2>1, <3>1
  <2> QED BY <2>1, <2>2 DEF TotalOrder
<1> QED
  BY <1>5, <1>6, <1>7 DEF n, q

\* Ascending lists a finite set of numbers from the least to the greatest.
LEMMA AscendingLists ==
    ASSUME NEW S \in SUBSET Int, IsFiniteSet(S)
    PROVE  /\ Ascending(S) \in Seq(S) /\ Len(Ascending(S)) = Cardinality(S)
           /\ \A x \in S : \E k \in 1..Cardinality(S) : Ascending(S)[k] = x
           /\ \A k, l \in 1..Cardinality(S) : k < l => Ascending(S)[k] < Ascending(S)[l]
<1> DEFINE before == {p \in S \X S : p[1] < p[2]}
<1>1. \A i, j : <<i, j>> \in before <=> i \in S /\ j \in S /\ i < j
  OBVIOUS
<1> HIDE DEF before
<1>2. TotalOrder(S, before)
  BY <1>1 DEF TotalOrder
<1>3. Ascending(S) = InOrder(S, before)
  BY DEF Ascending, before
<1> DEFINE q == Ascending(S)
<1> HIDE DEF q
<1>4. /\ q \in Seq(S) /\ Len(q) = Cardinality(S)
      /\ \A x \in S : \E k \in 1..Cardinality(S) : q[k] = x
      /\ \A k, l \in 1..Cardinality(S) : k < l => <<q[k], q[l]>> \in before
  BY <1>2, <1>3, InOrderLists DEF q
<1>5. \A k, l \in 1..Cardinality(S) : k < l => q[k] < q[l]
  BY <1>1, <1>4
<1> QED
  BY <1>4, <1>5 DEF q

-----------------------------------------------------------------------------
(* Cutting a text *)

StartsWord(text, at) == at = 0 \/ IsSpace(text, at - 1)
EndsWord(text, at) == at = Len(text) \/ IsSpace(text, at)

RangeFits(text, x, a, b) ==
    /\ a <= x[1] /\ x[1] < x[2] /\ x[2] <= b
    /\ ~IsSpace(text, x[1]) /\ ~IsSpace(text, x[2] - 1)
    /\ StartsWord(text, x[1]) /\ EndsWord(text, x[2])

\* The ranges q cut up the text from offset a to offset b: they follow one
\* another, hold all that is visible, and begin and end with something visible,
\* at the start and the end of a word.
CutsUp(text, q, a, b) ==
    /\ q \in Seq(Nat \X Nat)
    /\ \A i \in DOMAIN q : RangeFits(text, q[i], a, b)
    /\ \A i, j \in DOMAIN q : i < j => q[i][2] <= q[j][1]
    /\ \A at \in a..(b - 1) : ~IsSpace(text, at) =>
          \E i \in DOMAIN q : q[i][1] <= at /\ at < q[i][2]

\* White space is cut into no range.
LEMMA CutNothing ==
    ASSUME NEW text, NEW a \in Nat, NEW b \in Nat, a <= b,
           \A at \in a..(b - 1) : IsSpace(text, at)
    PROVE  CutsUp(text, <<>>, a, b)
BY EmptySeq DEF CutsUp

\* A stretch that begins and ends with whole words may stay in one range.
LEMMA CutOne ==
    ASSUME NEW text, NEW a \in Nat, NEW b \in Nat, a < b,
           ~IsSpace(text, a), ~IsSpace(text, b - 1), StartsWord(text, a), EndsWord(text, b)
    PROVE  CutsUp(text, << <<a, b>> >>, a, b)
<1> DEFINE q == << <<a, b>> >>
<1>1. q \in Seq(Nat \X Nat) /\ DOMAIN q = {1} /\ q[1][1] = a /\ q[1][2] = b
  OBVIOUS
<1> HIDE DEF q
<1>2. \A at \in a..(b - 1) : a <= at /\ at < b
  OBVIOUS
<1>3. CutsUp(text, q, a, b)
  BY <1>1, <1>2 DEF CutsUp, RangeFits
<1> QED
  BY <1>3 DEF q

\* A range within a stretch is within a wider one.
LEMMA FitsWider ==
    ASSUME NEW text, NEW a \in Nat, NEW b \in Nat, NEW c \in Nat, NEW d \in Nat,
           c <= a, b <= d, NEW x \in Nat \X Nat, RangeFits(text, x, a, b)
    PROVE  RangeFits(text, x, c, d)
<1>1. x[1] \in Nat /\ x[2] \in Nat /\ a <= x[1] /\ x[2] <= b
  BY DEF RangeFits
<1>2. c <= x[1] /\ x[2] <= d
  BY <1>1
<1> QED
  BY <1>2 DEF RangeFits

\* White space around a stretch changes nothing about how it is cut.
LEMMA CutWider ==
    ASSUME NEW text, NEW a \in Nat, NEW b \in Nat, NEW c \in Nat, NEW d \in Nat,
           c <= a, a <= b, b <= d, NEW q, CutsUp(text, q, a, b),
           \A at \in c..(a - 1) : IsSpace(text, at),
           \A at \in b..(d - 1) : IsSpace(text, at)
    PROVE  CutsUp(text, q, c, d)
<1>1. ASSUME NEW i \in DOMAIN q PROVE RangeFits(text, q[i], c, d)
  <2>1. q[i] \in Nat \X Nat /\ RangeFits(text, q[i], a, b)
    BY DEF CutsUp
  <2> QED BY <2>1, FitsWider
<1>2. ASSUME NEW at \in c..(d - 1), ~IsSpace(text, at) PROVE at \in a..(b - 1)
  <2>1. ~(at \in c..(a - 1)) /\ ~(at \in b..(d - 1))
    BY <1>2
  <2> QED BY <2>1
<1> QED
  BY <1>1, <1>2 DEF CutsUp

\* Two neighbouring stretches, each cut into ranges, are cut by both together.
LEMMA CutConcat ==
    ASSUME NEW text, NEW a \in Nat, NEW b \in Nat, NEW c \in Nat, a <= b, b <= c,
           NEW q, NEW r, CutsUp(text, q, a, b), CutsUp(text, r, b, c)
    PROVE  CutsUp(text, q \o r, a, c)
<1> DEFINE s == q \o r
           n == Len(q)
           k == Len(r)
<1>1. /\ q \in Seq(Nat \X Nat) /\ r \in Seq(Nat \X Nat) /\ n \in Nat /\ k \in Nat
      /\ DOMAIN q = 1..n /\ DOMAIN r = 1..k
  BY DEF CutsUp
<1>2. s \in Seq(Nat \X Nat) /\ Len(s) = n + k
  BY <1>1, ConcatProperties
<1>3. DOMAIN s = 1..(n + k)
  BY <1>1, <1>2
<1>4. \A i \in 1..n : i \in 1..(n + k) /\ s[i] = q[i]
  BY <1>1
<1>5. \A i \in 1..k : n + i \in 1..(n + k) /\ s[n + i] = r[i]
  BY <1>1
<1>6. ASSUME NEW i \in 1..(n + k), i \notin 1..n
      PROVE  i > n /\ i - n \in 1..k /\ s[i] = r[i - n]
  BY <1>1, <1>6
<1> HIDE DEF s, n, k
<1>7. \A i \in 1..n : s[i] \in Nat \X Nat /\ RangeFits(text, s[i], a, b)
  <2>1. \A i \in 1..n : q[i] \in Nat \X Nat
    BY <1>1
  <2>2. \A i \in 1..n : RangeFits(text, q[i], a, b)
    BY <1>1 DEF CutsUp
  <2> QED BY <1>4, <2>1, <2>2
<1>8. ASSUME NEW i \in 1..(n + k), i \notin 1..n
      PROVE  s[i] \in Nat \X Nat /\ RangeFits(text, s[i], b, c)
  <2>1. i - n \in 1..k /\ s[i] = r[i - n]
    BY <1>6, <1>8
  <2>2. \A l \in 1..k : r[l] \in Nat \X Nat
    BY <1>1
  <2>3. \A l \in 1..k : RangeFits(text, r[l], b, c)
    BY <1>1 DEF CutsUp
  <2> QED BY <2>1, <2>2, <2>3
<1>9. ASSUME NEW i \in 1..(n + k) PROVE RangeFits(text, s[i], a, c)
  <2>1. CASE i \in 1..n
    BY <1>7, <2>1, FitsWider
  <2>2. CASE i \notin 1..n
    BY <1>8, <2>2, FitsWider
  <2> QED BY <2>1, <2>2
<1>10. ASSUME NEW i \in 1..(n + k), NEW j \in 1..(n + k), i < j PROVE s[i][2] <= s[j][1]
  <2>1. CASE j \in 1..n
    <3>1. i \in 1..n
      BY <1>1, <1>10, <2>1
    <3>2. s[i] = q[i] /\ s[j] = q[j]
      BY <1>4, <2>1, <3>1
    <3> QED BY <1>1, <1>10, <2>1, <3>1, <3>2 DEF CutsUp
  <2>2. CASE i \in 1..n /\ j \notin 1..n
    <3>1. /\ s[i][2] <= b /\ b <= s[j][1] /\ s[i][2] \in Nat /\ s[j][1] \in Nat
      BY <1>7, <1>8, <2>2 DEF RangeFits
    <3> QED BY <3>1
  <2>3. CASE i \notin 1..n
    <3>1. j \notin 1..n
      BY <1>1, <1>10, <2>3
    <3>2. i - n \in 1..k /\ s[i] = r[i - n] /\ j - n \in 1..k /\ s[j] = r[j - n]
      BY <1>6, <2>3, <3>1
    <3>3. i - n < j - n
      BY <1>1, <1>10
    <3> QED BY <1>1, <3>2, <3>3 DEF CutsUp
  <2> QED BY <2>1, <2>2, <2>3
<1>11. ASSUME NEW at \in a..(c - 1), ~IsSpace(text, at)
      PROVE  \E i \in 1..(n + k) : s[i][1] <= at /\ at < s[i][2]
  <2>1. CASE at < b
    <3>1. PICK i \in 1..n : q[i][1] <= at /\ at < q[i][2]
      BY <1>1, <1>11, <2>1 DEF CutsUp
    <3> QED BY <1>4, <3>1
  <2>2. CASE ~(at < b)
    <3>1. at \in b..(c - 1)
      BY <2>2
    <3>2. PICK i \in 1..k : r[i][1] <= at /\ at < r[i][2]
      BY <1>1, <1>11, <3>1 DEF CutsUp
    <3>3. n + i \in 1..(n + k) /\ s[n + i] = r[i]
      BY <1>5
    <3> DEFINE j == n + i
    <3>4. j \in 1..(n + k) /\ s[j] = r[i]
      BY <3>3
    <3> HIDE DEF j
    <3> QED BY <3>2, <3>4
  <2> QED BY <2>1, <2>2
<1>12. CutsUp(text, s, a, c)
  BY <1>2, <1>3, <1>9, <1>10, <1>11 DEF CutsUp
<1> QED
  BY <1>12 DEF s

\* SkipSpace stops at the first visible character, or at the end.
LEMMA SkipsSpace ==
    ASSUME NEW text, NEW a \in Nat, NEW b \in Nat, a <= b
    PROVE  /\ SkipSpace(text, a, b) \in a..b
           /\ SkipSpace(text, a, b) = b \/ ~IsSpace(text, SkipSpace(text, a, b))
           /\ \A at \in a..(SkipSpace(text, a, b) - 1) : IsSpace(text, at)
<1> DEFINE T == {at \in a..b : at = b \/ ~IsSpace(text, at)}
<1>1. T \subseteq Nat /\ b \in T /\ T \subseteq a..b
  OBVIOUS
<1>2. SkipSpace(text, a, b) = Min(T)
  BY DEF SkipSpace
<1>3. Min(T) \in T /\ \A k \in T : Min(T) <= k
  BY <1>1, MinOfSet
<1>4. \A at \in a..b : at \in T \/ IsSpace(text, at)
  OBVIOUS
<1> DEFINE m == Min(T)
<1>5. m \in a..b /\ (m = b \/ ~IsSpace(text, m))
  BY <1>3
<1> HIDE DEF T, m
<1>6. \A at \in a..(m - 1) : at \in a..b /\ ~(m <= at)
  BY <1>5
<1>7. \A at \in a..(m - 1) : IsSpace(text, at)
  BY <1>3, <1>4, <1>6 DEF m
<1> QED
  BY <1>2, <1>5, <1>7 DEF m

\* TrimEnd stops after the last visible character, or at the start.
LEMMA TrimsEnd ==
    ASSUME NEW text, NEW a \in Nat, NEW b \in Nat, a <= b
    PROVE  /\ TrimEnd(text, a, b) \in a..b
           /\ TrimEnd(text, a, b) = a \/ ~IsSpace(text, TrimEnd(text, a, b) - 1)
           /\ \A at \in TrimEnd(text, a, b)..(b - 1) : IsSpace(text, at)
<1> DEFINE T == {at \in a..b : at = a \/ ~IsSpace(text, at - 1)}
<1>1. T \subseteq 0..b /\ a \in T /\ T \subseteq a..b
  OBVIOUS
<1>2. TrimEnd(text, a, b) = Max(T)
  BY DEF TrimEnd
<1>3. Max(T) \in T /\ \A k \in T : Max(T) >= k
  BY <1>1, MaxOfSet
<1>4. \A at \in a..b : at \in T \/ IsSpace(text, at - 1)
  OBVIOUS
<1> DEFINE m == Max(T)
<1>5. m \in a..b /\ (m = a \/ ~IsSpace(text, m - 1))
  BY <1>3
<1> HIDE DEF T, m
<1>6. \A at \in m..(b - 1) : at + 1 \in a..b /\ ~(m >= at + 1) /\ at + 1 - 1 = at
  BY <1>5
<1>7. \A at \in m..(b - 1) : IsSpace(text, at)
  BY <1>3, <1>4, <1>6 DEF m
<1> QED
  BY <1>2, <1>5, <1>7 DEF m

\* The cut moves on, stays within the stretch and is beside white space or at its end.
LEMMA CutsAt ==
    ASSUME NEW text, NEW a \in Nat, NEW b \in Nat, NEW target \in Nat \ {0}, b - a > target
    PROVE  LET cut == CutAt(text, a, b, target) IN
           /\ cut \in (a + 1)..b
           /\ IsSpace(text, cut - 1) \/ cut = b \/ IsSpace(text, cut)
<1> DEFINE back == {cut \in (a + 1)..(a + target) : IsSpace(text, cut - 1)}
           ahead == {cut \in (a + target)..b : cut = b \/ IsSpace(text, cut)}
<1>1. back \subseteq 0..(a + target) /\ a + target \in Nat
  OBVIOUS
<1>2. ahead \subseteq Nat /\ b \in ahead
  OBVIOUS
<1>3. back # {} => Max(back) \in back
  BY <1>1, MaxOfSet
<1>4. Min(ahead) \in ahead
  BY <1>2, MinOfSet
<1>5. CutAt(text, a, b, target) = IF back # {} THEN Max(back) ELSE Min(ahead)
  BY DEF CutAt
<1>6. /\ \A cut \in back : cut \in (a + 1)..b /\ IsSpace(text, cut - 1)
      /\ \A cut \in ahead : cut \in (a + 1)..b /\ (cut = b \/ IsSpace(text, cut))
  OBVIOUS
<1> HIDE DEF back, ahead
<1> QED
  BY <1>3, <1>4, <1>5, <1>6

FirstPart(text, s, b, target) == Range2(s, TrimEnd(text, s, CutAt(text, s, b, target)))
NextStart(text, s, b, target) == SkipSpace(text, CutAt(text, s, b, target), b)

\* What is left after a cut starts later.
LEMMA NextStartIs ==
    ASSUME NEW text, NEW s \in Nat, NEW b \in Nat, NEW target \in Nat \ {0}, ~(b - s <= target)
    PROVE  NextStart(text, s, b, target) \in (s + 1)..b
<1> DEFINE cut == CutAt(text, s, b, target)
<1>1. cut \in (s + 1)..b
  BY CutsAt
<1> HIDE DEF cut
<1>2. SkipSpace(text, cut, b) \in cut..b
  BY <1>1, SkipsSpace
<1>3. SkipSpace(text, cut, b) \in (s + 1)..b
  BY <1>1, <1>2
<1> QED
  BY <1>3 DEF NextStart, cut

\* P holds the parts of a sentence from each of its offsets on.
PartsFrom(text, a, b, target, P) ==
    \A s \in a..b : P[s] =
        IF b - s <= target THEN Range2(s, b)
        ELSE FirstPart(text, s, b, target) \o P[NextStart(text, s, b, target)]

\* Chunks is defined: every stretch is cut with what is left of it, which is shorter.
LEMMA ChunksAre ==
    ASSUME NEW text, NEW a \in Nat, NEW b \in Nat, NEW target \in Nat \ {0}, a <= b
    PROVE  \E P : PartsFrom(text, a, b, target, P) /\ Chunks(text, a, b, target) = P[a]
<1> DEFINE A == {d \in Nat : d <= b - a =>
                   \E P : P = [s \in (b - d)..b |->
                      IF b - s <= target THEN Range2(s, b)
                      ELSE FirstPart(text, s, b, target) \o P[NextStart(text, s, b, target)]]}
<1>1. 0 \in A
  <2> DEFINE e == [s \in (b - 0)..b |-> Range2(s, b)]
  <2>1. \A s \in (b - 0)..b : b - s <= target
    OBVIOUS
  <2>2. e = [s \in (b - 0)..b |->
               IF b - s <= target THEN Range2(s, b)
               ELSE FirstPart(text, s, b, target) \o e[NextStart(text, s, b, target)]]
    BY <2>1
  <2> HIDE DEF e
  <2>3. \E P : P = [s \in (b - 0)..b |->
               IF b - s <= target THEN Range2(s, b)
               ELSE FirstPart(text, s, b, target) \o P[NextStart(text, s, b, target)]]
    BY <2>2
  <2> QED BY <2>3, Zenon
<1>2. ASSUME NEW d \in Nat, d \in A PROVE d + 1 \in A
  <2>1. ASSUME d + 1 <= b - a
        PROVE  \E P : P = [s \in (b - (d + 1))..b |->
                      IF b - s <= target THEN Range2(s, b)
                      ELSE FirstPart(text, s, b, target) \o P[NextStart(text, s, b, target)]]
    <3>1. d <= b - a
      BY <2>1
    <3>2. PICK h : h = [s \in (b - d)..b |->
                      IF b - s <= target THEN Range2(s, b)
                      ELSE FirstPart(text, s, b, target) \o h[NextStart(text, s, b, target)]]
      BY <1>2, <3>1
    <3> DEFINE z == b - (d + 1)
               new == IF b - z <= target THEN Range2(z, b)
                      ELSE FirstPart(text, z, b, target) \o h[NextStart(text, z, b, target)]
               g == [s \in z..b |-> IF s = z THEN new ELSE h[s]]
    <3>3. z \in Nat /\ z + 1 = b - d /\ z <= b /\ z \in z..b
      BY <2>1
    <3>4. ASSUME NEW s \in z..b
          PROVE  g[s] = IF b - s <= target THEN Range2(s, b)
                        ELSE FirstPart(text, s, b, target) \o g[NextStart(text, s, b, target)]
      <4>1. ASSUME ~(b - s <= target)
            PROVE  g[NextStart(text, s, b, target)] = h[NextStart(text, s, b, target)]
        <5>1. s \in Nat
          BY <3>3
        <5>2. NextStart(text, s, b, target) \in (s + 1)..b
          BY <4>1, <5>1, NextStartIs
        <5>3. NextStart(text, s, b, target) \in z..b /\ NextStart(text, s, b, target) # z
          BY <3>3, <5>1, <5>2
        <5> HIDE DEF z, new
        <5> QED BY <5>3
      <4>2. g[s] = IF s = z THEN new ELSE h[s]
        OBVIOUS
      <4> HIDE DEF g
      <4>3. CASE s = z
        <5> HIDE DEF z
        <5> QED BY <4>1, <4>2, <4>3 DEF new
      <4>4. CASE s # z
        <5>1. s \in (b - d)..b
          BY <3>3, <4>4
        <5>2. h[s] = IF b - s <= target THEN Range2(s, b)
                     ELSE FirstPart(text, s, b, target) \o h[NextStart(text, s, b, target)]
          BY <3>2, <5>1
        <5> HIDE DEF z, new
        <5> QED BY <4>1, <4>2, <4>4, <5>2
      <4> QED BY <4>3, <4>4
    <3>5. g = [s \in z..b |-> g[s]]
      OBVIOUS
    <3> HIDE DEF g, new
    <3>6. g = [s \in z..b |->
                 IF b - s <= target THEN Range2(s, b)
                 ELSE FirstPart(text, s, b, target) \o g[NextStart(text, s, b, target)]]
      BY <3>4, <3>5
    <3> QED BY <3>6
  <2>2. d + 1 \in Nat
    OBVIOUS
  <2> QED BY <2>1, <2>2, Zenon
<1>3. b - a \in A
  <2> HIDE DEF A
  <2>1. Nat \subseteq A /\ b - a \in Nat
    BY <1>1, <1>2, SetInduction
  <2> QED BY <2>1
<1>4. b - (b - a) = a
  OBVIOUS
<1>5. b - a <= b - a
  OBVIOUS
<1>6. \E P : P = [s \in (b - (b - a))..b |->
               IF b - s <= target THEN Range2(s, b)
               ELSE FirstPart(text, s, b, target) \o P[NextStart(text, s, b, target)]]
  BY <1>3, <1>5, Zenon
<1>7. \E P : P = [s \in a..b |->
               IF b - s <= target THEN Range2(s, b)
               ELSE FirstPart(text, s, b, target) \o P[NextStart(text, s, b, target)]]
  BY <1>4, <1>6
<1> HIDE DEF A
<1> DEFINE Parts == CHOOSE P : P = [s \in a..b |->
                  IF b - s <= target THEN Range2(s, b)
                  ELSE FirstPart(text, s, b, target) \o P[NextStart(text, s, b, target)]]
<1>8. Parts = [s \in a..b |->
             IF b - s <= target THEN Range2(s, b)
             ELSE FirstPart(text, s, b, target) \o Parts[NextStart(text, s, b, target)]]
  BY <1>7, Zenon
<1>9. Chunks(text, a, b, target) = Parts[a]
  BY DEF Chunks, FirstPart, NextStart
<1> HIDE DEF Parts
<1>10. \A s \in a..b : Parts[s] =
        IF b - s <= target THEN Range2(s, b)
        ELSE FirstPart(text, s, b, target) \o Parts[NextStart(text, s, b, target)]
  BY <1>8
<1> QED
  BY <1>9, <1>10 DEF PartsFrom

\* One piece is cut off, and what follows starts a word again.
LEMMA FirstPartIs ==
    ASSUME NEW text, NEW s \in Nat, NEW b \in Nat, NEW target \in Nat \ {0}, ~(b - s <= target),
           ~IsSpace(text, s), StartsWord(text, s), EndsWord(text, b)
    PROVE  LET next == NextStart(text, s, b, target) IN
           /\ next \in (s + 1)..b
           /\ CutsUp(text, FirstPart(text, s, b, target), s, next)
           /\ next = b \/ (~IsSpace(text, next) /\ StartsWord(text, next))
<1> DEFINE cut == CutAt(text, s, b, target)
           t == TrimEnd(text, s, cut)
           next == SkipSpace(text, cut, b)
<1>1. cut \in (s + 1)..b /\ (IsSpace(text, cut - 1) \/ cut = b \/ IsSpace(text, cut))
  BY CutsAt
<1> HIDE DEF cut
<1>2. cut \in Nat /\ s <= cut /\ cut <= b /\ s < cut
  BY <1>1
<1>3. /\ t \in s..cut /\ (t = s \/ ~IsSpace(text, t - 1))
      /\ \A at \in t..(cut - 1) : IsSpace(text, at)
  BY <1>2, TrimsEnd
<1>4. /\ next \in cut..b /\ (next = b \/ ~IsSpace(text, next))
      /\ \A at \in cut..(next - 1) : IsSpace(text, at)
  BY <1>2, SkipsSpace
<1> HIDE DEF t, next
<1>5. t # s
  <2>1. s \in s..(cut - 1)
    BY <1>2
  <2> QED BY <1>3, <2>1
<1>6. t \in Nat /\ s < t /\ t <= cut /\ ~IsSpace(text, t - 1)
  BY <1>2, <1>3, <1>5
<1>7. EndsWord(text, t)
  <2>1. CASE t < cut
    <3>1. t \in t..(cut - 1)
      BY <1>2, <1>6, <2>1
    <3> QED BY <1>3, <3>1 DEF EndsWord
  <2>2. CASE t = cut
    BY <1>1, <1>6, <2>2 DEF EndsWord
  <2> QED BY <1>2, <1>6, <2>1, <2>2
<1>8. CutsUp(text, << <<s, t>> >>, s, t)
  BY <1>6, <1>7, CutOne
<1>9. next \in Nat /\ t <= next /\ next <= b /\ next \in (s + 1)..b
  BY <1>2, <1>4, <1>6
<1>10. ASSUME NEW at \in t..(next - 1) PROVE IsSpace(text, at)
  <2>1. at \in t..(cut - 1) \/ at \in cut..(next - 1)
    BY <1>2, <1>6, <1>9
  <2> QED BY <1>3, <1>4, <2>1
<1>11. CutsUp(text, << <<s, t>> >>, s, next)
  <2>1. s <= s /\ s <= t /\ \A at \in s..(s - 1) : IsSpace(text, at)
    BY <1>6
  <2> QED BY <1>6, <1>8, <1>9, <1>10, <2>1, CutWider
<1>12. next = b \/ (~IsSpace(text, next) /\ StartsWord(text, next))
  <2>1. CASE cut < next
    <3>1. next - 1 \in cut..(next - 1)
      BY <1>2, <1>9, <2>1
    <3> QED BY <1>4, <3>1 DEF StartsWord
  <2>2. CASE cut = next
    BY <1>1, <1>4, <2>2 DEF StartsWord
  <2> QED BY <1>2, <1>4, <1>9, <2>1, <2>2
<1>13. FirstPart(text, s, b, target) = << <<s, t>> >>
  BY <1>6 DEF FirstPart, Range2, cut, t
<1>14. NextStart(text, s, b, target) = next
  BY DEF NextStart, cut, next
<1> QED
  BY <1>9, <1>11, <1>12, <1>13, <1>14

\* A sentence is cut up, by induction on the characters that are left of it.
LEMMA ChunksCut ==
    ASSUME NEW text, NEW a \in Nat, NEW b \in Nat, NEW target \in Nat \ {0}, a <= b,
           a = b \/ (~IsSpace(text, a) /\ StartsWord(text, a)),
           a = b \/ (~IsSpace(text, b - 1) /\ EndsWord(text, b))
    PROVE  CutsUp(text, Chunks(text, a, b, target), a, b)
<1>1. PICK P : PartsFrom(text, a, b, target, P) /\ Chunks(text, a, b, target) = P[a]
  BY ChunksAre
<1> DEFINE Good(s) == s = b \/ (~IsSpace(text, s) /\ StartsWord(text, s))
           A == {d \in Nat : \A s \in a..b :
                    b - s <= d /\ Good(s) => CutsUp(text, P[s], s, b)}
<1>2. ASSUME NEW s \in a..b, b - s <= target, Good(s) PROVE CutsUp(text, P[s], s, b)
  <2>1. P[s] = Range2(s, b) /\ s \in Nat
    BY <1>1, <1>2 DEF PartsFrom
  <2>2. CASE s < b
    <3>1. P[s] = << <<s, b>> >> /\ a # b /\ s # b
      BY <2>1, <2>2 DEF Range2
    <3> QED BY <1>2, <2>1, <2>2, <3>1, CutOne
  <2>3. CASE s = b
    <3>1. P[s] = <<>> /\ s <= b /\ \A at \in s..(b - 1) : IsSpace(text, at)
      BY <2>1, <2>3 DEF Range2
    <3> QED BY <2>1, <3>1, CutNothing
  <2> QED BY <2>1, <2>2, <2>3
<1>3. 0 \in A
  <2>1. \A s \in a..b : b - s <= 0 => b - s <= target
    OBVIOUS
  <2> HIDE DEF Good
  <2> QED BY <1>2, <2>1
<1>4. ASSUME NEW d \in Nat, d \in A PROVE d + 1 \in A
  <2>1. ASSUME NEW s \in a..b, b - s <= d + 1, Good(s), ~(b - s <= target)
        PROVE  CutsUp(text, P[s], s, b)
    <3> DEFINE next == NextStart(text, s, b, target)
    <3>1. s \in Nat /\ s # b /\ a # b
      BY <2>1
    <3>2. ~IsSpace(text, s) /\ StartsWord(text, s) /\ EndsWord(text, b)
      BY <2>1, <3>1
    <3>3. /\ next \in (s + 1)..b
          /\ CutsUp(text, FirstPart(text, s, b, target), s, next)
          /\ Good(next)
      BY <2>1, <3>1, <3>2, FirstPartIs
    <3>4. P[s] = FirstPart(text, s, b, target) \o P[next]
      BY <1>1, <2>1 DEF PartsFrom
    <3> HIDE DEF next, Good
    <3>5. next \in a..b /\ b - next <= d /\ next \in Nat /\ s <= next /\ next <= b
      BY <2>1, <3>1, <3>3
    <3>6. CutsUp(text, P[next], next, b)
      BY <1>4, <3>3, <3>5
    <3> QED BY <3>1, <3>3, <3>4, <3>5, <3>6, CutConcat
  <2> HIDE DEF Good
  <2> QED BY <1>2, <2>1
<1>5. CutsUp(text, P[a], a, b)
  <2> HIDE DEF A
  <2>1. b - a \in A
    BY <1>3, <1>4, SetInduction
  <2>2. b - a <= b - a /\ a \in a..b /\ Good(a)
    OBVIOUS
  <2> HIDE DEF Good
  <2> QED BY <2>1, <2>2 DEF A
<1> QED
  BY <1>1, <1>5

\* Sequences that cut up neighbouring stretches of a text cut it up together.
LEMMA FlattenCuts ==
    ASSUME NEW text, NEW seqs \in Seq(Seq(Nat \X Nat)), NEW at \in [0..Len(seqs) -> Nat],
           \A k \in 1..Len(seqs) : at[k - 1] <= at[k] /\ CutsUp(text, seqs[k], at[k - 1], at[k])
    PROVE  CutsUp(text, FlattenSeq(seqs), at[0], at[Len(seqs)])
<1> DEFINE n == Len(seqs)
           F(k) == FlattenSeq(SubSeq(seqs, 1, k))
           A == {k \in Nat : k <= n => at[0] <= at[k] /\ CutsUp(text, F(k), at[0], at[k])}
<1>a. n \in Nat
  OBVIOUS
<1>b. \A k \in 0..n : at[k] \in Nat
  OBVIOUS
<1>1. n \in Nat /\ 0 \in 0..n /\ \A k \in 0..n : at[k] \in Nat
  BY <1>a, <1>b
<1>2. 0 \in A
  <2>1. SubSeq(seqs, 1, 0) = <<>>
    BY SubSeqEmpty
  <2>2. F(0) = <<>>
    BY <2>1, FlattenEmpty
  <2>3. at[0] <= at[0] /\ \A k \in at[0]..(at[0] - 1) : IsSpace(text, k)
    BY <1>1
  <2> HIDE DEF F, n
  <2>4. CutsUp(text, F(0), at[0], at[0])
    BY <1>1, <2>2, <2>3, CutNothing
  <2> QED BY <2>3, <2>4
<1>3. ASSUME NEW k \in Nat, k \in A PROVE k + 1 \in A
  <2>1. ASSUME k + 1 <= n
        PROVE  at[0] <= at[k + 1] /\ CutsUp(text, F(k + 1), at[0], at[k + 1])
    <3> DEFINE j == k + 1
    <3>1. j \in 1..n /\ j - 1 = k /\ k \in 0..n /\ j \in 0..n /\ k <= n
      BY <1>1, <2>1
    <3> HIDE DEF j
    <3>2. F(j) = F(k) \o seqs[j]
      BY <3>1, FlattenStep
    <3> HIDE DEF F
    <3>3. /\ at[0] <= at[k] /\ CutsUp(text, F(k), at[0], at[k])
          /\ at[k] <= at[j] /\ CutsUp(text, seqs[j], at[k], at[j])
          /\ at[0] \in Nat /\ at[k] \in Nat /\ at[j] \in Nat
      BY <1>1, <1>3, <3>1
    <3>4. at[0] <= at[j] /\ CutsUp(text, F(k) \o seqs[j], at[0], at[j])
      BY <3>3, CutConcat
    <3> QED BY <3>2, <3>4 DEF j
  <2>2. k + 1 \in Nat
    OBVIOUS
  <2> HIDE DEF F, n
  <2> QED BY <2>1, <2>2, Zenon
<1>4. CutsUp(text, F(n), at[0], at[n])
  <2> HIDE DEF A
  <2> HIDE DEF F, n
  <2>a. Nat \subseteq A
    BY <1>2, <1>3, SetInduction
  <2>1. n \in A /\ n <= n
    BY <1>1, <2>a
  <2> QED BY <2>1 DEF A
<1>5. SubSeq(seqs, 1, n) = seqs
  BY SubSeqFull
<1> QED
  BY <1>4, <1>5

\* A sentence and the white space around it are cut up.
LEMMA SentenceCut ==
    ASSUME NEW text, NEW from \in Nat, NEW end \in Nat, NEW target \in Nat \ {0}, from <= end,
           from = 0 \/ IsSpace(text, from), EndsWord(text, end)
    PROVE  CutsUp(text,
                  Chunks(text, SkipSpace(text, from, end),
                         TrimEnd(text, SkipSpace(text, from, end), end), target),
                  from, end)
<1> DEFINE first == SkipSpace(text, from, end)
           t == TrimEnd(text, first, end)
<1>1. /\ first \in from..end /\ (first = end \/ ~IsSpace(text, first))
      /\ \A at \in from..(first - 1) : IsSpace(text, at)
  BY SkipsSpace
<1>2. first \in Nat /\ from <= first /\ first <= end
  BY <1>1
<1> HIDE DEF first
<1>3. /\ t \in first..end /\ (t = first \/ ~IsSpace(text, t - 1))
      /\ \A at \in t..(end - 1) : IsSpace(text, at)
  BY <1>2, TrimsEnd
<1>4. t \in Nat /\ first <= t /\ t <= end
  BY <1>2, <1>3
<1> HIDE DEF t
<1>5. first = t \/ (~IsSpace(text, first) /\ StartsWord(text, first))
  <2>1. SUFFICES ASSUME first # t PROVE ~IsSpace(text, first) /\ StartsWord(text, first)
    OBVIOUS
  <2>2. first # end /\ ~IsSpace(text, first)
    BY <1>1, <1>2, <1>4, <2>1
  <2>3. CASE first = from
    BY <2>2, <2>3 DEF StartsWord
  <2>4. CASE first # from
    <3>1. first - 1 \in from..(first - 1)
      BY <1>2, <2>4
    <3> QED BY <1>1, <2>2, <3>1 DEF StartsWord
  <2> QED BY <2>3, <2>4
<1>6. first = t \/ (~IsSpace(text, t - 1) /\ EndsWord(text, t))
  <2>1. CASE t = end
    BY <1>3, <2>1
  <2>2. CASE t # end
    <3>1. t \in t..(end - 1)
      BY <1>4, <2>2
    <3> QED BY <1>3, <3>1 DEF EndsWord
  <2> QED BY <2>1, <2>2
<1>7. CutsUp(text, Chunks(text, first, t, target), first, t)
  BY <1>2, <1>4, <1>5, <1>6, ChunksCut
<1>8. CutsUp(text, Chunks(text, first, t, target), from, end)
  BY <1>1, <1>2, <1>3, <1>4, <1>7, CutWider
<1> QED
  BY <1>8 DEF first, t

\* A whole text is cut up, sentence after sentence.
LEMMA TextCut ==
    ASSUME NEW text, Len(text) \in Nat, NEW target \in Nat \ {0}
    PROVE  CutsUp(text, TextRanges(text, target), 0, Len(text))
<1> DEFINE L == Len(text)
           ends == SentenceEnds(text)
           starts == {0} \cup (ends \ {L})
           n == Cardinality(starts)
           asc == Ascending(starts)
           End(from) == Min({e \in ends \cup {L} : e > from})
           First(from) == SkipSpace(text, from, End(from))
           Sentence(from) == Chunks(text, First(from), TrimEnd(text, First(from), End(from)), target)
           seqs == [i \in 1..n |-> Sentence(asc[i])]
<1>1. CASE Blank(text)
  <2>1. TextRanges(text, target) = <<>>
    BY <1>1 DEF TextRanges
  <2>2. 0 <= L /\ \A at \in 0..(L - 1) : IsSpace(text, at)
    BY <1>1 DEF Blank
  <2> QED BY <2>1, <2>2, CutNothing
<1>2. CASE ~Blank(text)
  <2>1. TextRanges(text, target) = FlattenSeq(seqs)
    BY <1>2 DEF TextRanges
  <2>2. L \in Nat /\ L # 0
    BY <1>2 DEF Blank
  <2>3. \A e \in ends : e \in 1..L /\ EndsWord(text, e)
    BY DEF SentenceEnds, EndsWord
  <2> HIDE DEF L, ends
  <2>4. starts \subseteq 0..(L - 1) /\ starts \subseteq Int /\ 0 \in starts
    BY <2>2, <2>3
  <2>5. IsFiniteSet(starts) /\ n \in Nat
    <3>1. IsFiniteSet(0..(L - 1))
      BY <2>2, FS_Interval
    <3> QED BY <2>4, <3>1, FS_Subset, FS_CardinalityType
  <2>6. /\ asc \in Seq(starts) /\ Len(asc) = n
        /\ \A x \in starts : \E k \in 1..n : asc[k] = x
        /\ \A k, l \in 1..n : k < l => asc[k] < asc[l]
    BY <2>4, <2>5, AscendingLists
  <2> HIDE DEF asc, n, starts
  <2>a. \A k \in 1..n : asc[k] \in starts
    BY <2>5, <2>6
  <2>7. \A k \in 1..n : asc[k] \in starts /\ asc[k] \in 0..(L - 1)
    BY <2>4, <2>a
  <2>8. n # 0 /\ asc[1] = 0
    <3>1. PICK k \in 1..n : asc[k] = 0
      BY <2>4, <2>6
    <3>2. n # 0 /\ 1 \in 1..n
      BY <2>5, <3>1
    <3>3. CASE k # 1
      <4>1. asc[1] < asc[k]
        BY <2>5, <2>6, <3>2, <3>3
      <4>2. asc[1] \in Nat
        BY <2>2, <2>7, <3>2
      <4> QED BY <3>1, <4>1, <4>2
    <3> QED BY <3>1, <3>2, <3>3
  <2> DEFINE at == [k \in 0..n |-> IF k = n THEN L ELSE asc[k + 1]]
  <2>9. ASSUME NEW k \in 1..n
        PROVE  /\ at[k - 1] = asc[k] /\ at[k] \in Nat /\ asc[k] \in Nat /\ at[k - 1] \in Nat
               /\ asc[k] < at[k] /\ EndsWord(text, at[k]) /\ End(asc[k]) = at[k]
    <3>1. at[k - 1] = asc[k] /\ asc[k] \in 0..(L - 1)
      BY <2>5, <2>7
    <3>2. at[k] \in ends \cup {L} /\ at[k] > asc[k]
      <4>1. CASE k = n
        <5>1. at[k] = L
          BY <2>5, <4>1
        <5> QED BY <2>2, <3>1, <5>1
      <4>2. CASE k # n
        <5> DEFINE l == k + 1
        <5>1. l \in 1..n /\ k < l /\ at[k] = asc[l]
          BY <2>5, <4>2
        <5> HIDE DEF l, at
        <5>2. asc[l] \in starts /\ asc[k] < asc[l] /\ asc[k] \in Nat /\ asc[l] \in Nat
          BY <2>2, <2>6, <2>7, <5>1
        <5>3. asc[l] # 0
          BY <5>2
        <5> QED BY <5>1, <5>2, <5>3 DEF starts
      <4> QED BY <4>1, <4>2
    <3>3. ASSUME NEW e \in ends \cup {L}, e > asc[k] PROVE at[k] <= e
      <4>1. CASE k = n
        <5>1. at[k] = L
          BY <2>5, <4>1
        <5>2. e \in starts => \E j \in 1..n : asc[j] = e
          BY <2>6
        <5>3. CASE e = L
          BY <2>2, <5>1, <5>3
        <5>4. CASE e # L
          <6>1. PICK j \in 1..n : asc[j] = e
            BY <3>3, <5>2, <5>4 DEF starts
          <6>2. j = k \/ asc[j] < asc[k]
            BY <2>5, <2>6, <4>1
          <6>3. asc[j] \in Nat /\ asc[k] \in Nat
            BY <2>2, <2>7
          <6> QED BY <3>3, <6>1, <6>2, <6>3
        <5> QED BY <5>3, <5>4
      <4>2. CASE k # n
        <5> DEFINE l == k + 1
        <5>1. l \in 1..n /\ k < l /\ at[k] = asc[l] /\ \A j \in 1..n : j <= k \/ l <= j
          BY <2>5, <4>2
        <5> HIDE DEF l, at
        <5>2. asc[l] \in 0..(L - 1)
          BY <2>7, <5>1
        <5>3. CASE e = L
          BY <2>2, <5>1, <5>2, <5>3
        <5>4. CASE e # L
          <6>1. PICK j \in 1..n : asc[j] = e
            BY <2>6, <5>4 DEF starts
          <6>2. asc[j] \in Nat /\ asc[k] \in Nat /\ asc[l] \in Nat
            BY <2>2, <2>7, <5>1
          <6>3. l <= j
            <7>1. SUFFICES ASSUME j <= k PROVE FALSE
              BY <5>1
            <7>2. j = k \/ asc[j] < asc[k]
              BY <2>5, <2>6, <7>1
            <7> QED BY <3>3, <6>1, <6>2, <7>2
          <6>4. j = l \/ asc[l] < asc[j]
            BY <2>5, <2>6, <5>1, <6>3
          <6> QED BY <5>1, <6>1, <6>2, <6>4
        <5> QED BY <5>3, <5>4
      <4> QED BY <4>1, <4>2
    <3>4. \A e \in ends \cup {L} : e \in Nat /\ EndsWord(text, e)
      BY <2>2, <2>3 DEF EndsWord, L
    <3> HIDE DEF at
    <3>5. End(asc[k]) = at[k]
      <4> DEFINE T == {e \in ends \cup {L} : e > asc[k]}
      <4>1. T \subseteq Nat /\ at[k] \in T /\ \A e \in T : at[k] <= e
        BY <3>2, <3>3, <3>4
      <4> HIDE DEF T
      <4>2. Min(T) \in T /\ Min(T) <= at[k] /\ at[k] <= Min(T)
        BY <4>1, MinOfSet
      <4>b. Min(T) \in Nat /\ at[k] \in Nat
        BY <4>1, <4>2
      <4>3. Min(T) = at[k]
        BY <4>2, <4>b
      <4> QED BY <4>3 DEF T
    <3>6. at[k] \in Nat /\ EndsWord(text, at[k])
      BY <3>2, <3>4
    <3>7. asc[k] \in Nat
      BY <2>2, <3>1
    <3> QED BY <3>1, <3>2, <3>5, <3>6, <3>7
  <2>10. at \in [0..n -> Nat] /\ at[0] = 0 /\ at[n] = L
    <3>1. \A k \in 0..n : at[k] \in Nat
      BY <2>2, <2>5, <2>7
    <3> QED BY <2>5, <2>8, <3>1
  <2> HIDE DEF at, End
  <2>11. ASSUME NEW k \in 1..n
         PROVE  at[k - 1] <= at[k] /\ CutsUp(text, seqs[k], at[k - 1], at[k])
    <3> DEFINE from == asc[k]
               end == at[k]
    <3>1. from \in Nat /\ end \in Nat /\ from <= end /\ EndsWord(text, end) /\ End(from) = end
      BY <2>9
    <3>2. from = 0 \/ IsSpace(text, from)
      <4>1. from \in starts /\ from \in 0..(L - 1)
        BY <2>7
      <4>2. from = 0 \/ (EndsWord(text, from) /\ from # L)
        BY <2>3, <4>1 DEF starts
      <4> QED BY <4>2 DEF EndsWord, L
    <3>3. seqs[k] = Chunks(text, First(from), TrimEnd(text, First(from), end), target)
      BY <3>1
    <3>4. First(from) = SkipSpace(text, from, end)
      BY <3>1
    <3> HIDE DEF from, end, seqs, First
    <3>5. CutsUp(text, seqs[k], from, end)
      BY <3>1, <3>2, <3>3, <3>4, SentenceCut
    <3> QED BY <2>9, <3>1, <3>5 DEF from, end
  <2>12. seqs \in Seq(Seq(Nat \X Nat)) /\ Len(seqs) = n
    <3> HIDE DEF Sentence
    <3>1. \A k \in 1..n : seqs[k] \in Seq(Nat \X Nat)
      <4> HIDE DEF seqs
      <4> QED BY <2>11 DEF CutsUp
    <3>2. seqs \in [1..n -> Seq(Nat \X Nat)]
      <4>1. seqs = [k \in 1..n |-> seqs[k]]
        OBVIOUS
      <4> HIDE DEF seqs
      <4> QED BY <3>1, <4>1
    <3> HIDE DEF seqs
    <3> QED BY <2>5, <3>2
  <2> HIDE DEF seqs
  <2>13. CutsUp(text, FlattenSeq(seqs), at[0], at[n])
    BY <2>10, <2>11, <2>12, FlattenCuts
  <2> QED BY <2>1, <2>10, <2>13 DEF L
<1> QED
  BY <1>1, <1>2

\* D goes up from 0 to n in k steps, and g[i] reaches over what is between two.
Goes(D, k, n) ==
    /\ D[0] = 0 /\ D[k] = n
    /\ \A i \in 0..k : D[i] \in 0..n
    /\ \A i, j \in 0..k : i < j => D[i] < D[j]
Reaches(g, units, D, k) ==
    /\ g \in Seq(Nat \X Nat) /\ Len(g) = k
    /\ \A i \in 1..k : g[i] = <<units[D[i - 1] + 1][1], units[D[i]][2]>>

\* Neighbouring ranges put together, group after group, cut the text up as well.
LEMMA GroupsCut ==
    ASSUME NEW text, NEW a \in Nat, NEW b \in Nat, NEW units, CutsUp(text, units, a, b),
           NEW k \in Nat \ {0}, NEW D, Goes(D, k, Len(units)),
           NEW g, Reaches(g, units, D, k)
    PROVE  CutsUp(text, g, a, b)
<1> USE DEF Goes, Reaches
<1> DEFINE n == Len(units)
<1>1. units \in Seq(Nat \X Nat) /\ n \in Nat /\ DOMAIN units = 1..n
  BY DEF CutsUp
<1>2. \A u \in 1..n : RangeFits(text, units[u], a, b) /\ units[u][1] \in Nat /\ units[u][2] \in Nat
  BY <1>1 DEF CutsUp
<1>3. \A u, v \in 1..n : u < v => units[u][2] <= units[v][1]
  BY <1>1 DEF CutsUp
<1>4. \A u \in 1..n : a <= units[u][1] /\ units[u][1] < units[u][2] /\ units[u][2] <= b
  BY <1>2 DEF RangeFits
<1>5. ASSUME NEW u \in 1..n, NEW v \in 1..n, u <= v
      PROVE  units[u][1] <= units[v][1] /\ units[u][2] <= units[v][2]
  <2>1. u = v \/ u < v
    BY <1>1, <1>5
  <2>2. CASE u = v
    BY <1>2, <2>2
  <2>3. CASE u < v
    <3>1. units[u][2] <= units[v][1] /\ units[u][1] < units[u][2] /\ units[v][1] < units[v][2]
      BY <1>3, <1>4, <2>3
    <3> DEFINE p == units[u][1]
               q == units[u][2]
               x == units[v][1]
               y == units[v][2]
    <3>2. p \in Nat /\ q \in Nat /\ x \in Nat /\ y \in Nat /\ q <= x /\ p < q /\ x < y
      BY <1>2, <3>1
    <3> HIDE DEF p, q, x, y
    <3>3. p <= x /\ q <= y
      BY <3>2
    <3> QED BY <3>3 DEF p, q, x, y
  <2> QED BY <2>1, <2>2, <2>3
<1> HIDE DEF n
<1>6. ASSUME NEW i \in 1..k
      PROVE  /\ i - 1 \in 0..k /\ i \in 0..k
             /\ D[i - 1] \in 0..n /\ D[i] \in 0..n /\ D[i - 1] < D[i]
             /\ D[i - 1] + 1 \in 1..n /\ D[i] \in 1..n /\ D[i - 1] + 1 <= D[i]
             /\ g[i][1] = units[D[i - 1] + 1][1] /\ g[i][2] = units[D[i]][2]
  <2>1. i - 1 \in 0..k /\ i \in 0..k /\ i - 1 < i
    OBVIOUS
  <2>2. D[i - 1] \in 0..n /\ D[i] \in 0..n /\ D[i - 1] < D[i]
    BY <2>1 DEF n
  <2>3. D[i - 1] + 1 \in 1..n /\ D[i] \in 1..n /\ D[i - 1] + 1 <= D[i]
    <3> DEFINE p == D[i - 1]
               q == D[i]
    <3>1. p \in 0..n /\ q \in 0..n /\ p < q
      BY <2>2
    <3> HIDE DEF p, q
    <3>2. p + 1 \in 1..n /\ q \in 1..n /\ p + 1 <= q
      BY <1>1, <3>1
    <3> QED BY <3>2 DEF p, q
  <2>4. g[i][1] = units[D[i - 1] + 1][1] /\ g[i][2] = units[D[i]][2]
    <3> DEFINE x == units[D[i - 1] + 1][1]
               y == units[D[i]][2]
    <3>1. g[i] = <<x, y>>
      OBVIOUS
    <3> HIDE DEF x, y
    <3>2. g[i][1] = x /\ g[i][2] = y
      BY <3>1
    <3> QED BY <3>2 DEF x, y
  <2> QED BY <2>1, <2>2, <2>3, <2>4
<1>7. ASSUME NEW i \in 1..k PROVE RangeFits(text, g[i], a, b)
  <2> DEFINE u == D[i - 1] + 1
             v == D[i]
  <2>1. u \in 1..n /\ v \in 1..n /\ u <= v /\ g[i][1] = units[u][1] /\ g[i][2] = units[v][2]
    BY <1>6
  <2> HIDE DEF u, v
  <2>2. /\ units[u][1] <= units[v][1] /\ units[v][1] < units[v][2]
        /\ a <= units[u][1] /\ units[v][2] <= b
        /\ units[u][1] \in Nat /\ units[v][1] \in Nat /\ units[v][2] \in Nat
    BY <1>2, <1>4, <1>5, <2>1
  <2>3. units[u][1] < units[v][2]
    <3> DEFINE first == units[u][1]
               next == units[v][1]
               last == units[v][2]
    <3>1. first \in Nat /\ next \in Nat /\ last \in Nat /\ first <= next /\ next < last
      BY <2>2
    <3> HIDE DEF first, next, last
    <3>2. first < last
      BY <3>1
    <3> QED BY <3>2 DEF first, last
  <2>4. RangeFits(text, units[u], a, b) /\ RangeFits(text, units[v], a, b)
    BY <1>2, <2>1
  <2> QED BY <2>1, <2>2, <2>3, <2>4 DEF RangeFits
<1>8. ASSUME NEW i \in 1..k, NEW j \in 1..k, i < j PROVE g[i][2] <= g[j][1]
  <2>1. D[i] <= D[j - 1]
    <3>1. i \in 0..k /\ j - 1 \in 0..k /\ (i = j - 1 \/ i < j - 1)
      BY <1>8
    <3>2. D[i] \in 0..n /\ D[j - 1] \in 0..n
      BY <1>6
    <3>3. i < j - 1 => D[i] < D[j - 1]
      BY <3>1
    <3>4. i = j - 1 => D[i] = D[j - 1]
      OBVIOUS
    <3> DEFINE u == D[i]
               v == D[j - 1]
    <3>5. u \in 0..n /\ v \in 0..n /\ (u = v \/ u < v)
      BY <3>1, <3>2, <3>3, <3>4, Zenon
    <3> HIDE DEF u, v
    <3>6. u <= v
      BY <1>1, <3>5
    <3> QED BY <3>6 DEF u, v
  <2> DEFINE u == D[i]
             v == D[j - 1] + 1
  <2>a. u \in 1..n /\ g[i][2] = units[u][2]
    BY <1>6
  <2>b. v \in 1..n /\ g[j][1] = units[v][1] /\ D[j - 1] \in 0..n
    BY <1>6
  <2>c. u < v
    <3> DEFINE p == D[i]
               q == D[j - 1]
    <3>1. p \in 1..n /\ q \in 0..n /\ p <= q
      BY <2>1, <2>a, <2>b
    <3> HIDE DEF p, q
    <3>2. p < q + 1
      BY <1>1, <3>1
    <3> QED BY <3>2 DEF p, q
  <2>2. u \in 1..n /\ v \in 1..n /\ u < v /\ g[i][2] = units[u][2] /\ g[j][1] = units[v][1]
    BY <2>a, <2>b, <2>c
  <2> HIDE DEF u, v
  <2>3. units[u][2] <= units[v][1]
    BY <1>3, <2>2
  <2> QED BY <2>2, <2>3
<1>9. ASSUME NEW at \in a..(b - 1), ~IsSpace(text, at)
      PROVE  \E i \in 1..k : g[i][1] <= at /\ at < g[i][2]
  <2>1. PICK u \in 1..n : units[u][1] <= at /\ at < units[u][2]
    BY <1>1, <1>9 DEF CutsUp
  <2> DEFINE T == {i \in 1..k : u <= D[i]}
  <2>2. k \in T /\ T \subseteq Nat
    <3>1. D[k] = n
      BY DEF n
    <3> HIDE DEF Goes, Reaches, n
    <3>2. k \in 1..k /\ u <= n
      BY <1>1
    <3> QED BY <3>1, <3>2
  <2>3. PICK i \in T : \A j \in T : i <= j
    BY <2>2, LeastOfSet
  <2>4. i \in 1..k /\ u <= D[i]
    BY <2>3
  <2>5. D[i - 1] + 1 <= u
    <3>1. CASE i = 1
      <4>1. D[i - 1] = 0
        BY <3>1
      <4> QED BY <1>1, <4>1
    <3>2. CASE i # 1
      <4> DEFINE j == i - 1
      <4>a. k \in Nat /\ i \in 1..k
        BY <2>4
      <4>1. j \in 1..k /\ ~(i <= j)
        BY <3>2, <4>a
      <4>2. j \notin T
        BY <2>3, <4>1
      <4>3. ~(u <= D[j])
        BY <4>1, <4>2
      <4>4. D[j] \in 0..n
        BY <1>6, <2>4
      <4>5. j \in Nat /\ D[j] + 1 <= u
        <5> HIDE DEF j
        <5> DEFINE e == D[j]
        <5>1. e \in Nat /\ n \in Nat /\ ~(u <= e)
          BY <1>1, <4>3, <4>4
        <5> HIDE DEF e
        <5>2. e + 1 <= u
          BY <5>1
        <5> QED BY <4>1, <4>a, <5>2 DEF e
      <4> QED BY <4>5
    <3> QED BY <3>1, <3>2
  <2> DEFINE lo == D[i - 1] + 1
             hi == D[i]
  <2>6. lo \in 1..n /\ hi \in 1..n /\ lo <= u /\ u <= hi /\ g[i][1] = units[lo][1] /\ g[i][2] = units[hi][2]
    BY <1>6, <2>4, <2>5
  <2> HIDE DEF lo, hi
  <2>7. units[lo][1] <= units[u][1] /\ units[u][2] <= units[hi][2]
    BY <1>5, <2>6
  <2>8. /\ units[lo][1] \in Nat /\ units[u][1] \in Nat /\ units[u][2] \in Nat /\ units[hi][2] \in Nat
    BY <1>2, <2>6
  <2>a. at \in Nat
    OBVIOUS
  <2> DEFINE p == units[lo][1]
             q == units[u][1]
             v == units[u][2]
             w == units[hi][2]
  <2>b. p <= q /\ q <= at /\ at < v /\ v <= w /\ p \in Nat /\ q \in Nat /\ v \in Nat /\ w \in Nat
    BY <2>1, <2>7, <2>8
  <2> HIDE DEF p, q, v, w
  <2>c. p <= at /\ at < w
    BY <2>a, <2>b
  <2>9. g[i][1] <= at /\ at < g[i][2]
    BY <2>6, <2>c DEF p, w
  <2> QED BY <2>4, <2>9
<1>10. DOMAIN g = 1..k
  OBVIOUS
<1> QED
  BY <1>7, <1>8, <1>9, <1>10 DEF CutsUp

\* _partition_units groups the ranges into as many groups as asked for, if there are enough.
LEMMA GroupedCuts ==
    ASSUME NEW text, NEW a \in Nat, NEW b \in Nat, NEW units, CutsUp(text, units, a, b),
           NEW count \in Nat, Len(units) # 0
    PROVE  /\ CutsUp(text, Grouped(units, count), a, b)
           /\ Len(Grouped(units, count)) \in 1..Len(units)
           /\ count # 0 => Len(Grouped(units, count)) <= count
           /\ count = 0 => Len(Grouped(units, count)) = 1
<1> DEFINE n == Len(units)
           k == Min({Max({1, count}), n})
           D == [i \in 0..k |-> (i * n) \div k]
           g == Grouped(units, count)
<1>1. units \in Seq(Nat \X Nat) /\ n \in Nat /\ n # 0
  BY DEF CutsUp
<1>2. /\ k \in 1..n
      /\ count # 0 => k <= count
      /\ count = 0 => k = 1
  <2> DEFINE m == Max({1, count})
  <2>1. {1, count} \subseteq 0..(count + 1) /\ {1, count} # {}
    OBVIOUS
  <2>2. m \in {1, count} /\ m >= 1 /\ m >= count
    BY <2>1, MaxOfSet
  <2>3. m \in Nat /\ m # 0 /\ (count # 0 => m = count) /\ (count = 0 => m = 1)
    BY <2>2
  <2> HIDE DEF m, n
  <2>4. {m, n} \subseteq Nat /\ {m, n} # {}
    BY <1>1, <2>3
  <2>5. Min({m, n}) \in {m, n} /\ Min({m, n}) <= m /\ Min({m, n}) <= n
    BY <2>4, MinOfSet
  <2>6. k \in {m, n} /\ k <= m /\ k <= n
    BY <2>5 DEF m
  <2> HIDE DEF k
  <2> QED BY <1>1, <2>3, <2>6
<1>3. g = [i \in 1..k |-> <<units[((i - 1) * n) \div k + 1][1], units[(i * n) \div k][2]>>]
  BY DEF Grouped
<1> HIDE DEF n, k, g
<1>4. /\ (0 * n) \div k = 0
      /\ (k * n) \div k = n
      /\ \A i \in 0..k : (i * n) \div k \in 0..n
      /\ \A i, j \in 0..k : i < j => (i * n) \div k < (j * n) \div k
  BY <1>1, <1>2, GroupBounds
<1>5. k \in Nat \ {0} /\ 0 \in 0..k /\ k \in 0..k
  BY <1>1, <1>2
<1>6. \A i \in 0..k : D[i] = (i * n) \div k
  OBVIOUS
<1> HIDE DEF D
<1>7. /\ D[0] = 0 /\ D[k] = n /\ \A i \in 0..k : D[i] \in 0..n
      /\ \A i, j \in 0..k : i < j => D[i] < D[j]
  BY <1>4, <1>5, <1>6
<1>8. ASSUME NEW i \in 1..k PROVE g[i] = <<units[D[i - 1] + 1][1], units[D[i]][2]>>
  <2>1. i \in 0..k /\ i - 1 \in 0..k
    BY <1>5
  <2> QED BY <1>3, <1>6, <2>1
<1>9. g \in Seq(Nat \X Nat) /\ Len(g) = k
  <2>1. ASSUME NEW i \in 1..k PROVE g[i] \in Nat \X Nat
    <3>1. D[i - 1] + 1 \in 1..n /\ D[i] \in 1..n
      <4>1. i \in 0..k /\ i - 1 \in 0..k /\ i - 1 < i
        BY <1>5
      <4>2. D[i - 1] \in 0..n /\ D[i] \in 0..n /\ D[i - 1] < D[i]
        BY <1>7, <4>1
      <4> DEFINE from == D[i - 1]
                 end == D[i]
      <4>3. n \in Nat /\ from \in 0..n /\ end \in 0..n /\ from < end
        BY <1>1, <4>2
      <4> HIDE DEF from, end
      <4>4. from + 1 \in 1..n /\ end \in 1..n
        BY <4>3
      <4> QED BY <4>4 DEF from, end
    <3>2. \A u \in 1..n : units[u] \in Nat \X Nat
      BY <1>1 DEF n
    <3>3. units[D[i - 1] + 1][1] \in Nat /\ units[D[i]][2] \in Nat
      BY <3>1, <3>2
    <3> DEFINE x == units[D[i - 1] + 1][1]
               y == units[D[i]][2]
    <3>4. g[i] = <<x, y>> /\ x \in Nat /\ y \in Nat
      BY <1>8, <3>3
    <3> HIDE DEF x, y
    <3> QED BY <3>4
  <2>2. g \in [1..k -> Nat \X Nat]
    BY <1>3, <2>1
  <2> QED BY <1>5, <2>2
<1>10. CutsUp(text, g, a, b)
  <2>1. Goes(D, k, Len(units))
    BY <1>5, <1>7 DEF n, Goes
  <2>2. Reaches(g, units, D, k)
    BY <1>8, <1>9 DEF Reaches
  <2> QED BY <1>5, <2>1, <2>2, GroupsCut
<1> QED
  BY <1>2, <1>9, <1>10 DEF n, g

-----------------------------------------------------------------------------
(* Spans *)

Spans == [source : Nat, from : Nat, end : Nat, parent : Nat]

\* The span s lies in its source from offset a to offset b and cuts no word.
SpanFits(s, a, b) ==
    s \in Spans /\ RangeFits(TextOf(s.source), <<s.from, s.end>>, a, b)

PromptOK == prompt.messages \in Seq([policy : BOOLEAN, text : Seq(Characters)])

\* Every message has a text.
LEMMA TextTyped ==
    ASSUME PromptOK, NEW m \in DOMAIN prompt.messages
    PROVE  TextOf(m) \in Seq(Characters) /\ Len(TextOf(m)) \in Nat
<1>1. prompt.messages[m] \in [policy : BOOLEAN, text : Seq(Characters)]
  <2> DEFINE q == prompt.messages
             R == [policy : BOOLEAN, text : Seq(Characters)]
  <2>1. q \in Seq(R) /\ m \in DOMAIN q
    BY DEF PromptOK
  <2> HIDE DEF q, R
  <2>2. q[m] \in R
    BY <2>1
  <2> QED BY <2>2 DEF q, R
<1> QED
  BY <1>1 DEF TextOf

\* The fields of a span.
LEMMA SpanIs ==
    ASSUME NEW m \in Nat, NEW x \in Nat \X Nat, NEW p \in Nat
    PROVE  /\ Span(m, x, p) \in Spans
           /\ Span(m, x, p).source = m /\ Span(m, x, p).parent = p
           /\ Span(m, x, p).from = x[1] /\ Span(m, x, p).end = x[2]
BY DEF Span, Spans

\* Only the two offsets of a range matter.
LEMMA FitsRange ==
    ASSUME NEW text, NEW x, NEW y, NEW a, NEW b, x[1] = y[1], x[2] = y[2], RangeFits(text, x, a, b)
    PROVE  RangeFits(text, y, a, b)
BY DEF RangeFits

\* A text within a text.
LEMMA PartOfText ==
    ASSUME NEW text \in Seq(Characters), NEW from \in Nat, NEW end \in Nat,
           from < end, end <= Len(text)
    PROVE  LET sub == SubSeq(text, from + 1, end) IN
           /\ sub \in Seq(Characters) /\ Len(sub) = end - from
           /\ \A at \in 0..(end - from - 1) : IsSpace(sub, at) <=> IsSpace(text, from + at)
<1> DEFINE sub == SubSeq(text, from + 1, end)
<1>1. /\ sub \in Seq(Characters) /\ Len(sub) = end - from
      /\ \A i \in 1..(end - from) : sub[i] = text[from + 1 + i - 1]
  BY SubSeqProperties
<1>2. ASSUME NEW at \in 0..(end - from - 1) PROVE sub[at + 1] = text[from + at + 1]
  <2> DEFINE i == at + 1
  <2>1. i \in 1..(end - from) /\ from + 1 + i - 1 = from + at + 1
    OBVIOUS
  <2> HIDE DEF i, sub
  <2>2. sub[i] = text[from + at + 1]
    BY <1>1, <2>1
  <2> QED BY <2>2 DEF i
<1> HIDE DEF sub
<1>3. \A at \in 0..(end - from - 1) : IsSpace(sub, at) <=> IsSpace(text, from + at)
  BY <1>2 DEF IsSpace, Kind
<1> QED
  BY <1>1, <1>3 DEF sub

\* What cuts up the text of a span cuts up its source there.
LEMMA PartFits ==
    ASSUME NEW text \in Seq(Characters), NEW s \in Nat \X Nat,
           RangeFits(text, s, 0, Len(text)),
           NEW x \in Nat \X Nat, NEW y, y[1] = s[1] + x[1], y[2] = s[1] + x[2],
           RangeFits(SubSeq(text, s[1] + 1, s[2]), x, 0, s[2] - s[1])
    PROVE  RangeFits(text, y, s[1], s[2])
<1> DEFINE sub == SubSeq(text, s[1] + 1, s[2])
           from == s[1]
           end == s[2]
           x1 == x[1]
           x2 == x[2]
<1>1. from \in Nat /\ end \in Nat /\ from < end /\ end <= Len(text) /\ x1 \in Nat /\ x2 \in Nat
  BY DEF RangeFits
<1>2. StartsWord(text, from) /\ EndsWord(text, end)
  BY DEF RangeFits
<1>3. /\ x1 < x2 /\ x2 <= end - from /\ ~IsSpace(sub, x1) /\ ~IsSpace(sub, x2 - 1)
      /\ StartsWord(sub, x1) /\ EndsWord(sub, x2)
  BY DEF RangeFits
<1>4. y[1] = from + x1 /\ y[2] = from + x2
  OBVIOUS
<1> HIDE DEF from, end, x1, x2
<1>5. /\ Len(sub) = end - from
      /\ \A at \in 0..(end - from - 1) : IsSpace(sub, at) <=> IsSpace(text, from + at)
  BY <1>1, PartOfText DEF from, end
<1> HIDE DEF sub
<1>6. from <= from + x1 /\ from + x1 < from + x2 /\ from + x2 <= end
  BY <1>1, <1>3
<1>7. ~IsSpace(text, from + x1)
  <2>1. x1 \in 0..(end - from - 1)
    BY <1>1, <1>3
  <2> QED BY <1>3, <1>5, <2>1
<1>8. ~IsSpace(text, from + x2 - 1)
  <2>1. x2 - 1 \in 0..(end - from - 1) /\ from + (x2 - 1) = from + x2 - 1
    BY <1>1, <1>3
  <2>2. ~IsSpace(text, from + (x2 - 1))
    BY <1>3, <1>5, <2>1
  <2> QED BY <2>1, <2>2
<1>9. StartsWord(text, from + x1)
  <2>1. CASE x1 = 0
    <3>1. from + x1 = from
      BY <1>1, <2>1
    <3> QED BY <1>2, <3>1
  <2>2. CASE x1 # 0
    <3>1. x1 - 1 \in 0..(end - from - 1) /\ from + (x1 - 1) = from + x1 - 1
      BY <1>1, <1>3, <2>2
    <3>2. IsSpace(text, from + (x1 - 1))
      BY <1>3, <1>5, <2>2, <3>1 DEF StartsWord
    <3> DEFINE p == from + x1
    <3>a. p - 1 = from + (x1 - 1)
      BY <1>1
    <3>3. IsSpace(text, p - 1)
      BY <3>2, <3>a
    <3> HIDE DEF p
    <3>4. StartsWord(text, p)
      BY <3>3 DEF StartsWord
    <3> QED BY <3>4 DEF p
  <2> QED BY <2>1, <2>2
<1>10. EndsWord(text, from + x2)
  <2>1. CASE x2 = end - from
    <3>1. from + x2 = end
      BY <1>1, <2>1
    <3> QED BY <1>2, <3>1
  <2>2. CASE x2 # end - from
    <3>1. x2 \in 0..(end - from - 1)
      BY <1>1, <1>3, <2>2
    <3> QED BY <1>3, <1>5, <2>2, <3>1 DEF EndsWord
  <2> QED BY <2>1, <2>2
<1> DEFINE p == from + x1
           q == from + x2
<1>a. y[1] = p /\ y[2] = q
  BY <1>4
<1>b. from <= p /\ p < q /\ q <= end
  BY <1>6
<1>c. ~IsSpace(text, p) /\ StartsWord(text, p)
  BY <1>7, <1>9
<1>d. ~IsSpace(text, q - 1) /\ EndsWord(text, q)
  <2>1. q - 1 = from + x2 - 1
    BY <1>1
  <2>2. ~IsSpace(text, q - 1)
    BY <1>8, <2>1
  <2>3. EndsWord(text, q)
    BY <1>10
  <2> QED BY <2>2, <2>3
<1> HIDE DEF p, q
<1>11. RangeFits(text, y, from, end)
  BY <1>a, <1>b, <1>c, <1>d DEF RangeFits
<1> QED
  BY <1>11 DEF from, end

\* The spans q lie side by side and hold what is visible in source m from a to b.
Covered(q, m, a, b) ==
    /\ q \in Seq(Spans)
    /\ \A i \in DOMAIN q : q[i].source = m /\ SpanFits(q[i], a, b)
    /\ \A i, j \in DOMAIN q : i < j => q[i].end <= q[j].from
    /\ \A at \in a..(b - 1) : ~IsSpace(TextOf(m), at) =>
          \E i \in DOMAIN q : q[i].from <= at /\ at < q[i].end

\* Ranges that cut up a source, as spans of it.
LEMMA CutsCover ==
    ASSUME NEW m \in Nat, NEW a \in Nat, NEW b \in Nat, NEW g, CutsUp(TextOf(m), g, a, b),
           NEW p \in Nat, NEW q, q = [j \in DOMAIN g |-> Span(m, g[j], p)]
    PROVE  Covered(q, m, a, b) /\ Len(q) = Len(g) /\ \A i \in DOMAIN q : q[i].parent = p
<1>1. g \in Seq(Nat \X Nat) /\ Len(g) \in Nat /\ DOMAIN g = 1..Len(g)
  BY DEF CutsUp
<1>2. ASSUME NEW i \in DOMAIN g
      PROVE  /\ q[i] \in Spans /\ q[i].source = m /\ q[i].parent = p
             /\ q[i].from = g[i][1] /\ q[i].end = g[i][2]
  <2>1. g[i] \in Nat \X Nat /\ q[i] = Span(m, g[i], p)
    BY <1>1
  <2> DEFINE x == g[i]
  <2> HIDE DEF x
  <2>2. x \in Nat \X Nat /\ q[i] = Span(m, x, p)
    BY <2>1 DEF x
  <2>3. /\ q[i] \in Spans /\ q[i].source = m /\ q[i].parent = p
        /\ q[i].from = x[1] /\ q[i].end = x[2]
    BY <2>2, SpanIs
  <2> QED BY <2>3 DEF x
<1>3. q \in Seq(Spans) /\ Len(q) = Len(g) /\ DOMAIN q = DOMAIN g
  <2>1. q \in [1..Len(g) -> Spans] /\ DOMAIN q = DOMAIN g
    BY <1>1, <1>2
  <2> QED BY <1>1, <2>1
<1>4. ASSUME NEW i \in DOMAIN g PROVE SpanFits(q[i], a, b)
  <2>1. RangeFits(TextOf(m), g[i], a, b)
    BY DEF CutsUp
  <2> DEFINE y == <<q[i].from, q[i].end>>
             x == g[i]
  <2>2. x[1] = y[1] /\ x[2] = y[2] /\ RangeFits(TextOf(m), x, a, b)
    BY <1>2, <2>1
  <2> HIDE DEF x, y
  <2>3. RangeFits(TextOf(m), y, a, b)
    BY <2>2, FitsRange
  <2> QED BY <1>2, <2>3 DEF SpanFits, y
<1>5. ASSUME NEW i \in DOMAIN g, NEW j \in DOMAIN g, i < j PROVE q[i].end <= q[j].from
  BY <1>2, <1>5 DEF CutsUp
<1>6. ASSUME NEW at \in a..(b - 1), ~IsSpace(TextOf(m), at)
      PROVE  \E i \in DOMAIN g : q[i].from <= at /\ at < q[i].end
  <2>1. PICK i \in DOMAIN g : g[i][1] <= at /\ at < g[i][2]
    BY <1>6 DEF CutsUp
  <2> QED BY <1>2, <2>1
<1> QED
  BY <1>2, <1>3, <1>4, <1>5, <1>6 DEF Covered

\* Spans side by side that hold every offset hold each of them once.
LEMMA CoverOf ==
    ASSUME NEW S, NEW I \in SUBSET Nat, NEW T \in SUBSET Nat, \A i \in I : S[i] \in Spans,
           \A i, j \in I : i < j => S[i].end <= S[j].from,
           \A at \in T : \E i \in I : S[i].from <= at /\ at < S[i].end,
           \A i \in I : S[i].from \in T /\ S[i].end - 1 \in T
    PROVE  Cover(S, I, T)
<1>1. ASSUME NEW at \in T PROVE Cardinality({i \in I : at \in Inside(S[i])}) = 1
  <2> DEFINE H == {i \in I : at \in Inside(S[i])}
  <2>1. \A i \in I : i \in H <=> S[i].from <= at /\ at < S[i].end
    <3>1. \A i \in I : S[i].from \in Nat /\ S[i].end \in Nat
      BY DEF Spans
    <3> QED BY <3>1 DEF Inside
  <2>2. PICK i \in I : S[i].from <= at /\ at < S[i].end
    OBVIOUS
  <2>3. ASSUME NEW j \in H PROVE j = i
    <3>1. /\ j \in I /\ S[j].from <= at /\ at < S[j].end
          /\ S[i].from \in Nat /\ S[i].end \in Nat /\ S[j].from \in Nat /\ S[j].end \in Nat
      BY <2>1 DEF Spans
    <3>2. ~(S[i].end <= S[j].from) /\ ~(S[j].end <= S[i].from)
      BY <2>2, <3>1
    <3>a. ~(i < j) /\ ~(j < i)
      BY <3>1, <3>2
    <3>b. i \in Nat /\ j \in Nat
      BY <3>1
    <3> QED BY <3>a, <3>b
  <2>4. i \in H
    BY <2>1, <2>2
  <2> HIDE DEF H
  <2>5. H = {i}
    BY <2>3, <2>4
  <2>6. Cardinality(H) = 1
    BY <2>5, FS_Singleton
  <2> QED BY <2>6 DEF H
<1>2. \A i \in I : {S[i].from, S[i].end - 1} \subseteq T
  OBVIOUS
<1> QED
  BY <1>1, <1>2 DEF Cover

\* A span begins and ends with a visible character of its source.
LEMMA VisibleIs ==
    ASSUME NEW m, Len(TextOf(m)) \in Nat, NEW s, SpanFits(s, 0, Len(TextOf(m))), s.source = m
    PROVE  /\ Visible(m) \subseteq Nat
           /\ s.from \in Visible(m) /\ s.end - 1 \in Visible(m)
           /\ s.from \in Inside(s) /\ s.end - 1 \in Inside(s)
<1> DEFINE L == Len(TextOf(m))
           a == s.from
           b == s.end
<1>1. /\ a \in Nat /\ b \in Nat /\ a < b /\ b <= L
      /\ ~IsSpace(TextOf(m), a) /\ ~IsSpace(TextOf(m), b - 1)
  <2> DEFINE x == <<a, b>>
  <2>1. x[1] = a /\ x[2] = b
    OBVIOUS
  <2> HIDE DEF x
  <2>2. RangeFits(TextOf(m), x, 0, L) /\ a \in Nat /\ b \in Nat
    BY DEF SpanFits, x, Spans
  <2> QED BY <2>1, <2>2 DEF RangeFits
<1> HIDE DEF a, b, L
<1>2. L \in Nat
  BY DEF L
<1>3. a \in 0..(L - 1) /\ b - 1 \in 0..(L - 1) /\ a \in a..(b - 1) /\ b - 1 \in a..(b - 1)
  BY <1>1, <1>2
<1>4. Visible(m) = {at \in 0..(L - 1) : ~IsSpace(TextOf(m), at)}
  BY DEF Visible, L
<1>5. a \in Visible(m) /\ b - 1 \in Visible(m) /\ Visible(m) \subseteq Nat
  BY <1>1, <1>2, <1>3, <1>4
<1> QED
  BY <1>3, <1>5 DEF a, b, Inside

\* A span that is cut finer is cut into spans of the same kind, which cover it.
LEMMA FineCovers ==
    ASSUME PromptOK, spans \in Seq(Spans), NEW i \in DOMAIN spans,
           spans[i].source \in DOMAIN prompt.messages,
           SpanFits(spans[i], 0, Len(TextOf(spans[i].source))), FineSpans(i) # <<>>
    PROVE  /\ Covered(FineSpans(i), spans[i].source, spans[i].from, spans[i].end)
           /\ \A j \in DOMAIN FineSpans(i) : FineSpans(i)[j].parent = i
<1> DEFINE s == spans[i]
           m == s.source
           text == TextOf(m)
           a == s.from
           b == s.end
           sub == SubSeq(text, a + 1, b)
           units == TextRanges(sub, FineTarget)
           g == Grouped(units, MaxFine)
           q == FineSpans(i)
           h == [j \in DOMAIN g |-> <<a + g[j][1], a + g[j][2]>>]
<1>d. s \in Spans /\ i \in Nat
  <2>1. \A j \in DOMAIN spans : j \in Nat /\ spans[j] \in Spans
    OBVIOUS
  <2> QED BY <2>1
<1>1. s \in Spans /\ m \in Nat /\ a \in Nat /\ b \in Nat /\ i \in Nat
  BY <1>d DEF Spans
<1>2. text \in Seq(Characters) /\ Len(text) \in Nat
  BY TextTyped
<1>3. /\ a < b /\ b <= Len(text) /\ RangeFits(text, <<a, b>>, 0, Len(text))
  <2> DEFINE x == <<a, b>>
  <2>1. x[1] = a /\ x[2] = b
    OBVIOUS
  <2> HIDE DEF x
  <2>2. RangeFits(text, x, 0, Len(text))
    BY DEF SpanFits, x
  <2>3. x[1] < x[2] /\ x[2] <= Len(text)
    BY <2>2 DEF RangeFits
  <2> QED BY <2>1, <2>2, <2>3 DEF x
<1>4. ~(Len(units) <= 1) /\ q = [j \in DOMAIN g |-> Span(m, <<a + g[j][1], a + g[j][2]>>, i)]
  <2> DEFINE gr == IF Len(units) <= 1 THEN <<>> ELSE g
  <2>1. q = IF Len(gr) <= 1 THEN <<>>
            ELSE [j \in DOMAIN gr |-> Span(m, <<a + gr[j][1], a + gr[j][2]>>, i)]
    BY DEF FineSpans
  <2>2. gr # <<>>
    BY <2>1
  <2>3. ~(Len(units) <= 1) /\ gr = g
    BY <2>2
  <2>4. ~(Len(gr) <= 1)
    BY <2>1
  <2> HIDE DEF gr, g
  <2>5. q = [j \in DOMAIN g |-> Span(m, <<a + g[j][1], a + g[j][2]>>, i)]
    BY <2>1, <2>3, <2>4
  <2> QED BY <2>3, <2>5
<1> HIDE DEF s
<1> HIDE DEF m, a, b, text, q
<1>5. FineTarget \in Nat \ {0} /\ MaxFine \in Nat
  BY InfluenceAssumption
<1>6. /\ sub \in Seq(Characters) /\ Len(sub) = b - a
      /\ \A at \in 0..(b - a - 1) : IsSpace(sub, at) <=> IsSpace(text, a + at)
  BY <1>1, <1>2, <1>3, PartOfText
<1>a. b - a \in Nat
  BY <1>1, <1>3
<1> HIDE DEF sub
<1>7. CutsUp(sub, units, 0, b - a)
  BY <1>5, <1>6, <1>a, TextCut
<1> HIDE DEF units
<1>8. CutsUp(sub, g, 0, b - a) /\ g \in Seq(Nat \X Nat)
  <2>1. Len(units) # 0
    BY <1>4
  <2>2. CutsUp(sub, g, 0, b - a)
    BY <1>5, <1>7, <1>a, <2>1, GroupedCuts
  <2> QED BY <2>2 DEF CutsUp
<1> HIDE DEF g
<1>9. ASSUME NEW j \in DOMAIN g
      PROVE  h[j] \in Nat \X Nat /\ h[j][1] = a + g[j][1] /\ h[j][2] = a + g[j][2]
  <2>1. g[j] \in Nat \X Nat
    BY <1>8
  <2>2. a + g[j][1] \in Nat /\ a + g[j][2] \in Nat
    BY <1>1, <2>1
  <2> DEFINE x == a + g[j][1]
             y == a + g[j][2]
  <2>3. h[j] = <<x, y>>
    OBVIOUS
  <2> HIDE DEF x, y, h
  <2>4. h[j] \in Nat \X Nat /\ h[j][1] = x /\ h[j][2] = y
    BY <2>2, <2>3 DEF x, y
  <2> QED BY <2>4 DEF x, y
<1>b. DOMAIN h = DOMAIN g /\ h \in Seq(Nat \X Nat)
  <2>1. DOMAIN g = 1..Len(g) /\ Len(g) \in Nat /\ DOMAIN h = DOMAIN g
    BY <1>8
  <2>2. h = [j \in 1..Len(g) |-> h[j]]
    BY <2>1
  <2> HIDE DEF h
  <2>3. h \in [1..Len(g) -> Nat \X Nat]
    BY <1>9, <2>1, <2>2
  <2> QED BY <2>1, <2>3
<1>c. \A j \in DOMAIN g : <<a + g[j][1], a + g[j][2]>> = h[j]
  OBVIOUS
<1> HIDE DEF h
<1>10. CutsUp(text, h, a, b)
  <2>1. ASSUME NEW j \in DOMAIN h PROVE RangeFits(text, h[j], a, b)
    <3> DEFINE x == g[j]
               y == h[j]
               r == <<a, b>>
    <3>1. x \in Nat \X Nat /\ y[1] = a + x[1] /\ y[2] = a + x[2] /\ RangeFits(sub, x, 0, b - a)
      BY <1>8, <1>9, <1>b DEF CutsUp
    <3>2. r \in Nat \X Nat /\ r[1] = a /\ r[2] = b /\ RangeFits(text, r, 0, Len(text))
      BY <1>1, <1>3
    <3> HIDE DEF x, y, r
    <3>3. RangeFits(SubSeq(text, r[1] + 1, r[2]), x, 0, r[2] - r[1])
      BY <3>1, <3>2 DEF sub
    <3>4. y[1] = r[1] + x[1] /\ y[2] = r[1] + x[2]
      BY <3>1, <3>2
    <3>5. RangeFits(text, y, r[1], r[2])
      BY <1>2, <3>1, <3>2, <3>3, <3>4, PartFits
    <3> QED BY <3>2, <3>5 DEF y
  <2>2. ASSUME NEW j \in DOMAIN h, NEW k \in DOMAIN h, j < k PROVE h[j][2] <= h[k][1]
    <3>1. g[j][2] <= g[k][1] /\ g[j][2] \in Nat /\ g[k][1] \in Nat
      BY <1>8, <1>b, <2>2 DEF CutsUp
    <3>2. a + g[j][2] <= a + g[k][1]
      BY <1>1, <3>1
    <3> QED BY <1>9, <1>b, <3>2
  <2>3. ASSUME NEW at \in a..(b - 1), ~IsSpace(text, at)
        PROVE  \E j \in DOMAIN h : h[j][1] <= at /\ at < h[j][2]
    <3> DEFINE d == at - a
    <3>1. d \in 0..(b - a - 1) /\ a + d = at /\ at \in Nat /\ d \in Nat
      BY <1>1
    <3> HIDE DEF d
    <3>2. ~IsSpace(sub, d)
      BY <1>6, <2>3, <3>1
    <3>3. PICK j \in DOMAIN g : g[j][1] <= d /\ d < g[j][2]
      BY <1>8, <3>1, <3>2 DEF CutsUp
    <3>4. g[j][1] \in Nat /\ g[j][2] \in Nat
      BY <1>8
    <3>5. a + g[j][1] <= at /\ at < a + g[j][2]
      BY <1>1, <3>1, <3>3, <3>4, SMTT(30)
    <3> QED BY <1>9, <1>b, <3>5
  <2> QED BY <1>b, <2>1, <2>2, <2>3 DEF CutsUp
<1>11. q = [j \in DOMAIN h |-> Span(m, h[j], i)]
  BY <1>4, <1>b, <1>c
<1>12. Covered(q, m, a, b) /\ \A j \in DOMAIN q : q[j].parent = i
  BY <1>1, <1>2, <1>10, <1>11, CutsCover DEF text
<1> QED
  BY <1>12 DEF q, m, a, b, s

-----------------------------------------------------------------------------
(* The sources of a prompt *)

\* The messages with text are finitely many.
LEMMA SourcesFinite ==
    ASSUME PromptOK
    PROVE  /\ IsFiniteSet(Sources) /\ Sources \subseteq 1..Len(prompt.messages)
           /\ Len(prompt.messages) \in Nat
<1> DEFINE q == prompt.messages
<1>1. Len(q) \in Nat /\ DOMAIN q = 1..Len(q)
  BY DEF PromptOK
<1>2. Sources \subseteq 1..Len(q)
  BY <1>1 DEF Sources
<1> HIDE DEF q
<1>3. IsFiniteSet(1..Len(q))
  BY <1>1, FS_Interval
<1> QED
  BY <1>1, <1>2, <1>3, FS_Subset DEF q

\* Those that have few before them are few.
LEMMA FewBefore ==
    ASSUME NEW S, IsFiniteSet(S), NEW before, TotalOrder(S, before), NEW room \in Nat,
           NEW L \in SUBSET S, \A m \in L : Cardinality({j \in S : <<j, m>> \in before}) < room
    PROVE  IsFiniteSet(L) /\ Cardinality(L) \in Nat /\ Cardinality(L) <= room
<1> DEFINE Rank == RankIn(S, before)
           N == Cardinality(S)
<1>1. \A i \in S : Rank[i] = Cardinality({j \in S : <<j, i>> \in before})
  BY DEF RankIn
<1> HIDE DEF Rank, N
<1>2. Rank \in [S -> 0..(N - 1)] /\ \A i, j \in S : Rank[i] = Rank[j] => i = j
  BY Ranks DEF Ranking, Rank, N
<1>3. IsFiniteSet(L) /\ Cardinality(L) \in Nat
  BY FS_Subset, FS_CardinalityType
<1>4. N \in Nat
  BY FS_CardinalityType DEF N
<1>5. IsFiniteSet(0..(room - 1)) /\ Cardinality(0..(room - 1)) = room
  <2>1. room - 1 \in Int /\ 0 \in Int
    OBVIOUS
  <2>2. /\ IsFiniteSet(0..(room - 1))
        /\ Cardinality(0..(room - 1)) = IF 0 > room - 1 THEN 0 ELSE room - 1 - 0 + 1
    BY <2>1, FS_Interval
  <2> QED BY <2>2
<1> DEFINE f == [m \in L |-> Rank[m]]
<1>6. f \in Injection(L, 0..(room - 1))
  <2>1. \A m \in L : f[m] = Rank[m] /\ m \in S /\ Rank[m] < room
    BY <1>1
  <2>2. \A m \in L : Rank[m] \in 0..(room - 1)
    <3> SUFFICES ASSUME NEW m \in L PROVE Rank[m] \in 0..(room - 1)
      OBVIOUS
    <3>1. Rank[m] \in 0..(N - 1) /\ Rank[m] < room
      BY <1>2, <2>1
    <3> QED BY <1>4, <3>1
  <2>3. f \in [L -> 0..(room - 1)]
    BY <2>2
  <2> HIDE DEF f
  <2>4. \A i, j \in L : f[i] = f[j] => i = j
    BY <1>2, <2>1
  <2> QED BY <2>3, <2>4 DEF Injection, IsInjective
<1>7. Cardinality(L) <= room
  BY <1>5, <1>6, FS_Injection
<1> QED
  BY <1>3, <1>7

\* The latest of a set of numbers: as many as there is room for.
LEMMA LatestFit ==
    ASSUME NEW S \in SUBSET Int, IsFiniteSet(S), NEW room \in Nat
    PROVE  LET L == {m \in S : Cardinality({n \in S : n > m}) < room} IN
           IsFiniteSet(L) /\ Cardinality(L) \in Nat /\ Cardinality(L) <= room
<1> DEFINE before == {p \in S \X S : p[1] > p[2]}
           L == {m \in S : Cardinality({n \in S : n > m}) < room}
<1>1. \A i, j : <<i, j>> \in before <=> i \in S /\ j \in S /\ i > j
  OBVIOUS
<1> HIDE DEF before
<1>2. TotalOrder(S, before)
  BY <1>1 DEF TotalOrder
<1>3. ASSUME NEW m \in S
      PROVE  Cardinality({n \in S : n > m}) = Cardinality({j \in S : <<j, m>> \in before})
  <2>1. {n \in S : n > m} = {j \in S : <<j, m>> \in before}
    BY <1>1
  <2> QED BY <2>1
<1>4. L \in SUBSET S /\ \A m \in L : Cardinality({j \in S : <<j, m>> \in before}) < room
  BY <1>3
<1> HIDE DEF L
<1>5. IsFiniteSet(L) /\ Cardinality(L) \in Nat /\ Cardinality(L) <= room
  BY <1>2, <1>4, FewBefore, Zenon
<1> QED
  BY <1>5 DEF L

\* The selected sources are no more than the spans, and the first policy and the
\* latest source are among them.
LEMMA SelectedFit ==
    ASSUME PromptOK
    PROVE  /\ Selected \subseteq Sources /\ IsFiniteSet(Selected)
           /\ Cardinality(Selected) \in Nat /\ Cardinality(Selected) <= MaxSpans
           /\ Sources # {} /\ MaxSpans >= 2 =>
                /\ Max(Sources) \in Selected
                /\ \A m \in Sources :
                      prompt.messages[m].policy
                          /\ (\A n \in Sources : n < m => ~prompt.messages[n].policy)
                      => m \in Selected
<1> DEFINE policies == {m \in Sources : prompt.messages[m].policy}
           first == IF policies = {} THEN {} ELSE {Min(policies)}
           others == Sources \ first
           room == MaxSpans - Cardinality(first)
           latest == {m \in others : Cardinality({n \in others : n > m}) < room}
           N == Len(prompt.messages)
<1>1. IsFiniteSet(Sources) /\ Sources \subseteq 1..N /\ N \in Nat
  BY SourcesFinite
<1>a. Sources \subseteq Nat
  BY <1>1
<1>2. Cardinality(Sources) \in Nat
  BY <1>1, FS_CardinalityType
<1>3. MaxSpans \in Nat \ {0}
  BY InfluenceAssumption
<1>4. Selected = IF Cardinality(Sources) <= MaxSpans THEN Sources ELSE first \cup latest
  BY DEF Selected
<1> HIDE DEF N
<1>5. CASE Cardinality(Sources) <= MaxSpans
  <2>1. Selected = Sources
    BY <1>4, <1>5
  <2>2. Sources # {} => Max(Sources) \in Sources
    <3>1. Sources \subseteq 0..N
      BY <1>1
    <3> QED BY <1>1, <3>1, MaxOfSet
  <2> QED BY <1>1, <1>2, <1>5, <2>1, <2>2
<1>6. CASE ~(Cardinality(Sources) <= MaxSpans)
  <2>1. Selected = first \cup latest
    BY <1>4, <1>6
  <2>2. policies \subseteq Nat /\ policies \subseteq Sources
    BY <1>a
  <2>3. policies # {} => Min(policies) \in policies /\ \A k \in policies : Min(policies) <= k
    BY <2>2, MinOfSet
  <2>4. /\ first \subseteq Sources /\ IsFiniteSet(first)
        /\ Cardinality(first) \in {0, 1}
    BY <2>2, <2>3, FS_Singleton, FS_EmptySet
  <2>5. room \in Nat /\ (MaxSpans >= 2 => room > 0)
    BY <1>3, <2>4
  <2>6. others \subseteq Sources /\ IsFiniteSet(others) /\ others \in SUBSET Int
    <3>1. others \subseteq Sources
      OBVIOUS
    <3> HIDE DEF others
    <3>2. IsFiniteSet(others)
      BY <1>1, <3>1, FS_Subset
    <3>3. others \in SUBSET Int
      BY <1>a, <3>1
    <3> QED BY <3>1, <3>2, <3>3
  <2> HIDE DEF first, room, others, policies
  <2>7. IsFiniteSet(latest) /\ Cardinality(latest) \in Nat /\ Cardinality(latest) <= room
    BY <2>5, <2>6, LatestFit
  <2>8. latest \subseteq others
    OBVIOUS
  <2>9. Sources # {} /\ MaxSpans >= 2 => Max(Sources) \in Selected
    <3> SUFFICES ASSUME Sources # {}, MaxSpans >= 2 PROVE Max(Sources) \in Selected
      OBVIOUS
    <3> DEFINE x == Max(Sources)
    <3>1. Sources \subseteq 0..N
      BY <1>1
    <3>2. x \in Sources /\ \A k \in Sources : x >= k
      BY <1>1, <3>1, MaxOfSet
    <3> HIDE DEF x
    <3>3. {n \in others : n > x} = {}
      <4>1. ASSUME NEW n \in others PROVE ~(n > x)
        <5>1. n \in Sources /\ n \in Nat /\ x \in Nat
          BY <1>a, <2>6, <3>2
        <5>2. x >= n
          BY <3>2, <5>1
        <5> QED BY <5>1, <5>2
      <4> QED BY <4>1
    <3>4. Cardinality({n \in others : n > x}) = 0
      BY <3>3, FS_EmptySet
    <3>5. x \in others => x \in latest
      BY <2>5, <3>4
    <3> HIDE DEF latest
    <3> QED BY <2>1, <3>2, <3>5 DEF x, others
  <2> HIDE DEF latest
  <2>10. /\ IsFiniteSet(Selected) /\ Cardinality(Selected) \in Nat
         /\ Cardinality(Selected) <= MaxSpans
    <3>1. IsFiniteSet(first \cup latest) /\ first \cap latest = {}
      BY <2>4, <2>7, <2>8, FS_Union DEF others
    <3>2. Cardinality(first \cup latest)
            = Cardinality(first) + Cardinality(latest) - Cardinality(first \cap latest)
      BY <2>4, <2>7, FS_Union
    <3>3. Cardinality(first \cap latest) = 0
      BY <3>1, FS_EmptySet
    <3>4. Cardinality(first \cup latest) = Cardinality(first) + Cardinality(latest)
      BY <2>4, <2>7, <3>2, <3>3
    <3> QED BY <1>3, <2>1, <2>4, <2>5, <2>7, <3>1, <3>4 DEF room
  <2>11. ASSUME NEW m \in Sources, prompt.messages[m].policy,
                \A n \in Sources : n < m => ~prompt.messages[n].policy
         PROVE  m \in Selected
    <3>1. m \in policies
      BY <2>11 DEF policies
    <3>2. Min(policies) \in policies /\ Min(policies) <= m
      BY <2>3, <3>1
    <3>3. ~(Min(policies) < m)
      BY <2>11, <3>2 DEF policies
    <3>4. Min(policies) = m
      <4> DEFINE p == Min(policies)
      <4>1. p \in Nat /\ m \in Nat /\ p <= m /\ ~(p < m)
        BY <1>a, <2>2, <3>2, <3>3
      <4> HIDE DEF p
      <4>2. p = m
        BY <4>1
      <4> QED BY <4>2 DEF p
    <3> QED BY <2>1, <3>1, <3>4 DEF first
  <2> QED BY <2>1, <2>4, <2>6, <2>8, <2>9, <2>10, <2>11
<1> QED
  BY <1>5, <1>6

-----------------------------------------------------------------------------
(* The spans each source gets *)

Allotments == [Selected -> Nat \ {0}]
\* The spans a source may have, by source and place.
Held(slots) == {p \in Selected \X Nat : 1 <= p[2] /\ p[2] <= slots[p[1]]}

\* One more span is given, or none.
LEMMA OneMoreIs ==
    ASSUME NEW slots \in Allotments, IsFiniteSet(Held(slots))
    PROVE  /\ OneMore(slots) \in Allotments /\ IsFiniteSet(Held(OneMore(slots)))
           /\ Cardinality(Held(OneMore(slots))) <= Cardinality(Held(slots)) + 1
<1> DEFINE more == MoreSlots(slots)
           c == CHOOSE m \in more : \A n \in more \ {m} : MoreText(slots, m, n)
           new == [slots EXCEPT ![c] = @ + 1]
           x == <<c, slots[c] + 1>>
<1>1. OneMore(slots) = slots \/ OneMore(slots) = new
  BY DEF OneMore
<1>2. Cardinality(Held(slots)) \in Nat
  BY FS_CardinalityType
<1> HIDE DEF c
<1>3. CASE c \in Selected
  <2>1. slots[c] \in Nat \ {0}
    BY <1>3 DEF Allotments
  <2>2. new \in Allotments /\ \A m \in Selected : new[m] = IF m = c THEN slots[c] + 1 ELSE slots[m]
    BY <1>3, <2>1 DEF Allotments
  <2> HIDE DEF new
  <2>3. Held(new) = Held(slots) \cup {x}
    <3>1. ASSUME NEW m \in Selected, NEW j \in Nat
          PROVE  <<m, j>> \in Held(new) <=> <<m, j>> \in Held(slots) \/ <<m, j>> = x
      <4>1. slots[m] \in Nat
        BY DEF Allotments
      <4>2. new[m] = IF m = c THEN slots[c] + 1 ELSE slots[m]
        BY <2>2
      <4>3. 1 <= j /\ j <= new[m] <=> (1 <= j /\ j <= slots[m]) \/ (m = c /\ j = slots[c] + 1)
        BY <2>1, <4>1, <4>2
      <4> QED BY <4>3 DEF Held
    <3>2. x \in Selected \X Nat
      BY <1>3, <2>1
    <3>3. Held(new) \subseteq Selected \X Nat /\ Held(slots) \subseteq Selected \X Nat
      BY DEF Held
    <3> HIDE DEF x
    <3> QED BY <3>1, <3>2, <3>3
  <2> HIDE DEF x
  <2>4. IsFiniteSet(Held(new)) /\ Cardinality(Held(new)) <= Cardinality(Held(slots)) + 1
    BY <1>2, <2>3, FS_AddElement
  <2> QED BY <1>1, <1>2, <2>2, <2>4
<1>4. CASE c \notin Selected
  <2>1. new = slots
    BY <1>4 DEF Allotments
  <2>2. OneMore(slots) = slots
    BY <1>1, <2>1
  <2> QED BY <1>2, <2>2
<1> QED
  BY <1>3, <1>4

\* One span for each source is as many spans as sources.
LEMMA OneEach ==
    ASSUME PromptOK, NEW base, base = [m \in Selected |-> 1]
    PROVE  /\ base \in Allotments /\ IsFiniteSet(Held(base))
           /\ Cardinality(Held(base)) <= Cardinality(Selected)
<1>1. base \in Allotments /\ \A m \in Selected : base[m] = 1
  BY DEF Allotments
<1> DEFINE f == [m \in Selected |-> <<m, 1>>]
<1>2. \A m \in Selected : <<m, 1>> \in Held(base)
  BY <1>1 DEF Held
<1>3. \A p \in Held(base) : \E m \in Selected : p = <<m, 1>>
  <2>1. ASSUME NEW m \in Selected, NEW j \in Nat, <<m, j>> \in Held(base) PROVE j = 1
    BY <1>1, <2>1 DEF Held
  <2>2. Held(base) \subseteq Selected \X Nat
    BY DEF Held
  <2> QED BY <2>1, <2>2
<1> DEFINE H == Held(base)
<1> HIDE DEF H
<1>4. f \in Surjection(Selected, H)
  <2>1. \A m \in Selected : f[m] = <<m, 1>>
    OBVIOUS
  <2>2. f \in [Selected -> H]
    BY <1>2 DEF H
  <2> HIDE DEF f
  <2>3. \A p \in H : \E m \in Selected : f[m] = p
    BY <1>3, <2>1 DEF H
  <2> QED BY <2>2, <2>3 DEF Surjection
<1>5. IsFiniteSet(Selected)
  BY SelectedFit
<1>6. IsFiniteSet(H) /\ Cardinality(H) <= Cardinality(Selected)
  BY <1>4, <1>5, FS_Surjection
<1> QED
  BY <1>1, <1>6 DEF H

\* The spans given to the sources, together, are no more than MaxSpans.
LEMMA SlotsAre ==
    ASSUME PromptOK
    PROVE  /\ Slots \in Allotments /\ IsFiniteSet(Held(Slots))
           /\ Cardinality(Held(Slots)) <= MaxSpans
<1> DEFINE c == Cardinality(Selected)
           base == [m \in Selected |-> 1]
           A == {d \in Nat : \E G :
                   G = [k \in 0..d |-> IF k <= c THEN base ELSE OneMore(G[k - 1])]}
<1>1. c \in Nat /\ c <= MaxSpans /\ MaxSpans \in Nat
  BY SelectedFit, InfluenceAssumption
<1>2. /\ base \in Allotments /\ IsFiniteSet(Held(base)) /\ Cardinality(Held(base)) <= c
  BY OneEach
<1> DEFINE Given == CHOOSE Given :
             Given = [k \in 0..MaxSpans |->
                        IF k <= Cardinality(Selected) THEN [m \in Selected |-> 1]
                        ELSE OneMore(Given[k - 1])]
<1>3. Slots = Given[MaxSpans]
  BY DEF Slots
<1> HIDE DEF base, c
<1>4. 0 \in A
  <2> DEFINE e == [k \in 0..0 |-> base]
  <2>1. \A k \in 0..0 : k <= c
    BY <1>1
  <2>2. e = [k \in 0..0 |-> IF k <= c THEN base ELSE OneMore(e[k - 1])]
    BY <2>1
  <2> HIDE DEF e
  <2>3. \E G : G = [k \in 0..0 |-> IF k <= c THEN base ELSE OneMore(G[k - 1])]
    BY <2>2
  <2> QED BY <2>3, Zenon
<1>5. ASSUME NEW d \in Nat, d \in A PROVE d + 1 \in A
  <2>1. PICK h : h = [k \in 0..d |-> IF k <= c THEN base ELSE OneMore(h[k - 1])]
    BY <1>5, Zenon
  <2> DEFINE z == d + 1
             new == IF z <= c THEN base ELSE OneMore(h[d])
             g == [k \in 0..z |-> IF k = z THEN new ELSE h[k]]
  <2>2. z \in Nat /\ z - 1 = d /\ \A k \in 0..z : k = z \/ k \in 0..d
    OBVIOUS
  <2>3. ASSUME NEW k \in 0..z PROVE g[k] = IF k <= c THEN base ELSE OneMore(g[k - 1])
    <3>1. g[k] = IF k = z THEN new ELSE h[k]
      OBVIOUS
    <3>2. CASE k = z
      <4>1. g[d] = h[d]
        BY <2>2
      <4> HIDE DEF g, z
      <4> QED BY <2>2, <3>1, <3>2, <4>1 DEF new
    <3>3. CASE k # z
      <4>1. k \in 0..d /\ h[k] = IF k <= c THEN base ELSE OneMore(h[k - 1])
        BY <2>1, <2>2, <3>3
      <4>2. ~(k <= c) => k - 1 \in 0..z /\ k - 1 # z
        BY <1>1, <4>1
      <4>3. ~(k <= c) => g[k - 1] = h[k - 1]
        BY <4>2
      <4> HIDE DEF g, z, new
      <4> QED BY <3>1, <3>3, <4>1, <4>3
    <3> QED BY <3>2, <3>3
  <2>4. g = [k \in 0..z |-> g[k]]
    OBVIOUS
  <2> HIDE DEF g, new
  <2>5. g = [k \in 0..z |-> IF k <= c THEN base ELSE OneMore(g[k - 1])]
    BY <2>3, <2>4
  <2>6. \E G : G = [k \in 0..z |-> IF k <= c THEN base ELSE OneMore(G[k - 1])]
    BY <2>5
  <2>7. z \in A
    BY <2>2, <2>6, Zenon
  <2> QED BY <2>7
<1>6. Given = [k \in 0..MaxSpans |-> IF k <= c THEN base ELSE OneMore(Given[k - 1])]
  <2>1. MaxSpans \in A
    <3> HIDE DEF A
    <3>1. Nat \subseteq A
      BY <1>4, <1>5, SetInduction
    <3> QED BY <1>1, <3>1
  <2>2. \E G : G = [k \in 0..MaxSpans |-> IF k <= c THEN base ELSE OneMore(G[k - 1])]
    BY <2>1, Zenon
  <2> QED BY <2>2, Zenon DEF c, base
<1> HIDE DEF Given
<1> DEFINE B == {k \in Nat : k <= MaxSpans =>
                    /\ Given[k] \in Allotments /\ IsFiniteSet(Held(Given[k]))
                    /\ Cardinality(Held(Given[k])) <= (IF k <= c THEN c ELSE k)}
<1>7. 0 \in B
  <2>1. 0 \in 0..MaxSpans /\ 0 <= c
    BY <1>1
  <2>2. Given[0] = base
    BY <1>6, <2>1
  <2> QED BY <1>2, <2>1, <2>2
<1>8. ASSUME NEW k \in Nat, k \in B PROVE k + 1 \in B
  <2> DEFINE z == k + 1
  <2>1. SUFFICES ASSUME z <= MaxSpans
                 PROVE  /\ Given[z] \in Allotments /\ IsFiniteSet(Held(Given[z]))
                        /\ Cardinality(Held(Given[z])) <= (IF z <= c THEN c ELSE z)
    OBVIOUS
  <2>2. z \in 0..MaxSpans /\ z - 1 = k /\ k <= MaxSpans /\ z \in Nat
    BY <1>1, <2>1
  <2>3. Given[z] = IF z <= c THEN base ELSE OneMore(Given[k])
    BY <1>6, <2>2
  <2>4. CASE z <= c
    BY <1>2, <2>3, <2>4
  <2>5. CASE ~(z <= c)
    <3> DEFINE s == Given[k]
    <3>1. s \in Allotments /\ IsFiniteSet(Held(s)) /\ Cardinality(Held(s)) <= (IF k <= c THEN c ELSE k)
      BY <1>8, <2>2
    <3>2. Given[z] = OneMore(s)
      BY <2>3, <2>5
    <3> HIDE DEF s, z
    <3>3. /\ OneMore(s) \in Allotments /\ IsFiniteSet(Held(OneMore(s)))
          /\ Cardinality(Held(OneMore(s))) <= Cardinality(Held(s)) + 1
      BY <3>1, OneMoreIs
    <3>4. (IF k <= c THEN c ELSE k) <= k
      BY <1>1, <2>2, <2>5
    <3>5. Cardinality(Held(s)) \in Nat /\ Cardinality(Held(OneMore(s))) \in Nat
      BY <3>1, <3>3, FS_CardinalityType
    <3>6. Cardinality(Held(s)) <= k
      BY <1>1, <3>1, <3>4, <3>5
    <3>7. Cardinality(Held(OneMore(s))) <= z
      BY <2>2, <3>3, <3>5, <3>6
    <3> QED BY <2>5, <3>2, <3>3, <3>7
  <2> QED BY <2>4, <2>5
<1>9. MaxSpans \in B
  <2> HIDE DEF B
  <2>1. Nat \subseteq B
    BY <1>7, <1>8, SetInduction
  <2> QED BY <1>1, <2>1
<1>10. (IF MaxSpans <= c THEN c ELSE MaxSpans) = MaxSpans
  BY <1>1
<1>11. MaxSpans <= MaxSpans
  BY <1>1
<1> QED
  BY <1>3, <1>9, <1>10, <1>11

-----------------------------------------------------------------------------
(* The coarse spans *)

\* The spans q are whole ones of the sources M and hold what is visible in them.
CoversSources(q, M) ==
    /\ q \in Seq(Spans)
    /\ \A i \in DOMAIN q :
          /\ q[i].source \in M /\ q[i].parent = 0
          /\ SpanFits(q[i], 0, Len(TextOf(q[i].source)))
    /\ \A i, j \in DOMAIN q : i < j /\ q[i].source = q[j].source => q[i].end <= q[j].from
    /\ \A m \in M : \A at \in Visible(m) :
          \E i \in DOMAIN q : q[i].source = m /\ q[i].from <= at /\ at < q[i].end

\* Spans that cover some sources, and spans that cover others, cover both.
LEMMA JoinSources ==
    ASSUME NEW M, NEW N, M \cap N = {}, NEW q, NEW r, CoversSources(q, M), CoversSources(r, N)
    PROVE  CoversSources(q \o r, M \cup N)
<1> DEFINE s == q \o r
           n == Len(q)
           k == Len(r)
<1>1. /\ q \in Seq(Spans) /\ r \in Seq(Spans) /\ n \in Nat /\ k \in Nat
      /\ DOMAIN q = 1..n /\ DOMAIN r = 1..k
  BY DEF CoversSources
<1>2. s \in Seq(Spans) /\ Len(s) = n + k
  BY <1>1, ConcatProperties
<1>3. DOMAIN s = 1..(n + k)
  BY <1>1, <1>2
<1>4. \A i \in 1..n : i \in 1..(n + k) /\ s[i] = q[i]
  BY <1>1
<1>5. \A i \in 1..k : n + i \in 1..(n + k) /\ s[n + i] = r[i]
  BY <1>1
<1>6. ASSUME NEW i \in 1..(n + k), i \notin 1..n
      PROVE  i > n /\ i - n \in 1..k /\ s[i] = r[i - n]
  BY <1>1, <1>6
<1> HIDE DEF s, n, k
<1>7. \A i \in 1..n : /\ s[i].source \in M /\ s[i].parent = 0
                      /\ SpanFits(s[i], 0, Len(TextOf(s[i].source)))
  BY <1>1, <1>4 DEF CoversSources
<1>8. ASSUME NEW i \in 1..(n + k), i \notin 1..n
      PROVE  /\ s[i].source \in N /\ s[i].parent = 0
             /\ SpanFits(s[i], 0, Len(TextOf(s[i].source)))
  <2>1. i - n \in 1..k /\ s[i] = r[i - n]
    BY <1>6, <1>8
  <2>2. \A l \in 1..k : /\ r[l].source \in N /\ r[l].parent = 0
                        /\ SpanFits(r[l], 0, Len(TextOf(r[l].source)))
    BY <1>1 DEF CoversSources
  <2> QED BY <2>1, <2>2
<1>9. ASSUME NEW i \in 1..(n + k), NEW j \in 1..(n + k), i < j, s[i].source = s[j].source
      PROVE  s[i].end <= s[j].from
  <2>1. CASE j \in 1..n
    <3>1. i \in 1..n
      BY <1>1, <1>9, <2>1
    <3>2. s[i] = q[i] /\ s[j] = q[j]
      BY <1>4, <2>1, <3>1
    <3> QED BY <1>1, <1>9, <2>1, <3>1, <3>2 DEF CoversSources
  <2>2. CASE i \in 1..n /\ j \notin 1..n
    BY <1>7, <1>8, <1>9, <2>2
  <2>3. CASE i \notin 1..n
    <3>1. j \notin 1..n
      BY <1>1, <1>9, <2>3
    <3>2. i - n \in 1..k /\ s[i] = r[i - n] /\ j - n \in 1..k /\ s[j] = r[j - n]
      BY <1>6, <2>3, <3>1
    <3> DEFINE u == i - n
               v == j - n
    <3>3. u < v
      BY <1>1, <1>9
    <3>4. u \in 1..k /\ v \in 1..k /\ s[i] = r[u] /\ s[j] = r[v]
      BY <3>2
    <3> HIDE DEF u, v
    <3> QED BY <1>1, <1>9, <3>3, <3>4 DEF CoversSources
  <2> QED BY <2>1, <2>2, <2>3
<1>10. ASSUME NEW m \in M \cup N, NEW at \in Visible(m)
       PROVE  \E i \in 1..(n + k) : s[i].source = m /\ s[i].from <= at /\ at < s[i].end
  <2>1. CASE m \in M
    <3>1. PICK i \in 1..n : q[i].source = m /\ q[i].from <= at /\ at < q[i].end
      BY <1>1, <2>1 DEF CoversSources
    <3> QED BY <1>4, <3>1
  <2>2. CASE m \in N
    <3>1. PICK i \in 1..k : r[i].source = m /\ r[i].from <= at /\ at < r[i].end
      BY <1>1, <2>2 DEF CoversSources
    <3> DEFINE j == n + i
    <3>2. j \in 1..(n + k) /\ s[j] = r[i]
      BY <1>5
    <3> HIDE DEF j
    <3> QED BY <3>1, <3>2
  <2> QED BY <2>1, <2>2
<1>11. CoversSources(s, M \cup N)
  BY <1>2, <1>3, <1>7, <1>8, <1>9, <1>10 DEF CoversSources
<1> QED
  BY <1>11 DEF s

\* One source, cut up in groups.
LEMMA OneSource ==
    ASSUME PromptOK, NEW m \in Sources, NEW slots \in Nat \ {0},
           NEW q, q = [j \in DOMAIN Grouped(TextRanges(TextOf(m), Target), slots) |->
                         Span(m, Grouped(TextRanges(TextOf(m), Target), slots)[j], 0)]
    PROVE  /\ CoversSources(q, {m})
           /\ Len(q) \in Nat /\ Len(q) <= slots
<1> DEFINE text == TextOf(m)
           L == Len(text)
           units == TextRanges(text, Target)
           g == Grouped(units, slots)
<1>1. m \in Nat /\ m \in DOMAIN prompt.messages /\ ~Blank(text)
  BY SourcesFinite DEF Sources
<1>2. text \in Seq(Characters) /\ L \in Nat
  BY <1>1, TextTyped
<1>3. q = [j \in DOMAIN g |-> Span(m, g[j], 0)]
  OBVIOUS
<1>4. Target \in Nat \ {0}
  BY InfluenceAssumption
<1>5. CutsUp(text, units, 0, L)
  BY <1>2, <1>4, TextCut
<1>6. PICK at \in 0..(L - 1) : ~IsSpace(text, at)
  BY <1>1 DEF Blank
<1> HIDE DEF units, text, L
<1>7. Len(units) # 0
  <2>1. units \in Seq(Nat \X Nat) /\ DOMAIN units # {}
    BY <1>5, <1>6 DEF CutsUp
  <2> QED BY <2>1
<1>8. /\ CutsUp(text, g, 0, L) /\ Len(g) \in 1..Len(units) /\ Len(g) <= slots
  BY <1>2, <1>5, <1>7, GroupedCuts
<1> HIDE DEF g
<1>9. Covered(q, m, 0, L) /\ Len(q) = Len(g) /\ \A i \in DOMAIN q : q[i].parent = 0
  <2>1. CutsUp(TextOf(m), g, 0, L)
    BY <1>8 DEF text
  <2>2. 0 \in Nat
    OBVIOUS
  <2> HIDE DEF L
  <2> QED BY <1>1, <1>2, <1>3, <2>1, <2>2, CutsCover
<1>10. CoversSources(q, {m})
  <2>1. \A at1 \in Visible(m) : at1 \in 0..(L - 1) /\ ~IsSpace(TextOf(m), at1)
    BY DEF Visible, L, text
  <2>2. \A i \in DOMAIN q : q[i].source = m /\ SpanFits(q[i], 0, L)
    BY <1>9 DEF Covered
  <2>3. \A i \in DOMAIN q : SpanFits(q[i], 0, Len(TextOf(q[i].source)))
    BY <2>2 DEF L, text
  <2>4. \A at1 \in Visible(m) :
           \E i \in DOMAIN q : q[i].source = m /\ q[i].from <= at1 /\ at1 < q[i].end
    BY <1>9, <2>1, <2>2 DEF Covered
  <2> QED BY <1>9, <2>2, <2>3, <2>4 DEF Covered, CoversSources
<1>11. Len(g) \in Nat
  BY <1>8 DEF CutsUp
<1> QED
  BY <1>8, <1>9, <1>10, <1>11

\* segment_context covers the selected sources, within its bound.
LEMMA CoarseAre ==
    ASSUME PromptOK
    PROVE  CoversSources(CoarseSpans, Selected) /\ Len(CoarseSpans) <= MaxSpans
<1> DEFINE asc == Ascending(Selected)
           n == Cardinality(Selected)
           Of(m) == [j \in DOMAIN Grouped(TextRanges(TextOf(m), Target), Slots[m]) |->
                       Span(m, Grouped(TextRanges(TextOf(m), Target), Slots[m])[j], 0)]
           seqs == [i \in 1..n |-> Of(asc[i])]
<1>1. /\ IsFiniteSet(Selected) /\ Selected \subseteq Sources /\ n \in Nat
  BY SelectedFit
<1>2. Selected \in SUBSET Int
  BY <1>1, SourcesFinite
<1>3. /\ asc \in Seq(Selected) /\ Len(asc) = n
      /\ \A x \in Selected : \E k \in 1..n : asc[k] = x
      /\ \A k, l \in 1..n : k < l => asc[k] < asc[l]
  BY <1>1, <1>2, AscendingLists
<1>4. CoarseSpans = FlattenSeq(seqs)
  BY DEF CoarseSpans
<1>5. /\ Slots \in Allotments /\ IsFiniteSet(Held(Slots)) /\ Cardinality(Held(Slots)) <= MaxSpans
  BY SlotsAre
<1>6. ASSUME NEW m \in Selected
      PROVE  CoversSources(Of(m), {m}) /\ Len(Of(m)) \in Nat /\ Len(Of(m)) <= Slots[m]
  <2>1. m \in Sources /\ Slots[m] \in Nat \ {0}
    BY <1>1, <1>5 DEF Allotments
  <2> QED BY <2>1, OneSource
<1> HIDE DEF asc, n, Of
<1>7. \A k \in 1..n : asc[k] \in Selected /\ seqs[k] = Of(asc[k])
  BY <1>1, <1>3
<1>8. seqs \in Seq(Seq(Spans)) /\ Len(seqs) = n
  <2>1. \A k \in 1..n : seqs[k] \in Seq(Spans)
    BY <1>6, <1>7 DEF CoversSources
  <2>2. seqs = [k \in 1..n |-> seqs[k]]
    OBVIOUS
  <2> HIDE DEF seqs
  <2>3. seqs \in [1..n -> Seq(Spans)]
    BY <2>1, <2>2
  <2> QED BY <1>1, <2>3
<1> HIDE DEF seqs
<1> DEFINE F(k) == FlattenSeq(SubSeq(seqs, 1, k))
           M(k) == {asc[l] : l \in 1..k}
           H(k) == {p \in Held(Slots) : p[1] \in M(k)}
           A == {k \in Nat : k <= n => CoversSources(F(k), M(k)) /\ Len(F(k)) <= Cardinality(H(k))}
<1>9. 0 \in A
  <2>1. F(0) = <<>>
    <3>1. SubSeq(seqs, 1, 0) = <<>>
      BY SubSeqEmpty
    <3> QED BY <3>1, FlattenEmpty
  <2>2. M(0) = {} /\ H(0) = {}
    OBVIOUS
  <2> HIDE DEF F, M, H
  <2>3. CoversSources(F(0), M(0))
    <3>1. CoversSources(<<>>, {})
      BY EmptySeq DEF CoversSources
    <3> QED BY <2>1, <2>2, <3>1
  <2>4. Len(F(0)) = 0 /\ Cardinality(H(0)) = 0
    BY <2>1, <2>2, FS_EmptySet
  <2>5. Len(F(0)) <= Cardinality(H(0))
    BY <2>4
  <2> QED BY <2>3, <2>5
<1>10. ASSUME NEW k \in Nat, k \in A PROVE k + 1 \in A
  <2> DEFINE z == k + 1
             m == asc[z]
             P == {m} \X (1..Slots[m])
  <2>1. SUFFICES ASSUME z <= n
                 PROVE  CoversSources(F(z), M(z)) /\ Len(F(z)) <= Cardinality(H(z))
    OBVIOUS
  <2>2. z \in 1..n /\ z - 1 = k /\ k <= n /\ k \in Nat /\ z \in Nat
    BY <1>1, <2>1
  <2>3. \A l \in 1..z : l = z \/ l \in 1..k
    OBVIOUS
  <2>4. \A l \in 1..k : l \in 1..n /\ l < z /\ l \in 1..z
    BY <1>1, <2>2
  <2>5. z \in 1..z
    BY <2>2
  <2> HIDE DEF z
  <2>6. F(z) = F(k) \o seqs[z]
    BY <1>8, <2>2, FlattenStep
  <2>7. m \in Selected /\ seqs[z] = Of(m)
    BY <1>7, <2>2
  <2>8. CoversSources(F(k), M(k)) /\ Len(F(k)) <= Cardinality(H(k))
    BY <1>10, <2>2
  <2>9. M(z) = M(k) \cup {m}
    BY <2>3, <2>4, <2>5
  <2>10. M(k) \cap {m} = {}
    <3>1. ASSUME NEW l \in 1..k PROVE asc[l] # m
      <4>1. asc[l] < m /\ m \in Int
        BY <1>2, <1>3, <2>2, <2>4, <2>7
      <4>2. asc[l] \in Int
        BY <1>2, <1>7, <2>4
      <4> QED BY <4>1, <4>2
    <3> QED BY <3>1
  <2>11. Slots[m] \in Nat
    BY <1>5, <2>7 DEF Allotments
  <2> HIDE DEF F, M
  <2>12. CoversSources(F(z), M(z))
    <3>1. CoversSources(Of(m), {m})
      BY <1>6, <2>7
    <3>2. CoversSources(F(k) \o Of(m), M(k) \cup {m})
      BY <2>8, <2>10, <3>1, JoinSources
    <3> QED BY <2>6, <2>7, <2>9, <3>2
  <2>13. IsFiniteSet(P) /\ Cardinality(P) = Slots[m]
    <3>1. IsFiniteSet(1..Slots[m]) /\ Cardinality(1..Slots[m]) = Slots[m]
      <4>1. 1 \in Int /\ Slots[m] \in Int
        BY <2>11
      <4>2. /\ IsFiniteSet(1..Slots[m])
            /\ Cardinality(1..Slots[m]) = IF 1 > Slots[m] THEN 0 ELSE Slots[m] - 1 + 1
        BY <4>1, FS_Interval
      <4> QED BY <2>11, <4>2
    <3>2. IsFiniteSet({m}) /\ Cardinality({m}) = 1
      BY FS_Singleton
    <3> DEFINE N == 1..Slots[m]
    <3>3. /\ IsFiniteSet({m} \X N)
          /\ Cardinality({m} \X N) = Cardinality({m}) * Cardinality(N)
      <4>1. IsFiniteSet({m}) /\ IsFiniteSet(N)
        BY <3>1, <3>2
      <4> HIDE DEF N
      <4> QED BY <4>1, FS_Product
    <3> QED BY <2>11, <3>1, <3>2, <3>3
  <2>14. H(z) = H(k) \cup P
    <3>1. ASSUME NEW x \in Selected, NEW j \in Nat
          PROVE  <<x, j>> \in H(z) <=> <<x, j>> \in H(k) \/ <<x, j>> \in P
      <4>1. <<x, j>> \in H(z) <=> <<x, j>> \in H(k) \/ (<<x, j>> \in Held(Slots) /\ x = m)
        BY <2>9
      <4>2. <<x, j>> \in Held(Slots) <=> 1 <= j /\ j <= Slots[x]
        BY DEF Held
      <4>3. <<x, j>> \in P <=> x = m /\ 1 <= j /\ j <= Slots[m]
        BY <2>11
      <4> HIDE DEF H, P
      <4> QED BY <4>1, <4>2, <4>3
    <3>2. Held(Slots) \subseteq Selected \X Nat
      BY DEF Held
    <3>3. H(z) \subseteq Selected \X Nat /\ H(k) \subseteq Selected \X Nat
      BY <3>2
    <3>4. P \subseteq Selected \X Nat
      BY <2>7, <2>11
    <3> HIDE DEF H, P
    <3> QED BY <3>1, <3>3, <3>4
  <2>15. H(k) \cap P = {}
    BY <2>10
  <2>16. IsFiniteSet(H(k)) /\ Cardinality(H(k)) \in Nat
    <3>1. H(k) \subseteq Held(Slots)
      OBVIOUS
    <3> HIDE DEF H
    <3> QED BY <1>5, <3>1, FS_Subset, FS_CardinalityType
  <2> HIDE DEF H, P
  <2>17. Cardinality(H(z)) = Cardinality(H(k)) + Slots[m]
    <3>1. Cardinality(H(k) \cup P) = Cardinality(H(k)) + Cardinality(P) - Cardinality(H(k) \cap P)
      BY <2>13, <2>16, FS_Union
    <3>2. Cardinality(H(k) \cap P) = 0
      BY <2>15, FS_EmptySet
    <3> QED BY <2>11, <2>13, <2>14, <2>16, <3>1, <3>2
  <2>18. Len(F(z)) <= Cardinality(H(z))
    <3>1. F(k) \in Seq(Spans) /\ Of(m) \in Seq(Spans)
      BY <1>6, <2>7, <2>8 DEF CoversSources
    <3>2. Len(F(z)) = Len(F(k)) + Len(Of(m)) /\ Len(F(k)) \in Nat /\ Len(Of(m)) \in Nat
      BY <2>6, <2>7, <3>1, ConcatProperties
    <3>3. Len(Of(m)) <= Slots[m]
      BY <1>6, <2>7
    <3> QED BY <2>8, <2>11, <2>16, <2>17, <3>2, <3>3
  <2> QED BY <2>12, <2>18
<1>11. CoversSources(F(n), M(n)) /\ Len(F(n)) <= Cardinality(H(n))
  <2> HIDE DEF A
  <2>1. Nat \subseteq A
    BY <1>9, <1>10, SetInduction
  <2>2. n \in A /\ n <= n
    BY <1>1, <2>1
  <2> HIDE DEF F, M, H
  <2> QED BY <2>2 DEF A
<1>12. F(n) = CoarseSpans
  <2>1. SubSeq(seqs, 1, n) = seqs
    BY <1>8, SubSeqFull
  <2> QED BY <1>4, <2>1
<1>13. M(n) = Selected
  BY <1>3, <1>7
<1>14. Cardinality(H(n)) \in Nat /\ Cardinality(H(n)) <= Cardinality(Held(Slots))
  <2>1. H(n) \subseteq Held(Slots)
    OBVIOUS
  <2> HIDE DEF H
  <2> QED BY <1>5, <2>1, FS_Subset, FS_CardinalityType
<1> HIDE DEF F, M, H
<1>15. Len(CoarseSpans) \in Nat /\ Cardinality(Held(Slots)) \in Nat /\ MaxSpans \in Nat
  <2>1. CoarseSpans \in Seq(Spans)
    BY <1>11, <1>12 DEF CoversSources
  <2> QED BY <1>5, <2>1, FS_CardinalityType, InfluenceAssumption
<1>16. Len(CoarseSpans) <= MaxSpans
  BY <1>5, <1>11, <1>12, <1>14, <1>15
<1> QED
  BY <1>11, <1>12, <1>13, <1>16

-----------------------------------------------------------------------------
(* The invariant, of a prompt and its spans *)

TextIn(p, m) == p.messages[m].text
SourcesIn(p) == {m \in DOMAIN p.messages : ~Blank(p.messages[m].text)}
SelectedIn(p) ==
    LET policies == {m \in SourcesIn(p) : p.messages[m].policy}
        first == IF policies = {} THEN {} ELSE {Min(policies)}
        others == SourcesIn(p) \ first
    IN IF Cardinality(SourcesIn(p)) <= MaxSpans THEN SourcesIn(p)
       ELSE first \cup {m \in others :
              Cardinality({n \in others : n > m}) < MaxSpans - Cardinality(first)}
CoarseIn(q) == {i \in DOMAIN q : q[i].parent = 0}
FineIn(p, s, i) ==
    LET units == TextRanges(SubSeq(TextIn(p, s.source), s.from + 1, s.end), FineTarget)
        groups == IF Len(units) <= 1 THEN <<>> ELSE Grouped(units, MaxFine)
    IN IF Len(groups) <= 1 THEN <<>>
       ELSE [j \in DOMAIN groups |->
               Span(s.source, <<s.from + groups[j][1], s.from + groups[j][2]>>, i)]

\* The state functions are functions of the prompt and the spans.
LEMMA AsOfPrompt ==
    /\ \A m : TextOf(m) = TextIn(prompt, m)
    /\ Sources = SourcesIn(prompt) /\ Selected = SelectedIn(prompt)
    /\ Coarse = CoarseIn(spans)
    /\ \A i : FineSpans(i) = FineIn(prompt, spans[i], i)
BY DEF TextOf, TextIn, Sources, SourcesIn, Selected, SelectedIn, Coarse, CoarseIn, FineSpans, FineIn

\* A span of a selected source that cuts no word.
SpanIn(p, s) ==
    /\ s \in Spans /\ s.source \in SelectedIn(p)
    /\ RangeFits(TextIn(p, s.source), <<s.from, s.end>>, 0, Len(TextIn(p, s.source)))

\* What is visible in the selected sources is in the coarse ones of the spans q,
\* side by side.
Measured(p, q) ==
    /\ \A i \in DOMAIN q : SpanIn(p, q[i])
    /\ Cardinality(CoarseIn(q)) <= MaxSpans
    /\ \A i, j \in CoarseIn(q) :
          i < j /\ q[i].source = q[j].source => q[i].end <= q[j].from
    /\ \A m \in SelectedIn(p) : \A at \in 0..(Len(TextIn(p, m)) - 1) :
          ~IsSpace(TextIn(p, m), at) =>
             \E i \in CoarseIn(q) : q[i].source = m /\ q[i].from <= at /\ at < q[i].end

\* What segment_context returns measures the prompt.
LEMMA CoarseMeasured ==
    ASSUME PromptOK
    PROVE  /\ CoarseSpans \in Seq(Spans) /\ Measured(prompt, CoarseSpans)
           /\ \A i \in DOMAIN CoarseSpans : CoarseSpans[i].parent = 0
<1> DEFINE q == CoarseSpans
<1>1. CoversSources(q, Selected) /\ Len(q) <= MaxSpans
  BY CoarseAre
<1> HIDE DEF q
<1>2. q \in Seq(Spans) /\ \A i \in DOMAIN q : q[i].parent = 0
  BY <1>1 DEF CoversSources
<1>3. CoarseIn(q) = DOMAIN q
  BY <1>2 DEF CoarseIn
<1>4. Cardinality(DOMAIN q) = Len(q)
  <2>1. DOMAIN q = 1..Len(q) /\ Len(q) \in Nat
    BY <1>2
  <2> DEFINE n == Len(q)
  <2> HIDE DEF n
  <2>2. n \in Nat /\ 1 \in Int /\ n \in Int
    BY <2>1 DEF n
  <2>3. Cardinality(1..n) = IF 1 > n THEN 0 ELSE n - 1 + 1
    BY <2>2, FS_Interval
  <2>4. Cardinality(1..n) = n
    BY <2>2, <2>3
  <2> QED BY <2>1, <2>4 DEF n
<1>5. ASSUME NEW i \in DOMAIN q PROVE SpanIn(prompt, q[i])
  <2>1. q[i] \in Spans /\ q[i].source \in Selected
        /\ SpanFits(q[i], 0, Len(TextOf(q[i].source)))
    BY <1>1, <1>2 DEF CoversSources
  <2>2. RangeFits(TextOf(q[i].source), <<q[i].from, q[i].end>>, 0, Len(TextOf(q[i].source)))
    BY <2>1 DEF SpanFits
  <2>3. TextOf(q[i].source) = TextIn(prompt, q[i].source)
    BY AsOfPrompt
  <2>4. q[i].source \in SelectedIn(prompt)
    BY <2>1, AsOfPrompt
  <2> QED BY <2>1, <2>2, <2>3, <2>4 DEF SpanIn
<1>6. ASSUME NEW m \in SelectedIn(prompt), NEW at \in 0..(Len(TextIn(prompt, m)) - 1),
             ~IsSpace(TextIn(prompt, m), at)
      PROVE  \E i \in DOMAIN q : q[i].source = m /\ q[i].from <= at /\ at < q[i].end
  <2>1. m \in Selected /\ TextIn(prompt, m) = TextOf(m)
    BY AsOfPrompt
  <2>2. at \in Visible(m)
    BY <1>6, <2>1 DEF Visible
  <2> QED BY <1>1, <2>1, <2>2 DEF CoversSources
<1>7. Measured(prompt, q)
  BY <1>1, <1>3, <1>4, <1>5, <1>6 DEF Measured, CoversSources
<1> QED
  BY <1>2, <1>7 DEF q

\* A part is scored: nothing changes for the whole ones.
LEMMA CoarseStays ==
    ASSUME NEW q \in Seq(Spans), NEW s \in Spans, s.parent # 0
    PROVE  /\ Append(q, s) \in Seq(Spans) /\ Len(Append(q, s)) = Len(q) + 1
           /\ CoarseIn(Append(q, s)) = CoarseIn(q)
           /\ \A i \in CoarseIn(q) : Append(q, s)[i] = q[i]
           /\ \A i \in DOMAIN Append(q, s) :
                 (i \in DOMAIN q /\ Append(q, s)[i] = q[i]) \/ Append(q, s)[i] = s
<1> DEFINE r == Append(q, s)
           n == Len(q)
<1>1. n \in Nat /\ DOMAIN q = 1..n
  OBVIOUS
<1>2. /\ r \in Seq(Spans) /\ Len(r) = n + 1 /\ r[n + 1] = s
      /\ \A i \in 1..n : r[i] = q[i]
  BY AppendProperties
<1> HIDE DEF r, n
<1>3. DOMAIN r = 1..(n + 1) /\ \A i \in 1..(n + 1) : i \in 1..n \/ i = n + 1
  BY <1>1, <1>2
<1>4. \A i \in 1..n : i \in 1..(n + 1)
  BY <1>1
<1>5. CoarseIn(r) = CoarseIn(q)
  BY <1>1, <1>2, <1>3, <1>4 DEF CoarseIn
<1>6. \A i \in CoarseIn(q) : r[i] = q[i]
  BY <1>1, <1>2 DEF CoarseIn
<1>7. \A i \in DOMAIN r : (i \in DOMAIN q /\ r[i] = q[i]) \/ r[i] = s
  BY <1>1, <1>2, <1>3
<1> QED
  BY <1>2, <1>5, <1>6, <1>7 DEF r, n

\* A part appended to the spans leaves the prompt measured.
LEMMA MeasuredStays ==
    ASSUME NEW p, NEW q \in Seq(Spans), NEW s \in Spans, s.parent # 0,
           Measured(p, q), SpanIn(p, s)
    PROVE  Measured(p, Append(q, s))
<1> DEFINE r == Append(q, s)
<1>1. /\ CoarseIn(r) = CoarseIn(q)
      /\ \A i \in CoarseIn(q) : r[i] = q[i]
      /\ \A i \in DOMAIN r : (i \in DOMAIN q /\ r[i] = q[i]) \/ r[i] = s
  BY CoarseStays
<1> HIDE DEF r
<1>2. \A i \in DOMAIN r : SpanIn(p, r[i])
  BY <1>1 DEF Measured
<1>3. Cardinality(CoarseIn(r)) <= MaxSpans
  BY <1>1 DEF Measured
<1>4. \A i, j \in CoarseIn(r) :
         i < j /\ r[i].source = r[j].source => r[i].end <= r[j].from
  BY <1>1 DEF Measured
<1>5. \A m \in SelectedIn(p) : \A at \in 0..(Len(TextIn(p, m)) - 1) :
         ~IsSpace(TextIn(p, m), at) =>
            \E i \in CoarseIn(r) : r[i].source = m /\ r[i].from <= at /\ at < r[i].end
  BY <1>1 DEF Measured
<1> QED
  BY <1>2, <1>3, <1>4, <1>5 DEF Measured, r

-----------------------------------------------------------------------------
(* Refinement *)

\* The spans that may still be refined come in order, none of them stronger than
\* one that was, and what is neither cannot be cut.
RefinesWell(p, q, d, todo, did) ==
    /\ todo \in Seq(CoarseIn(q)) /\ did \subseteq CoarseIn(q)
    /\ IsFiniteSet(did) /\ Cardinality(did) <= MaxRefined
    /\ \A k, l \in DOMAIN todo : k < l => d[todo[k]] >= d[todo[l]]
    /\ \A j \in did : \A k \in DOMAIN todo : d[j] >= d[todo[k]]
    /\ \A i \in CoarseIn(q) \ did :
          FineIn(p, q[i], i) = <<>> \/ \E k \in DOMAIN todo : todo[k] = i

\* StrongestAreRefined of a finished map.
RefinedWell(p, q, d, did) ==
    \A i \in CoarseIn(q) \ did :
        d[i] >= Floor /\ FineIn(p, q[i], i) # <<>> =>
            /\ Cardinality(did) = MaxRefined
            /\ \A j \in did : d[j] >= d[i]

\* A part appended to the spans changes nothing about the coarse spans or their order.
LEMMA RefineExtends ==
    ASSUME NEW p, NEW q \in Seq(Spans), NEW d \in Seq(Nat), Len(d) = Len(q), NEW todo, NEW did,
           RefinesWell(p, q, d, todo, did),
           NEW s \in Spans, s.parent # 0, NEW size \in Nat
    PROVE  RefinesWell(p, Append(q, s), Append(d, size), todo, did)
<1> DEFINE r == Append(q, s)
           e == Append(d, size)
<1>1. CoarseIn(r) = CoarseIn(q) /\ \A i \in CoarseIn(q) : r[i] = q[i]
  BY CoarseStays
<1>2. \A i \in CoarseIn(q) : e[i] = d[i]
  <2>1. \A i \in CoarseIn(q) : i \in 1..Len(d)
    BY DEF CoarseIn
  <2>2. \A i \in 1..Len(d) : e[i] = d[i]
    BY AppendProperties
  <2> QED BY <2>1, <2>2
<1> HIDE DEF r, e
<1>3. todo \in Seq(CoarseIn(q)) /\ did \subseteq CoarseIn(q)
  BY DEF RefinesWell
<1>4. \A k \in DOMAIN todo : todo[k] \in CoarseIn(q)
  BY <1>3
<1>5. \A k, l \in DOMAIN todo : k < l => e[todo[k]] >= e[todo[l]]
  BY <1>2, <1>4 DEF RefinesWell
<1>6. \A j \in did : \A k \in DOMAIN todo : e[j] >= e[todo[k]]
  BY <1>2, <1>3, <1>4 DEF RefinesWell
<1>7. \A i \in CoarseIn(r) \ did :
         FineIn(p, r[i], i) = <<>> \/ \E k \in DOMAIN todo : todo[k] = i
  BY <1>1 DEF RefinesWell
<1>8. IsFiniteSet(did) /\ Cardinality(did) <= MaxRefined
  BY DEF RefinesWell
<1>9. RefinesWell(p, r, e, todo, did)
  BY <1>1, <1>3, <1>5, <1>6, <1>7, <1>8 DEF RefinesWell
<1> QED
  BY <1>9 DEF r, e

\* The head of the queue is passed over, or refined.
LEMMA RefineGoesOn ==
    ASSUME NEW p, NEW q \in Seq(Spans), NEW d \in Seq(Nat), Len(d) = Len(q), NEW todo, NEW did,
           RefinesWell(p, q, d, todo, did), todo # <<>>
    PROVE  /\ Head(todo) \in CoarseIn(q)
           /\ FineIn(p, q[Head(todo)], Head(todo)) = <<>> => RefinesWell(p, q, d, Tail(todo), did)
           /\ Cardinality(did) < MaxRefined =>
                 RefinesWell(p, q, d, Tail(todo), did \cup {Head(todo)})
<1> DEFINE rest == Tail(todo)
           h == Head(todo)
           n == Len(todo)
           C == CoarseIn(q)
<1>1. todo \in Seq(C) /\ did \subseteq C /\ IsFiniteSet(did) /\ Cardinality(did) <= MaxRefined
  BY DEF RefinesWell
<1>2. \A i \in C : i \in DOMAIN d /\ d[i] \in Nat
  BY DEF CoarseIn
<1>3. n \in Nat /\ n # 0 /\ DOMAIN todo = 1..n /\ h = todo[1] /\ h \in C
  BY <1>1
<1>4. rest \in Seq(C) /\ Len(rest) = n - 1
  BY <1>1, HeadTailProperties
<1>5. \A k \in 1..(n - 1) : rest[k] = todo[k + 1]
  BY <1>1, <1>3, HeadTailProperties
<1>6. DOMAIN rest = 1..(n - 1)
  BY <1>3, <1>4
<1>7. \A k \in 1..(n - 1) : k + 1 \in 1..n /\ 1 \in 1..n /\ 1 < k + 1
  BY <1>3
<1> HIDE DEF C, rest, h, n
<1>8. \A k, l \in 1..n : k < l => d[todo[k]] >= d[todo[l]]
  BY <1>3 DEF RefinesWell
<1>9. \A j \in did : \A k \in 1..n : d[j] >= d[todo[k]]
  BY <1>3 DEF RefinesWell
<1>10. \A k, l \in DOMAIN rest : k < l => d[rest[k]] >= d[rest[l]]
  <2> SUFFICES ASSUME NEW k \in 1..(n - 1), NEW l \in 1..(n - 1), k < l
               PROVE  d[rest[k]] >= d[rest[l]]
    BY <1>6
  <2> DEFINE u == k + 1
             v == l + 1
  <2>1. u \in 1..n /\ v \in 1..n /\ u < v /\ rest[k] = todo[u] /\ rest[l] = todo[v]
    BY <1>3, <1>5
  <2> HIDE DEF u, v
  <2> QED BY <1>8, <2>1
<1>11. \A j \in did : \A k \in DOMAIN rest : d[j] >= d[rest[k]]
  BY <1>5, <1>6, <1>7, <1>9
<1>12. \A k \in DOMAIN rest : d[h] >= d[rest[k]]
  BY <1>3, <1>5, <1>6, <1>7, <1>8
<1>13. ASSUME NEW i \in C, i \notin did, i # h
       PROVE  FineIn(p, q[i], i) = <<>> \/ \E k \in DOMAIN rest : rest[k] = i
  <2>1. SUFFICES ASSUME FineIn(p, q[i], i) # <<>> PROVE \E k \in DOMAIN rest : rest[k] = i
    OBVIOUS
  <2>2. PICK k \in 1..n : todo[k] = i
    BY <1>3, <1>13, <2>1 DEF RefinesWell, C
  <2> DEFINE u == k - 1
  <2>3. u \in 1..(n - 1) /\ u + 1 = k
    <3>1. k # 1
      BY <1>3, <1>13, <2>2
    <3> QED BY <1>3, <3>1
  <2> HIDE DEF u
  <2>4. u \in DOMAIN rest /\ rest[u] = i
    BY <1>5, <1>6, <2>2, <2>3
  <2> QED BY <2>4
<1>14. ASSUME FineIn(p, q[h], h) = <<>> PROVE RefinesWell(p, q, d, rest, did)
  <2>1. \A i \in C \ did : FineIn(p, q[i], i) = <<>> \/ \E k \in DOMAIN rest : rest[k] = i
    BY <1>13, <1>14
  <2> QED BY <1>1, <1>4, <1>10, <1>11, <2>1 DEF RefinesWell, C
<1>15. ASSUME Cardinality(did) < MaxRefined PROVE RefinesWell(p, q, d, rest, did \cup {h})
  <2>1. \A i \in C \ (did \cup {h}) :
           FineIn(p, q[i], i) = <<>> \/ \E k \in DOMAIN rest : rest[k] = i
    BY <1>13
  <2>2. IsFiniteSet(did \cup {h}) /\ Cardinality(did \cup {h}) <= MaxRefined
    <3>1. Cardinality(did) \in Nat /\ MaxRefined \in Nat
      BY <1>1, FS_CardinalityType, InfluenceAssumption
    <3>2. /\ IsFiniteSet(did \cup {h})
          /\ Cardinality(did \cup {h}) =
               IF h \in did THEN Cardinality(did) ELSE Cardinality(did) + 1
      BY <1>1, FS_AddElement
    <3> QED BY <1>15, <3>1, <3>2
  <2>3. did \cup {h} \subseteq C
    BY <1>1, <1>3
  <2>4. \A j \in did \cup {h} : \A k \in DOMAIN rest : d[j] >= d[rest[k]]
    BY <1>11, <1>12
  <2> QED BY <1>4, <1>10, <2>1, <2>2, <2>3, <2>4 DEF RefinesWell, C
<1> QED
  BY <1>3, <1>14, <1>15 DEF C, rest, h

\* When refinement stops, the strongest spans that can be cut were refined.
LEMMA RefineEnds ==
    ASSUME NEW p, NEW q \in Seq(Spans), NEW d \in Seq(Nat), Len(d) = Len(q), NEW todo, NEW did,
           RefinesWell(p, q, d, todo, did),
           todo # <<>> => Cardinality(did) >= MaxRefined \/ d[Head(todo)] < Floor
    PROVE  RefinedWell(p, q, d, did)
<1> DEFINE C == CoarseIn(q)
           n == Len(todo)
<1>1. todo \in Seq(C) /\ did \subseteq C /\ IsFiniteSet(did) /\ Cardinality(did) <= MaxRefined
  BY DEF RefinesWell
<1>2. \A i \in C : d[i] \in Nat
  BY DEF CoarseIn
<1>3. Cardinality(did) \in Nat /\ MaxRefined \in Nat /\ Floor \in Nat
  BY <1>1, FS_CardinalityType, InfluenceAssumption
<1> SUFFICES ASSUME NEW i \in C, i \notin did, d[i] >= Floor, FineIn(p, q[i], i) # <<>>
             PROVE  Cardinality(did) = MaxRefined /\ \A j \in did : d[j] >= d[i]
  BY DEF RefinedWell
<1>4. n \in Nat /\ DOMAIN todo = 1..n
  BY <1>1
<1>5. PICK k \in 1..n : todo[k] = i
  BY <1>4 DEF RefinesWell
<1>6. todo # <<>> /\ Head(todo) = todo[1] /\ 1 \in 1..n
  BY <1>1, <1>4, <1>5
<1> HIDE DEF C, n
<1>7. d[todo[1]] >= d[i]
  <2>1. CASE k = 1
    <3>1. todo[1] = i /\ d[i] \in Nat
      BY <1>2, <1>5, <2>1
    <3> QED BY <3>1
  <2>2. CASE k # 1
    <3>1. 1 < k /\ k \in 1..n
      BY <1>4, <2>2
    <3> QED BY <1>4, <1>5, <1>6, <3>1 DEF RefinesWell
  <2> QED BY <2>1, <2>2
<1>8. todo[1] \in C
  BY <1>1, <1>6 DEF n
<1>9. ~(d[todo[1]] < Floor)
  <2>1. d[todo[1]] \in Nat /\ d[i] \in Nat
    BY <1>2, <1>8
  <2> QED BY <1>3, <1>7, <2>1
<1>10. Cardinality(did) = MaxRefined
  BY <1>1, <1>3, <1>6, <1>9
<1>11. \A j \in did : d[j] >= d[i]
  BY <1>4, <1>5 DEF RefinesWell
<1> QED
  BY <1>10, <1>11

\* Ranked lists spans, the strongest first.
LEMMA RankedLists ==
    ASSUME spans \in Seq(Spans), NEW S \in SUBSET DOMAIN spans, NEW d, \A i \in S : d[i] \in Nat
    PROVE  /\ IsFiniteSet(S)
           /\ Ranked(S, d) \in Seq(S) /\ Len(Ranked(S, d)) = Cardinality(S)
           /\ \A x \in S : \E k \in 1..Cardinality(S) : Ranked(S, d)[k] = x
           /\ \A k, l \in 1..Cardinality(S) : k < l => d[Ranked(S, d)[k]] >= d[Ranked(S, d)[l]]
<1> DEFINE before == {p \in S \X S : Stronger(d, p[1], p[2])}
           q == Ranked(S, d)
<1>1. \A i, j : <<i, j>> \in before <=> i \in S /\ j \in S /\ Stronger(d, i, j)
  OBVIOUS
<1>2. IsFiniteSet(S)
  <2>1. DOMAIN spans = 1..Len(spans) /\ Len(spans) \in Nat
    OBVIOUS
  <2>2. IsFiniteSet(1..Len(spans))
    BY <2>1, FS_Interval
  <2> QED BY <2>1, <2>2, FS_Subset
<1>3. \A i \in S : i \in Nat /\ Whole1(i) \in Nat /\ d[i] \in Nat
  <2>1. \A i \in S : i \in Nat /\ spans[i] \in Spans
    OBVIOUS
  <2>2. \A i \in S : spans[i].parent \in Nat
    BY <2>1 DEF Spans
  <2> QED BY <2>1, <2>2 DEF Whole1
<1>4. q = InOrder(S, before)
  BY DEF Ranked
<1> HIDE DEF before, q
<1>5. TotalOrder(S, before)
  <2>1. \A i \in S : <<i, i>> \notin before
    BY <1>1, <1>3 DEF Stronger, IdBefore
  <2>2. ASSUME NEW i \in S, NEW j \in S, NEW k \in S, <<i, j>> \in before, <<j, k>> \in before
        PROVE  <<i, k>> \in before
    <3>1. Stronger(d, i, j) /\ Stronger(d, j, k)
      BY <1>1, <2>2
    <3>2. Stronger(d, i, k)
      BY <1>3, <3>1 DEF Stronger, IdBefore
    <3> QED BY <1>1, <3>2
  <2>3. ASSUME NEW i \in S, NEW j \in S PROVE i = j \/ <<i, j>> \in before \/ <<j, i>> \in before
    <3>1. i = j \/ Stronger(d, i, j) \/ Stronger(d, j, i)
      BY <1>3 DEF Stronger, IdBefore
    <3> QED BY <1>1, <3>1
  <2> QED BY <2>1, <2>2, <2>3 DEF TotalOrder
<1>6. /\ q \in Seq(S) /\ Len(q) = Cardinality(S)
      /\ \A x \in S : \E k \in 1..Cardinality(S) : q[k] = x
      /\ \A k, l \in 1..Cardinality(S) : k < l => <<q[k], q[l]>> \in before
  BY <1>2, <1>4, <1>5, InOrderLists, SMTT(30)
<1>7. ASSUME NEW k \in 1..Cardinality(S), NEW l \in 1..Cardinality(S), k < l
      PROVE  d[q[k]] >= d[q[l]]
  <2>1. q[k] \in S /\ q[l] \in S /\ Stronger(d, q[k], q[l])
    BY <1>1, <1>6, <1>7
  <2>2. d[q[k]] \in Nat /\ d[q[l]] \in Nat
    BY <1>3, <2>1
  <2> QED BY <2>1, <2>2 DEF Stronger
<1> QED
  BY <1>2, <1>6, <1>7 DEF q

-----------------------------------------------------------------------------
(* The invariant *)

Stages == {"segment", "baseline", "coarse", "refine", "done", "failed"}

\* Types of what the other parts speak of.
MapTyped ==
    /\ PromptOK /\ mapping \in Stages
    /\ spans \in Seq(Spans) /\ deltas \in Seq(Nat) /\ calls \in Nat
    /\ mapping = "segment" => spans = <<>>

\* Once it is cut, the prompt stays measured.
SpansMeasured == mapping # "segment" => Measured(prompt, spans)

\* What was asked so far, stage by stage.
CallsAddUp ==
    /\ mapping \in {"segment", "baseline", "coarse"} =>
          /\ queue = <<>> /\ finer = <<>> /\ refined = {}
          /\ \A i \in DOMAIN spans : spans[i].parent = 0
    /\ mapping \in {"segment", "baseline", "coarse", "refine"} => pair = <<>>
    /\ mapping \in {"segment", "baseline"} => calls = 0 /\ deltas = <<>>
    /\ mapping = "baseline" => spans # <<>>
    /\ mapping = "coarse" => calls = 1 + Len(deltas) /\ Len(deltas) < Len(spans)
    /\ mapping = "refine" => calls = 1 + Len(spans) /\ Len(deltas) = Len(spans)
    /\ CallsAreCounted

\* While spans are refined the queue accounts for those that are not, and in the
\* end for those left whole.
Refining ==
    /\ mapping = "refine" =>
          /\ RefinesWell(prompt, spans, deltas, queue, refined)
          /\ finer \in Seq(Spans)
          /\ finer # <<>> => queue # <<>> /\ Cardinality(refined) < MaxRefined
          /\ \A j \in DOMAIN finer : SpanIn(prompt, finer[j]) /\ finer[j].parent # 0
    /\ mapping = "done" /\ prompt.scored => RefinedWell(prompt, spans, deltas, refined)

MapInv == MapTyped /\ SpansMeasured /\ CallsAddUp /\ Refining

\* Nothing is measured or asked for at first.
LEMMA MapInit ==
    ASSUME InfluenceInit
    PROVE  MapInv
<1>1. PromptOK
  <2>1. CASE prompt \in [messages : Prompts, scored : {TRUE}]
    <3>1. prompt.messages \in Prompts
      BY <2>1
    <3> QED BY <3>1, InfluenceAssumption DEF PromptOK
  <2>2. CASE prompt \in [messages : {<<[policy |-> FALSE, text |-> t]>> : t \in ProbeTexts},
                         scored : {FALSE}]
    <3>1. prompt.messages \in {<<[policy |-> FALSE, text |-> t]>> : t \in ProbeTexts}
      BY <2>2
    <3>2. PICK t \in ProbeTexts : prompt.messages = <<[policy |-> FALSE, text |-> t]>>
      BY <3>1
    <3>3. t \in Seq(Characters)
      BY InfluenceAssumption
    <3> DEFINE R == [policy : BOOLEAN, text : Seq(Characters)]
               x == [policy |-> FALSE, text |-> t]
    <3>4. x \in R
      BY <3>3
    <3> HIDE DEF R, x
    <3>5. <<x>> \in Seq(R)
      BY <3>4
    <3> QED BY <3>2, <3>5 DEF PromptOK, R, x
  <2> QED BY <2>1, <2>2 DEF InfluenceInit
<1>2. /\ mapping = "segment" /\ spans = <<>> /\ deltas = <<>> /\ queue = <<>>
      /\ finer = <<>> /\ refined = {} /\ pair = <<>> /\ calls = 0
  BY DEF InfluenceInit
<1>3. MapTyped
  BY <1>1, <1>2, EmptySeq DEF MapTyped, Stages
<1>4. SpansMeasured /\ CallsAddUp /\ Refining
  BY <1>2 DEF SpansMeasured, CallsAddUp, CallsAreCounted, Refining
<1> QED
  BY <1>3, <1>4 DEF MapInv

\* The coarse spans measure what is visible in the selected sources.
LEMMA SegmentKeeps ==
    ASSUME MapInv, Segment
    PROVE  MapInv'
<1> DEFINE q == CoarseSpans
<1>1. /\ mapping = "segment" /\ spans' = q /\ prompt' = prompt
      /\ mapping' = IF prompt.scored /\ spans' # <<>> THEN "baseline" ELSE "done"
      /\ UNCHANGED <<deltas, queue, finer, refined, pair, calls>>
  BY DEF Segment
<1>2. q \in Seq(Spans) /\ Measured(prompt, q) /\ \A i \in DOMAIN q : q[i].parent = 0
  BY CoarseMeasured DEF MapInv, MapTyped
<1> HIDE DEF q
<1>3. /\ PromptOK /\ deltas = <<>> /\ calls = 0 /\ queue = <<>> /\ finer = <<>>
      /\ refined = {} /\ pair = <<>> /\ deltas \in Seq(Nat)
  BY <1>1 DEF MapInv, MapTyped, CallsAddUp
<1>4. mapping' \in {"baseline", "done"}
      /\ (mapping' = "baseline" => spans' # <<>>)
      /\ (mapping' = "done" => ~prompt.scored \/ spans' = <<>>)
  BY <1>1
<1>5. MapTyped'
  BY <1>1, <1>2, <1>3, <1>4 DEF MapTyped, PromptOK, Stages
<1>6. SpansMeasured'
  BY <1>1, <1>2 DEF SpansMeasured
<1>7. CallsAddUp'
  BY <1>1, <1>2, <1>3, <1>4 DEF CallsAddUp, CallsAreCounted
<1>8. Refining'
  <2>1. ASSUME mapping' = "done", prompt'.scored
        PROVE  RefinedWell(prompt', spans', deltas', refined')
    <3>1. spans' = <<>>
      BY <1>1, <1>4, <2>1
    <3>2. CoarseIn(spans') = {}
      BY <3>1 DEF CoarseIn
    <3> QED BY <3>2 DEF RefinedWell
  <2> QED BY <1>4, <2>1 DEF Refining
<1> QED
  BY <1>5, <1>6, <1>7, <1>8 DEF MapInv

\* A map that failed says nothing.
LEMMA FailsKeeps ==
    ASSUME MapInv, ScoreFails
    PROVE  MapInv'
<1>1. /\ mapping # "segment" /\ mapping' = "failed" /\ calls' = calls + 1
      /\ UNCHANGED <<prompt, spans, deltas, queue, finer, refined, pair>>
  BY DEF ScoreFails, Asked
<1>2. MapTyped'
  BY <1>1 DEF MapInv, MapTyped, PromptOK, Stages
<1>3. SpansMeasured' /\ CallsAddUp' /\ Refining'
  BY <1>1 DEF MapInv, SpansMeasured, CallsAddUp, CallsAreCounted, Refining
<1> QED
  BY <1>2, <1>3 DEF MapInv

\* The baseline is the first score.
LEMMA BaselineKeeps ==
    ASSUME MapInv, ScoreBaseline
    PROVE  MapInv'
<1>1. /\ mapping = "baseline" /\ mapping' = "coarse" /\ calls' = calls + 1
      /\ UNCHANGED <<prompt, spans, deltas, queue, finer, refined, pair>>
  BY DEF ScoreBaseline, Asked
<1>2. MapTyped'
  BY <1>1 DEF MapInv, MapTyped, PromptOK, Stages
<1>3. SpansMeasured' /\ Refining'
  BY <1>1 DEF MapInv, SpansMeasured, Refining
<1>4. calls = 0 /\ deltas = <<>> /\ spans # <<>> /\ spans \in Seq(Spans)
  BY <1>1 DEF MapInv, MapTyped, CallsAddUp
<1>5. Len(deltas) = 0 /\ 0 < Len(spans)
  BY <1>4
<1>6. CallsAddUp'
  BY <1>1, <1>4, <1>5 DEF MapInv, CallsAddUp, CallsAreCounted
<1> QED
  BY <1>2, <1>3, <1>6 DEF MapInv

\* Each coarse span is one more score; after the last they are in order of strength.
LEMMA CoarseKeeps ==
    ASSUME MapInv, ScoreCoarse
    PROVE  MapInv'
<1>1. /\ mapping = "coarse" /\ calls' = calls + 1
      /\ UNCHANGED <<prompt, spans, finer, refined, pair>>
  BY DEF ScoreCoarse, Asked
<1>2. PICK size \in Sizes : deltas' = Append(deltas, size)
  BY DEF ScoreCoarse
<1>3. /\ PromptOK /\ spans \in Seq(Spans) /\ deltas \in Seq(Nat) /\ calls \in Nat
      /\ calls = 1 + Len(deltas) /\ Len(deltas) < Len(spans)
      /\ finer = <<>> /\ refined = {} /\ pair = <<>> /\ queue = <<>>
      /\ \A i \in DOMAIN spans : spans[i].parent = 0
      /\ Measured(prompt, spans)
  BY <1>1 DEF MapInv, MapTyped, SpansMeasured, CallsAddUp
<1>4. deltas' \in Seq(Nat) /\ Len(deltas') = Len(deltas) + 1
  <2>1. size \in Nat
    BY InfluenceAssumption
  <2> QED BY <1>2, <1>3, <2>1, AppendProperties
<1>5. Len(deltas) \in Nat /\ Len(spans) \in Nat
  BY <1>3
<1>6. CASE Len(deltas') = Len(spans)
  <2>1. mapping' = "refine" /\ queue' = Ranked(DOMAIN spans, deltas')
    BY <1>6 DEF ScoreCoarse
  <2>2. MapTyped'
    BY <1>1, <1>3, <1>4, <1>5, <2>1 DEF MapTyped, PromptOK, Stages
  <2>3. SpansMeasured'
    BY <1>1, <1>3 DEF SpansMeasured
  <2>4. CallsAddUp'
    <3>1. calls' = 1 + Len(spans)
      BY <1>1, <1>3, <1>4, <1>5, <1>6
    <3> QED BY <1>1, <1>3, <1>6, <2>1, <3>1 DEF CallsAddUp, CallsAreCounted
  <2>5. Refining'
    <3> DEFINE S == DOMAIN spans
               todo == queue'
               d == deltas'
               n == Cardinality(S)
    <3>1. CoarseIn(spans) = S
      BY <1>3 DEF CoarseIn
    <3>2. \A i \in S : d[i] \in Nat
      <4>1. S = 1..Len(d)
        BY <1>3, <1>6
      <4> QED BY <1>4, <4>1
    <3> HIDE DEF d
    <3>3. S \in SUBSET DOMAIN spans
      OBVIOUS
    <3> HIDE DEF S
    <3>4. /\ todo \in Seq(S) /\ Len(todo) = n
          /\ \A x \in S : \E k \in 1..n : todo[k] = x
          /\ \A k, l \in 1..n : k < l => d[todo[k]] >= d[todo[l]]
      <4>1. todo = Ranked(S, d)
        BY <2>1 DEF S, d
      <4> HIDE DEF todo
      <4> QED BY <1>3, <3>2, <3>3, <4>1, RankedLists
    <3> HIDE DEF todo, n
    <3>5. DOMAIN todo = 1..n
      BY <3>4
    <3>6. IsFiniteSet({}) /\ Cardinality({}) <= MaxRefined
      BY FS_EmptySet, InfluenceAssumption
    <3>7. RefinesWell(prompt, spans, d, todo, {})
      BY <3>1, <3>4, <3>5, <3>6 DEF RefinesWell
    <3>8. RefinesWell(prompt', spans', deltas', queue', refined')
      BY <1>1, <1>3, <3>7 DEF d, todo
    <3>9. finer' = <<>> /\ <<>> \in Seq(Spans)
      BY <1>1, <1>3, EmptySeq
    <3> QED BY <2>1, <3>8, <3>9 DEF Refining
  <2> QED BY <2>2, <2>3, <2>4, <2>5 DEF MapInv
<1>7. CASE Len(deltas') # Len(spans)
  <2>1. mapping' = mapping /\ queue' = queue
    BY <1>7 DEF ScoreCoarse
  <2>2. MapTyped'
    BY <1>1, <1>3, <1>4, <1>5, <2>1 DEF MapTyped, PromptOK, Stages
  <2>3. SpansMeasured' /\ Refining'
    BY <1>1, <1>3, <2>1 DEF SpansMeasured, Refining
  <2>4. CallsAddUp'
    <3>1. calls' = 1 + Len(deltas') /\ Len(deltas') < Len(spans)
      BY <1>1, <1>3, <1>4, <1>5, <1>7
    <3> QED BY <1>1, <1>3, <2>1, <3>1 DEF CallsAddUp, CallsAreCounted
  <2> QED BY <2>2, <2>3, <2>4 DEF MapInv
<1> QED
  BY <1>6, <1>7

\* The parts of a measured span are measured too.
LEMMA PartsMeasured ==
    ASSUME MapTyped, Measured(prompt, spans), NEW i \in DOMAIN spans, FineSpans(i) # <<>>
    PROVE  /\ Covered(FineSpans(i), spans[i].source, spans[i].from, spans[i].end)
           /\ FineSpans(i) \in Seq(Spans)
           /\ \A j \in DOMAIN FineSpans(i) :
                 SpanIn(prompt, FineSpans(i)[j]) /\ FineSpans(i)[j].parent # 0
<1> DEFINE s == spans[i]
           m == s.source
           q == FineSpans(i)
           L == Len(TextOf(m))
<1>1. PromptOK /\ spans \in Seq(Spans)
  BY DEF MapTyped
<1>2. i \in Nat \ {0}
  BY <1>1
<1>3. SpanIn(prompt, s)
  BY DEF Measured
<1>4. s \in Spans /\ m \in Selected /\ RangeFits(TextOf(m), <<s.from, s.end>>, 0, L)
  BY <1>3, AsOfPrompt DEF SpanIn
<1>5. m \in DOMAIN prompt.messages
  BY <1>1, <1>4, SelectedFit DEF Sources
<1>6. SpanFits(s, 0, L)
  BY <1>4 DEF SpanFits
<1>7. Covered(q, m, s.from, s.end) /\ \A j \in DOMAIN q : q[j].parent = i
  BY <1>1, <1>5, <1>6, FineCovers
<1>8. TextOf(m) \in Seq(Characters) /\ L \in Nat
  BY <1>1, <1>5, TextTyped
<1>9. s.from \in Nat /\ s.end \in Nat /\ s.end <= L
  <2> DEFINE x == <<s.from, s.end>>
  <2>1. x[2] = s.end
    OBVIOUS
  <2> HIDE DEF x
  <2>2. x[2] <= L
    BY <1>4 DEF RangeFits, x
  <2> QED BY <1>4, <2>1, <2>2 DEF Spans
<1> HIDE DEF q, m, s, L
<1>10. q \in Seq(Spans)
  BY <1>7 DEF Covered
<1>11. ASSUME NEW j \in DOMAIN q PROVE SpanIn(prompt, q[j]) /\ q[j].parent # 0
  <2>1. q[j].source = m /\ SpanFits(q[j], s.from, s.end) /\ q[j].parent = i
    BY <1>7 DEF Covered
  <2> DEFINE x == <<q[j].from, q[j].end>>
  <2>2. q[j] \in Spans /\ RangeFits(TextOf(m), x, s.from, s.end)
    BY <2>1 DEF SpanFits
  <2>3. x \in Nat \X Nat
    BY <2>2 DEF Spans
  <2> HIDE DEF x
  <2>4. RangeFits(TextOf(m), x, 0, L)
    BY <1>8, <1>9, <2>2, <2>3, FitsWider
  <2>5. q[j].source \in SelectedIn(prompt) /\ TextOf(m) = TextIn(prompt, q[j].source)
    BY <1>4, <2>1, AsOfPrompt
  <2>6. SpanIn(prompt, q[j])
    BY <2>2, <2>4, <2>5 DEF SpanIn, L, x
  <2> QED BY <1>2, <2>1, <2>6
<1> QED
  BY <1>7, <1>10, <1>11 DEF q, m, s

\* A span that cannot be cut leaves the queue; of one that can, every part is measured.
LEMMA RefineKeeps ==
    ASSUME MapInv, Refine
    PROVE  MapInv'
<1>1. /\ mapping = "refine" /\ finer = <<>> /\ ~StopsRefining
      /\ finer' = FineSpans(Head(queue))
      /\ queue' = IF finer' = <<>> THEN Tail(queue) ELSE queue
      /\ UNCHANGED <<prompt, mapping, spans, deltas, refined, pair, calls>>
  BY DEF Refine
<1> DEFINE h == Head(queue)
<1>2. /\ MapTyped /\ Measured(prompt, spans) /\ RefinesWell(prompt, spans, deltas, queue, refined)
      /\ spans \in Seq(Spans) /\ deltas \in Seq(Nat) /\ Len(deltas) = Len(spans)
  BY <1>1 DEF MapInv, MapTyped, SpansMeasured, CallsAddUp, Refining
<1>3. queue # <<>> /\ ~(Cardinality(refined) >= MaxRefined)
  BY <1>1 DEF StopsRefining
<1>4. Cardinality(refined) < MaxRefined
  <2>1. Cardinality(refined) \in Nat /\ MaxRefined \in Nat
    BY <1>2, FS_CardinalityType, InfluenceAssumption DEF RefinesWell
  <2> QED BY <1>3, <2>1
<1>5. /\ h \in CoarseIn(spans)
      /\ FineIn(prompt, spans[h], h) = <<>> =>
            RefinesWell(prompt, spans, deltas, Tail(queue), refined)
  BY <1>2, <1>3, RefineGoesOn
<1>6. h \in DOMAIN spans /\ FineSpans(h) = FineIn(prompt, spans[h], h)
  BY <1>5, AsOfPrompt DEF CoarseIn
<1> HIDE DEF h
<1>7. MapTyped' /\ SpansMeasured' /\ CallsAddUp'
  BY <1>1 DEF MapInv, MapTyped, PromptOK, SpansMeasured, CallsAddUp, CallsAreCounted
<1>8. Refining'
  <2>1. CASE finer' = <<>>
    <3>1. RefinesWell(prompt, spans, deltas, queue', refined)
      BY <1>1, <1>5, <1>6, <2>1 DEF h
    <3>2. finer' \in Seq(Spans)
      BY <2>1, EmptySeq
    <3> QED BY <1>1, <2>1, <3>1, <3>2 DEF Refining
  <2>2. CASE finer' # <<>>
    <3>1. FineSpans(h) # <<>> /\ finer' = FineSpans(h)
      BY <1>1, <2>2 DEF h
    <3>2. /\ FineSpans(h) \in Seq(Spans)
          /\ \A j \in DOMAIN FineSpans(h) :
                SpanIn(prompt, FineSpans(h)[j]) /\ FineSpans(h)[j].parent # 0
      BY <1>2, <1>6, <3>1, PartsMeasured
    <3>3. queue' = queue
      BY <1>1, <2>2
    <3> DEFINE f == FineSpans(h)
    <3>4. finer' = f /\ f \in Seq(Spans) /\ \A j \in DOMAIN f : SpanIn(prompt, f[j]) /\ f[j].parent # 0
      BY <3>1, <3>2
    <3> HIDE DEF f
    <3> QED BY <1>1, <1>2, <1>3, <1>4, <3>3, <3>4 DEF Refining
  <2> QED BY <2>1, <2>2
<1> QED
  BY <1>7, <1>8 DEF MapInv

\* A part that is scored joins the spans; with its last part a span is refined.
LEMMA FineKeeps ==
    ASSUME MapInv, ScoreFine
    PROVE  MapInv'
<1> DEFINE s == Head(finer)
           q == Append(spans, s)
<1>1. /\ mapping = "refine" /\ finer # <<>> /\ calls' = calls + 1
      /\ spans' = q /\ finer' = Tail(finer)
      /\ UNCHANGED <<prompt, mapping, pair>>
  BY DEF ScoreFine, Asked
<1>2. PICK size \in Sizes : deltas' = Append(deltas, size)
  BY DEF ScoreFine
<1> DEFINE d == Append(deltas, size)
<1>3. /\ MapTyped /\ Measured(prompt, spans) /\ RefinesWell(prompt, spans, deltas, queue, refined)
      /\ spans \in Seq(Spans) /\ deltas \in Seq(Nat) /\ Len(deltas) = Len(spans)
      /\ calls = 1 + Len(spans) /\ calls \in Nat /\ PromptOK /\ pair = <<>>
  BY <1>1 DEF MapInv, MapTyped, SpansMeasured, CallsAddUp, Refining
<1>4. /\ finer \in Seq(Spans) /\ queue # <<>> /\ Cardinality(refined) < MaxRefined
      /\ \A j \in DOMAIN finer : SpanIn(prompt, finer[j]) /\ finer[j].parent # 0
  BY <1>1 DEF MapInv, Refining
<1>5. size \in Nat
  BY InfluenceAssumption
<1>6. s \in Spans /\ SpanIn(prompt, s) /\ s.parent # 0
  <2>1. 1 \in DOMAIN finer /\ s = finer[1] /\ s \in Spans
    BY <1>1, <1>4
  <2> HIDE DEF s
  <2> QED BY <1>4, <2>1
<1>7. /\ finer' \in Seq(Spans)
      /\ \A j \in DOMAIN finer' : SpanIn(prompt, finer'[j]) /\ finer'[j].parent # 0
  <2> DEFINE t == Tail(finer)
  <2>1. t \in Seq(Spans) /\ Len(t) = Len(finer) - 1 /\ \A j \in 1..Len(t) : t[j] = finer[j + 1]
    BY <1>1, <1>4, HeadTailProperties
  <2>2. Len(finer) \in Nat /\ DOMAIN finer = 1..Len(finer)
    BY <1>4
  <2> HIDE DEF t
  <2>3. ASSUME NEW j \in DOMAIN t PROVE SpanIn(prompt, t[j]) /\ t[j].parent # 0
    <3> DEFINE u == j + 1
    <3>1. u \in DOMAIN finer /\ t[j] = finer[u]
      BY <2>1, <2>2
    <3> HIDE DEF u
    <3> QED BY <1>4, <3>1
  <2>4. finer' = t
    BY <1>1 DEF t
  <2> QED BY <2>1, <2>3, <2>4
<1> HIDE DEF s
<1>8. Measured(prompt, q) /\ q \in Seq(Spans) /\ Len(q) = Len(spans) + 1
  BY <1>3, <1>6, MeasuredStays, CoarseStays
<1>9. RefinesWell(prompt, q, d, queue, refined)
  BY <1>3, <1>5, <1>6, RefineExtends
<1>10. d \in Seq(Nat) /\ Len(d) = Len(deltas) + 1 /\ deltas' = d
  BY <1>2, <1>3, <1>5, AppendProperties
<1>11. Len(d) = Len(q)
  BY <1>3, <1>8, <1>10
<1>a. Len(spans) \in Nat
  BY <1>3
<1> HIDE DEF q, d
<1>12. MapTyped'
  BY <1>1, <1>3, <1>8, <1>10 DEF MapTyped, PromptOK, Stages
<1>13. SpansMeasured'
  BY <1>1, <1>8 DEF SpansMeasured
<1>14. CallsAddUp'
  <2>1. calls' = 1 + Len(q)
    BY <1>1, <1>3, <1>8, <1>a
  <2> QED BY <1>1, <1>3, <1>10, <1>11, <2>1 DEF CallsAddUp, CallsAreCounted
<1>15. Refining'
  <2>1. CASE finer' = <<>>
    <3>1. refined' = refined \cup {Head(queue)} /\ queue' = Tail(queue)
      BY <2>1 DEF ScoreFine
    <3>2. RefinesWell(prompt, q, d, Tail(queue), refined \cup {Head(queue)})
      BY <1>4, <1>8, <1>9, <1>10, <1>11, RefineGoesOn
    <3>3. RefinesWell(prompt', spans', deltas', queue', refined')
      BY <1>1, <1>10, <3>1, <3>2
    <3> QED BY <1>1, <1>7, <2>1, <3>3 DEF Refining
  <2>2. CASE finer' # <<>>
    <3>1. refined' = refined /\ queue' = queue
      BY <2>2 DEF ScoreFine
    <3>2. RefinesWell(prompt', spans', deltas', queue', refined')
      BY <1>1, <1>9, <1>10, <3>1
    <3> QED BY <1>1, <1>4, <1>7, <3>1, <3>2 DEF Refining
  <2> QED BY <2>1, <2>2
<1> QED
  BY <1>12, <1>13, <1>14, <1>15 DEF MapInv

\* The redundancy check asks for one more score and says so, or for none.
LEMMA PairKeeps ==
    ASSUME MapInv, CheckPair
    PROVE  MapInv'
<1>1. /\ mapping = "refine" /\ finer = <<>> /\ StopsRefining
      /\ mapping' = "done" /\ queue' = <<>>
      /\ UNCHANGED <<prompt, spans, deltas, finer, refined>>
  BY DEF CheckPair
<1>2. /\ RefinesWell(prompt, spans, deltas, queue, refined) /\ Measured(prompt, spans)
      /\ spans \in Seq(Spans) /\ deltas \in Seq(Nat) /\ Len(deltas) = Len(spans)
      /\ calls = 1 + Len(spans) /\ calls \in Nat /\ PromptOK /\ pair = <<>>
  BY <1>1 DEF MapInv, MapTyped, SpansMeasured, CallsAddUp, Refining
<1>3. RefinedWell(prompt, spans, deltas, refined)
  BY <1>1, <1>2, RefineEnds DEF StopsRefining
<1>4. \/ pair' = <<>> /\ calls' = calls
      \/ pair' # <<>> /\ calls' = calls + 1
  <2>1. CASE Cardinality(Clearing) < 2
    BY <1>2, <2>1 DEF CheckPair
  <2>2. CASE ~(Cardinality(Clearing) < 2)
    <3> DEFINE r == Ranked(Clearing, deltas)
    <3>1. pair' = SubSeq(r, 1, 2) /\ calls' = calls + 1
      BY <2>2 DEF CheckPair, Asked
    <3>2. Clearing \in SUBSET DOMAIN spans /\ \A i \in Clearing : deltas[i] \in Nat
      BY <1>2 DEF Clearing
    <3>3. r \in Seq(Clearing) /\ Len(r) = Cardinality(Clearing) /\ IsFiniteSet(Clearing)
      BY <1>2, <3>2, RankedLists
    <3>4. Len(r) \in Nat /\ ~(Len(r) < 2)
      BY <2>2, <3>3
    <3> HIDE DEF r
    <3>5. Len(SubSeq(r, 1, 2)) = 2
      BY <3>3, <3>4, FirstTwo
    <3>6. pair' # <<>>
      <4>1. Len(pair') = 2
        BY <3>1, <3>5
      <4>2. Len(<< >>) = 0 /\ 0 # 2
        OBVIOUS
      <4> QED BY <4>1, <4>2, Zenon
    <3> QED BY <3>1, <3>6
  <2> QED BY <2>1, <2>2
<1>5. MapTyped'
  BY <1>1, <1>2, <1>4 DEF MapTyped, PromptOK, Stages
<1>6. SpansMeasured' /\ Refining'
  BY <1>1, <1>2, <1>3 DEF SpansMeasured, Refining
<1>7. CallsAddUp'
  <2>1. calls' = 1 + Len(spans) + IF pair' = <<>> THEN 0 ELSE 1
    <3>1. Len(spans) \in Nat
      BY <1>2
    <3> QED BY <1>2, <1>4, <3>1
  <2>2. CallsAreCounted'
    BY <1>1, <2>1 DEF CallsAreCounted, ScoreCalls
  <2> QED BY <1>1, <2>2 DEF CallsAddUp
<1> QED
  BY <1>5, <1>6, <1>7 DEF MapInv

\* The invariant holds throughout.
LEMMA MapInvStays == InfluenceSpec => []MapInv
<1>1. InfluenceInit => MapInv
  BY MapInit
<1>2. MapInv /\ [InfluenceNext]_influenceVars => MapInv'
  <2> SUFFICES ASSUME MapInv, [InfluenceNext]_influenceVars PROVE MapInv'
    OBVIOUS
  <2>1. CASE Segment
    BY <2>1, SegmentKeeps
  <2>2. CASE ScoreBaseline
    BY <2>2, BaselineKeeps
  <2>3. CASE ScoreFails
    BY <2>3, FailsKeeps
  <2>4. CASE ScoreCoarse
    BY <2>4, CoarseKeeps
  <2>5. CASE Refine
    BY <2>5, RefineKeeps
  <2>6. CASE ScoreFine
    BY <2>6, FineKeeps
  <2>7. CASE CheckPair
    BY <2>7, PairKeeps
  <2>8. CASE UNCHANGED influenceVars
    BY <2>8 DEF influenceVars, MapInv, MapTyped, PromptOK, SpansMeasured, CallsAddUp,
                CallsAreCounted, ScoreCalls, Refining
  <2> QED BY <2>1, <2>2, <2>3, <2>4, <2>5, <2>6, <2>7, <2>8 DEF InfluenceNext
<1> QED
  BY <1>1, <1>2, PTL DEF InfluenceSpec

\* What the refinement leaves, as StrongestAreRefined says it.
LEMMA StrongestFollows ==
    ASSUME MapInv
    PROVE  StrongestAreRefined
<1>1. ASSUME mapping = "done", prompt.scored PROVE RefinedWell(prompt, spans, deltas, refined)
  BY <1>1 DEF MapInv, Refining
<1> QED
  BY <1>1, AsOfPrompt DEF StrongestAreRefined, RefinedWell

\* Spans side by side that hold what is visible hold it once.
LEMMA CoverFollows ==
    ASSUME MapInv
    PROVE  SpansCoverTheSource
<1> SUFFICES ASSUME mapping # "segment"
             PROVE  /\ \A m \in Selected : Cover(spans, SpansOf(m), Visible(m))
                    /\ \A i \in Coarse :
                          FineSpans(i) # <<>> =>
                              Cover(FineSpans(i), DOMAIN FineSpans(i),
                                    Visible(spans[i].source) \cap Inside(spans[i]))
  BY DEF SpansCoverTheSource
<1>1. MapTyped /\ PromptOK /\ spans \in Seq(Spans) /\ Measured(prompt, spans)
  BY DEF MapInv, MapTyped, SpansMeasured
<1>2. Coarse = CoarseIn(spans) /\ Coarse \subseteq DOMAIN spans /\ DOMAIN spans \subseteq Nat
  BY <1>1, AsOfPrompt DEF Coarse
<1>3. ASSUME NEW m \in Selected PROVE m \in DOMAIN prompt.messages /\ Len(TextOf(m)) \in Nat
  <2>1. m \in DOMAIN prompt.messages
    BY <1>1, SelectedFit DEF Sources
  <2> QED BY <1>1, <2>1, TextTyped
<1>4. ASSUME NEW i \in DOMAIN spans
      PROVE  /\ spans[i] \in Spans /\ spans[i].source \in Selected
             /\ SpanFits(spans[i], 0, Len(TextOf(spans[i].source)))
  BY <1>1, AsOfPrompt DEF Measured, SpanIn, SpanFits
<1>5. ASSUME NEW m \in Selected PROVE Cover(spans, SpansOf(m), Visible(m))
  <2> DEFINE I == SpansOf(m)
             T == Visible(m)
  <2>1. I \in SUBSET Nat /\ \A i \in I : i \in Coarse /\ i \in DOMAIN spans /\ spans[i].source = m
    BY <1>2 DEF SpansOf
  <2>2. T \in SUBSET Nat /\ \A at \in T : at \in 0..(Len(TextOf(m)) - 1) /\ ~IsSpace(TextOf(m), at)
    BY DEF Visible
  <2>3. \A i \in I : spans[i] \in Spans
    BY <1>4, <2>1
  <2>4. \A i, j \in I : i < j => spans[i].end <= spans[j].from
    BY <1>1, <1>2, <2>1 DEF Measured
  <2>5. \A i \in I : spans[i].from \in T /\ spans[i].end - 1 \in T
    BY <1>3, <1>4, <2>1, VisibleIs
  <2>6. ASSUME NEW at \in T PROVE \E i \in I : spans[i].from <= at /\ at < spans[i].end
    <3>1. m \in SelectedIn(prompt) /\ TextOf(m) = TextIn(prompt, m)
      BY AsOfPrompt
    <3>2. at \in 0..(Len(TextIn(prompt, m)) - 1) /\ ~IsSpace(TextIn(prompt, m), at)
      BY <2>2, <3>1
    <3>3. PICK i \in Coarse : spans[i].source = m /\ spans[i].from <= at /\ at < spans[i].end
      BY <1>1, <1>2, <3>1, <3>2 DEF Measured
    <3> QED BY <3>3 DEF SpansOf
  <2> HIDE DEF I, T
  <2>7. Cover(spans, I, T)
    BY <2>1, <2>2, <2>3, <2>4, <2>5, <2>6, CoverOf
  <2> QED BY <2>7 DEF I, T
<1>6. ASSUME NEW i \in Coarse, FineSpans(i) # <<>>
      PROVE  Cover(FineSpans(i), DOMAIN FineSpans(i),
                   Visible(spans[i].source) \cap Inside(spans[i]))
  <2> DEFINE q == FineSpans(i)
             s == spans[i]
             m == s.source
             T == Visible(m) \cap Inside(s)
  <2>1. /\ Covered(q, m, s.from, s.end) /\ q \in Seq(Spans)
        /\ \A j \in DOMAIN q : SpanIn(prompt, q[j])
    BY <1>1, <1>2, <1>6, PartsMeasured
  <2>2. s \in Spans /\ m \in Selected /\ s.from \in Nat /\ s.end \in Nat
    BY <1>2, <1>4 DEF Spans
  <2>3. Len(TextOf(m)) \in Nat
    BY <1>3, <2>2
  <2> HIDE DEF q, s, m
  <2>4. T \in SUBSET Nat /\ \A at \in T : at \in s.from..(s.end - 1) /\ ~IsSpace(TextOf(m), at)
    BY <2>2 DEF Visible, Inside
  <2>5. DOMAIN q \in SUBSET Nat /\ \A j \in DOMAIN q : q[j] \in Spans
    BY <2>1
  <2>6. \A j, k \in DOMAIN q : j < k => q[j].end <= q[k].from
    BY <2>1 DEF Covered
  <2>7. \A at \in T : \E j \in DOMAIN q : q[j].from <= at /\ at < q[j].end
    BY <2>1, <2>4 DEF Covered
  <2>8. ASSUME NEW j \in DOMAIN q PROVE q[j].from \in T /\ q[j].end - 1 \in T
    <3> DEFINE x == q[j]
    <3>1. x \in Spans /\ x.source = m /\ SpanFits(x, s.from, s.end)
      BY <2>1, <2>5 DEF Covered
    <3>2. SpanFits(x, 0, Len(TextOf(m)))
      <4>1. SpanIn(prompt, x)
        BY <2>1
      <4> HIDE DEF x
      <4>2. RangeFits(TextIn(prompt, m), <<x.from, x.end>>, 0, Len(TextIn(prompt, m)))
        BY <3>1, <4>1 DEF SpanIn
      <4>3. TextIn(prompt, m) = TextOf(m)
        BY AsOfPrompt
      <4> QED BY <3>1, <4>2, <4>3 DEF SpanFits
    <3> HIDE DEF x
    <3>3. x.from \in Visible(m) /\ x.end - 1 \in Visible(m)
      BY <2>3, <3>1, <3>2, VisibleIs
    <3>4. s.from <= x.from /\ x.from < x.end /\ x.end <= s.end /\ x.from \in Nat /\ x.end \in Nat
      <4> DEFINE y == <<x.from, x.end>>
      <4>1. y[1] = x.from /\ y[2] = x.end
        OBVIOUS
      <4> HIDE DEF y
      <4>2. RangeFits(TextOf(m), y, s.from, s.end)
        BY <3>1 DEF SpanFits, y
      <4>3. x.from \in Nat /\ x.end \in Nat
        BY <3>1 DEF Spans
      <4> QED BY <4>1, <4>2, <4>3 DEF RangeFits
    <3>5. x.from \in s.from..(s.end - 1) /\ x.end - 1 \in s.from..(s.end - 1)
      BY <2>2, <3>4
    <3> QED BY <3>3, <3>5 DEF x, Inside
  <2> HIDE DEF T
  <2>9. Cover(q, DOMAIN q, T)
    BY <2>4, <2>5, <2>6, <2>7, <2>8, CoverOf
  <2> QED BY <2>9 DEF q, T, m, s
<1> QED
  BY <1>5, <1>6

\* No measured span cuts a word.
LEMMA WordsFollow ==
    ASSUME MapInv
    PROVE  WordsAreWhole
<1> SUFFICES ASSUME NEW i \in DOMAIN spans
             PROVE  /\ \/ spans[i].end = Len(TextOf(spans[i].source))
                       \/ IsSpace(TextOf(spans[i].source), spans[i].end)
                    /\ spans[i].from = 0 \/ IsSpace(TextOf(spans[i].source), spans[i].from - 1)
  BY DEF WordsAreWhole
<1>1. mapping # "segment" /\ Measured(prompt, spans)
  <2>1. mapping = "segment" => spans = <<>>
    BY DEF MapInv, MapTyped
  <2>2. spans # <<>>
    OBVIOUS
  <2> QED BY <2>1, <2>2 DEF MapInv, SpansMeasured
<1> DEFINE s == spans[i]
           y == <<s.from, s.end>>
           text == TextOf(s.source)
<1>2. y[1] = s.from /\ y[2] = s.end
  OBVIOUS
<1>3. RangeFits(text, y, 0, Len(text))
  BY <1>1, AsOfPrompt DEF Measured, SpanIn
<1> HIDE DEF y
<1>4. StartsWord(text, s.from) /\ EndsWord(text, s.end)
  BY <1>2, <1>3 DEF RangeFits
<1> QED
  BY <1>4 DEF StartsWord, EndsWord

\* A selected source has something visible, so it has a coarse span.
LEMMA LatestFollows ==
    ASSUME MapInv
    PROVE  PolicyAndLatestMeasured
<1> SUFFICES ASSUME mapping # "segment", Sources # {}
             PROVE  /\ Cardinality(Coarse) <= MaxSpans
                    /\ MaxSpans >= 2 =>
                         /\ \E i \in Coarse : spans[i].source = Max(Sources)
                         /\ \A m \in Sources :
                               prompt.messages[m].policy
                                   /\ (\A n \in Sources : n < m => ~prompt.messages[n].policy)
                               => \E i \in Coarse : spans[i].source = m
  BY DEF PolicyAndLatestMeasured
<1>1. PromptOK /\ Measured(prompt, spans) /\ Coarse = CoarseIn(spans)
  BY AsOfPrompt DEF MapInv, MapTyped, SpansMeasured
<1>2. ASSUME NEW m \in Selected PROVE \E i \in Coarse : spans[i].source = m
  <2>1. ~Blank(TextOf(m))
    BY <1>1, SelectedFit DEF Sources
  <2>2. PICK at \in 0..(Len(TextOf(m)) - 1) : ~IsSpace(TextOf(m), at)
    BY <2>1 DEF Blank
  <2>3. m \in SelectedIn(prompt) /\ TextOf(m) = TextIn(prompt, m)
    BY AsOfPrompt
  <2>4. at \in 0..(Len(TextIn(prompt, m)) - 1) /\ ~IsSpace(TextIn(prompt, m), at)
    BY <2>2, <2>3
  <2> QED BY <1>1, <2>3, <2>4 DEF Measured
<1>3. Cardinality(Coarse) <= MaxSpans
  BY <1>1 DEF Measured
<1>4. MaxSpans >= 2 =>
        /\ Max(Sources) \in Selected
        /\ \A m \in Sources :
              prompt.messages[m].policy
                  /\ (\A n \in Sources : n < m => ~prompt.messages[n].policy)
              => m \in Selected
  BY <1>1, SelectedFit
<1> QED
  BY <1>2, <1>3, <1>4

\* Whatever the prompt, the limits and the deltas, and wherever the worker fails to
\* score: in a map that build_context_answer_influence returns, every visible
\* character of a selected source is in exactly one coarse span and in exactly one
\* part of it, no span cuts a word, the first policy message and the latest source
\* are measured within max_context_spans, and timing.score_calls is what the worker
\* was asked.
THEOREM MapSound == InfluenceSpec => []MapIsSound
<1>1. MapInv => MapIsSound
  <2> SUFFICES ASSUME MapInv PROVE MapIsSound
    OBVIOUS
  <2>1. CallsAreCounted
    BY DEF MapInv, CallsAddUp
  <2> QED BY <2>1, CoverFollows, WordsFollow, LatestFollows DEF MapIsSound
<1> QED
  BY <1>1, MapInvStays, PTL

\* Whatever the prompt, the limits and the deltas: a finished map refined the
\* strongest spans that can be cut, and left one that clears the floor only when
\* max_refined_sources was used up on spans at least as strong.
THEOREM StrongestFirst == InfluenceSpec => []StrongestAreRefined
<1>1. MapInv => StrongestAreRefined
  BY StrongestFollows
<1> QED
  BY <1>1, MapInvStays, PTL

=============================================================================
