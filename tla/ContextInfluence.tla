-------------------------- MODULE ContextInfluence --------------------------
(***************************************************************************)
(* The context/answer influence map (clozn/receipts/                       *)
(* context_answer_influence.py): the recorded prompt is cut into spans,    *)
(* each is replaced by neutral filler of its length, the recorded answer   *)
(* is scored again, the strongest spans are cut finer, and one pair is     *)
(* replaced together.                                                      *)
(*                                                                         *)
(* A text is a sequence of characters of four kinds: of a word, white      *)
(* space, a full stop, a closing quote.  Offsets count from 0 and a span   *)
(* ends before its second offset, as in the code.  The answer is one token *)
(* long, and a delta is the size of its change.                            *)
(***************************************************************************)
EXTENDS Integers, Sequences, FiniteSets, SequencesExt, FiniteSetsExt

CONSTANTS
    Prompts,    \* prompts to score: sequences of messages
    ProbeTexts, \* texts that are only cut into spans
    Target,     \* target_chunk_chars
    FineTarget, \* fine_target_chunk_chars
    MaxSpans,   \* max_context_spans
    MaxRefined, \* max_refined_sources
    MaxFine,    \* max_fine_spans_per_source
    Sizes,      \* sizes of a delta
    Floor       \* min_abs_delta_nats

Characters == {"word", "space", "stop", "quote"}

ASSUME InfluenceAssumption ==
    /\ Prompts \subseteq Seq([policy : BOOLEAN, text : Seq(Characters)])
    /\ ProbeTexts \subseteq Seq(Characters)
    /\ {Target, FineTarget, MaxSpans} \subseteq Nat \ {0}
    /\ {MaxRefined, MaxFine} \subseteq Nat
    /\ Sizes \subseteq Nat /\ Floor \in Nat

VARIABLES
    prompt,    \* the messages, and whether they are scored
    mapping,   \* where the map stands
    spans,     \* the spans measured or to be measured
    deltas,    \* their deltas so far
    queue,     \* coarse spans that may still be refined, the strongest first
    finer,     \* parts of the head of the queue still to be scored
    refined,   \* the spans that were refined
    pair,      \* the pair replaced together, or <<>>
    calls      \* history: times the worker was asked for a score

influenceVars == <<prompt, mapping, spans, deltas, queue, finer, refined, pair, calls>>

InfluenceInit ==
    /\ \/ prompt \in [messages : Prompts, scored : {TRUE}]
       \/ prompt \in [messages : {<<[policy |-> FALSE, text |-> t]>> : t \in ProbeTexts},
                      scored : {FALSE}]
    /\ mapping = "segment" /\ spans = <<>> /\ deltas = <<>> /\ queue = <<>>
    /\ finer = <<>> /\ refined = {} /\ pair = <<>> /\ calls = 0

\* The elements of S, each after those that come before it.
InOrder(S, before) ==
    [k \in 1..Cardinality(S) |->
        CHOOSE i \in S : Cardinality({j \in S : <<j, i>> \in before}) = k - 1]
Ascending(S) == InOrder(S, {p \in S \X S : p[1] < p[2]})

-----------------------------------------------------------------------------
(* Cutting a text *)

Kind(text, at) == text[at + 1]
IsSpace(text, at) == Kind(text, at) = "space"
Blank(text) == \A at \in 0..(Len(text) - 1) : IsSpace(text, at)

\* A sentence ends after full stops and closing quotes before white space.
SentenceEnds(text) ==
    {e \in 1..Len(text) :
        /\ e = Len(text) \/ IsSpace(text, e)
        /\ \E stop \in 0..(e - 1) :
              /\ Kind(text, stop) = "stop"
              /\ \A at \in (stop + 1)..(e - 1) : Kind(text, at) = "quote"}

SkipSpace(text, from, end) ==
    Min({at \in from..end : at = end \/ ~IsSpace(text, at)})
TrimEnd(text, from, end) ==
    Max({at \in from..end : at = from \/ ~IsSpace(text, at - 1)})

\* The last white space within the target or, in a longer word, the next one.
CutAt(text, from, end, target) ==
    LET back == {cut \in (from + 1)..(from + target) : IsSpace(text, cut - 1)}
    IN IF back # {} THEN Max(back)
       ELSE Min({cut \in (from + target)..end : cut = end \/ IsSpace(text, cut)})

Range2(from, end) == IF from < end THEN << <<from, end>> >> ELSE <<>>

\* One sentence, from its first to its last visible character.
Chunks(text, from, end, target) ==
    LET Parts[start \in from..end] ==
          IF end - start <= target THEN Range2(start, end)
          ELSE LET cut == CutAt(text, start, end, target) IN
               Range2(start, TrimEnd(text, start, cut)) \o Parts[SkipSpace(text, cut, end)]
    IN Parts[from]

TextRanges(text, target) ==
    LET ends == SentenceEnds(text)
        starts == {0} \cup (ends \ {Len(text)})
        Sentence(from) ==
            LET end == Min({e \in ends \cup {Len(text)} : e > from})
                first == SkipSpace(text, from, end)
            IN Chunks(text, first, TrimEnd(text, first, end), target)
    IN IF Blank(text) THEN <<>>
       ELSE FlattenSeq([i \in 1..Cardinality(starts) |-> Sentence(Ascending(starts)[i])])

-----------------------------------------------------------------------------
(* segment_context *)

TextOf(m) == prompt.messages[m].text
Sources == {m \in DOMAIN prompt.messages : ~Blank(TextOf(m))}

\* The earliest policy, then the most recent sources.
Selected ==
    LET policies == {m \in Sources : prompt.messages[m].policy}
        first == IF policies = {} THEN {} ELSE {Min(policies)}
        others == Sources \ first
    IN IF Cardinality(Sources) <= MaxSpans THEN Sources
       ELSE first \cup {m \in others :
              Cardinality({n \in others : n > m}) < MaxSpans - Cardinality(first)}

\* Sources with a unit to spare.
MoreSlots(slots) ==
    {m \in Selected : slots[m] < Len(TextRanges(TextOf(m), Target))}

\* The source m has more text for each of its spans than n, or is the first of two.
MoreText(slots, m, n) ==
    LET mine == Len(TextOf(m)) * (slots[n] + 1)
        other == Len(TextOf(n)) * (slots[m] + 1)
    IN mine > other \/ (mine = other /\ m < n)

OneMore(slots) ==
    LET more == MoreSlots(slots)
    IN IF more = {} THEN slots
       ELSE [slots EXCEPT ![CHOOSE m \in more :
                \A n \in more \ {m} : MoreText(slots, m, n)] = @ + 1]

\* Every source has one span; what is left goes, one at a time, to the source
\* with the most text for each of its spans.
Slots ==
    LET Given[k \in 0..MaxSpans] ==
          IF k <= Cardinality(Selected) THEN [m \in Selected |-> 1] ELSE OneMore(Given[k - 1])
    IN Given[MaxSpans]

\* Mutant: the group sizes are rounded down.
GroupedEvenly(units, count) ==
    LET k == Min({Max({1, count}), Len(units)})
        size == Len(units) \div k
    IN [i \in 1..k |-> <<units[(i - 1) * size + 1][1], units[i * size][2]>>]

\* _partition_units: contiguous groups, each as one range.
Grouped(units, count) ==
    LET n == Len(units)
        k == Min({Max({1, count}), n})
    IN [i \in 1..k |->
          <<units[((i - 1) * n) \div k + 1][1], units[(i * n) \div k][2]>>]

Span(m, range, parent) == [source |-> m, from |-> range[1], end |-> range[2],
                           parent |-> parent]

CoarseSpans ==
    FlattenSeq([i \in 1..Cardinality(Selected) |->
        LET m == Ascending(Selected)[i]
            groups == Grouped(TextRanges(TextOf(m), Target), Slots[m])
        IN [j \in DOMAIN groups |-> Span(m, groups[j], 0)]])

Coarse == {i \in DOMAIN spans : spans[i].parent = 0}

\* A context without text, and segment_context() called for itself, end here.
Segment ==
    /\ mapping = "segment"
    /\ spans' = CoarseSpans
    /\ mapping' = IF prompt.scored /\ spans' # <<>> THEN "baseline" ELSE "done"
    /\ UNCHANGED <<prompt, deltas, queue, finer, refined, pair, calls>>

-----------------------------------------------------------------------------
(* Scoring *)

Asked == calls' = calls + 1

\* A score that fails or does not align: there is no map.
ScoreFails ==
    /\ \/ mapping \in {"baseline", "coarse"}
       \/ mapping = "refine" /\ finer # <<>>
    /\ Asked /\ mapping' = "failed"
    /\ UNCHANGED <<prompt, spans, deltas, queue, finer, refined, pair>>

ScoreBaseline ==
    /\ mapping = "baseline"
    /\ Asked /\ mapping' = "coarse"
    /\ UNCHANGED <<prompt, spans, deltas, queue, finer, refined, pair>>

\* Ids are compared as strings: a part comes right after its whole.
Whole1(i) == IF spans[i].parent = 0 THEN i ELSE spans[i].parent
IdBefore(i, j) ==
    \/ Whole1(i) < Whole1(j)
    \/ Whole1(i) = Whole1(j) /\ i < j

Stronger(d, i, j) == d[i] > d[j] \/ (d[i] = d[j] /\ IdBefore(i, j))
Ranked(S, d) == InOrder(S, {p \in S \X S : Stronger(d, p[1], p[2])})

\* The next coarse span is replaced; after the last they are ranked.
ScoreCoarse ==
    /\ mapping = "coarse"
    /\ Asked
    /\ \E size \in Sizes : deltas' = Append(deltas, size)
    /\ IF Len(deltas') = Len(spans)
       THEN mapping' = "refine" /\ queue' = Ranked(DOMAIN spans, deltas')
       ELSE UNCHANGED <<mapping, queue>>
    /\ UNCHANGED <<prompt, spans, finer, refined, pair>>

\* _refine_span: nothing, or at least two parts.
FineSpans(i) ==
    LET s == spans[i]
        units == TextRanges(SubSeq(TextOf(s.source), s.from + 1, s.end), FineTarget)
        groups == IF Len(units) <= 1 THEN <<>> ELSE Grouped(units, MaxFine)
    IN IF Len(groups) <= 1 THEN <<>>
       ELSE [j \in DOMAIN groups |->
               Span(s.source, <<s.from + groups[j][1], s.from + groups[j][2]>>, i)]

StopsRefining ==
    queue # <<>> => Cardinality(refined) >= MaxRefined \/ deltas[Head(queue)] < Floor

\* Mutant: a span that cannot be cut ends the refinement.
RefineStopsEarly ==
    /\ mapping = "refine" /\ finer = <<>> /\ ~StopsRefining
    /\ finer' = FineSpans(Head(queue))
    /\ queue' = IF finer' = <<>> THEN <<>> ELSE queue
    /\ UNCHANGED <<prompt, mapping, spans, deltas, refined, pair, calls>>

\* The strongest span left is cut, or passed over if it cannot be.
Refine ==
    /\ mapping = "refine" /\ finer = <<>> /\ ~StopsRefining
    /\ finer' = FineSpans(Head(queue))
    /\ queue' = IF finer' = <<>> THEN Tail(queue) ELSE queue
    /\ UNCHANGED <<prompt, mapping, spans, deltas, refined, pair, calls>>

ScoreFine ==
    /\ mapping = "refine" /\ finer # <<>>
    /\ Asked
    /\ spans' = Append(spans, Head(finer)) /\ finer' = Tail(finer)
    /\ \E size \in Sizes : deltas' = Append(deltas, size)
    /\ IF finer' = <<>>
       THEN refined' = refined \cup {Head(queue)} /\ queue' = Tail(queue)
       ELSE UNCHANGED <<refined, queue>>
    /\ UNCHANGED <<prompt, mapping, pair>>

Clearing == {i \in DOMAIN deltas : deltas[i] >= Floor}

\* _redundancy_check: the two strongest that clear the floor are replaced
\* together.  The map stands whether or not that score comes.
CheckPair ==
    /\ mapping = "refine" /\ finer = <<>> /\ StopsRefining
    /\ mapping' = "done" /\ queue' = <<>>
    /\ IF Cardinality(Clearing) < 2 THEN UNCHANGED <<pair, calls>>
       ELSE pair' = SubSeq(Ranked(Clearing, deltas), 1, 2) /\ Asked
    /\ UNCHANGED <<prompt, spans, deltas, finer, refined>>

InfluenceNext ==
    \/ Segment \/ ScoreBaseline \/ ScoreFails \/ ScoreCoarse
    \/ Refine \/ ScoreFine \/ CheckPair

InfluenceSpec == InfluenceInit /\ [][InfluenceNext]_influenceVars

-----------------------------------------------------------------------------
(* What the map says *)

\* timing.score_calls
ScoreCalls == 1 + Len(spans) + IF pair = <<>> THEN 0 ELSE 1

-----------------------------------------------------------------------------
(* Properties *)

Visible(m) == {at \in 0..(Len(TextOf(m)) - 1) : ~IsSpace(TextOf(m), at)}
Inside(s) == s.from..(s.end - 1)

\* The spans S[i], i in I, hold each of the offsets T once, and begin and end with
\* a visible character.
Cover(S, I, T) ==
    /\ \A at \in T : Cardinality({i \in I : at \in Inside(S[i])}) = 1
    /\ \A i \in I : {S[i].from, S[i].end - 1} \subseteq T

SpansOf(m) == {i \in Coarse : spans[i].source = m}

\* Nothing of a selected source goes unmeasured and nothing is measured twice:
\* every visible character is in exactly one coarse span, and the parts a span
\* is cut into hold each of its visible characters exactly once.
SpansCoverTheSource ==
    mapping # "segment" =>
        /\ \A m \in Selected : Cover(spans, SpansOf(m), Visible(m))
        /\ \A i \in Coarse :
              FineSpans(i) # <<>> =>
                  Cover(FineSpans(i), DOMAIN FineSpans(i),
                        Visible(spans[i].source) \cap Inside(spans[i]))

\* No word is cut: a span ends at white space or at the end of its source.
WordsAreWhole ==
    \A i \in DOMAIN spans :
        LET s == spans[i] IN
        /\ s.end = Len(TextOf(s.source)) \/ IsSpace(TextOf(s.source), s.end)
        /\ s.from = 0 \/ IsSpace(TextOf(s.source), s.from - 1)

\* The first policy message and the latest source are always measured, if there
\* is room for both, and the spans never exceed their bound.
PolicyAndLatestMeasured ==
    mapping # "segment" /\ Sources # {} =>
        /\ Cardinality(Coarse) <= MaxSpans
        /\ MaxSpans >= 2 =>
              /\ \E i \in Coarse : spans[i].source = Max(Sources)
              /\ \A m \in Sources :
                    prompt.messages[m].policy
                        /\ (\A n \in Sources : n < m => ~prompt.messages[n].policy)
                    => \E i \in Coarse : spans[i].source = m

\* A finished map refined the strongest spans that can be cut: one that was left
\* whole although it clears the floor and can be cut is no stronger than any
\* that was refined, and then the budget was used up.
StrongestAreRefined ==
    mapping = "done" /\ prompt.scored =>
        \A i \in Coarse \ refined :
            deltas[i] >= Floor /\ FineSpans(i) # <<>> =>
                /\ Cardinality(refined) = MaxRefined
                /\ \A j \in refined : deltas[j] >= deltas[i]

\* The map's own count of its cost is what the worker was asked.
CallsAreCounted ==
    mapping = "done" /\ prompt.scored /\ spans # <<>> => ScoreCalls = calls

\* The map measures what it says it measured.
MapIsSound == SpansCoverTheSource /\ WordsAreWhole /\ PolicyAndLatestMeasured /\ CallsAreCounted

=============================================================================
