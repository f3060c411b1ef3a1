----------------------------- MODULE ThinkTags -----------------------------
(***************************************************************************)
(* The think-tag filter of a streamed reply (clozn/runs/think_tags.py):    *)
(* ThinkTagStream takes the reply in pieces of any size and lets through   *)
(* only the answer; sanitize_steps does the same to the token steps of the *)
(* trace.                                                                  *)
(*                                                                         *)
(* Text is a sequence of characters.  The two tags are constants: what     *)
(* matters of "<think>" and "</think>" is that they share a beginning and  *)
(* that neither starts inside the other.  A letter is written as its lower *)
(* case, except for those whose lower case is longer than they are (Wide:  *)
(* in Python a capital I with a dot): the filter looks for tags in         *)
(* `pending.lower()` and cuts `pending` where it found them.               *)
(***************************************************************************)
EXTENDS Integers, Sequences, FiniteSets, SequencesExt, FiniteSetsExt

CONSTANTS
    Characters,
    OpenTag, CloseTag,
    Space,      \* white space
    Wide,       \* characters whose lower case is more than one character
    WideLower,  \* that lower case
    PieceSet,   \* the pieces a stream delivers
    MostPieces  \* bound of the model: pieces of one reply

Tags == {OpenTag, CloseTag}

\* Neither tag starts inside one of them, nor begins with the whole other one.
TagsApart ==
    \A tag, other \in Tags : \A d \in 0..(Len(tag) - 1) :
       \/ d = 0 /\ other = tag
       \/ \E k \in DOMAIN other : d + k <= Len(tag) /\ tag[d + k] # other[k]

ASSUME TagsAssumption ==
    /\ Tags \subseteq Seq(Characters) \ {<<>>} /\ OpenTag # CloseTag /\ TagsApart
    /\ \A tag \in Tags : tag[1] # Space /\ ToSet(tag) \cap Wide = {}
    /\ PieceSet \subseteq Seq(Characters) \ {<<>>} /\ MostPieces \in Nat
    /\ WideLower \in Seq(Characters)

VARIABLES
    thinker,     \* the ThinkTagStream: see NewStream
    piecesFed,   \* the pieces fed so far
    publicSteps, \* sanitize_steps: what each step has contributed to the answer
    hiddenSteps  \* sanitize_steps: the steps kept as reasoning, by number

thinkVars == <<thinker, piecesFed, publicSteps, hiddenSteps>>

NewStream(implicit) ==
    [implicit |-> implicit, inThink |-> implicit, depth |-> IF implicit THEN 1 ELSE 0,
     redundant |-> implicit, pending |-> <<>>, reasoning |-> <<>>, blocks |-> <<>>,
     public |-> <<>>, orphans |-> 0]

ThinkInit ==
    /\ \E implicit \in BOOLEAN : thinker = NewStream(implicit)
    /\ piecesFed = <<>> /\ publicSteps = <<>> /\ hiddenSteps = <<>>

-----------------------------------------------------------------------------
(* ThinkTagStream.feed *)

\* str.lower().
Lower(text) ==
    FlattenSeq([i \in DOMAIN text |-> IF text[i] \in Wide THEN WideLower ELSE <<text[i]>>])

StartsAt(text, tag, i) ==
    i + Len(tag) - 1 <= Len(text) /\ SubSeq(text, i, i + Len(tag) - 1) = tag

FirstTags(text) ==
    {i \in DOMAIN text : StartsAt(text, OpenTag, i) \/ StartsAt(text, CloseTag, i)}

\* Mutant: only the opening tag may be arriving.
TagSuffixLenOpenOnly(text) ==
    Max({0} \cup {n \in 1..(Len(OpenTag) - 1) :
           n <= Len(text) /\ IsSuffix(SubSeq(OpenTag, 1, n), text)})

\* _tag_suffix_len: the longest end of the text that may become a tag.
TagSuffixLen(text) ==
    Max({0} \cup {n \in 1..(Len(OpenTag) - 1) :
                    n <= Len(text) /\ IsSuffix(SubSeq(OpenTag, 1, n), text)}
            \cup {n \in 1..(Len(CloseTag) - 1) :
                    n <= Len(text) /\ IsSuffix(SubSeq(CloseTag, 1, n), text)})

OnlySpace(text) == \A i \in DOMAIN text : text[i] = Space

\* The first n pending characters are passed on: to the answer, or to the open
\* block.  A slice ends where the text does.
Pass(s, n) ==
    LET text == SubSeq(s.pending, 1, Min({n, Len(s.pending)}))
        rest == SubSeq(s.pending, n + 1, Len(s.pending)) IN
    IF s.inThink THEN [s EXCEPT !.reasoning = @ \o text, !.pending = rest]
    ELSE [s EXCEPT !.public = @ \o text, !.pending = rest]

\* A tag is taken off the pending text.
Drop(s, tag) == [s EXCEPT !.pending = SubSeq(@, Len(tag) + 1, Len(@))]

\* An opening tag: a block begins, or one block more in it; the echo of a tag
\* the prompt already opened is dropped.
OpenSeen(s) ==
    IF ~s.inThink THEN [s EXCEPT !.inThink = TRUE, !.depth = 1, !.redundant = FALSE]
    ELSE IF s.redundant /\ OnlySpace(s.reasoning) /\ s.depth = 1
         THEN [s EXCEPT !.redundant = FALSE]
         ELSE [s EXCEPT !.reasoning = @ \o OpenTag, !.depth = @ + 1]

Closed(s, closed) ==
    [s EXCEPT !.blocks = Append(@, [text |-> s.reasoning, closed |-> closed]),
              !.reasoning = <<>>, !.inThink = FALSE]

\* A closing tag: of the block, of a block in it, or of none.
CloseSeen(s) ==
    IF ~s.inThink THEN [s EXCEPT !.orphans = @ + 1]
    ELSE IF s.depth <= 1 THEN [Closed(s, TRUE) EXCEPT !.depth = 0]
    ELSE [s EXCEPT !.reasoning = @ \o CloseTag, !.depth = @ - 1]

\* One turn of the loop over `pending`, as long as there is a whole tag in its
\* lower case; what is cut off is as much of the text itself.
Turn(s) ==
    LET lower == Lower(s.pending)
        tags == FirstTags(lower) IN
    IF tags = {} THEN s
    ELSE LET at == Pass(s, Min(tags) - 1) IN
         IF StartsAt(lower, OpenTag, Min(tags)) THEN OpenSeen(Drop(at, OpenTag))
         ELSE CloseSeen(Drop(at, CloseTag))

\* Then what cannot become a tag is passed on.
PassRest(s) == Pass(s, Len(s.pending) - TagSuffixLen(Lower(s.pending)))

\* Each turn takes a tag off, so there are no more turns than characters.
FeedPiece(s, piece) ==
    LET text == s.pending \o piece
        after[n \in 0..Len(text)] ==
          IF n = 0 THEN [s EXCEPT !.pending = text] ELSE Turn(after[n - 1])
    IN PassRest(after[Len(text)])

\* finish(): a block that is still open ends, an incomplete tag is text.
FinishStream(s) ==
    IF s.inThink
    THEN [Closed([s EXCEPT !.reasoning = @ \o s.pending], FALSE) EXCEPT !.pending = <<>>]
    ELSE [s EXCEPT !.public = @ \o s.pending, !.pending = <<>>]

-----------------------------------------------------------------------------
(* One step of the reply, through sanitize_steps *)

Feed ==
    /\ Len(piecesFed) < MostPieces
    /\ \E piece \in PieceSet :
          LET after == FeedPiece(thinker, piece)
              out == SubSeq(after.public, Len(thinker.public) + 1, Len(after.public))
          IN /\ thinker' = after
             /\ piecesFed' = Append(piecesFed, piece)
             /\ publicSteps' = IF out # <<>> THEN Append(publicSteps, out) ELSE publicSteps
             /\ hiddenSteps' = IF out # piece THEN Append(hiddenSteps, Len(piecesFed) + 1)
                               ELSE hiddenSteps

ThinkNext == Feed

\* The steps sanitize_steps returns if the reply ends here: those it was given
\* when there was no tag at all, else the answer's, the pending text joined to
\* the last of them.
FinalSteps ==
    LET tail == IF thinker.inThink THEN <<>> ELSE thinker.pending IN
    IF FinishStream(thinker).blocks = <<>> /\ thinker.orphans = 0 THEN piecesFed
    ELSE IF tail = <<>> THEN publicSteps
    ELSE IF publicSteps = <<>> THEN <<tail>>
    ELSE Front(publicSteps) \o <<Last(publicSteps) \o tail>>

ThinkSpec == ThinkInit /\ [][ThinkNext]_thinkVars

-----------------------------------------------------------------------------
(* Properties *)

Raw == FlattenSeq(piecesFed)

\* A reply as a whole, read once.  Its tags are every place where one starts,
\* whatever pieces it came in.
TagAt(text, i) ==
    IF StartsAt(text, OpenTag, i) THEN OpenTag
    ELSE IF StartsAt(text, CloseTag, i) THEN CloseTag ELSE <<>>

\* Characters inside a tag.
InTag(text) == {i \in DOMAIN text : \E j \in 1..i : i < j + Len(TagAt(text, j))}

\* The echoed opening tag, if there is one: the first tag, with only white
\* space before it, of a reply whose prompt opened the block.
Echo(text, implicit) ==
    {i \in DOMAIN text : /\ implicit /\ TagAt(text, i) = OpenTag
                         /\ \A j \in 1..(i - 1) : text[j] = Space}

\* How many blocks are open once a tag is seen where d were.
DepthSeen(text, implicit, i, d) ==
    IF TagAt(text, i) = OpenTag /\ i \notin Echo(text, implicit) THEN d + 1
    ELSE IF TagAt(text, i) = CloseTag /\ d > 0 THEN d - 1 ELSE d

\* The number of blocks open after each character, counting a tag by its first.
Depth(text, implicit) ==
    LET depth[i \in 0..Len(text)] ==
          IF i = 0 THEN IF implicit THEN 1 ELSE 0
          ELSE DepthSeen(text, implicit, i, depth[i - 1])
    IN depth

\* The answer is what stands outside every block and is no tag.
Kept(text, implicit) ==
    LET depth == Depth(text, implicit) IN
    {i \in DOMAIN text : i \notin InTag(text) /\ depth[i] = 0}

\* The kept characters of each beginning of the text.
Spelt(text, kept) ==
    LET spelt[n \in 0..Len(text)] ==
          IF n = 0 THEN <<>>
          ELSE IF n \in kept THEN Append(spelt[n - 1], text[n]) ELSE spelt[n - 1]
    IN spelt

Answer == Spelt(Raw, Kept(Raw, thinker.implicit))[Len(Raw)]

\* However a reply is cut into pieces, and wherever it ends, the filter lets
\* through what the definition above gives for the whole text: a tag split over
\* pieces is a tag, and what merely begins like one is text.  It is so of the
\* replies of AnswerIsExact only: behind a character whose lower case is longer,
\* a tag that comes whole in one piece is cut out at the wrong place.
SplitsDoNotMatter == FinishStream(thinker).public = Answer

\* The trace of the answer spells the answer: no character of it is in a hidden
\* step only, none is in it twice.
StepsSpellTheAnswer == FlattenSeq(FinalSteps) = Answer

\* The answer, as text and as steps, of every reply without a character whose
\* lower case is longer than it is.
AnswerIsExact ==
    (\A i \in DOMAIN piecesFed : ToSet(piecesFed[i]) \cap Wide = {}) =>
       SplitsDoNotMatter /\ StepsSpellTheAnswer

=============================================================================
