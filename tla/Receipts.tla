------------------------------ MODULE Receipts ------------------------------
(***************************************************************************)
(* prove_all(): what each influence on a recorded reply did, by generating *)
(* the reply again without it (clozn/receipts/core.py, deltas.py), and the *)
(* credit the influences share (clozn/receipts/coalition.py).  An arm is   *)
(* the set of influences left out; every arm is decoded greedily, so the   *)
(* same arm gives the same reply whenever it is generated.  The worker     *)
(* stops an arm at the first token that leaves the baseline's              *)
(* (engine/core/src/generate_ar.cpp).                                      *)
(*                                                                         *)
(* A reply is the tokens committed; its text is the words they spell, and  *)
(* two different token sequences may spell the same text.                  *)
(***************************************************************************)
EXTENDS Integers, Sequences, FiniteSets, SequencesExt, FiniteSetsExt

CONSTANTS
    FiredSets,    \* the influences a run may have had
    Tokens,       \* the tokens
    Words,        \* the words they spell
    Spelling,     \* the words of each token
    Voices,       \* sets of token sequences, of which a run's greedy replies are
    Garbled,      \* a text no arm spells, as a faulty batch answers
    ExactMax,     \* EXACT_SHAPLEY_MAX_N
    ExhaustiveMax,\* EXHAUSTIVE_PAIRS_MAX_N
    TopPairs,     \* DEFAULT_TOP_K_PAIRS
    MaxFailures   \* bound of the model: replays that return None

ASSUME ReceiptsAssumption ==
    /\ \A F \in FiredSets : IsFiniteSet(F)
    /\ Spelling \in [Tokens -> Seq(Words)]
    /\ \A V \in Voices : V \subseteq Seq(Tokens)
    /\ MaxFailures \in Nat /\ {ExactMax, ExhaustiveMax, TopPairs} \subseteq Nat

VARIABLES
    asked,     \* the run's influences and how prove_all was called
    stage,     \* where it stands
    greedy,    \* the reply of every arm generated so far
    armed,     \* the ablated arms carry the baseline's token ids
    arms,      \* arms left to generate in this stage
    receipts,  \* the solo arms, by influence
    redundant, \* redundant_pairs
    measured,  \* the coalition arms, by coalition
    pending,   \* batched replies to be compared with the sequential ones
    report,    \* coalitions, the report
    failures

receiptVars == <<asked, stage, greedy, armed, arms, receipts, redundant, measured,
                 pending, report, failures>>

NoReport == [class |-> "none", credit |-> <<>>, joint |-> 0, batch |-> "none",
             bitExact |-> TRUE]
NoArm == [text |-> <<>>, cut |-> FALSE, doubted |-> FALSE, made |-> FALSE]

ReceiptsInit ==
    /\ asked \in [fired : FiredSets, voice : Voices, faults : 0..MaxFailures,
                  early : BOOLEAN, coalitions : BOOLEAN,
                  batch : {"auto", "off", "approximate"},
                  branches : {"none", "unverified", "verified"}]
    /\ stage = "baseline" /\ greedy = <<>> /\ armed = FALSE /\ arms = <<>>
    /\ receipts = <<>> /\ redundant = {} /\ measured = <<>>
    /\ pending = <<>> /\ report = NoReport /\ failures = 0

Spell(reply) == FlattenSeq([k \in DOMAIN reply |-> Spelling[reply[k]]])

ASSUME GarbledAssumption ==
    \A V \in Voices : \A reply \in V : \A n \in 0..Len(reply) :
        Spell(SubSeq(reply, 1, n)) # Garbled

\* One greedy generation is as good as another.
GreedyOf(S) == IF S \in DOMAIN greedy THEN {greedy[S]} ELSE asked.voice
Put1(f, x, v) == [y \in DOMAIN f \cup {x} |-> IF y = x THEN v ELSE f[y]]

Baseline == greedy[{}]
BaselineText == Spell(Baseline)

-----------------------------------------------------------------------------
(* One arm *)

\* The first token that is not the reference's; 0 if there is none.
DivergesAt(reply) ==
    LET off == {k \in DOMAIN reply :
                  k > Len(Baseline) \/ reply[k] # Baseline[k]}
    IN IF ~armed \/ off = {} THEN 0 ELSE Min(off)

Whole(reply) == [text |-> Spell(reply), cut |-> FALSE, doubted |-> FALSE, made |-> TRUE]

\* Mutant: a divergence always proves that the text changed.
AblatedChildTrusting(reply) ==
    LET at == DivergesAt(reply)
        prefix == [Whole(SubSeq(reply, 1, at)) EXCEPT !.cut = TRUE]
    IN IF at = 0 THEN {<<Whole(reply), 0>>, <<NoArm, 1>>}
       ELSE {<<prefix, 0>>, <<NoArm, 1>>}

\* _ablated_child: the reply up to its divergence, which is generated again, in
\* full, when it might still spell the baseline; the cut one stays if that fails.
\* Each outcome with the replays it took to fail.
AblatedChild(reply) ==
    LET at == DivergesAt(reply)
        prefix == [Whole(SubSeq(reply, 1, at)) EXCEPT !.cut = TRUE]
    IN {<<NoArm, 1>>} \cup
       IF at = 0 THEN {<<Whole(reply), 0>>}
       ELSE IF ~IsPrefix(prefix.text, BaselineText) THEN {<<prefix, 0>>}
       ELSE {<<Whole(reply), 0>>, <<[prefix EXCEPT !.doubted = TRUE], 1>>}

\* The next arm of the stage comes out as `arm`.
Ablate(arm) ==
    /\ arms # <<>> /\ arms' = Tail(arms)
    /\ \E reply \in GreedyOf(Head(arms)) :
          /\ greedy' = Put1(greedy, Head(arms), reply)
          /\ \E child \in AblatedChild(reply) :
                /\ child[1] = arm
                /\ failures' = failures + child[2]
                /\ failures' <= asked.faults

PossibleArms ==
    {NoArm} \cup UNION {{child[1] : child \in AblatedChild(reply)} :
                          reply \in GreedyOf(Head(arms))}

HasEffect(arm) == arm.text # BaselineText

-----------------------------------------------------------------------------
(* _prove_all_regen *)

\* The greedy baseline, with every influence.  Its token ids are the reference
\* of the other arms, unless the stream was lost or early stopping is off.
GenerateBaseline ==
    /\ stage = "baseline"
    /\ \/ /\ \E reply \in asked.voice : greedy' = Put1(greedy, {}, reply)
          /\ armed' \in {asked.early, FALSE}
          /\ stage' = "solo"
          /\ arms' = SetToSeq({{i} : i \in asked.fired})
          /\ UNCHANGED failures
       \/ /\ failures < asked.faults /\ failures' = failures + 1
          /\ stage' = "done"
          /\ UNCHANGED <<greedy, armed, arms>>
    /\ UNCHANGED <<asked, receipts, redundant, measured, pending, report>>

\* Leave one out; an arm that cannot be generated is listed as skipped.
SoloArm ==
    /\ stage = "solo" /\ arms # <<>>
    /\ LET i == CHOOSE i \in Head(arms) : TRUE IN
       \E arm \in PossibleArms :
          /\ Ablate(arm)
          /\ receipts' = IF arm.made THEN Put1(receipts, i, arm) ELSE receipts
    /\ UNCHANGED <<asked, stage, armed, redundant, measured, pending, report>>

NoEffect == {i \in DOMAIN receipts : ~HasEffect(receipts[i])}

PairsOf(K) == {P \in SUBSET K : Cardinality(P) = 2}

\* The redundancy guard: pairs of influences without an effect of their own.
StartPairs ==
    /\ stage = "solo" /\ arms = <<>>
    /\ stage' = "pairs" /\ arms' = SetToSeq(PairsOf(NoEffect))
    /\ UNCHANGED <<asked, greedy, armed, receipts, redundant, measured,
                   pending, report, failures>>

PairArm ==
    /\ stage = "pairs" /\ arms # <<>>
    /\ \E arm \in PossibleArms :
          /\ Ablate(arm)
          /\ redundant' = IF arm.made /\ HasEffect(arm)
                          THEN redundant \cup {Head(arms)} ELSE redundant
    /\ UNCHANGED <<asked, stage, armed, receipts, measured, pending, report>>

-----------------------------------------------------------------------------
(* coalition_report *)

Keys == DOMAIN receipts
JsRound(num, den) == (2 * num + den) \div (2 * den)

\* receipt_metrics' `changed`, in percent: by the words that either text has.
Changed(text) ==
    LET both == ToSet(text) \cap ToSet(BaselineText)
        either == ToSet(text) \cup ToSet(BaselineText)
    IN IF either = {} THEN 0
       ELSE JsRound(100 * (Cardinality(either) - Cardinality(both)), Cardinality(either))

SoloValue(i) == Changed(receipts[i].text)
PairWeight(P) == MapThenSumSet(SoloValue, P)

\* The pairs with the largest solo effects; the names that break a tie may be any.
PairKeys ==
    IF Cardinality(Keys) <= ExhaustiveMax THEN {PairsOf(Keys)}
    ELSE {T \in SUBSET PairsOf(Keys) :
            /\ Cardinality(T) = Min({TopPairs, Cardinality(PairsOf(Keys))})
            /\ \A P \in T, Q \in PairsOf(Keys) \ T : PairWeight(P) >= PairWeight(Q)}

\* The pairs, the joint arm, and what is missing of the power set when that is
\* small enough for an exact value.  The solo arms are not run again.
CoalitionsToRun(pairs) ==
    pairs \cup {Keys} \cup
    IF Cardinality(Keys) <= ExactMax
    THEN {S \in SUBSET Keys : Cardinality(S) >= 2} ELSE {}

BatchPossible == asked.batch # "off" /\ asked.branches # "none"

\* What branch_coalitions answers for the arms: their replies, of which one may
\* be wrong and one may be no text.
BatchedArms(S, wrong, missing) ==
    [s \in S \ missing |->
        IF s \in wrong THEN [NoArm EXCEPT !.text = Garbled, !.made = TRUE]
                       ELSE Whole(greedy'[s])]

Few(S) == {T \in SUBSET S : Cardinality(T) <= 1}

\* A single influence's value is its solo one.
ReportSingle ==
    /\ stage = "pairs" /\ arms = <<>> /\ asked.coalitions /\ Cardinality(Keys) = 1
    /\ stage' = "done"
    /\ report' = [NoReport EXCEPT !.class = "exact",
                                  !.credit = [i \in Keys |-> SoloValue(i)],
                                  !.joint = SoloValue(CHOOSE i \in Keys : TRUE)]
    /\ UNCHANGED <<asked, greedy, armed, arms, receipts, redundant, measured,
                   pending, failures>>

NoCoalitions ==
    /\ stage = "pairs" /\ arms = <<>> /\ (~asked.coalitions \/ Keys = {})
    /\ stage' = "done"
    /\ UNCHANGED <<asked, greedy, armed, arms, receipts, redundant, measured,
                   pending, report, failures>>

\* The batch is taken when the substrate certifies it or the caller opted in.
TakeBatch == asked.branches = "verified" \/ asked.batch = "approximate"

StartCoalitions ==
    /\ stage = "pairs" /\ arms = <<>> /\ asked.coalitions /\ Cardinality(Keys) > 1
    /\ stage' = "coalitions"
    /\ \E pairs \in PairKeys :
       LET run == CoalitionsToRun(pairs) IN
       \/ /\ BatchPossible
          /\ \E rest \in [run \ DOMAIN greedy -> asked.voice] :
                greedy' = [S \in DOMAIN greedy \cup run |->
                             IF S \in DOMAIN greedy THEN greedy[S] ELSE rest[S]]
          /\ \E wrong, missing \in Few(run) :
             LET got == BatchedArms(run, wrong, missing) IN
             IF TakeBatch
             THEN /\ measured' = got /\ arms' = SetToSeq(run \ DOMAIN got)
                  /\ pending' = <<>>
                  /\ report' = [report EXCEPT !.batch =
                                  IF asked.branches = "verified" THEN "exact" ELSE "approximate"]
             ELSE /\ pending' = got /\ arms' = SetToSeq(run)
                  /\ UNCHANGED <<measured, report>>
       \/ \* there is no batching, or it raised or answered too few arms
          /\ arms' = SetToSeq(run)
          /\ UNCHANGED <<greedy, measured, pending, report>>
    /\ UNCHANGED <<asked, armed, receipts, redundant, failures>>

CoalitionArm ==
    /\ stage = "coalitions" /\ arms # <<>>
    /\ \E arm \in PossibleArms :
          /\ Ablate(arm)
          /\ measured' = IF arm.made THEN Put1(measured, Head(arms), arm) ELSE measured
    /\ UNCHANGED <<asked, stage, armed, receipts, redundant, pending, report>>

\* v(S): nothing for no influence, the solo receipts, then the coalition arms.
Value(S) ==
    IF S = {} THEN 0
    ELSE IF Cardinality(S) = 1 THEN SoloValue(CHOOSE i \in S : TRUE)
    ELSE Changed(measured[S].text)

Factorial[n \in Nat] == IF n = 0 THEN 1 ELSE n * Factorial[n - 1]

\* Mutant: the weight counts the coalition with the influence.
MarginalWeightShifted(s, n) == Factorial[s] * Factorial[n - s]

MarginalWeight(s, n) == Factorial[s] * Factorial[n - s - 1]

\* exact_shapley, times n!.
ExactShapley(i) ==
    LET n == Cardinality(Keys)
        Part(S) == MarginalWeight(Cardinality(S), n) * (Value(S \cup {i}) - Value(S))
    IN MapThenSumSet(Part, SUBSET (Keys \ {i}))

\* shapley_taylor, times twice the number of pairs that could be measured: the
\* solo value and half the mean interaction.
Taylor(i) ==
    LET partners == {j \in Keys \ {i} : {i, j} \in DOMAIN measured}
        Term(j) == Value({i, j}) - SoloValue(i) - SoloValue(j)
    IN IF partners = {} THEN SoloValue(i)
       ELSE 2 * Cardinality(partners) * SoloValue(i) + MapThenSumSet(Term, partners)

AllMeasured == \A S \in SUBSET Keys : Cardinality(S) >= 2 => S \in DOMAIN measured

\* The report; none without the joint arm, no values when an exact one lacks a
\* coalition.
Report ==
    /\ stage = "coalitions" /\ arms = <<>>
    /\ stage' = "done"
    /\ report' =
         IF Keys \notin DOMAIN measured THEN [report EXCEPT !.class = "unavailable"]
         ELSE [report EXCEPT
                !.class = IF Cardinality(Keys) > ExactMax THEN "taylor"
                          ELSE IF AllMeasured THEN "exact" ELSE "missing",
                !.credit = IF Cardinality(Keys) > ExactMax THEN [i \in Keys |-> Taylor(i)]
                           ELSE IF AllMeasured THEN [i \in Keys |-> ExactShapley(i)] ELSE <<>>,
                !.joint = Value(Keys),
                !.bitExact = \A S \in DOMAIN pending \cap DOMAIN measured :
                                pending[S].text = measured[S].text]
    /\ UNCHANGED <<asked, greedy, armed, arms, receipts, redundant, measured,
                   pending, failures>>

ReceiptsNext ==
    \/ GenerateBaseline \/ SoloArm \/ StartPairs \/ PairArm
    \/ ReportSingle \/ NoCoalitions \/ StartCoalitions \/ CoalitionArm \/ Report

ReceiptsSpec == ReceiptsInit /\ [][ReceiptsNext]_receiptVars

-----------------------------------------------------------------------------
(* Properties *)

Truly(S) == Spell(greedy[S])

\* Early stopping saves work and never changes a verdict: an influence has an
\* effect exactly when the whole reply without it differs in text, also when
\* the token ids leave the baseline and come back to the same text, and when
\* the reply ends earlier or later.  (An arm that could not be regenerated in
\* full is the exception: its verdict is of the prefix.)
EarlyStopIsSound ==
    \A i \in DOMAIN receipts :
        ~receipts[i].doubted =>
            (HasEffect(receipts[i]) <=> Truly({i}) # Truly({}))

\* A text that is not the arm's whole reply says so.
CutRepliesAreMarked ==
    \A i \in DOMAIN receipts : receipts[i].text # Truly({i}) => receipts[i].cut

Doubted == {i \in DOMAIN receipts : receipts[i].doubted}

\* redundant_pairs names a pair exactly when neither influence alone moves the
\* reply and both together do (where the arms involved could all be generated).
PairsAreRedundant ==
    stage \in {"coalitions", "done"} =>
      \A P \in PairsOf(Keys \ Doubted) :
        /\ P \in redundant =>
              /\ \A i \in P : Truly({i}) = Truly({})
              /\ Truly(P) # Truly({}) \/ failures > 0
        /\ failures = 0 /\ (\A i \in P : Truly({i}) = Truly({})) /\ Truly(P) # Truly({})
              => P \in redundant

Orders(K) == {o \in [1..Cardinality(K) -> K] : ToSet(o) = K}
Before(o, i) == {o[k] : k \in {k \in DOMAIN o : \E l \in DOMAIN o : o[l] = i /\ k < l}}

\* An exact Shapley value is the mean, over all orders in which the influences
\* can be taken away, of what its own going changes (times n!), so the values
\* add up to the joint effect; and no coalition it is made of was left out.
ShapleyIsTheMean ==
    report.class = "exact" /\ Cardinality(Keys) > 1 =>
        /\ AllMeasured
        /\ \A i \in Keys :
             LET Marginal(o) == Value(Before(o, i) \cup {i}) - Value(Before(o, i))
             IN report.credit[i] = MapThenSumSet(Marginal, Orders(Keys))

\* A run whose replays all came back gets its values: whatever is batched and
\* whichever pairs are measured, the joint arm and every coalition an exact
\* value needs are among the arms that were generated.
ReportIsComplete ==
    stage = "done" /\ failures = 0 /\ asked.coalitions /\ Keys # {} =>
        report.class \in {"exact", "taylor"}

\* A batch nobody vouched for is never what is reported: without a certificate
\* or the caller's opt-in, a wrong batched reply reaches no value.
BatchesAreChecked ==
    stage = "done" /\ ~(asked.branches = "verified" \/ asked.batch = "approximate") =>
        \A S \in DOMAIN measured : measured[S].text # Garbled

\* The verdicts on each influence and on pairs of them, the texts they are shown
\* with, and that a report is made of them and of nothing unchecked.
VerdictsAreSound ==
    /\ EarlyStopIsSound
    /\ CutRepliesAreMarked
    /\ PairsAreRedundant
    /\ BatchesAreChecked
    /\ ReportIsComplete

==============================================================================
