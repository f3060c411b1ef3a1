------------------------------- MODULE Replay -------------------------------
(***************************************************************************)
(* Replays of recorded runs (clozn/replay/): replay, counterfactual and    *)
(* dose_sweep, retry_compare, branch and fork, with the live state they    *)
(* borrow: the dials of EngineSteer, the memory strength and the excluded  *)
(* cards.  POSTs reach this code one at a time; the card store is shared   *)
(* with `clozn memory`, which may write to it between any two steps.       *)
(*                                                                         *)
(* A dict of dials is a function on the names it holds.  Only prompt mode  *)
(* of the memory is modelled, every card being on topic.  What the model   *)
(* is given stands for the reply.                                          *)
(***************************************************************************)
EXTENDS Integers, Sequences, FiniteSets, SequencesExt, FiniteSetsExt, Functions

CONSTANTS
    Names,       \* dial names a request can hold
    Axes0,       \* those with a direction at the start
    MaxDial,     \* an axis's max
    MemCards,    \* active memory cards that can be in the store
    Presets,     \* corrective presets
    Specs,       \* the changes a /replay asks for: see NoChange
    NoName,      \* no nudge
    NotAList,    \* a disabled_memory_ids that cannot be iterated
    MostRuns, MostSettings \* bounds of the model: runs; settings and card edits

ASSUME ReplayAssumption ==
    /\ Axes0 \subseteq Names /\ NoName \notin Names
    /\ MaxDial \in Nat \ {0} /\ MostRuns \in Nat /\ MostSettings \in Nat

VARIABLES
    dials,      \* EngineSteer.strength
    savedDials, \* studio_personality.json
    vecs,       \* names that have a direction: EngineSteer.vecs
    memStrength,\* memory_strength, 0 or 1
    excluded,   \* _exclude_card_ids
    inStore,    \* the active cards
    pastRuns,   \* the journal: see RunRecord
    post,       \* the request being served and its local variables
    memSetting, \* history: the memory strength the user last set
    leftOff,    \* history: a replay that raised left the memory off
    settings,   \* settings and card edits so far
    cardsRaced  \* history: the store was written to during the request

studioVars == <<dials, savedDials, vecs, memStrength, excluded>>
replayVars ==
    <<studioVars, inStore, pastRuns, post, memSetting, leftOff, settings, cardsRaced>>

Empty == [n \in {} |-> 0]
NoPost == [at |-> "none"]

ReplayInit ==
    /\ dials \in {Empty} \cup [Axes0 -> {0, 1}] /\ savedDials = dials
    /\ vecs = Axes0 /\ memStrength \in {0, 1} /\ memSetting = memStrength
    /\ leftOff = FALSE
    /\ excluded = {} /\ inStore = MemCards
    /\ pastRuns = <<>> /\ post = NoPost /\ settings = 0 /\ cardsRaced = FALSE

\* steer.active(), and what steer_vector makes of a dict of strengths.
Active(d) == Restrict(d, {n \in DOMAIN d : d[n] # 0})
Steered(d) == Restrict(Active(d), DOMAIN Active(d) \cap vecs)

\* What chat() gives the model: the live dials, the saved ones if no dial was
\* ever set, and the cards.
Given(greedy, presets) ==
    [dials |-> Steered(IF dials = Empty THEN savedDials ELSE dials),
     cards |-> IF memStrength = 0 THEN {} ELSE inStore \ excluded,
     greedy |-> greedy, presets |-> presets, known |-> vecs]

RunRecord(kind, parent, changes, active, given) ==
    [kind |-> kind, parent |-> parent, changes |-> changes, active |-> active, given |-> given]

\* The changes a replay can make.
NoChange ==
    [memOff |-> FALSE, disabled |-> {}, off |-> FALSE, set |-> Empty, nudge |-> NoName,
     greedy |-> FALSE, presets |-> {}]

-----------------------------------------------------------------------------
(* The studio between replays *)

\* EngineSteer.set
SetTo(d, n, x) ==
    [m \in DOMAIN d \cup {n} |-> IF m = n THEN Min({x, MaxDial}) ELSE d[m]]

Setting == post = NoPost /\ settings < MostSettings /\ settings' = settings + 1

SetDial(n, x) ==
    /\ Setting
    /\ dials' = SetTo(dials, n, x) /\ savedDials' = dials'
    /\ UNCHANGED <<vecs, memStrength, excluded, inStore, pastRuns, post, memSetting, leftOff,
                   cardsRaced>>

DeleteDial(n) ==
    /\ Setting
    /\ dials' = Restrict(dials, DOMAIN dials \ {n}) /\ savedDials' = dials'
    /\ vecs' = vecs \ {n}
    /\ UNCHANGED <<memStrength, excluded, inStore, pastRuns, post, memSetting, leftOff,
                   cardsRaced>>

\* add_custom: a name gets a direction.
AddDial(n) ==
    /\ Setting
    /\ vecs' = vecs \cup {n}
    /\ UNCHANGED <<dials, savedDials, memStrength, excluded, inStore, pastRuns, post, memSetting, leftOff,
                   cardsRaced>>

SetMemory(x) ==
    /\ Setting
    /\ memStrength' = x /\ memSetting' = x /\ leftOff' = FALSE
    /\ UNCHANGED <<dials, savedDials, vecs, excluded, inStore, pastRuns, post, cardsRaced>>

EditStore(c) ==
    /\ settings < MostSettings /\ settings' = settings + 1
    /\ inStore' = IF c \in inStore THEN inStore \ {c} ELSE inStore \cup {c}
    /\ cardsRaced' = (cardsRaced \/ post # NoPost)
    /\ UNCHANGED <<studioVars, pastRuns, post, memSetting, leftOff>>

\* A reply of the product route, journaled.
ChatTurn ==
    /\ post = NoPost /\ Len(pastRuns) < MostRuns
    /\ pastRuns' = Append(pastRuns, RunRecord("chat", 0, NoChange, Active(dials), Given(FALSE, {})))
    /\ UNCHANGED <<studioVars, inStore, post, memSetting, leftOff, settings, cardsRaced>>

-----------------------------------------------------------------------------
(* Requests: each is a sequence of arms, an arm one call of replay() *)

Baseline == [NoChange EXCEPT !.greedy = TRUE]
Dose(n, x) == [Baseline EXCEPT !.set = (n :> x)]

Begins(kind, r, arms) ==
    /\ post = NoPost /\ r \in DOMAIN pastRuns
    /\ post' = [at |-> "apply", kind |-> kind, parent |-> r, arms |-> arms, children |-> <<>>]
    /\ cardsRaced' = FALSE
    /\ UNCHANGED <<studioVars, inStore, pastRuns, memSetting, leftOff, settings>>

StartReplay(r) == \E ch \in Specs : Begins("replay", r, <<ch>>)

\* counterfactual, and dose_sweep over two doses.
StartCounterfactual(r, n, x) == Begins("counterfactual", r, <<Baseline, Dose(n, x)>>)
StartSweep(r, n, x, y) ==
    Begins("counterfactual", r, <<Baseline, Dose(n, x), Baseline, Dose(n, y)>>)

\* retry_compare: both arms keep the policies in force.
StartRetry(r, now, preset) ==
    Begins("retry", r, <<[Baseline EXCEPT !.presets = now],
                         [Baseline EXCEPT !.presets = now \cup {preset}]>>)

-----------------------------------------------------------------------------
(* replay() *)

Change == post.arms[Len(post.children) + 1]

\* Mutant: the overrides are set on no dials at all.
AppliedAlone(d, ch) ==
    LET over == [n \in DOMAIN ch.set |-> Min({ch.set[n], MaxDial})]
    IN IF ch.nudge = NoName THEN IF ch.set = Empty /\ ~ch.off THEN d ELSE over
       ELSE SetTo(d, ch.nudge, 1 + IF ch.nudge \in DOMAIN d THEN d[ch.nudge] ELSE 0)

\* _apply_changes: dials dropped, then overridden, then nudged.
Applied(d, ch) ==
    LET kept == IF ch.off THEN Empty ELSE d
        over == [n \in DOMAIN kept \cup DOMAIN ch.set |->
                   IF n \in DOMAIN ch.set THEN Min({ch.set[n], MaxDial}) ELSE kept[n]]
    IN IF ch.nudge = NoName THEN over
       ELSE SetTo(over, ch.nudge, 1 + IF ch.nudge \in DOMAIN over THEN over[ch.nudge] ELSE 0)

\* The live state is saved and changed.
Apply ==
    /\ post.at = "apply" /\ Change.disabled # NotAList
    /\ dials' = Applied(dials, Change)
    /\ memStrength' = IF Change.memOff THEN 0 ELSE memStrength
    /\ excluded' = IF Change.disabled # {} THEN Change.disabled ELSE excluded
    /\ post' = [at |-> "generate", kind |-> post.kind, parent |-> post.parent,
                arms |-> post.arms, children |-> post.children,
                dials |-> dials, strength |-> memStrength, excluded |-> excluded,
                active |-> Active(dials')]
    /\ UNCHANGED <<savedDials, vecs, inStore, pastRuns, memSetting, leftOff, settings, cardsRaced>>

\* The arm is over, with a child run or with None.  A comparison without its
\* baseline is given up; a sweep goes on with the next dose.
Arms(child) ==
    LET done == Append(post.children, child)
        odd == Len(done) % 2 = 1
        next == IF child = 0 /\ odd THEN Append(done, 0) ELSE done
    IN post' = [at |-> IF Len(next) >= Len(post.arms) THEN "answer" ELSE "apply",
                kind |-> post.kind, parent |-> post.parent, arms |-> post.arms,
                children |-> next]

\* The cards to leave out are no list: the memory is switched off, then
\* _apply_changes raises, before the try block whose finally would put it back.
ApplyRaises ==
    /\ post.at = "apply" /\ Change.disabled = NotAList
    /\ memStrength' = IF Change.memOff THEN 0 ELSE memStrength
    /\ leftOff' = (leftOff \/ Change.memOff)
    /\ Arms(0)
    /\ UNCHANGED <<dials, savedDials, vecs, excluded, inStore, pastRuns, memSetting, settings,
                   cardsRaced>>

\* Mutant: the memory strength is put back as the default.
RestoreDefault ==
    /\ dials' = post.dials /\ memStrength' = 1 /\ excluded' = post.excluded

\* The finally block.
Restored ==
    /\ dials' = post.dials
    /\ memStrength' = post.strength
    /\ excluded' = post.excluded

\* The reply is generated, the state put back, the child journaled.
ReplayChild ==
    /\ post.at = "generate"
    /\ Restored
    /\ LET child == RunRecord("replay", post.parent, Change, post.active,
                             Given(Change.greedy, Change.presets))
       IN pastRuns' = Append(pastRuns, child)
    /\ Arms(Len(pastRuns) + 1)
    /\ UNCHANGED <<savedDials, vecs, inStore, memSetting, leftOff, settings, cardsRaced>>

\* The generation raises, or the child cannot be journaled: None, after the
\* finally block.
ReplayFails ==
    /\ post.at = "generate"
    /\ Restored
    /\ Arms(0)
    /\ UNCHANGED <<savedDials, vecs, inStore, pastRuns, memSetting, leftOff, settings, cardsRaced>>

Respond ==
    /\ post.at = "answer"
    /\ post' = NoPost
    /\ UNCHANGED <<studioVars, inStore, pastRuns, memSetting, leftOff, settings, cardsRaced>>

-----------------------------------------------------------------------------
(* branch() and fork(): one call each *)

BranchRun(r, greedy) ==
    /\ post = NoPost /\ r \in DOMAIN pastRuns /\ Len(pastRuns) < MostRuns
    /\ pastRuns' = Append(pastRuns, RunRecord("branch", r, NoChange, Active(dials), Given(greedy, {})))
    /\ UNCHANGED <<studioVars, inStore, post, memSetting, leftOff, settings, cardsRaced>>

\* The parent's prompt, with the dials it recorded: as they are recorded, unless
\* none of them has a direction.
Fork(r) ==
    /\ post = NoPost /\ r \in DOMAIN pastRuns /\ Len(pastRuns) < MostRuns
    /\ LET steered == Steered(pastRuns[r].active) IN
       pastRuns' = Append(pastRuns, RunRecord("fork", r, NoChange,
                 IF steered = Empty THEN Empty ELSE pastRuns[r].active,
                 [pastRuns[r].given EXCEPT !.dials = steered, !.greedy = TRUE, !.known = vecs]))
    /\ UNCHANGED <<studioVars, inStore, post, memSetting, leftOff, settings, cardsRaced>>

ReplayNext ==
    \/ ChatTurn \/ Apply \/ ApplyRaises \/ ReplayChild \/ ReplayFails \/ Respond
    \/ \E n \in Names : DeleteDial(n) \/ AddDial(n) \/ \E x \in 0..MaxDial : SetDial(n, x)
    \/ \E x \in {0, 1} : SetMemory(x)
    \/ \E c \in MemCards : EditStore(c)
    \/ \E r \in DOMAIN pastRuns :
          \/ BranchRun(r, TRUE) \/ Fork(r)
          \/ /\ Len(pastRuns) < MostRuns
             /\ \/ StartReplay(r)
                \/ \E now \in SUBSET Presets, p \in Presets : StartRetry(r, now, p)
                \/ \E n \in Names, x \in 0..(MaxDial + 1) : StartCounterfactual(r, n, x)
                \/ \E n \in Names, x, y \in 1..MaxDial : x < y /\ StartSweep(r, n, x, y)

ReplaySpec == ReplayInit /\ [][ReplayNext]_replayVars

-----------------------------------------------------------------------------
(* Properties *)

\* The memory strength the user last set, unless a replay left the memory off.
MemoryDue == IF leftOff THEN 0 ELSE memSetting

\* "The LIVE studio must never be left mutated": outside the generation of an
\* arm, whatever failed in it, the dials are the saved ones, no card is excluded
\* and the memory strength is the one the user set.  It is not where
\* _apply_changes raised: after a replay that asked for memory_off and named the
\* cards to leave out by something that is no list, the memory stays off, and
\* nothing else is changed, until it is set again (LiveIsUntouched).
StudioUnchanged ==
    post = NoPost \/ post.at # "generate" =>
        /\ dials = savedDials /\ excluded = {}
        /\ memStrength = MemoryDue

\* The same without that exception, as replay.py:7 has it.
LiveIsUntouched ==
    post = NoPost => dials = savedDials /\ memStrength = memSetting /\ excluded = {}

ValueOf(d, n) == IF n \in DOMAIN d THEN d[n] ELSE 0

\* The pairs of children a comparison reports: baseline and changed.
Pairs ==
    IF post.at # "answer" \/ post.kind = "replay" THEN {}
    ELSE {bc \in {<<post.children[i - 1], post.children[i]>> :
                    i \in {j \in DOMAIN post.children : j % 2 = 0}} : bc[1] # 0 /\ bc[2] # 0}

\* What a comparison attributes to a dial or an instruction is due to it: the
\* two arms were given the same dials, regime and cards but for it, and the
\* doses of a sweep share their baseline.  Of the cards it is not so when the
\* store was written to during the request: each arm reads them for itself, and
\* the code neither sees the edit nor says so.
ArmsDifferOnlyInTheIntervention ==
    /\ \A bc \in Pairs :
          LET b == pastRuns[bc[1]].given
              c == pastRuns[bc[2]].given
              ch == pastRuns[bc[2]].changes IN
          /\ cardsRaced \/ c.cards = b.cards
          /\ b.greedy /\ c.greedy /\ b.presets \subseteq c.presets
          /\ \A n \in Names :
                ValueOf(c.dials, n) =
                    IF n \in DOMAIN ch.set /\ n \in vecs
                    THEN Min({ch.set[n], MaxDial}) ELSE ValueOf(b.dials, n)
    /\ \A p, q \in Pairs :
          LET b == pastRuns[p[1]].given
              c == pastRuns[q[1]].given IN
          /\ cardsRaced \/ c.cards = b.cards
          /\ c.dials = b.dials /\ c.presets = b.presets

\* causal_verified: no override is missing from the child's recorded dials.
Verified(c) ==
    \A n \in DOMAIN pastRuns[c].changes.set :
        \/ pastRuns[c].changes.set[n] = 0
        \/ ValueOf(pastRuns[c].active, n) = pastRuns[c].changes.set[n]

\* A counterfactual that says it is causally verified was given the dial it asked
\* for at the value it asked for, not one cut to the axis's max, if the dial has
\* a direction.  A dial without one is recorded but given to no model, and the
\* comparison is called verified (VerifiedIsCausal).
VerifiedMeansApplied ==
    \A bc \in Pairs :
        Verified(bc[2]) =>
            \A n \in DOMAIN pastRuns[bc[2]].changes.set \cap vecs :
                ValueOf(pastRuns[bc[2]].given.dials, n) = pastRuns[bc[2]].changes.set[n]

\* The same of every dial, as counterfactual.py:142 has it.
VerifiedIsCausal ==
    \A bc \in Pairs :
        Verified(bc[2]) =>
            \A n \in DOMAIN pastRuns[bc[2]].changes.set :
                ValueOf(pastRuns[bc[2]].given.dials, n) = pastRuns[bc[2]].changes.set[n]

\* A child says under which dials it was made: of those that had a direction,
\* the recorded ones are the ones the model was given.  A dial without one may
\* be recorded beside them, of a fork too.
RecordedAsGiven ==
    \A i \in DOMAIN pastRuns :
        ~pastRuns[i].changes.off =>
            Restrict(pastRuns[i].active, DOMAIN pastRuns[i].active \cap pastRuns[i].given.known)
                = pastRuns[i].given.dials

\* "neutral: drop every dial for this turn".
NeutralIsNeutral ==
    \A i \in DOMAIN pastRuns :
        LET ch == pastRuns[i].changes IN
        ch.off /\ ch.set = Empty /\ ch.nudge = NoName => pastRuns[i].given.dials = Empty

\* What the studio shows of a comparison is what was done.
ComparisonsHonest == ArmsDifferOnlyInTheIntervention /\ VerifiedMeansApplied /\ RecordedAsGiven

=============================================================================
