----------------------------- MODULE MCServing -----------------------------
(* What makes a reply and what is done with it, each part on its own;        *)
(* `subject` says which one a behaviour is of.  The card file shared by a    *)
(* gateway and one `clozn memory` process: two requests besides the seeding, *)
(* in any order and overlapping; a completion with two models and two        *)
(* pipelines, of which two pairs are qualified; a guarded reply with two     *)
(* concepts, five tokens in chunks of two and one correction, so that the    *)
(* cap can be reached with more than a chunk to go; in the worker,           *)
(* checkpoints saved around the ids 9 and 10, two diffusion replies of up to *)
(* three blocks on one context, one of which does not fit it, and three      *)
(* autoregressive requests on a context of four positions; a reply of four   *)
(* pieces through the think-tag filter, where "I" stands for the characters  *)
(* whose lower case is longer; replays of two runs under one dial the worker *)
(* knows and one it does not, of which one request names its cards by        *)
(* something that is no list.                                                *)
EXTENDS MemoryCards, ChatCompletion, GuardLoop, CheckpointStore, Denoise, ArDecode,
        ThinkTags, Replay

CONSTANTS i1, i2, i3, t1, t2, cli, m1, m2, q1, q2, c1, c2, n1, n2,
          k1, k2, p1

VARIABLE subject

ImportedCard(id, t, status, cites) ==
    [id |-> id, card |-> NewCard(t, status, "global", cites, cites)]

\* A document with two cards, of which one quotes a run, and one that repeats a
\* text; each card active where the document's status is kept.
MCImports ==
    {<<ImportedCard(i1, t1, "active", TRUE), ImportedCard(i2, t2, "pending", FALSE)>>,
     <<ImportedCard(i3, t1, "active", FALSE), ImportedCard(i2, t1, "pending", FALSE)>>}

MCRegistry == {[sha |-> m1, pipe |-> q1], [sha |-> m2, pipe |-> q2]}
MCConcepts == <<c1, c2>>
MCTopKs == {-1, 1}
MCBoards ==
    {[kind |-> "generate", board |-> <<Word, Mask, Mask, Mask>>],
     [kind |-> "generate", board |-> <<Word, Word, Mask, Mask, Mask>>],
     [kind |-> "infill", board |-> <<Word, Mask, Mask, Word>>],
     [kind |-> "denoise", board |-> <<Mask, Word, Mask>>]}
MCPrompts == {<<Letter>>, <<Letter, Stop, Letter>>}

MCOpen == <<"<", ">">>
MCClose == <<"<", "/", ">">>
MCPieces ==
    {<<"<">>, <<"/">>, <<">">>, <<"a">>, <<" ">>, <<"<", ">">>, <<"<", "/", ">">>,
     <<"I">>, <<"I", "<", "/", ">">>}
MCWideLower == <<"i", ".">>
MCSpecs ==
    {[NoChange EXCEPT !.memOff = TRUE, !.disabled = {k1}],
     [NoChange EXCEPT !.nudge = n1, !.disabled = {k2}],
     [NoChange EXCEPT !.memOff = TRUE, !.disabled = NotAList],
     [NoChange EXCEPT !.off = TRUE], [NoChange EXCEPT !.off = TRUE, !.set = (n2 :> 1)]}

MCVars == <<cardVars, chatVars, guardVars, storeVars, denoiseVars, arVars,
            thinkVars, replayVars, subject>>

\* Each part's choices only vary where it runs.
MCInit ==
    /\ CardsInit /\ ChatInit /\ GuardInit /\ StoreInit /\ DenoiseInit /\ ArInit
    /\ ThinkInit /\ ReplayInit
    /\ subject \in {"cards", "chat", "guard", "store", "denoise", "decode",
                    "think", "replay"}
    /\ subject # "guard" => /\ fitted = {} /\ calibration.default = Unset
                            /\ \A c \in ToSet(Concepts) : calibration.at[c] = Unset
    /\ calibration.default # 1 /\ calibration.at[c1] # 1
    /\ subject # "chat" => worker = [sha |-> m1, pipe |-> q1]
    /\ subject # "think" => ~thinker.implicit
    /\ subject # "replay" => dials = <<>> /\ memStrength = 0

\* A part takes a step of its own.
MCNext ==
    /\ subject' = subject
    /\ \/ /\ subject = "cards" /\ CardsNext
          /\ UNCHANGED <<chatVars, guardVars, storeVars, denoiseVars, arVars,
                         thinkVars, replayVars>>
       \/ /\ subject = "chat" /\ ChatNext
          /\ UNCHANGED <<cardVars, guardVars, storeVars, denoiseVars, arVars,
                         thinkVars, replayVars>>
       \/ /\ subject = "guard" /\ GuardNext
          /\ UNCHANGED <<cardVars, chatVars, storeVars, denoiseVars, arVars,
                         thinkVars, replayVars>>
       \/ /\ subject = "store" /\ StoreNext
          /\ UNCHANGED <<cardVars, chatVars, guardVars, denoiseVars, arVars,
                         thinkVars, replayVars>>
       \/ /\ subject = "denoise" /\ DenoiseNext
          /\ UNCHANGED <<cardVars, chatVars, guardVars, storeVars, arVars,
                         thinkVars, replayVars>>
       \/ /\ subject = "decode" /\ ArNext
          /\ UNCHANGED <<cardVars, chatVars, guardVars, storeVars, denoiseVars,
                         thinkVars, replayVars>>
       \/ /\ subject = "think" /\ ThinkNext
          /\ UNCHANGED <<cardVars, chatVars, guardVars, storeVars, denoiseVars,
                         arVars, replayVars>>
       \/ /\ subject = "replay" /\ ReplayNext
          /\ UNCHANGED <<cardVars, chatVars, guardVars, storeVars, denoiseVars,
                         arVars, thinkVars>>

MCSpec == MCInit /\ [][MCNext]_MCVars

=============================================================================
