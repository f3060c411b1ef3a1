----------------------------- MODULE MCEvidence -----------------------------
(* The recorded run as evidence, each part on its own; `subject` says which  *)
(* one a behaviour is of.  Two processes on a journal of two runs that share *)
(* a trace; the receipts of a run with up to four influences, whose replies  *)
(* are up to three tokens long and of which different ones spell the same    *)
(* words; the context/answer map of four prompts of up to five messages,     *)
(* and how every text of up to six characters is cut into spans.             *)
EXTENDS RunJournal, Receipts, ContextInfluence, TLC

CONSTANTS A, B, AB, S, x, y, z, u, Word, Space, Stop, Quote

VARIABLE subject

Symmetry == Permutations(Runs) \cup Permutations(Threads)

\* Every influence may leave any of the replies, or (where there are many
\* influences) one of two: AB spells what A and B spell.
MCReplies == {<<A, B, S>>, <<AB, S>>, <<A, S>>, <<B, A, A>>, <<A, B, A>>}
MCVoices == {MCReplies, {<<A, B, S>>, <<AB, S>>}, {<<AB, S>>, <<B, A, A>>}}
MCTokens == {A, B, AB, S}
MCSpelling ==
    [t \in MCTokens |->
        CASE t = A -> <<A>> [] t = B -> <<B>> [] t = AB -> <<A, B>> [] t = S -> <<>>]
MCGarbled == <<S>>

\* The combinations of a call that tell something: all replies and failures
\* where there are few influences, no early stop left out where there are many.
MCCalls ==
    /\ ~asked.coalitions => asked.batch = "off"
    /\ asked.batch = "off" => asked.branches = "none"
    /\ asked.voice = MCReplies <=> Cardinality(asked.fired) <= 2
    /\ Cardinality(asked.fired) > 2 =>
          asked.early /\ asked.coalitions /\ asked.batch = "off"
    /\ Cardinality(asked.fired) = 4 => asked.voice = {<<AB, S>>, <<B, A, A>>}
    /\ asked.faults = 0 <=> Cardinality(asked.fired) = 4

Policy(text) == [policy |-> TRUE, text |-> text]
Plain(text) == [policy |-> FALSE, text |-> text]

Blank1 == <<Plain(<<Space>>)>>

\* A policy first, more sources than spans, a word longer than a span, four
\* sentences for three spans, a blank prompt.
MCPrompts ==
    {<<Policy(<<Word, Word, Space, Word, Word>>),
       Plain(<<Word, Stop, Space, Word, Space, Word, Word, Word, Space, Word>>)>>,
     <<Policy(<<Word, Stop>>), Plain(<<Word, Space, Word, Space, Word>>),
       Plain(<<Space>>), Plain(<<Word, Stop, Space, Word, Word, Space, Word>>),
       Plain(<<Word, Word, Word, Word>>)>>,
     <<Plain(<<Word, Stop, Space, Word, Stop, Space, Word, Stop, Space, Word>>)>>,
     Blank1}
MCProbeTexts == UNION {[1..n -> {Word, Space, Stop, Quote}] : n \in 1..6}

MCVars == <<vars, receiptVars, influenceVars, subject>>

MCInit ==
    /\ Init /\ ReceiptsInit /\ InfluenceInit /\ MCCalls
    /\ subject \in {"journal", "receipts", "context"}
    /\ subject # "receipts" =>
          /\ Cardinality(asked.fired) = 1 /\ ~asked.early /\ ~asked.coalitions
    /\ subject # "context" => prompt.messages = Blank1 /\ prompt.scored

\* Bound: the disk is full for one thread at a time.
OneOutage ==
    Cardinality({t \in Threads : doc'[t] # Nil /\ doc'[t].failed # {}}) <= 1

MCNext ==
    /\ subject' = subject
    /\ \/ subject = "journal" /\ Next /\ OneOutage /\ UNCHANGED <<receiptVars, influenceVars>>
       \/ subject = "receipts" /\ ReceiptsNext /\ UNCHANGED <<vars, influenceVars>>
       \/ subject = "context" /\ InfluenceNext /\ UNCHANGED <<vars, receiptVars>>

MCSpec == MCInit /\ [][MCNext]_MCVars

=============================================================================
