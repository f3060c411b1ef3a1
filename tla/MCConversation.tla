--------------------------- MODULE MCConversation ---------------------------
(* A client, the gateway's replies to it and the journal they end up in,     *)
(* each part on its own; `subject` says which one a behaviour is of.  One    *)
(* reply on each wire, in either order, where the worker of the first may    *)
(* still be running when the second begins; a dialogue with up to two tools, *)
(* which grows to six messages; a tab of the studio with two runs, either    *)
(* without the chat and with three requests in flight, or with two sends and *)
(* one record asked for; a journal of two runs, on which one process works   *)
(* operation after operation while a retention pass of another may commit    *)
(* between any two steps; and an experiment of two variants and two cases,   *)
(* beside a client that sets the gateway's two dials.                        *)
EXTENDS ChatStream, ToolDialogue, StudioSession, RunJournal, Experiment

CONSTANTS weather, search, city, query, r1, r2, t1, t2, m, d1, d2, e1, e2,
          MaxFaults

VARIABLES
    subject,
    faults      \* how many operations could not write a blob or were killed

\* No tools, one with a narrow schema, or both with wide ones.
MCOffers ==
    [accepts : {<<>>, [t \in {weather} |-> {city}], [t \in {weather, search} |-> {city, query}]},
     auto : BOOLEAN]

MCDials == <<d1, d2>>
MCVariants == <<NoDials, [d \in {d1} |-> 1]>>
MCCases == <<e1, e2>>

MCVars == <<streamVars, dialogueVars, studioVars, vars, expVars, subject, faults>>

JournalAlone ==
    \/ /\ Write(t1) \/ Amend(t1) \/ Mutate(t1) \/ Collect(t1)
       /\ faults' = IF WriteBlobFails(t1) /\ doc[t1].failed = {} THEN faults + 1 ELSE faults
       /\ faults' <= MaxFaults
    \/ /\ \E K \in SUBSET Live : Retain(t2, K)
       /\ faults' = faults
    \/ /\ Crash(t1)
       /\ faults < MaxFaults /\ faults' = faults + 1

MCInit ==
    /\ StreamInit /\ DialogueInit /\ StudioInit /\ Init /\ faults = 0
    /\ ExperimentInit /\ dialState[d1] = 0 /\ dialState[d2] = 1 /\ serving = 101
    /\ subject \in {"stream", "dialogue", "tape", "chat", "journal", "experiment"}

MCNext ==
    /\ subject' = subject
    /\ \/ /\ subject = "stream" /\ StreamNext
          /\ UNCHANGED <<dialogueVars, studioVars, vars, expVars, faults>>
       \/ /\ subject = "dialogue" /\ DialogueNext
          /\ UNCHANGED <<streamVars, studioVars, vars, expVars, faults>>
       \/ /\ \/ subject = "tape" /\ StudioNext /\ UNCHANGED chatVars
             \/ subject = "chat" /\ StudioNext
                /\ Cardinality(calls') <= 1 /\ \A c \in calls' : c.kind = "get"
          /\ UNCHANGED <<streamVars, dialogueVars, vars, expVars, faults>>
       \/ /\ subject = "journal" /\ JournalAlone
          /\ UNCHANGED <<streamVars, dialogueVars, studioVars, expVars>>
       \/ /\ subject = "experiment" /\ ExperimentNext
          /\ UNCHANGED <<streamVars, dialogueVars, studioVars, vars, faults>>

MCSpec ==
    /\ MCInit /\ [][MCNext]_MCVars
    /\ subject = "stream" => StreamFairness

=============================================================================
