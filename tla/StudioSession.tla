---------------------------- MODULE StudioSession ----------------------------
(***************************************************************************)
(* One tab of the studio: the store and the asynchronous handlers around   *)
(* it, in studio/heavn/app.mjs (loadRun), state.mjs, api.mjs (chatStream)  *)
(* and modules/replay.mjs (the monitor's chat, the verbs and the panels).  *)
(*                                                                         *)
(* A handler runs up to its next await without being interrupted; between  *)
(* two of its parts any other handler, click or answer may come.  The tab  *)
(* renders before the next click, but the effects of a render run later,   *)
(* at the latest with the next render.  Where the gateway cannot be reached*)
(* the tab shows a sample and does nothing of this.                        *)
(***************************************************************************)
EXTENDS Naturals, Sequences, FiniteSets, SequencesExt

CONSTANTS
    Tapes,      \* run ids
    Off,        \* no run, nothing in the buffer
    FullCap,    \* FULL_CAP
    MaxSends,   \* bound of the model: messages sent from the monitor
    MaxDeltas,  \* bound of the model: pieces of a reply
    MaxCalls    \* bound of the model: requests in flight at a time

ASSUME StudioAssumption ==
    /\ Off \notin Tapes /\ Off \notin Seq(Nat)
    /\ FullCap \in Nat \ {0} /\ MaxSends \in Nat /\ MaxDeltas \in Nat /\ MaxCalls \in Nat

VARIABLES
    tape,       \* store.currentId and store.rec
    full,       \* store.full: ids of the cached records, oldest first
    receipts,   \* store.receipts: [of, stale] or Off
    panel,      \* a panel with a request counter: what it shows, whether it
                \* asks, and the run its effect last ran for
    bare,       \* what the panels without one show: [of, stale] or Off
    calls,      \* requests in flight: [kind, run, stale]; for what has no
                \* counter, stale is history: the tape has been changed since
    chatting,   \* store.chatting
    chatBuf,    \* store.chatBuf: whose pieces it holds, or Off
    sends,      \* where each call of doSend and its stream are
    got,        \* history: pieces each send has received
    broken      \* history: sends whose stream carried an error frame

chatVars == <<chatting, chatBuf, sends, got, broken>>
tapeVars == <<tape, full, receipts, panel, bare, calls>>
studioVars == <<tapeVars, chatVars>>

Sends == 1..MaxSends

\* The panels that have no request counter: SpanForensics and LieDetector, which
\* ask once at a time, and LineageTree, which asks while it shows nothing.
Bare == {"narrate", "family"}
NoBare == [p \in Bare |-> Off]

StudioInit ==
    /\ tape = Off /\ full = <<>> /\ receipts = Off
    /\ panel = [out |-> Off, asking |-> FALSE, for |-> Off]
    /\ bare = NoBare /\ calls = {}
    /\ chatting = FALSE /\ chatBuf = Off
    /\ sends = [k \in Sends |-> "unsent"]
    /\ got = [k \in Sends |-> 0]
    /\ broken = {}

-----------------------------------------------------------------------------
(* The tape *)

\* withFull: a known key keeps its place, the oldest goes.
WithFull(f, r) ==
    LET g == IF r \in ToSet(f) THEN f ELSE Append(f, r)
    IN  IF Len(g) > FullCap THEN Tail(g) ELSE g

\* The panels' effects on [rec.id]: a request counter moves on, so that answers
\* under way are ignored, and the panels are empty.
Overtake(cs) == {[c EXCEPT !.stale = @ \/ c.kind = "panel"] : c \in cs}
EmptyPanel == [out |-> Off, asking |-> FALSE, for |-> tape]
EffectDue == panel.for # tape

\* A run comes onto the tape.  Effects still due from the last render run
\* before the new one; what is asked without a counter is from now on late.
Late(cs, r) ==
    {[c EXCEPT !.stale = @ \/ (c.kind \in Bare \cup {"prove"} /\ c.run # r)] : c \in cs}
Show(r, cs) ==
    LET left == Late(cs, r)
    IN  /\ tape' = r
        /\ receipts' = Off
        /\ panel' = IF EffectDue THEN EmptyPanel ELSE panel
        /\ bare' = IF EffectDue THEN NoBare ELSE bare
        /\ calls' = IF EffectDue THEN Overtake(left) ELSE left

Ask(cs, kind, r) ==
    cs \cup {[kind |-> kind, run |-> r, stale |-> FALSE]}

\* loadRun: a cached record at once, another one when it has been fetched.
LoadRun(r) ==
    IF r \in ToSet(full) THEN Show(r, calls) /\ full' = full
    ELSE /\ calls' = Ask(calls, "get", r)
         /\ UNCHANGED <<tape, full, receipts, panel, bare>>

\* A click on a run of the strip or the lineage tree, and boot.
Pick(r) ==
    /\ Cardinality(calls) < MaxCalls
    /\ LoadRun(r)
    /\ UNCHANGED chatVars

\* PROVE, and REPLAY, BRANCH or a fork, for the run on the tape.
Verb(kind) ==
    /\ kind \in {"prove", "child"}
    /\ tape # Off /\ Cardinality(calls) < MaxCalls
    /\ calls' = Ask(calls, kind, tape)
    /\ UNCHANGED <<tape, full, receipts, panel, bare, chatVars>>

\* The panel's own verb.
AskPanel ==
    /\ tape # Off /\ ~panel.asking /\ Cardinality(calls) < MaxCalls
    /\ calls' = Ask(Overtake(calls), "panel", tape)
    /\ panel' = [panel EXCEPT !.asking = TRUE]
    /\ UNCHANGED <<tape, full, receipts, bare, chatVars>>

\* The verb of a panel without a counter.
AskBare(p) ==
    /\ tape # Off /\ Cardinality(calls) < MaxCalls
    /\ IF p = "narrate" THEN \A c \in calls : c.kind # p ELSE bare[p] = Off
    /\ calls' = Ask(calls, p, tape)
    /\ bare' = [bare EXCEPT ![p] = Off]
    /\ UNCHANGED <<tape, full, receipts, panel, chatVars>>

Effects ==
    /\ EffectDue
    /\ panel' = EmptyPanel /\ bare' = NoBare
    /\ calls' = Overtake(calls)
    /\ UNCHANGED <<tape, full, receipts, chatVars>>

\* The record arrives: whichever arrives last is the one on the tape.
GotRun(c) ==
    /\ c.kind = "get"
    /\ full' = WithFull(full, c.run)
    /\ Show(c.run, calls \ {c})

\* A child is answered; adoptChild reads the journal's list before it shows it.
GotChild(c) ==
    /\ c.kind = "child"
    /\ \E child \in Tapes \ {c.run} : calls' = Ask(calls \ {c}, "adopt", child)
    /\ UNCHANGED <<tape, full, receipts, panel, bare>>

Adopt(c) ==
    /\ c.kind = "adopt"
    /\ full' = WithFull(full, c.run)
    /\ Show(c.run, calls \ {c})

\* doProve puts its receipts into the store whatever is on the tape by now.
GotReceipts(c) ==
    /\ c.kind = "prove"
    /\ receipts' = [of |-> c.run, stale |-> c.stale]
    /\ calls' = calls \ {c}
    /\ UNCHANGED <<tape, full, panel, bare>>

\* "a fast run switch made this answer stale -- drop it"
GotPanel(c) ==
    /\ c.kind = "panel"
    /\ panel' = IF c.stale THEN panel ELSE [panel EXCEPT !.out = c.run, !.asking = FALSE]
    /\ calls' = calls \ {c}
    /\ UNCHANGED <<tape, full, receipts, bare>>

\* An answer, or the word that there was none, comes into a panel that does not
\* ask which run it is of.
GotBare(c) ==
    /\ c.kind \in Bare
    /\ bare' = [bare EXCEPT ![c.kind] = [of |-> c.run, stale |-> c.stale]]
    /\ calls' = calls \ {c}
    /\ UNCHANGED <<tape, full, receipts, panel>>

\* No answer: a message at most.  A child's listing may fail without harm.
Unanswered(c) ==
    /\ c.kind \notin Bare \cup {"adopt"}
    /\ panel' = IF c.kind = "panel" /\ ~c.stale THEN [panel EXCEPT !.asking = FALSE] ELSE panel
    /\ calls' = calls \ {c}
    /\ UNCHANGED <<tape, full, receipts, bare>>

Answer(c) ==
    /\ \/ GotRun(c) \/ GotChild(c) \/ Adopt(c) \/ GotReceipts(c) \/ GotPanel(c) \/ GotBare(c)
       \/ Unanswered(c)
    /\ UNCHANGED chatVars

-----------------------------------------------------------------------------
(* The monitor's chat *)

Latest == CHOOSE k \in Sends : sends[k] # "unsent" /\ \A l \in Sends : l > k => sends[l] = "unsent"

Enter(k) ==
    /\ sends[k] = "unsent" /\ \A l \in Sends : l < k => sends[l] # "unsent"
    /\ sends' = [sends EXCEPT ![k] = "streaming"]
    /\ chatting' = TRUE /\ chatBuf' = <<>>
    /\ UNCHANGED <<got, broken, tapeVars>>

\* Mutant: SEND only asks whether a reply is streaming.
SendWhileSettling(k) == ~chatting /\ Enter(k)

\* doSend.
SendMessage(k) == ~chatting /\ chatBuf = Off /\ Enter(k)

\* onDelta.
Delta(k) ==
    /\ sends[k] = "streaming" /\ got[k] < MaxDeltas
    /\ chatBuf' = Append(IF chatBuf = Off THEN <<>> ELSE chatBuf, k)
    /\ got' = [got EXCEPT ![k] = @ + 1]
    /\ UNCHANGED <<chatting, sends, broken, tapeVars>>

\* onError, in the middle of the stream: the reader goes on to its end.
ErrorFrame(k) ==
    /\ sends[k] = "streaming"
    /\ sends' = [sends EXCEPT ![k] = "broken"]
    /\ broken' = broken \cup {k}
    /\ chatting' = FALSE /\ chatBuf' = Off
    /\ UNCHANGED <<got, tapeVars>>

\* onError, of a stream that is refused or that breaks off.
StreamFails(k) ==
    /\ sends[k] \in {"streaming", "broken"}
    /\ sends' = [sends EXCEPT ![k] = "over"]
    /\ chatting' = FALSE /\ chatBuf' = Off
    /\ UNCHANGED <<got, broken, tapeVars>>

\* onDone, as far as its requests for the run's id and the journal's list.
Done(k) ==
    /\ sends[k] \in {"streaming", "broken"}
    /\ sends' = [sends EXCEPT ![k] = "settling"]
    /\ chatting' = FALSE
    /\ UNCHANGED <<chatBuf, got, broken, tapeVars>>

\* onDone, from there on; without an id the run is not loaded.
Settle(k) ==
    /\ sends[k] = "settling"
    /\ sends' = [sends EXCEPT ![k] = "over"]
    /\ chatBuf' = Off
    /\ \/ UNCHANGED tapeVars
       \/ \E r \in Tapes : LoadRun(r)
    /\ UNCHANGED <<chatting, got, broken>>

\* ABORT, which is there while `chatting`: the latest stream ends silently.
AbortReply ==
    /\ chatting
    /\ sends' = IF sends[Latest] \in {"streaming", "broken"}
                THEN [sends EXCEPT ![Latest] = "over"] ELSE sends
    /\ chatting' = FALSE /\ chatBuf' = Off
    /\ UNCHANGED <<got, broken, tapeVars>>

Chat(k) ==
    \/ SendMessage(k) \/ Delta(k) \/ ErrorFrame(k) \/ StreamFails(k)
    \/ Done(k) \/ Settle(k)

StudioNext ==
    \/ \E r \in Tapes : Pick(r)
    \/ \E kind \in {"prove", "child"} : Verb(kind)
    \/ AskPanel \/ Effects
    \/ \E p \in Bare : AskBare(p)
    \/ \E c \in calls : Answer(c)
    \/ \E k \in Sends : Chat(k)
    \/ AbortReply

StudioSpec == StudioInit /\ [][StudioNext]_studioVars

-----------------------------------------------------------------------------
(* Properties *)

Unsettled == {k \in Sends : sends[k] \in {"streaming", "broken", "settling"}}

\* "a second send can't start while the first is still settling into the
\* journal" (doSend), whatever happened to the first.
OneSendAtATime == Cardinality(Unsettled) <= 1

\* Once the effects of a render have run, a panel with a request counter shows an
\* answer about the run on the tape or none.
PanelIsOfTheTape == panel.out # Off /\ ~EffectDue => panel.out = tape

\* What has no counter, the receipts and the other panels, does not have this: an
\* answer that comes after the tape was changed is shown beside another run
\* (ReceiptsAreCurrent).  Nothing else is: what was asked for since the tape last
\* changed, and answered, is of the run on it.
OnlyLateAnswersAreForeign ==
    /\ receipts # Off /\ ~receipts.stale => receipts.of = tape
    /\ ~EffectDue =>
          \A p \in Bare : bare[p] # Off /\ ~bare[p].stale => bare[p].of = tape

\* "last prove-all result for current run" (state.mjs:36).
ReceiptsAreCurrent == receipts # Off => receipts.of = tape

\* As long as no stream carried an error frame one send is under way at a time,
\* the monitor holds exactly its pieces, and SEND is closed until it is settled.
MonitorIsOfTheSend ==
    broken = {} =>
        /\ OneSendAtATime
        /\ chatBuf # Off <=> Unsettled # {}
        /\ chatBuf # Off => chatBuf = [i \in 1..got[Latest] |-> Latest]

\* What a counter or SEND guards is of what the studio says, in whatever order
\* answers arrive, and what neither guards is unless its answer was late.
StudioHonest == PanelIsOfTheTape /\ OnlyLateAnswersAreForeign /\ MonitorIsOfTheSend

=============================================================================
