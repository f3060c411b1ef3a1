------------------------- MODULE ConversationProofs -------------------------
(***************************************************************************)
(* Four users of one gateway: a tab of the studio, a client that reads a   *)
(* reply as it streams, an experiment, and a client with tools.            *)
(*                                                                         *)
(* The studio, for any number of runs, clicks, requests in flight and      *)
(* messages, and answers in any order.  What the panel shows, and every    *)
(* answer it still waits for, is about the run its effect last ran for or  *)
(* the one on the tape; a tape changed before that effect has run takes    *)
(* both away (TapeInv).  A send that is under way is the last one, and the *)
(* buffer is there exactly while there is one (MonitorInv).                *)
(*                                                                         *)
(* The stream, for any number of requests and generations of any length.   *)
(* One reply is written at a time; what it has sent, what it still holds   *)
(* back and what its journal entry will say are read off the place its     *)
(* generator stands at and the cause it stopped for (StreamInv).           *)
(*                                                                         *)
(* The experiment, for any manifest the validator accepts.  Its cells are  *)
(* those of the coordinates that are behind it, once each (MatrixInv); the *)
(* dials it has had its turn with are the variant's while it arms and the  *)
(* former ones while it restores (DialsInv).                               *)
(*                                                                         *)
(* The dialogue, for histories of any length.  By induction over the       *)
(* messages, the scanner's state after each of them says whether all is    *)
(* well so far (ScannerKnows); an honest client's transcript is well       *)
(* paired but for a call that is still open (HonestSoFar).                 *)
(***************************************************************************)
EXTENDS ChatStream, ToolDialogue, StudioSession, Experiment, DataLemmas,
        FiniteSetTheorems, TLAPS

-----------------------------------------------------------------------------
(* The studio *)

CallRecord(c) == c = [kind |-> c.kind, run |-> c.run, stale |-> c.stale]

\* What is asked without a request counter, and what the panels without one show:
\* of the run the effects last ran for, or of the one on the tape.
Uncounted == Bare \cup {"prove"}
BareShown ==
    /\ bare = [p \in Bare |-> bare[p]]
    /\ \A p \in Bare :
          bare[p] # Off /\ ~bare[p].stale => bare[p].of \in {panel.for, tape}

TapeInv ==
    /\ \A c \in calls : CallRecord(c)
    /\ panel = [out |-> panel.out, asking |-> panel.asking, for |-> panel.for]
    /\ panel.out # Off => panel.out \in {panel.for, tape}
    /\ \A c \in calls : c.kind = "panel" /\ ~c.stale => c.run \in {panel.for, tape}
    /\ \A c \in calls : c.kind \in Uncounted /\ ~c.stale => c.run = tape
    /\ receipts # Off /\ ~receipts.stale => receipts.of = tape
    /\ BareShown

-----------------------------------------------------------------------------
(* The tape, its panels and its receipts *)

LEMMA OvertakeMarks ==
    ASSUME NEW cs, \A c \in cs : CallRecord(c)
    PROVE  \A d \in Overtake(cs) :
              /\ CallRecord(d)
              /\ d.kind = "panel" => d.stale = TRUE
              /\ \E c \in cs : /\ d.kind = c.kind /\ d.run = c.run
                               /\ c.stale => d.stale
<1> SUFFICES ASSUME NEW d \in Overtake(cs)
             PROVE  /\ CallRecord(d)
                    /\ d.kind = "panel" => d.stale = TRUE
                    /\ \E c \in cs : /\ d.kind = c.kind /\ d.run = c.run
                                     /\ c.stale => d.stale
  OBVIOUS
<1>1. PICK c \in cs : d = [c EXCEPT !.stale = @ \/ c.kind = "panel"]
  BY DEF Overtake
<1>2. c = [kind |-> c.kind, run |-> c.run, stale |-> c.stale]
  BY DEF CallRecord
<1>3. d = [kind |-> c.kind, run |-> c.run, stale |-> c.stale \/ c.kind = "panel"]
  BY <1>1, <1>2
<1>4. /\ d.kind = c.kind /\ d.run = c.run
      /\ d.stale <=> (c.stale \/ c.kind = "panel")
  BY <1>3
<1>5. d.kind = "panel" => d.stale = TRUE
  BY <1>3
<1> QED
  BY <1>3, <1>4, <1>5 DEF CallRecord

\* A new run on the tape: nothing that is shown or awaited is taken for its own.
LEMMA ShowKeeps ==
    ASSUME TapeInv, NEW r, NEW cs, cs \subseteq calls, Show(r, cs)
    PROVE  TapeInv'
<1> DEFINE left == Late(cs, r)
<1>1. ASSUME NEW d \in left
      PROVE  /\ CallRecord(d)
             /\ d.kind \in Uncounted /\ ~d.stale => d.run = r
             /\ d.kind = "panel" /\ ~d.stale => d.run \in {panel.for, tape}
  <2>1. PICK c \in cs : d = [c EXCEPT !.stale = @ \/ (c.kind \in Uncounted /\ c.run # r)]
    BY DEF Late, Uncounted
  <2>2. c = [kind |-> c.kind, run |-> c.run, stale |-> c.stale]
    BY <2>1 DEF TapeInv, CallRecord
  <2>3. d = [kind |-> c.kind, run |-> c.run,
             stale |-> c.stale \/ (c.kind \in Uncounted /\ c.run # r)]
    BY <2>1, <2>2
  <2>4. /\ d.kind = c.kind /\ d.run = c.run
        /\ ~d.stale => ~c.stale /\ ~(c.kind \in Uncounted /\ c.run # r)
    BY <2>3
  <2> QED
    BY <2>1, <2>3, <2>4 DEF TapeInv, CallRecord
<1>2. /\ tape' = r /\ receipts' = Off
      /\ panel' = IF EffectDue THEN EmptyPanel ELSE panel
      /\ bare' = IF EffectDue THEN NoBare ELSE bare
      /\ calls' = IF EffectDue THEN Overtake(left) ELSE left
  BY DEF Show
<1> HIDE DEF left
<1>3. CASE EffectDue
  <2>1. panel' = [out |-> Off, asking |-> FALSE, for |-> tape] /\ calls' = Overtake(left)
    BY <1>2, <1>3 DEF EmptyPanel
  <2>3. BareShown'
    BY <1>2, <1>3 DEF BareShown, NoBare
  <2>2. \A d \in Overtake(left) :
              /\ CallRecord(d)
              /\ d.kind = "panel" => d.stale = TRUE
              /\ \E c \in left : /\ d.kind = c.kind /\ d.run = c.run
                                 /\ c.stale => d.stale
    BY <1>1, OvertakeMarks
  <2> QED
    BY <1>1, <1>2, <2>1, <2>2, <2>3 DEF TapeInv
<1>4. CASE ~EffectDue
  <2>1. panel' = panel /\ bare' = bare /\ calls' = left /\ panel.for = tape
    BY <1>2, <1>4 DEF EffectDue
  <2>2. BareShown'
    BY <1>2, <2>1 DEF TapeInv, BareShown
  <2> QED
    BY <1>1, <1>2, <2>1, <2>2 DEF TapeInv
<1> QED
  BY <1>3, <1>4

LEMMA AskKeeps ==
    ASSUME TapeInv, NEW cs, NEW kind,
           \A c \in cs : /\ CallRecord(c)
                         /\ c.kind = "panel" /\ ~c.stale => c.run \in {panel.for, tape}
                         /\ c.kind \in Uncounted /\ ~c.stale => c.run = tape,
           NEW r, kind \in Uncounted \cup {"panel"} => r = tape
    PROVE  \A c \in Ask(cs, kind, r) :
                /\ CallRecord(c)
                /\ c.kind = "panel" /\ ~c.stale => c.run \in {panel.for, tape}
                /\ c.kind \in Uncounted /\ ~c.stale => c.run = tape
BY DEF Ask, CallRecord

LEMMA LoadKeeps ==
    ASSUME TapeInv, NEW r, LoadRun(r)
    PROVE  TapeInv'
<1>1. CASE Show(r, calls)
  BY <1>1, ShowKeeps
<1>2. CASE calls' = Ask(calls, "get", r) /\ UNCHANGED <<tape, full, receipts, panel, bare>>
  BY <1>2, AskKeeps DEF TapeInv, BareShown, Uncounted, Bare
<1> QED
  BY <1>1, <1>2 DEF LoadRun

LEMMA AnswerKeeps ==
    ASSUME TapeInv, NEW c \in calls, Answer(c)
    PROVE  TapeInv'
<1>0. /\ c = [kind |-> c.kind, run |-> c.run, stale |-> c.stale]
      /\ panel = [out |-> panel.out, asking |-> panel.asking, for |-> panel.for]
  BY DEF TapeInv, CallRecord
<1>1. CASE GotRun(c) \/ Adopt(c)
  BY <1>1, ShowKeeps DEF GotRun, Adopt
<1>2. CASE GotChild(c)
  <2>1. PICK child : calls' = Ask(calls \ {c}, "adopt", child)
    BY <1>2 DEF GotChild
  <2>2. UNCHANGED <<tape, full, receipts, panel, bare>>
    BY <1>2 DEF GotChild
  <2> QED
    BY <2>1, <2>2, AskKeeps DEF TapeInv, BareShown, Uncounted, Bare
<1>3. CASE GotReceipts(c)
  <2>1. /\ receipts' = [of |-> c.run, stale |-> c.stale] /\ calls' = calls \ {c}
        /\ UNCHANGED <<tape, full, panel, bare>> /\ c.kind = "prove"
    BY <1>3 DEF GotReceipts
  <2>2. receipts' # Off /\ ~receipts'.stale => receipts'.of = tape
    BY <2>1 DEF TapeInv, Uncounted
  <2> QED
    BY <2>1, <2>2 DEF TapeInv, BareShown
<1>4. CASE GotPanel(c)
  <2>1. /\ panel' = IF c.stale THEN panel ELSE [panel EXCEPT !.out = c.run, !.asking = FALSE]
        /\ calls' = calls \ {c} /\ UNCHANGED <<tape, full, receipts, bare>> /\ c.kind = "panel"
    BY <1>4 DEF GotPanel
  <2>2. CASE c.stale
    BY <2>1, <2>2 DEF TapeInv, BareShown
  <2>3. CASE ~c.stale
    <3>1. panel' = [out |-> c.run, asking |-> FALSE, for |-> panel.for]
      BY <2>1, <2>3, <1>0
    <3> QED
      BY <2>1, <2>3, <3>1 DEF TapeInv, BareShown
  <2> QED
    BY <2>2, <2>3
<1>5. CASE Unanswered(c)
  <2>1. calls' = calls \ {c} /\ UNCHANGED <<tape, full, receipts, bare>>
    BY <1>5 DEF Unanswered
  <2>2. panel' = panel \/ panel' = [panel EXCEPT !.asking = FALSE]
    BY <1>5 DEF Unanswered
  <2>3. panel' = [out |-> panel.out, asking |-> panel'.asking, for |-> panel.for]
    BY <2>2, <1>0
  <2> QED
    BY <2>1, <2>3 DEF TapeInv, BareShown
<1>6. CASE GotBare(c)
  <2>1. /\ calls' = calls \ {c} /\ UNCHANGED <<tape, full, receipts, panel>>
        /\ bare' = [bare EXCEPT ![c.kind] = [of |-> c.run, stale |-> c.stale]]
        /\ c.kind \in Bare
    BY <1>6 DEF GotBare
  <2>2. bare' = [p \in Bare |-> IF p = c.kind THEN [of |-> c.run, stale |-> c.stale]
                                              ELSE bare[p]]
    BY <2>1 DEF TapeInv, BareShown
  <2>3. ASSUME NEW p \in Bare, bare'[p] # Off, ~bare'[p].stale
        PROVE  bare'[p].of \in {panel.for, tape}
    <3>1. CASE p = c.kind
      BY <2>1, <2>2, <2>3, <3>1 DEF TapeInv, Uncounted
    <3>2. CASE p # c.kind
      BY <2>2, <2>3, <3>2 DEF TapeInv, BareShown
    <3> QED
      BY <3>1, <3>2
  <2>4. BareShown'
    BY <2>1, <2>2, <2>3 DEF BareShown
  <2> QED
    BY <2>1, <2>4 DEF TapeInv
<1> QED
  BY <1>1, <1>2, <1>3, <1>4, <1>5, <1>6 DEF Answer

LEMMA TapeStep ==
    ASSUME TapeInv, [StudioNext]_studioVars
    PROVE  TapeInv'
<1>1. ASSUME NEW r \in Tapes, Pick(r) PROVE TapeInv'
  BY <1>1, LoadKeeps DEF Pick
<1>2. ASSUME NEW kind, Verb(kind) PROVE TapeInv'
  <2>1. calls' = Ask(calls, kind, tape) /\ UNCHANGED <<tape, full, receipts, panel, bare>>
    BY <1>2 DEF Verb
  <2> QED
    BY <2>1, AskKeeps DEF TapeInv, BareShown
<1>3. CASE AskPanel
  <2>1. /\ calls' = Ask(Overtake(calls), "panel", tape)
        /\ panel' = [panel EXCEPT !.asking = TRUE] /\ UNCHANGED <<tape, full, receipts, bare>>
    BY <1>3 DEF AskPanel
  <2>2. panel' = [out |-> panel.out, asking |-> TRUE, for |-> panel.for]
    BY <2>1 DEF TapeInv
  <2>3. \A d \in Overtake(calls) :
              /\ CallRecord(d)
              /\ d.kind = "panel" => d.stale = TRUE
              /\ \E c \in calls : /\ d.kind = c.kind /\ d.run = c.run
                                  /\ c.stale => d.stale
    BY OvertakeMarks DEF TapeInv
  <2>4. \A c \in calls' :
                /\ CallRecord(c)
                /\ c.kind = "panel" /\ ~c.stale => c.run \in {panel.for, tape}
                /\ c.kind \in Uncounted /\ ~c.stale => c.run = tape
    BY <2>1, <2>3, AskKeeps DEF TapeInv
  <2> QED
    BY <2>1, <2>2, <2>4 DEF TapeInv, BareShown
<1>4. CASE Effects
  <2>1. /\ panel' = [out |-> Off, asking |-> FALSE, for |-> tape] /\ bare' = NoBare
        /\ calls' = Overtake(calls) /\ UNCHANGED <<tape, full, receipts>>
    BY <1>4 DEF Effects, EmptyPanel
  <2>2. \A d \in Overtake(calls) :
              /\ CallRecord(d)
              /\ d.kind = "panel" => d.stale = TRUE
              /\ \E c \in calls : /\ d.kind = c.kind /\ d.run = c.run
                                  /\ c.stale => d.stale
    BY OvertakeMarks DEF TapeInv
  <2> QED
    BY <2>1, <2>2 DEF TapeInv, BareShown, NoBare
<1>8. ASSUME NEW p \in Bare, AskBare(p) PROVE TapeInv'
  <2>1. /\ calls' = Ask(calls, p, tape) /\ UNCHANGED <<tape, full, receipts, panel>>
        /\ bare' = [bare EXCEPT ![p] = Off]
    BY <1>8 DEF AskBare
  <2>2. bare' = [q \in Bare |-> IF q = p THEN Off ELSE bare[q]]
    BY <2>1 DEF TapeInv, BareShown
  <2>3. BareShown'
    BY <2>1, <2>2 DEF TapeInv, BareShown
  <2> QED
    BY <2>1, <2>3, AskKeeps DEF TapeInv
<1>5. ASSUME NEW c \in calls, Answer(c) PROVE TapeInv'
  BY <1>5, AnswerKeeps
<1>6. ASSUME NEW k \in Sends, Chat(k) PROVE TapeInv'
  <2>1. CASE UNCHANGED tapeVars
    BY <2>1 DEF tapeVars, TapeInv, BareShown
  <2>2. ASSUME NEW r, LoadRun(r) PROVE TapeInv'
    BY <2>2, LoadKeeps
  <2> QED
    BY <1>6, <2>1, <2>2
    DEF Chat, SendMessage, Enter, Delta, ErrorFrame, StreamFails, Done, Settle
<1>7. CASE AbortReply \/ UNCHANGED studioVars
  <2>1. UNCHANGED tapeVars
    BY <1>7 DEF AbortReply, studioVars
  <2> QED
    BY <2>1 DEF tapeVars, TapeInv, BareShown
<1> QED
  BY <1>1, <1>2, <1>3, <1>4, <1>5, <1>6, <1>7, <1>8 DEF StudioNext

-----------------------------------------------------------------------------
(* The monitor *)

IsLast(k) == sends[k] # "unsent" /\ \A l \in Sends : l > k => sends[l] = "unsent"

\* Sends are made in order; the one under way is the last, and the buffer is
\* its own and is gone when it is over.
MonitorInv ==
    /\ sends \in [Sends -> {"unsent", "streaming", "broken", "settling", "over"}]
    /\ got \in [Sends -> Nat]
    /\ \A k, l \in Sends : sends[k] = "unsent" /\ l > k => sends[l] = "unsent"
    /\ \A k \in Sends : sends[k] = "unsent" => got[k] = 0
    /\ \A k \in Sends : sends[k] = "broken" => k \in broken
    /\ broken = {} =>
          /\ \A k \in Unsettled :
                /\ IsLast(k) /\ chatBuf = [i \in 1..got[k] |-> k]
                /\ sends[k] = "settling" => ~chatting
          /\ Unsettled = {} => chatBuf = Off

LEMMA BufferIsNotOff ==
    ASSUME NEW n \in Nat, NEW k \in Nat
    PROVE  [i \in 1..n |-> k] # Off
<1>1. [i \in 1..n |-> k] \in Seq(Nat)
  OBVIOUS
<1> QED
  BY <1>1, StudioAssumption DEF StudioAssumption

LEMMA SendsAreNumbers == MaxSends \in Nat /\ Sends \subseteq Nat
BY StudioAssumption DEF StudioAssumption, Sends

LEMMA OnlyOneIsLast ==
    ASSUME MonitorInv, NEW k \in Sends, NEW l \in Sends, IsLast(k), IsLast(l)
    PROVE  k = l
BY SendsAreNumbers DEF IsLast

\* The honest monitor, of the invariant.
LEMMA MonitorHolds == MonitorInv => MonitorIsOfTheSend
<1> SUFFICES ASSUME MonitorInv, broken = {} PROVE
        /\ OneSendAtATime
        /\ chatBuf # Off <=> Unsettled # {}
        /\ chatBuf # Off => chatBuf = [i \in 1..got[Latest] |-> Latest]
  BY DEF MonitorIsOfTheSend
<1>1. CASE Unsettled = {}
  BY <1>1, FS_EmptySet DEF OneSendAtATime, MonitorInv
<1>2. CASE Unsettled # {}
  <2>1. PICK k \in Unsettled : TRUE
    BY <1>2
  <2>2. /\ k \in Sends /\ k \in Nat /\ IsLast(k) /\ chatBuf = [i \in 1..got[k] |-> k]
        /\ got[k] \in Nat
    BY <2>1, SendsAreNumbers DEF MonitorInv, Unsettled
  <2>3. Unsettled = {k}
    BY <2>1, <2>2, OnlyOneIsLast DEF MonitorInv, Unsettled
  <2>4. Cardinality(Unsettled) = 1
    BY <2>3, FS_Singleton
  <2>5. Latest = k
    BY <2>2, OnlyOneIsLast DEF Latest, IsLast
  <2> QED
    BY <1>2, <2>2, <2>4, <2>5, BufferIsNotOff DEF OneSendAtATime
<1> QED
  BY <1>1, <1>2

\* A send that ends takes the buffer away.
LEMMA EndKeeps ==
    ASSUME MonitorInv, NEW k \in Sends, sends[k] # "unsent",
           sends' = [sends EXCEPT ![k] = "over"],
           chatBuf' = Off, chatting' \in {chatting, FALSE}, UNCHANGED <<got, broken>>,
           broken = {} => sends[k] \in {"streaming", "broken", "settling"}
    PROVE  MonitorInv'
<1>1. /\ sends' \in [Sends -> {"unsent", "streaming", "broken", "settling", "over"}]
      /\ sends'[k] = "over" /\ \A l \in Sends : l # k => sends'[l] = sends[l]
  BY DEF MonitorInv
<1>2. broken = {} => Unsettled' = {}
  <2> SUFFICES ASSUME broken = {}, NEW l \in Unsettled' PROVE FALSE
    OBVIOUS
  <2>1. l \in Unsettled /\ k \in Unsettled /\ l # k
    BY <1>1 DEF Unsettled
  <2>2. IsLast(l) /\ IsLast(k)
    BY <2>1 DEF MonitorInv
  <2> QED
    BY <2>1, <2>2, OnlyOneIsLast DEF Unsettled
<1> QED
  BY <1>1, <1>2 DEF MonitorInv

LEMMA MonitorStep ==
    ASSUME MonitorInv, [StudioNext]_studioVars
    PROVE  MonitorInv'
<1>1. CASE UNCHANGED chatVars
  BY <1>1 DEF chatVars, MonitorInv, Unsettled, IsLast
<1>2. ASSUME NEW k \in Sends, SendMessage(k) PROVE MonitorInv'
  <2>1. /\ ~chatting /\ chatBuf = Off /\ sends[k] = "unsent"
        /\ \A l \in Sends : l < k => sends[l] # "unsent"
        /\ sends' = [sends EXCEPT ![k] = "streaming"]
        /\ chatBuf' = <<>> /\ got' = got /\ broken' = broken
    BY <1>2 DEF SendMessage, Enter
  <2>2. /\ sends' \in [Sends -> {"unsent", "streaming", "broken", "settling", "over"}]
        /\ sends'[k] = "streaming" /\ \A l \in Sends : l # k => sends'[l] = sends[l]
    BY <2>1 DEF MonitorInv
  <2>3. broken = {} => Unsettled = {}
    <3> SUFFICES ASSUME broken = {}, NEW l \in Unsettled PROVE FALSE
      OBVIOUS
    <3>1. l \in Nat /\ got[l] \in Nat /\ chatBuf = [i \in 1..got[l] |-> l]
      BY SendsAreNumbers DEF MonitorInv, Unsettled
    <3> QED
      BY <2>1, <3>1, BufferIsNotOff
  <2>4. broken = {} => \A l \in Unsettled' : l = k
    BY <2>2, <2>3 DEF Unsettled
  <2>5. got[k] = 0 /\ <<>> = [i \in 1..0 |-> k]
    BY <2>1 DEF MonitorInv
  <2>6. \A l \in Sends : l > k => sends'[l] = "unsent"
    BY <2>1, <2>2, SendsAreNumbers DEF MonitorInv
  <2>7. \A j, l \in Sends : sends'[j] = "unsent" /\ l > j => sends'[l] = "unsent"
    BY <2>1, <2>2, SendsAreNumbers DEF MonitorInv
  <2>8. k \in Unsettled'
    BY <2>2 DEF Unsettled
  <2>9. \A l \in Sends : sends'[l] = "broken" => l \in broken'
    BY <2>1, <2>2 DEF MonitorInv
  <2>10. \A l \in Sends : sends'[l] = "unsent" => got'[l] = 0
    BY <2>1, <2>2 DEF MonitorInv
  <2>11. IsLast(k)' /\ chatBuf' = [i \in 1..got'[k] |-> k] /\ sends'[k] # "settling"
    BY <2>1, <2>2, <2>5, <2>6 DEF IsLast
  <2> QED
    BY <2>1, <2>2, <2>4, <2>7, <2>8, <2>9, <2>10, <2>11 DEF MonitorInv
<1>3. ASSUME NEW k \in Sends, Delta(k) PROVE MonitorInv'
  <2>1. /\ sends[k] = "streaming" /\ sends' = sends /\ broken' = broken
        /\ chatBuf' = Append(IF chatBuf = Off THEN <<>> ELSE chatBuf, k)
        /\ got' = [got EXCEPT ![k] = @ + 1] /\ chatting' = chatting
    BY <1>3 DEF Delta
  <2>2. /\ got' \in [Sends -> Nat] /\ got'[k] = got[k] + 1 /\ got[k] \in Nat
        /\ \A l \in Sends : l # k => got'[l] = got[l]
    BY <2>1 DEF MonitorInv
  <2>3. k \in Unsettled /\ Unsettled' = Unsettled
    BY <2>1 DEF Unsettled
  <2>4. ASSUME broken = {}
        PROVE  /\ \A l \in Unsettled : l = k
               /\ chatBuf' = [i \in 1..got'[k] |-> k]
    <3>1. \A l \in Unsettled : l = k
      BY <2>3, <2>4, OnlyOneIsLast DEF MonitorInv, Unsettled
    <3>2. chatBuf = [i \in 1..got[k] |-> k] /\ k \in Nat
      BY <2>3, <2>4, SendsAreNumbers DEF MonitorInv
    <3>3. chatBuf' = Append([i \in 1..got[k] |-> k], k)
      BY <2>1, <2>2, <3>2, BufferIsNotOff
    <3> QED
      BY <2>2, <3>1, <3>2, <3>3
  <2>5. \A l \in Sends : sends'[l] = "unsent" => got'[l] = 0
    BY <2>1, <2>2 DEF MonitorInv
  <2>6. \A l \in Unsettled : IsLast(l)' <=> IsLast(l)
    BY <2>1 DEF IsLast
  <2> QED
    BY <2>1, <2>2, <2>3, <2>4, <2>5, <2>6 DEF MonitorInv
<1>4. ASSUME NEW k \in Sends, ErrorFrame(k) PROVE MonitorInv'
  <2>1. /\ sends[k] = "streaming" /\ sends' = [sends EXCEPT ![k] = "broken"]
        /\ broken' = broken \cup {k} /\ got' = got
    BY <1>4 DEF ErrorFrame
  <2>2. /\ sends' \in [Sends -> {"unsent", "streaming", "broken", "settling", "over"}]
        /\ sends'[k] = "broken" /\ \A l \in Sends : l # k => sends'[l] = sends[l]
    BY <2>1 DEF MonitorInv
  <2> QED
    BY <2>1, <2>2 DEF MonitorInv
<1>5. ASSUME NEW k \in Sends, StreamFails(k) PROVE MonitorInv'
  BY <1>5, EndKeeps DEF StreamFails
<1>6. ASSUME NEW k \in Sends, Done(k) PROVE MonitorInv'
  <2>1. /\ sends[k] \in {"streaming", "broken"} /\ sends' = [sends EXCEPT ![k] = "settling"]
        /\ chatting' = FALSE /\ chatBuf' = chatBuf /\ got' = got /\ broken' = broken
    BY <1>6 DEF Done
  <2>2. /\ sends' \in [Sends -> {"unsent", "streaming", "broken", "settling", "over"}]
        /\ sends'[k] = "settling" /\ \A l \in Sends : l # k => sends'[l] = sends[l]
    BY <2>1 DEF MonitorInv
  <2>3. Unsettled' = Unsettled
    BY <2>1, <2>2 DEF Unsettled
  <2>4. \A l \in Sends : IsLast(l) => IsLast(l)'
    BY <2>1, <2>2 DEF IsLast
  <2>5. Unsettled \subseteq Sends
    BY DEF Unsettled
  <2> QED
    BY <2>1, <2>2, <2>3, <2>4, <2>5 DEF MonitorInv
<1>7. ASSUME NEW k \in Sends, Settle(k) PROVE MonitorInv'
  BY <1>7, EndKeeps DEF Settle
<1>8. CASE AbortReply
  <2>1. /\ chatting /\ chatting' = FALSE /\ chatBuf' = Off /\ got' = got /\ broken' = broken
        /\ sends' = IF sends[Latest] \in {"streaming", "broken"}
                    THEN [sends EXCEPT ![Latest] = "over"] ELSE sends
    BY <1>8 DEF AbortReply
  <2>2. ASSUME NEW k \in Sends, IsLast(k) PROVE Latest = k
    BY <2>2, OnlyOneIsLast DEF Latest, IsLast
  <2> DEFINE k == Latest
  <2> HIDE DEF k
  <2>3. CASE k \in Sends /\ sends[k] \in {"streaming", "broken"}
    <3>1. sends' = [sends EXCEPT ![k] = "over"]
      BY <2>1, <2>3 DEF k
    <3> QED
      BY <2>1, <2>3, <3>1, EndKeeps
  <2>4. CASE ~(k \in Sends /\ sends[k] \in {"streaming", "broken"})
    <3>1. ASSUME broken = {}, NEW l \in Unsettled PROVE FALSE
      <4>1. IsLast(l) /\ sends[l] = "streaming" /\ l \in Sends
        BY <2>1, <3>1 DEF MonitorInv, Unsettled
      <4> QED
        BY <2>2, <2>4, <4>1 DEF k
    <3>2. sends' = sends
      <4>1. CASE k \in Sends
        BY <2>1, <2>4, <4>1 DEF k
      <4>2. CASE k \notin Sends
        BY <2>1, <4>2 DEF k, MonitorInv
      <4> QED
        BY <4>1, <4>2
    <3> QED
      BY <2>1, <3>1, <3>2 DEF MonitorInv, Unsettled
  <2> QED
    BY <2>3, <2>4
<1>9. CASE UNCHANGED studioVars
  BY <1>1, <1>9 DEF studioVars
<1> QED
  BY <1>1, <1>2, <1>3, <1>4, <1>5, <1>6, <1>7, <1>8, <1>9
  DEF StudioNext, Pick, Verb, AskPanel, AskBare, Effects, Answer, Chat

\* However clicks and answers are interleaved: a panel with a request counter is of
\* the run on the tape, and the monitor of the send under way, if no stream carried
\* an error frame; receipts, and panels without a counter, are of the run on the
\* tape unless their answer came after the tape had been changed.
THEOREM StudioIsHonest == StudioSpec => []StudioHonest
<1>1. StudioInit => TapeInv /\ MonitorInv
  BY DEF StudioInit, TapeInv, BareShown, NoBare, MonitorInv, Unsettled, IsLast
<1>2. TapeInv => PanelIsOfTheTape /\ OnlyLateAnswersAreForeign
  BY DEF TapeInv, BareShown, PanelIsOfTheTape, OnlyLateAnswersAreForeign, EffectDue
<1>3. TapeInv /\ MonitorInv => StudioHonest
  BY <1>2, MonitorHolds DEF StudioHonest
<1>4. TapeInv /\ MonitorInv /\ [StudioNext]_studioVars => (TapeInv /\ MonitorInv)'
  BY TapeStep, MonitorStep
<1> QED
  BY <1>1, <1>3, <1>4, PTL DEF StudioSpec

-----------------------------------------------------------------------------
(* The reply as it streams *)

\* Where a handler can be before it has logged, and where the published context
\* is its own.
Unlogged == {"idle", "role", "begin", "pull", "flush", "disconnect", "complete"}
Own == {"pull", "flush", "complete", "policy", "terminal", "except"}
Places == Unlogged \cup Own \cup {"close", "ended"}

StreamTyped ==
    /\ streamPc \in [Requests -> Places] /\ client \in [Requests -> BOOLEAN]
    /\ conn \in [Requests -> {"none", "open", "closed"}]
    /\ workerState \in [Requests -> WorkerStates]
    /\ frames \in [Requests -> Reasons \cup {None}]
    /\ chan \in [Requests -> Seq(Frame)]
    /\ runLog \in [Requests -> Seq(Entry)]
    /\ told \in [Requests -> Reasons \cup {None, "done", "error"}]
    /\ current \in Requests \cup {None}

\* One reply at a time holds the POST gate's turn.
OneReply ==
    \A q, r \in Requests :
        streamPc[q] \notin {"idle", "ended"} /\ streamPc[r] \notin {"idle", "ended"} => q = r

\* Nothing has begun before the generator is first iterated.
NotBegun(r) ==
    streamPc[r] \in {"idle", "role", "begin"}
    => conn[r] = "none" /\ workerState[r] = "none"

\* A stop cause on its way, or parsed, or told on the NDJSON wire, is the
\* worker's.
CauseInv(r) ==
    /\ \A i \in DOMAIN chan[r] : chan[r][i] \in Reasons => workerState[r] = chan[r][i]
    /\ frames[r] # None => workerState[r] = frames[r]
    /\ r \in Ollama /\ told[r] = "stop" => workerState[r] = "stop"

\* A reply on the NDJSON wire is logged once.
LogInv(r) ==
    /\ streamPc[r] \in Unlogged => runLog[r] = <<>>
    /\ r \in Ollama =>
          /\ streamPc[r] \notin {"role", "policy"}
          /\ streamPc[r] = "except" => runLog[r] = <<>>
          /\ streamPc[r] \in {"terminal", "close", "ended"} => Len(runLog[r]) = 1

\* The context a reply will be logged with is its own.
ContextInv(r) ==
    /\ streamPc[r] \in Own => current = r
    /\ streamPc[r] = "disconnect" => ~client[r] /\ (current = r \/ conn[r] = "none")

EntriesTrue(r) ==
    \A i \in DOMAIN runLog[r] :
        /\ runLog[r][i].tag = "client" => ~client[r]
        /\ runLog[r][i].finish # None => workerState[r] = runLog[r][i].finish
        /\ \/ runLog[r][i].meta = r
           \/ runLog[r][i].tag = "client" /\ conn[r] = "none"

ReplyInv(r) ==
    NotBegun(r) /\ CauseInv(r) /\ LogInv(r) /\ ContextInv(r) /\ EntriesTrue(r)

StreamInv == OneReply /\ \A r \in Requests : ReplyInv(r)

\* What a step of one reply leaves of the others.
Elsewhere(r) ==
    \A q \in Requests : q # r =>
        /\ streamPc'[q] = streamPc[q] /\ client'[q] = client[q]
        /\ conn'[q] = conn[q] /\ workerState'[q] = workerState[q]
        /\ frames'[q] = frames[q] /\ chan'[q] = chan[q]
        /\ runLog'[q] = runLog[q] /\ told'[q] = told[q]

-----------------------------------------------------------------------------
(* The steps of a reply *)

\* A step of one reply keeps what holds of the others: it publishes a context
\* only while no other reply is under way.
LEMMA ReplyMoves ==
    ASSUME StreamTyped, StreamInv, NEW r \in Requests, Elsewhere(r),
           ReplyInv(r)',
           \/ streamPc[r] \notin {"idle", "ended"}
           \/ streamPc'[r] = streamPc[r]
           \/ \A q \in Requests : streamPc[q] \in {"idle", "ended"},
           \/ current' = current
           \/ current' = r /\ streamPc[r] \notin {"idle", "ended"}
    PROVE  StreamInv'
<1>1. OneReply'
  BY DEF StreamInv, OneReply, Elsewhere
<1>2. ASSUME NEW q \in Requests, q # r PROVE ReplyInv(q)'
  <2>1. ReplyInv(q)
    BY DEF StreamInv
  <2>2. current' = current \/ streamPc[q] \in {"idle", "ended"}
    BY <1>2 DEF StreamInv, OneReply
  <2>3. /\ streamPc'[q] = streamPc[q] /\ client'[q] = client[q]
        /\ conn'[q] = conn[q] /\ workerState'[q] = workerState[q]
        /\ frames'[q] = frames[q] /\ chan'[q] = chan[q]
        /\ runLog'[q] = runLog[q] /\ told'[q] = told[q]
    BY <1>2 DEF Elsewhere
  <2> QED
    BY <2>1, <2>2, <2>3
    DEF ReplyInv, NotBegun, CauseInv, LogInv, ContextInv, EntriesTrue, Own
<1> QED
  BY <1>1, <1>2 DEF StreamInv

\* What one frame fewer, or one more, says of the stop causes on their way.
LEMMA TailHas ==
    ASSUME NEW T, NEW s \in Seq(T), s # <<>>
    PROVE  /\ Head(s) = s[1] /\ 1 \in DOMAIN s /\ Head(s) \in T
           /\ Tail(s) \in Seq(T)
           /\ \A i \in DOMAIN Tail(s) : \E j \in DOMAIN s : Tail(s)[i] = s[j]
<1>1. Len(s) \in Nat \ {0} /\ DOMAIN s = 1..Len(s)
  BY EmptySeq
<1>2. /\ Head(s) = s[1] /\ Head(s) \in T /\ Tail(s) \in Seq(T)
      /\ DOMAIN Tail(s) = 1..(Len(s) - 1)
      /\ \A i \in 1..(Len(s) - 1) : Tail(s)[i] = s[i + 1]
  BY HeadTailProperties, <1>1
<1> DEFINE n == Len(s)
<1>3. \A i \in 1..(n - 1) : i + 1 \in 1..n
  <2>1. n \in Nat
    BY <1>1
  <2> HIDE DEF n
  <2> QED
    BY <2>1
<1> QED
  BY <1>1, <1>2, <1>3

LEMMA SentHas ==
    ASSUME NEW T, NEW s \in Seq(T), NEW t \in Seq(T)
    PROVE  /\ s \o t \in Seq(T)
           /\ \A i \in DOMAIN (s \o t) :
                 \/ \E j \in DOMAIN s : (s \o t)[i] = s[j]
                 \/ \E j \in DOMAIN t : (s \o t)[i] = t[j]
<1>1. s \o t \in Seq(T) /\ Len(s \o t) = Len(s) + Len(t)
  BY ConcatProperties
<1>2. \A i \in 1..(Len(s) + Len(t)) :
          (s \o t)[i] = IF i <= Len(s) THEN s[i] ELSE t[i - Len(s)]
  BY ConcatProperties
<1> DEFINE m == Len(s)
           n == Len(t)
<1>3. m \in Nat /\ n \in Nat /\ DOMAIN s = 1..m /\ DOMAIN t = 1..n
  BY LenProperties
<1>4. \A i \in 1..(m + n) : i \in 1..m \/ (~(i <= m) /\ i - m \in 1..n)
  <2>1. m \in Nat /\ n \in Nat
    BY <1>3
  <2> HIDE DEF m, n
  <2> QED
    BY <2>1
<1>5. DOMAIN (s \o t) = 1..(m + n)
  BY <1>1, <1>3
<1> HIDE DEF m, n
<1>6. \A i \in 1..m : i <= m
  BY <1>3
<1> QED
  BY <1>1, <1>2, <1>3, <1>4, <1>5, <1>6 DEF m, n

\* The run that is logged is the last of the reply's.
LEMMA LogAdds ==
    ASSUME StreamTyped, NEW r \in Requests, NEW tag \in {"ok", "client", "worker"},
           NEW finish \in Reasons \cup {None}, Log(r, tag, finish)
    PROVE  /\ runLog' \in [Requests -> Seq(Entry)]
           /\ Len(runLog'[r]) = Len(runLog[r]) + 1 /\ Len(runLog[r]) \in Nat
           /\ \A i \in DOMAIN runLog'[r] :
                 \/ i \in DOMAIN runLog[r] /\ runLog'[r][i] = runLog[r][i]
                 \/ runLog'[r][i] = [tag |-> tag, finish |-> finish, meta |-> current]
           /\ \A q \in Requests : q # r => runLog'[q] = runLog[q]
<1> DEFINE entry == [tag |-> tag, finish |-> finish, meta |-> current]
           s == runLog[r]
<1>1. entry \in Entry /\ s \in Seq(Entry)
  BY DEF StreamTyped, Entry
<1>2. runLog' = [runLog EXCEPT ![r] = Append(s, entry)]
  BY DEF Log
<1> HIDE DEF entry, s
<1>3. /\ Append(s, entry) \in Seq(Entry)
      /\ Len(Append(s, entry)) = Len(s) + 1 /\ Len(s) \in Nat
      /\ DOMAIN s = 1..Len(s)
      /\ \A i \in 1..Len(s) : Append(s, entry)[i] = s[i]
      /\ Append(s, entry)[Len(s) + 1] = entry
  BY <1>1, AppendProperties, LenProperties
<1>4. \A i \in DOMAIN Append(s, entry) :
          \/ i \in DOMAIN s /\ Append(s, entry)[i] = s[i]
          \/ Append(s, entry)[i] = entry
  <2>1. DOMAIN Append(s, entry) = 1..(Len(s) + 1)
    BY <1>3, LenProperties
  <2> QED
    BY <1>3, <2>1
<1>5. runLog'[r] = Append(s, entry) /\ \A q \in Requests : q # r => runLog'[q] = runLog[q]
  BY <1>2 DEF StreamTyped
<1> QED
  BY <1>2, <1>3, <1>4, <1>5 DEF StreamTyped, s, entry

\* Writes that are taken or refused, and the terminal frames, which tell no more
\* than the worker said.
LEMMA WritesKeep ==
    ASSUME StreamTyped, StreamInv, NEW r \in Requests,
           WriteRole(r) \/ Flush(r) \/ Policy(r) \/ TerminalSSE(r) \/ TerminalNDJSON(r)
    PROVE  StreamTyped' /\ StreamInv'
<1>1. /\ UNCHANGED <<client, current, frames, conn, chan, workerState, runLog>>
      /\ \E there \in Places : Goes(r, there)
      /\ told' = told \/ \E how \in Reasons \cup {"done"} : Tell(r, how)
  BY DEF WriteRole, Flush, Policy, TerminalSSE, TerminalNDJSON, Places, Unlogged, Own,
         OpenAIFinish, StreamTyped, Reasons
<1>a. /\ streamPc' \in [Requests -> Places]
      /\ \A q \in Requests : q # r => streamPc'[q] = streamPc[q]
  BY <1>1 DEF StreamTyped, Goes
<1>b. /\ told' \in [Requests -> Reasons \cup {None, "done", "error"}]
      /\ \A q \in Requests : q # r => told'[q] = told[q]
  BY <1>1 DEF StreamTyped, Tell
<1>2. StreamTyped'
  BY <1>1, <1>a, <1>b DEF StreamTyped
<1>3. Elsewhere(r)
  BY <1>1, <1>a, <1>b DEF Elsewhere
<1>4. ReplyInv(r)
  BY DEF StreamInv
<1>5. CASE WriteRole(r) \/ Flush(r) \/ Policy(r)
  <2>1. /\ \/ /\ streamPc[r] = "role" /\ streamPc'[r] \in {"begin", "disconnect"}
           \/ /\ streamPc[r] = "flush" /\ streamPc'[r] \in {"complete", "disconnect"}
           \/ /\ streamPc[r] = "policy" /\ streamPc'[r] \in {"terminal", "except"}
        /\ streamPc'[r] = "disconnect" => ~client[r]
        /\ told' = told
    BY <1>5 DEF WriteRole, Flush, Policy, Is, Goes, StreamTyped, WriteFails
  <2>2. ReplyInv(r)'
    BY <1>1, <1>4, <2>1 DEF ReplyInv, NotBegun, CauseInv, LogInv, ContextInv, EntriesTrue,
       Unlogged, Own
  <2> QED
    BY <1>1, <1>2, <1>3, <2>1, <2>2, ReplyMoves
<1>6. CASE TerminalSSE(r) \/ TerminalNDJSON(r)
  <2>1. /\ streamPc[r] = "terminal"
        /\ \/ streamPc'[r] = "close"
           \/ streamPc'[r] = "except" /\ r \notin Ollama
        /\ r \in Ollama => told'[r] = IF frames[r] = None THEN "done" ELSE frames[r]
    BY <1>6, StreamAssumption
    DEF TerminalSSE, TerminalNDJSON, Is, Goes, Tell, StreamTyped, StreamAssumption
  <2>2. ReplyInv(r)'
    BY <1>1, <1>4, <2>1 DEF ReplyInv, NotBegun, CauseInv, LogInv, ContextInv, EntriesTrue,
       Unlogged, Own
  <2> QED
    BY <1>1, <1>2, <1>3, <2>1, <2>2, ReplyMoves
<1> QED
  BY <1>5, <1>6

\* The generator is iterated for the first time: its own context is published,
\* and nothing was sent or parsed before.
LEMMA BeginKeeps ==
    ASSUME StreamTyped, StreamInv, NEW r \in Requests, Begin(r) \/ BeginRaises(r)
    PROVE  StreamTyped' /\ StreamInv'
<1>1. /\ UNCHANGED <<client, frames, chan, runLog, told>>
      /\ current' = r /\ streamPc[r] = "begin"
      /\ \/ /\ streamPc' = [streamPc EXCEPT ![r] = "pull"]
            /\ conn' = [conn EXCEPT ![r] = "open"]
            /\ workerState' = [workerState EXCEPT ![r] = "running"]
         \/ /\ streamPc' = [streamPc EXCEPT ![r] = "except"]
            /\ UNCHANGED <<conn, workerState>>
  BY DEF Begin, BeginRaises, Is, Goes
<1>2. StreamTyped'
  BY <1>1 DEF StreamTyped, Places, Unlogged, Own, WorkerStates
<1>3. Elsewhere(r)
  BY <1>1 DEF Elsewhere, StreamTyped
<1>4. ReplyInv(r) /\ workerState[r] = "none" /\ runLog[r] = <<>>
  BY <1>1 DEF StreamInv, ReplyInv, NotBegun, LogInv, Unlogged
<1>5. /\ \A i \in DOMAIN chan[r] : chan[r][i] \notin Reasons
      /\ frames[r] = None
      /\ r \in Ollama => told[r] # "stop"
  <2>1. \A i \in DOMAIN chan[r] : chan[r][i] \in Reasons => chan[r][i] = "none"
    BY <1>4 DEF ReplyInv, CauseInv
  <2>2. frames[r] # None => frames[r] = "none" /\ frames[r] \in Reasons
    BY <1>4 DEF ReplyInv, CauseInv, StreamTyped
  <2>3. r \in Ollama => told[r] # "stop"
    BY <1>4 DEF ReplyInv, CauseInv
  <2>4. \A x \in Reasons : x # "none"
    BY DEF Reasons
  <2>5. \A i \in DOMAIN chan[r] : chan[r][i] \notin Reasons
    BY <2>1, <2>4
  <2>6. frames[r] = None
    BY <2>2, <2>4
  <2> QED
    BY <2>3, <2>5, <2>6
<1>6. ReplyInv(r)'
  <2>1. streamPc'[r] \in {"pull", "except"}
    BY <1>1 DEF StreamTyped
  <2>2. runLog'[r] = <<>> /\ DOMAIN <<>> = {}
    BY <1>1, <1>4
  <2>3. NotBegun(r)' /\ CauseInv(r)' /\ ContextInv(r)'
    BY <1>1, <1>5, <2>1 DEF NotBegun, CauseInv, ContextInv
  <2>4. LogInv(r)' /\ EntriesTrue(r)'
    BY <2>1, <2>2 DEF LogInv, EntriesTrue
  <2> QED
    BY <2>3, <2>4 DEF ReplyInv
<1> QED
  BY <1>1, <1>2, <1>3, <1>6, ReplyMoves

\* Reading what the worker sent: a stop cause that is parsed was on its way.
LEMMA PullKeeps ==
    ASSUME StreamTyped, StreamInv, NEW r \in Requests,
           \/ PullCancelled(r) \/ PullPiece(r) \/ PullFrame(r) \/ PullDone(r)
           \/ PullRaises(r)
    PROVE  StreamTyped' /\ StreamInv'
<1>1. /\ UNCHANGED <<client, current, workerState, runLog, told>>
      /\ streamPc[r] = "pull"
      /\ \E there \in {"pull", "flush", "except", "disconnect"} :
            /\ streamPc' = [streamPc EXCEPT ![r] = there]
            /\ there = "disconnect" => ~client[r]
      /\ conn' = conn \/ conn' = [conn EXCEPT ![r] = "closed"]
      /\ \/ chan' = [chan EXCEPT ![r] = <<>>]
         \/ chan[r] # <<>> /\ chan' = [chan EXCEPT ![r] = Tail(chan[r])]
      /\ \/ frames' = frames
         \/ /\ chan[r] # <<>> /\ Head(chan[r]) \in Reasons
            /\ frames' = [frames EXCEPT ![r] = Head(chan[r])]
  <2>1. CASE PullCancelled(r) \/ PullDone(r) \/ PullRaises(r)
    BY <2>1 DEF PullCancelled, PullDone, PullRaises, Readable, Is, Goes, ReleaseWorker
  <2>2. CASE PullPiece(r)
    BY <2>2 DEF PullPiece, Readable, Is, Goes, Consume, WriteFails
  <2>3. CASE PullFrame(r)
    <3>1. streamPc' = [streamPc EXCEPT ![r] = "pull"]
      BY <2>3 DEF PullFrame, Readable, Is, StreamTyped
    <3>2. \/ frames' = frames
          \/ /\ chan[r] # <<>> /\ Head(chan[r]) \in Reasons
             /\ frames' = [frames EXCEPT ![r] = Head(chan[r])]
      BY <2>3 DEF PullFrame, Readable, StreamTyped
    <3> QED
      BY <2>3, <3>1, <3>2 DEF PullFrame, Readable, Is, Consume
  <2> QED
    BY <2>1, <2>2, <2>3
<1>2. chan[r] # <<>> => /\ Tail(chan[r]) \in Seq(Frame)
                        /\ Head(chan[r]) = chan[r][1] /\ 1 \in DOMAIN chan[r]
                        /\ \A i \in DOMAIN Tail(chan[r]) :
                              \E j \in DOMAIN chan[r] : Tail(chan[r])[i] = chan[r][j]
  BY TailHas DEF StreamTyped
<1>3. /\ chan' \in [Requests -> Seq(Frame)]
      /\ \A i \in DOMAIN chan'[r] : \E j \in DOMAIN chan[r] : chan'[r][i] = chan[r][j]
      /\ \A q \in Requests : q # r => chan'[q] = chan[q]
  <2>1. <<>> \in Seq(Frame) /\ DOMAIN <<>> = {}
    OBVIOUS
  <2>2. CASE chan' = [chan EXCEPT ![r] = <<>>]
    BY <2>1, <2>2 DEF StreamTyped
  <2>3. CASE chan[r] # <<>> /\ chan' = [chan EXCEPT ![r] = Tail(chan[r])]
    BY <1>2, <2>3 DEF StreamTyped
  <2> QED
    BY <1>1, <2>2, <2>3
<1>4. /\ frames' \in [Requests -> Reasons \cup {None}]
      /\ \/ frames'[r] = frames[r]
         \/ \E j \in DOMAIN chan[r] : frames'[r] = chan[r][j] /\ chan[r][j] \in Reasons
      /\ \A q \in Requests : q # r => frames'[q] = frames[q]
  <2>1. CASE frames' = frames
    BY <2>1 DEF StreamTyped
  <2>2. CASE /\ chan[r] # <<>> /\ Head(chan[r]) \in Reasons
             /\ frames' = [frames EXCEPT ![r] = Head(chan[r])]
    <3>1. frames'[r] = chan[r][1] /\ 1 \in DOMAIN chan[r] /\ chan[r][1] \in Reasons
      BY <1>2, <2>2 DEF StreamTyped
    <3> QED
      BY <2>2, <3>1 DEF StreamTyped
  <2> QED
    BY <1>1, <2>1, <2>2
<1>5. /\ streamPc' \in [Requests -> Places] /\ conn' \in [Requests -> {"none", "open", "closed"}]
      /\ streamPc'[r] \in {"pull", "flush", "except", "disconnect"}
      /\ streamPc'[r] = "disconnect" => ~client[r]
      /\ \A q \in Requests : q # r => streamPc'[q] = streamPc[q] /\ conn'[q] = conn[q]
  <2>1. PICK there \in {"pull", "flush", "except", "disconnect"} :
            /\ streamPc' = [streamPc EXCEPT ![r] = there]
            /\ there = "disconnect" => ~client[r]
    BY <1>1
  <2>2. /\ streamPc'[r] = there /\ streamPc' \in [Requests -> Places]
        /\ \A q \in Requests : q # r => streamPc'[q] = streamPc[q]
    BY <2>1 DEF StreamTyped, Places, Unlogged, Own
  <2>3. /\ conn' \in [Requests -> {"none", "open", "closed"}]
        /\ \A q \in Requests : q # r => conn'[q] = conn[q]
    BY <1>1 DEF StreamTyped
  <2> QED
    BY <2>1, <2>2, <2>3
<1>6. StreamTyped'
  BY <1>1, <1>3, <1>4, <1>5 DEF StreamTyped
<1>7. Elsewhere(r)
  BY <1>1, <1>3, <1>4, <1>5 DEF Elsewhere
<1>8. ReplyInv(r)
  BY DEF StreamInv
<1>9. CauseInv(r)'
  BY <1>1, <1>3, <1>4, <1>8 DEF ReplyInv, CauseInv
<1>10. runLog[r] = <<>> /\ current = r
  BY <1>1, <1>8 DEF ReplyInv, LogInv, ContextInv, Unlogged, Own
<1>11. NotBegun(r)' /\ LogInv(r)' /\ ContextInv(r)' /\ EntriesTrue(r)'
  BY <1>1, <1>5, <1>8, <1>10
  DEF ReplyInv, NotBegun, LogInv, ContextInv, EntriesTrue, Unlogged, Own
<1> QED
  BY <1>1, <1>6, <1>7, <1>9, <1>11, ReplyMoves DEF ReplyInv

\* The run is logged: as its client's, as finished, or as the worker's failure.
LEMMA LogKeeps ==
    ASSUME StreamTyped, StreamInv, NEW r \in Requests,
           Disconnect(r) \/ Complete(r) \/ Except(r)
    PROVE  StreamTyped' /\ StreamInv'
<1>0. ReplyInv(r)
  BY DEF StreamInv
<1>1. /\ UNCHANGED <<client, current, frames, conn, chan, workerState>>
      /\ \/ /\ streamPc[r] = "disconnect" /\ streamPc' = [streamPc EXCEPT ![r] = "close"]
            /\ Log(r, "client", None) /\ told' = told
         \/ /\ streamPc[r] = "complete" /\ Log(r, "ok", frames[r]) /\ told' = told
            /\ streamPc' = [streamPc EXCEPT ![r] = IF r \in OpenAI THEN "policy"
                                                   ELSE "terminal"]
         \/ /\ streamPc[r] = "except" /\ streamPc' = [streamPc EXCEPT ![r] = "close"]
            /\ Log(r, "worker", None) /\ told' = [told EXCEPT ![r] = "error"]
  BY DEF Disconnect, Complete, Except, Is, Goes, Tell
<1>2. PICK tag \in {"ok", "client", "worker"}, finish \in Reasons \cup {None} :
          /\ Log(r, tag, finish)
          /\ streamPc[r] = "disconnect" => tag = "client" /\ finish = None
          /\ streamPc[r] # "disconnect" => tag # "client"
          /\ finish \in {None, frames[r]}
  BY <1>1 DEF StreamTyped
<1>3. /\ runLog' \in [Requests -> Seq(Entry)]
      /\ Len(runLog'[r]) = Len(runLog[r]) + 1 /\ Len(runLog[r]) \in Nat
      /\ \A i \in DOMAIN runLog'[r] :
            \/ i \in DOMAIN runLog[r] /\ runLog'[r][i] = runLog[r][i]
            \/ runLog'[r][i] = [tag |-> tag, finish |-> finish, meta |-> current]
      /\ \A q \in Requests : q # r => runLog'[q] = runLog[q]
  BY <1>2, LogAdds
<1>4. /\ streamPc' \in [Requests -> Places]
      /\ \A q \in Requests : q # r => streamPc'[q] = streamPc[q] /\ told'[q] = told[q]
      /\ told' \in [Requests -> Reasons \cup {None, "done", "error"}]
      /\ told'[r] \in {told[r], "error"}
      /\ \/ streamPc[r] \in {"disconnect", "except"} /\ streamPc'[r] = "close"
         \/ streamPc[r] = "complete" /\ streamPc'[r] \in {"policy", "terminal"}
            /\ (r \notin OpenAI => streamPc'[r] = "terminal")
  BY <1>1 DEF StreamTyped, Places, Unlogged, Own
<1>5. StreamTyped'
  BY <1>1, <1>3, <1>4 DEF StreamTyped
<1>6. Elsewhere(r)
  BY <1>1, <1>3, <1>4 DEF Elsewhere
<1>7. r \in Ollama => r \notin OpenAI
  BY StreamAssumption DEF StreamAssumption
<1>8. EntriesTrue(r)'
  <2> SUFFICES ASSUME NEW i \in DOMAIN runLog'[r],
                      runLog'[r][i] = [tag |-> tag, finish |-> finish, meta |-> current]
               PROVE  /\ tag = "client" => ~client[r]
                      /\ finish # None => workerState[r] = finish
                      /\ current = r \/ (tag = "client" /\ conn[r] = "none")
    BY <1>0, <1>1, <1>3 DEF EntriesTrue, ReplyInv
  <2>1. finish # None => workerState[r] = finish
    BY <1>0, <1>2 DEF ReplyInv, CauseInv
  <2>2. CASE streamPc[r] = "disconnect"
    BY <1>0, <1>2, <2>1, <2>2 DEF ReplyInv, ContextInv
  <2>3. CASE streamPc[r] # "disconnect"
    BY <1>0, <1>1, <1>2, <2>1, <2>3 DEF ReplyInv, ContextInv, Own
  <2> QED
    BY <2>2, <2>3
<1>9. LogInv(r)'
  <2>1. r \in Ollama => runLog[r] = <<>>
    BY <1>0, <1>4 DEF ReplyInv, LogInv, Unlogged
  <2>2. r \in Ollama => Len(runLog'[r]) = 1
    BY <1>3, <2>1
  <2> QED
    BY <1>4, <1>7, <2>2 DEF LogInv, Unlogged
<1>10. NotBegun(r)' /\ CauseInv(r)' /\ ContextInv(r)'
  BY <1>0, <1>1, <1>4 DEF ReplyInv, NotBegun, CauseInv, ContextInv, Own
<1> QED
  BY <1>1, <1>4, <1>5, <1>6, <1>8, <1>9, <1>10, ReplyMoves DEF ReplyInv

LEMMA CloseKeeps ==
    ASSUME StreamTyped, StreamInv, NEW r \in Requests, Close(r)
    PROVE  StreamTyped' /\ StreamInv'
<1>0. ReplyInv(r)
  BY DEF StreamInv
<1>1. /\ UNCHANGED <<client, current, frames, workerState, runLog, told>>
      /\ streamPc[r] = "close" /\ streamPc' = [streamPc EXCEPT ![r] = "ended"]
      /\ \/ UNCHANGED <<conn, chan>>
         \/ /\ conn[r] = "open" /\ conn' = [conn EXCEPT ![r] = "closed"]
            /\ chan' = [chan EXCEPT ![r] = <<>>]
  BY DEF Close, Is, Goes, ReleaseWorker
<1>2. <<>> \in Seq(Frame) /\ DOMAIN <<>> = {}
  OBVIOUS
<1>3. StreamTyped' /\ Elsewhere(r)
  <2>1. /\ streamPc' \in [Requests -> Places]
        /\ \A q \in Requests : q # r => streamPc'[q] = streamPc[q]
    BY <1>1 DEF StreamTyped, Places
  <2>2. /\ conn' \in [Requests -> {"none", "open", "closed"}]
        /\ \A q \in Requests : q # r => conn'[q] = conn[q]
    BY <1>1 DEF StreamTyped
  <2>3. /\ chan' \in [Requests -> Seq(Frame)]
        /\ \A q \in Requests : q # r => chan'[q] = chan[q]
    <3>1. CASE chan' = chan
      BY <3>1 DEF StreamTyped
    <3>2. CASE chan' = [chan EXCEPT ![r] = <<>>]
      BY <1>2, <3>2 DEF StreamTyped
    <3> QED
      BY <1>1, <3>1, <3>2, Zenon
  <2>4. StreamTyped'
    BY <1>1, <2>1, <2>2, <2>3 DEF StreamTyped
  <2>5. Elsewhere(r)
    BY <1>1, <2>1, <2>2, <2>3 DEF Elsewhere
  <2> QED
    BY <2>4, <2>5
<1>4. /\ streamPc'[r] = "ended"
      /\ conn'[r] = conn[r] \/ conn[r] = "open"
      /\ chan'[r] = chan[r] \/ chan'[r] = <<>>
  BY <1>1 DEF StreamTyped
<1>5. ReplyInv(r)'
  BY <1>0, <1>1, <1>2, <1>4
  DEF ReplyInv, NotBegun, CauseInv, LogInv, ContextInv, EntriesTrue, Unlogged, Own
<1> QED
  BY <1>1, <1>3, <1>5, ReplyMoves

\* The worker ends a reply with its cause as the last thing it says; before, it
\* has said none.
LEMMA WorkerKeeps ==
    ASSUME StreamTyped, StreamInv, NEW r \in Requests, Worker(r)
    PROVE  StreamTyped' /\ StreamInv'
<1>0. ReplyInv(r)
  BY DEF StreamInv
<1>1. /\ UNCHANGED <<streamPc, current, frames, runLog, told, client, conn>>
      /\ workerState[r] = "running"
      /\ \E how \in WorkerStates, fs \in Seq(Frame) :
            /\ workerState' = [workerState EXCEPT ![r] = how]
            /\ how \in Reasons \/ \A i \in DOMAIN fs : fs[i] \notin Reasons
            /\ \A i \in DOMAIN fs : fs[i] \in Reasons => fs[i] = how
            /\ \/ chan' = chan
               \/ chan' = [chan EXCEPT ![r] = chan[r] \o fs]
  <2>1. /\ UNCHANGED <<streamPc, current, frames, runLog, told, client, conn>>
        /\ workerState[r] = "running"
    BY DEF Worker, WorkerEmit, WorkerCancelled, WorkerFinishes, WorkerFails, WorkerDies,
           handlerVars
  <2>2. workerState = [workerState EXCEPT ![r] = "running"] /\ "running" \in WorkerStates
    BY <2>1 DEF StreamTyped, WorkerStates
  <2>3. ASSUME NEW fs \in Seq(Frame), Send(r, fs)
        PROVE  chan' = chan \/ chan' = [chan EXCEPT ![r] = chan[r] \o fs]
    BY <2>3 DEF Send, StreamTyped
  <2>4. CASE WorkerEmit(r)
    <3> DEFINE fs == <<"piece">>
    <3>1. fs \in Seq(Frame) /\ \A i \in DOMAIN fs : fs[i] \notin Reasons
      BY DEF Frame, Reasons
    <3>2. Send(r, fs) /\ workerState' = workerState
      BY <2>4 DEF WorkerEmit
    <3> HIDE DEF fs
    <3> QED
      BY <2>1, <2>2, <2>3, <3>1, <3>2
  <2>5. CASE WorkerCancelled(r)
    <3> DEFINE fs == <<"cancelled", "DONE">>
    <3>1. fs \in Seq(Frame) /\ \A i \in DOMAIN fs : fs[i] \notin Reasons
      BY DEF Frame, Reasons
    <3>2. Send(r, fs) /\ workerState' = [workerState EXCEPT ![r] = "cancelled"]
      BY <2>5 DEF WorkerCancelled, WorkerEnds
    <3>3. "cancelled" \in WorkerStates
      BY DEF WorkerStates
    <3> HIDE DEF fs
    <3> QED
      BY <2>1, <2>3, <3>1, <3>2, <3>3
  <2>6. ASSUME NEW reason \in Reasons, WorkerFinishes(r, reason)
        PROVE  \E how \in WorkerStates, fs \in Seq(Frame) :
                  /\ workerState' = [workerState EXCEPT ![r] = how]
                  /\ how \in Reasons \/ \A i \in DOMAIN fs : fs[i] \notin Reasons
                  /\ \A i \in DOMAIN fs : fs[i] \in Reasons => fs[i] = how
                  /\ \/ chan' = chan
                     \/ chan' = [chan EXCEPT ![r] = chan[r] \o fs]
    <3> DEFINE fs == <<reason, "DONE">>
    <3>1. fs \in Seq(Frame) /\ \A i \in DOMAIN fs : fs[i] \in Reasons => fs[i] = reason
      BY DEF Frame, Reasons
    <3>2. Send(r, fs) /\ workerState' = [workerState EXCEPT ![r] = reason]
      BY <2>6 DEF WorkerFinishes, WorkerEnds
    <3>3. reason \in WorkerStates
      BY DEF WorkerStates, Reasons
    <3> HIDE DEF fs
    <3> QED
      BY <2>3, <3>1, <3>2, <3>3
  <2>7. CASE WorkerFails(r)
    <3> DEFINE fs == <<"error", "DONE">>
    <3>1. fs \in Seq(Frame) /\ \A i \in DOMAIN fs : fs[i] \notin Reasons
      BY DEF Frame, Reasons
    <3>2. Send(r, fs) /\ workerState' = [workerState EXCEPT ![r] = "failed"]
      BY <2>7 DEF WorkerFails, WorkerEnds
    <3>3. "failed" \in WorkerStates
      BY DEF WorkerStates
    <3> HIDE DEF fs
    <3> QED
      BY <2>1, <2>3, <3>1, <3>2, <3>3
  <2>8. CASE WorkerDies(r)
    <3>1. "died" \in WorkerStates /\ <<>> \in Seq(Frame) /\ DOMAIN <<>> = {}
      BY DEF WorkerStates
    <3> QED
      BY <2>1, <2>8, <3>1 DEF WorkerDies, WorkerEnds
  <2> QED
    BY <2>1, <2>4, <2>5, <2>6, <2>7, <2>8 DEF Worker
<1>2. PICK how \in WorkerStates, fs \in Seq(Frame) :
          /\ workerState' = [workerState EXCEPT ![r] = how]
          /\ \A i \in DOMAIN fs : fs[i] \in Reasons => fs[i] = how
          /\ \/ chan' = chan
             \/ chan' = [chan EXCEPT ![r] = chan[r] \o fs]
  BY <1>1
<1>3. /\ \A i \in DOMAIN chan[r] : chan[r][i] \notin Reasons
      /\ frames[r] = None
      /\ r \in Ollama => told[r] # "stop"
      /\ \A i \in DOMAIN runLog[r] : runLog[r][i].finish = None
  <2>1. "running" \notin Reasons
    BY DEF Reasons
  <2>2. \A i \in DOMAIN runLog[r] : runLog[r][i] \in Entry
    BY DEF StreamTyped
  <2>3. \A i \in DOMAIN runLog[r] : runLog[r][i].finish \in Reasons \cup {None}
    BY <2>2 DEF Entry
  <2>4. \A i \in DOMAIN runLog[r] : runLog[r][i].finish = None
    BY <1>0, <1>1, <2>1, <2>3 DEF ReplyInv, EntriesTrue
  <2>5. \A i \in DOMAIN chan[r] : chan[r][i] \notin Reasons
    BY <1>0, <1>1, <2>1 DEF ReplyInv, CauseInv
  <2>6. frames[r] \in Reasons \cup {None} /\ (frames[r] # None => frames[r] = "running")
    BY <1>0, <1>1 DEF ReplyInv, CauseInv, StreamTyped
  <2>7. r \in Ollama => told[r] # "stop"
    BY <1>0, <1>1 DEF ReplyInv, CauseInv
  <2> QED
    BY <2>1, <2>4, <2>5, <2>6, <2>7
<1>4. /\ chan' \in [Requests -> Seq(Frame)]
      /\ \A i \in DOMAIN chan'[r] : chan'[r][i] \in Reasons => chan'[r][i] = how
      /\ \A q \in Requests : q # r => chan'[q] = chan[q]
  <2>1. CASE chan' = chan
    BY <1>3, <2>1 DEF StreamTyped
  <2>2. CASE chan' = [chan EXCEPT ![r] = chan[r] \o fs]
    <3>1. /\ chan[r] \o fs \in Seq(Frame)
          /\ \A i \in DOMAIN (chan[r] \o fs) :
                \/ \E j \in DOMAIN chan[r] : (chan[r] \o fs)[i] = chan[r][j]
                \/ \E j \in DOMAIN fs : (chan[r] \o fs)[i] = fs[j]
      <4>1. chan[r] \in Seq(Frame)
        BY DEF StreamTyped
      <4> QED
        BY <4>1, SentHas
    <3>2. chan'[r] = chan[r] \o fs
      BY <2>2 DEF StreamTyped
    <3>3. ASSUME NEW i \in DOMAIN chan'[r], chan'[r][i] \in Reasons
          PROVE  chan'[r][i] = how
      BY <1>2, <1>3, <3>1, <3>2, <3>3
    <3> QED
      BY <2>2, <3>1, <3>3 DEF StreamTyped
  <2> QED
    BY <1>2, <2>1, <2>2
<1>5. /\ workerState' \in [Requests -> WorkerStates] /\ workerState'[r] = how
      /\ \A q \in Requests : q # r => workerState'[q] = workerState[q]
  BY <1>2 DEF StreamTyped
<1>6. StreamTyped' /\ Elsewhere(r)
  BY <1>1, <1>4, <1>5 DEF StreamTyped, Elsewhere
<1>7. CauseInv(r)'
  BY <1>1, <1>3, <1>4, <1>5 DEF CauseInv
<1>8. NotBegun(r)' /\ LogInv(r)' /\ ContextInv(r)' /\ EntriesTrue(r)'
  BY <1>0, <1>1, <1>3 DEF ReplyInv, NotBegun, LogInv, ContextInv, EntriesTrue
<1> QED
  BY <1>1, <1>6, <1>7, <1>8, ReplyMoves DEF ReplyInv

\* The gate lets a request in only when no other is under way; a cancel and a
\* client that leaves say nothing of how the reply ends.
LEMMA OthersKeepReply ==
    ASSUME StreamTyped, StreamInv, NEW r \in Requests, Others(r)
    PROVE  StreamTyped' /\ StreamInv'
<1>0. ReplyInv(r)
  BY DEF StreamInv
<1>1. UNCHANGED <<current, frames, runLog, told, conn, chan, workerState>>
  BY DEF Others, Open, CancelById, CancelByReq, WorkerCancel, ClientLeaves, handlerVars
<1>2. CASE Open(r)
  <2>1. /\ client' = client /\ streamPc[r] = "idle"
        /\ \A q \in Requests : streamPc[q] \in {"idle", "ended"}
        /\ streamPc' = [streamPc EXCEPT ![r] = IF r \in OpenAI THEN "role" ELSE "begin"]
    BY <1>2 DEF Open, Is, Goes
  <2>2. StreamTyped' /\ Elsewhere(r)
    BY <1>1, <2>1 DEF StreamTyped, Elsewhere, Places, Unlogged
  <2>3. /\ streamPc'[r] \in {"role", "begin"}
        /\ r \in Ollama => streamPc'[r] = "begin"
    BY <2>1, StreamAssumption DEF StreamTyped, StreamAssumption
  <2>4. ReplyInv(r)'
    BY <1>0, <1>1, <2>1, <2>3
    DEF ReplyInv, NotBegun, CauseInv, LogInv, ContextInv, EntriesTrue, Unlogged, Own
  <2> QED
    BY <1>1, <2>1, <2>2, <2>4, ReplyMoves
<1>3. CASE ~Open(r)
  <2>1. /\ streamPc' = streamPc
        /\ client' = client \/ client' = [client EXCEPT ![r] = FALSE]
    BY <1>3 DEF Others, CancelById, CancelByReq, WorkerCancel, ClientLeaves, handlerVars
  <2>2. StreamTyped' /\ Elsewhere(r) /\ (client'[r] => client[r])
    BY <1>1, <2>1 DEF StreamTyped, Elsewhere
  <2>3. ReplyInv(r)'
    BY <1>0, <1>1, <2>1, <2>2
    DEF ReplyInv, NotBegun, CauseInv, LogInv, ContextInv, EntriesTrue
  <2> QED
    BY <1>1, <2>1, <2>2, <2>3, ReplyMoves
<1> QED
  BY <1>2, <1>3

-----------------------------------------------------------------------------
(* The theorems about the reply *)

LEMMA StreamStarts == StreamInit => StreamTyped /\ StreamInv
<1> SUFFICES ASSUME StreamInit PROVE StreamTyped /\ StreamInv
  OBVIOUS
<1>1. <<>> \in Seq(Frame) /\ <<>> \in Seq(Entry) /\ DOMAIN <<>> = {}
  OBVIOUS
<1>2. StreamTyped
  BY <1>1 DEF StreamInit, StreamTyped, Places, Unlogged, WorkerStates
<1>3. ASSUME NEW r \in Requests
      PROVE  /\ streamPc[r] = "idle" /\ conn[r] = "none" /\ workerState[r] = "none"
             /\ chan[r] = <<>> /\ runLog[r] = <<>> /\ frames[r] = None
             /\ told[r] = None
  BY DEF StreamInit
<1>4. None # "stop"
  BY StreamAssumption DEF StreamAssumption
<1>5. StreamInv
  BY <1>1, <1>3, <1>4 DEF StreamInv, OneReply, ReplyInv, NotBegun, CauseInv, LogInv,
     ContextInv, EntriesTrue, Own
<1> QED
  BY <1>2, <1>5

LEMMA StreamStep ==
    ASSUME StreamTyped, StreamInv, [StreamNext]_streamVars
    PROVE  StreamTyped' /\ StreamInv'
<1>1. CASE UNCHANGED streamVars
  BY <1>1 DEF streamVars, StreamTyped, StreamInv, OneReply, ReplyInv, NotBegun, CauseInv,
     LogInv, ContextInv, EntriesTrue
<1>2. ASSUME NEW r \in Requests, Handler(r)
      PROVE  StreamTyped' /\ StreamInv'
  BY <1>2, WritesKeep, BeginKeeps, PullKeeps, LogKeeps, CloseKeeps DEF Handler
<1> QED
  BY <1>1, <1>2, WorkerKeeps, OthersKeepReply DEF StreamNext

\* Whenever the client leaves and whatever the worker does, a reply on the
\* NDJSON wire is logged exactly once, and its done_reason "stop" is the
\* worker's.
THEOREM NdjsonKept == StreamSpec => []NdjsonHonest
<1>1. StreamTyped /\ StreamInv /\ [StreamNext]_streamVars => StreamTyped' /\ StreamInv'
  BY StreamStep
<1>2. StreamInv => NdjsonHonest
  BY DEF StreamInv, ReplyInv, CauseInv, LogInv, NdjsonHonest, LogsOnce, Requests
<1> QED
  BY <1>1, <1>2, StreamStarts, PTL DEF StreamSpec

\* What the journal says of a reply on either wire is true: why it ended, and,
\* unless the client left before the generator was first iterated, whose context
\* it carries.
THEOREM JournalKept == StreamSpec => []JournalTruthful
<1>1. StreamTyped /\ StreamInv /\ [StreamNext]_streamVars => StreamTyped' /\ StreamInv'
  BY StreamStep
<1>2. StreamInv => JournalTruthful
  BY DEF StreamInv, ReplyInv, EntriesTrue, JournalTruthful
<1> QED
  BY <1>1, <1>2, StreamStarts, PTL DEF StreamSpec

-----------------------------------------------------------------------------
(* The experiment *)

\* A run as the journal keeps it: of a variant, or of somebody else.
JournalRun ==
    [variant : DOMAIN Variants \cup {0}, case : ToSet(Cases) \cup {NoRunId},
     dials : [Axes -> DialValues], sha : Identities]

ExperimentTyped ==
    /\ dialState \in [Axes -> DialValues] /\ original \in [Axes -> DialValues]
    /\ serving \in Identities /\ journalOf \in Seq(JournalRun)
    /\ expAt \in {"variant", "arm", "cells", "restore", "done", "left"}
    /\ variant \in DOMAIN Variants
    /\ toDo \in Seq(Axes) \/ toDo \in Seq(ToSet(Cases))
    /\ priorDials \in [Axes -> DialValues] \cup {NoDials}
    /\ raised \in {"no", "error", "interrupt"}
    /\ IsFiniteSet(matrix)

\* Where run_manifest stands, and what it has in hand there.
PlaceInv ==
    /\ expAt = "variant" => priorDials = NoDials
    /\ expAt \in {"arm", "restore"} => priorDials # NoDials /\ toDo \in Seq(Axes)
    /\ expAt = "arm" => Desired # NoDials
    /\ expAt = "cells" => /\ priorDials = NoDials <=> Desired = NoDials
                          /\ toDo \in Seq(ToSet(Cases)) /\ IsInjective(toDo)
    /\ expAt = "done" => variant = Len(Variants)
    /\ expAt \in {"variant", "arm", "cells", "done"} => raised = "no"
    /\ expAt = "left" => raised = "interrupt"
    /\ askedCase # NoCase =>
          expAt = "cells" /\ toDo # <<>> /\ askedCase.case = Head(toDo)

\* The coordinates that have their cell.
Settled(v, c) ==
    \/ v < variant
    \/ v = variant /\ \/ expAt = "done"
                      \/ expAt = "cells" /\ c \notin ToSet(toDo)
                      \/ expAt = "restore" /\ raised = "no"

MatrixInv ==
    /\ \A x \in matrix : x.variant \in DOMAIN Variants /\ x.case \in ToSet(Cases)
    /\ \A x, y \in matrix : x.variant = y.variant /\ x.case = y.case => x = y
    /\ raised # "interrupt" =>
          \A v \in DOMAIN Variants, c \in ToSet(Cases) :
             Settled(v, c) <=> \E x \in matrix : x.variant = v /\ x.case = c

\* The dials, as long as nobody else turned one and all could be put back.
DialsInv ==
    ~touched /\ ~unrestored =>
        /\ priorDials \in {original, NoDials}
        /\ expAt \in {"variant", "done"} => dialState = original
        /\ expAt = "arm" =>
              \A d \in Axes \ ToSet(toDo) : dialState[d] = DialFor(d)
        /\ expAt = "cells" =>
              \A d \in Axes :
                 dialState[d] = IF Desired = NoDials THEN original[d] ELSE DialFor(d)
        /\ expAt \in {"restore", "left"} =>
              \A d \in Axes \ ToSet(toDo) : dialState[d] = original[d]

ExperimentInv ==
    ExperimentTyped /\ PlaceInv /\ MatrixInv /\ DialsInv /\ CellsUnderTheirDials

-----------------------------------------------------------------------------
(* Lemmas *)

LEMMA ConstantsOK ==
    /\ 0 \in DialValues /\ Dials \in Seq(Axes) /\ ToSet(Dials) = Axes
    /\ NoDials \notin [Axes -> DialValues]
    /\ Cases \in Seq(ToSet(Cases)) /\ IsInjective(Cases)
    /\ Len(Variants) \in Nat \ {0} /\ DOMAIN Variants = 1..Len(Variants)
BY ExperimentAssumption, EmptySeq DEF ExperimentAssumption, Axes

\* Taking the first of a sequence takes it out of what is left, and for good
\* where nothing repeats.
LEMMA TakeFirst ==
    ASSUME NEW T, NEW s \in Seq(T), s # <<>>
    PROVE  /\ Head(s) \in ToSet(s) /\ Head(s) \in T /\ Tail(s) \in Seq(T)
           /\ ToSet(s) = ToSet(Tail(s)) \cup {Head(s)}
           /\ IsInjective(s) => IsInjective(Tail(s)) /\ Head(s) \notin ToSet(Tail(s))
           /\ Len(s) = 1 => ToSet(s) = {Head(s)}
<1> DEFINE n == Len(s)
<1>1. n \in Nat \ {0} /\ DOMAIN s = 1..n
  BY EmptySeq
<1>2. /\ Head(s) = s[1] /\ Head(s) \in T /\ Tail(s) \in Seq(T)
      /\ DOMAIN Tail(s) = 1..(n - 1)
      /\ \A i \in 1..(n - 1) : Tail(s)[i] = s[i + 1]
  BY <1>1, HeadTailProperties
<1> HIDE DEF n
<1>3. /\ \A i \in 1..(n - 1) : i + 1 \in 1..n /\ i + 1 # 1
      /\ \A i \in 1..n : i = 1 \/ (i - 1 \in 1..(n - 1) /\ (i - 1) + 1 = i)
      /\ 1 \in 1..n
  BY <1>1
<1>4. ToSet(s) = ToSet(Tail(s)) \cup {Head(s)}
  <2>1. ASSUME NEW x \in ToSet(s) PROVE x \in ToSet(Tail(s)) \cup {Head(s)}
    <3>1. PICK i \in 1..n : x = s[i]
      BY <1>1 DEF ToSet
    <3>2. CASE i = 1
      BY <1>2, <3>1, <3>2
    <3>3. CASE i - 1 \in 1..(n - 1) /\ (i - 1) + 1 = i
      <4>1. x = Tail(s)[i - 1]
        BY <1>2, <3>1, <3>3
      <4> QED
        BY <1>2, <3>3, <4>1 DEF ToSet
    <3> QED
      BY <1>3, <3>2, <3>3
  <2>2. ASSUME NEW x \in ToSet(Tail(s)) \cup {Head(s)} PROVE x \in ToSet(s)
    BY <1>1, <1>2, <1>3 DEF ToSet
  <2> QED
    BY <2>1, <2>2
<1>5. ASSUME IsInjective(s) PROVE IsInjective(Tail(s)) /\ Head(s) \notin ToSet(Tail(s))
  <2>1. \A i, j \in 1..n : s[i] = s[j] => i = j
    BY <1>1, <1>5 DEF IsInjective
  <2>2. ASSUME NEW i \in 1..(n - 1), NEW j \in 1..(n - 1), Tail(s)[i] = Tail(s)[j]
        PROVE  i = j
    <3>1. i + 1 = j + 1
      BY <1>2, <1>3, <2>1, <2>2
    <3> QED
      BY <1>1, <3>1
  <2>3. ASSUME NEW i \in 1..(n - 1), Tail(s)[i] = Head(s) PROVE FALSE
    <3>1. s[i + 1] = s[1] /\ i + 1 \in 1..n /\ 1 \in 1..n
      BY <1>2, <1>3, <2>3
    <3> QED
      BY <1>3, <2>1, <2>3, <3>1
  <2> QED
    BY <1>2, <2>2, <2>3 DEF IsInjective, ToSet
<1>6. n = 1 => ToSet(s) = {Head(s)}
  <2> SUFFICES ASSUME n = 1 PROVE \A i \in 1..n : s[i] = Head(s)
    BY <1>1, <1>2, <1>3 DEF ToSet
  <2> QED
    BY <1>2
<1> QED
  BY <1>2, <1>4, <1>5, <1>6 DEF n

LEMMA EmptyHasNone ==
    /\ ToSet(<<>>) = {} /\ IsInjective(<<>>)
    /\ \A T : <<>> \in Seq(T)
BY DEF ToSet, IsInjective

\* A variant asks for values that the dials take.
LEMMA DialForTyped ==
    ASSUME ExperimentTyped, Desired # NoDials, NEW d \in Axes
    PROVE  DialFor(d) \in DialValues
BY ExperimentAssumption DEF ExperimentAssumption, ExperimentTyped, Desired, DialFor

\* Cells for coordinates that have none keep the coordinates apart.
LEMMA CellsAdd ==
    ASSUME ExperimentTyped, MatrixInv, NEW C, C \subseteq ToSet(Cases), NEW new,
           IsFiniteSet(new), matrix' = matrix \cup new,
           \A x \in matrix : x.variant = variant => x.case \notin C,
           \A x \in new : x.variant = variant /\ x.case \in C,
           \A x, y \in new : x.case = y.case => x = y,
           \A c \in C : \E x \in new : x.case = c
    PROVE  /\ IsFiniteSet(matrix')
           /\ \A x \in matrix' : x.variant \in DOMAIN Variants /\ x.case \in ToSet(Cases)
           /\ \A x, y \in matrix' : x.variant = y.variant /\ x.case = y.case => x = y
           /\ \A v, c : (\E x \in matrix' : x.variant = v /\ x.case = c) <=>
                           \/ \E x \in matrix : x.variant = v /\ x.case = c
                           \/ v = variant /\ c \in C
<1>1. IsFiniteSet(matrix')
  BY FS_Union DEF ExperimentTyped
<1> QED
  BY <1>1 DEF MatrixInv, ExperimentTyped

-----------------------------------------------------------------------------
(* The steps of the experiment *)

\* The next variant, or the end.
LEMMA AdvanceTyped ==
    ASSUME ExperimentTyped, Advance
    PROVE  /\ variant' \in DOMAIN Variants /\ toDo' = <<>> /\ priorDials' = NoDials
           /\ \/ expAt' = "variant" /\ variant' = variant + 1
              \/ expAt' = "done" /\ variant' = variant /\ variant = Len(Variants)
           /\ \A v \in DOMAIN Variants :
                 v < variant' \/ (v = variant' /\ expAt' = "done") <=> v <= variant
<1>1. /\ variant \in 1..Len(Variants) /\ Len(Variants) \in Nat
      /\ DOMAIN Variants = 1..Len(Variants)
  BY ConstantsOK DEF ExperimentTyped
<1> DEFINE n == Len(Variants)
<1>2. /\ toDo' = <<>> /\ priorDials' = NoDials
      /\ \/ variant < n /\ expAt' = "variant" /\ variant' = variant + 1
         \/ ~(variant < n) /\ expAt' = "done" /\ variant' = variant
  BY DEF Advance
<1>3. variant \in 1..n /\ n \in Nat /\ DOMAIN Variants = 1..n
  BY <1>1
<1>x. n = Len(Variants)
  OBVIOUS
<1> HIDE DEF n
<1>4. variant = n \/ variant < n
  BY <1>3
<1>5. CASE variant < n /\ expAt' = "variant" /\ variant' = variant + 1
  BY <1>2, <1>3, <1>5
<1>6. CASE ~(variant < n) /\ expAt' = "done" /\ variant' = variant
  <2>1. variant = n
    BY <1>4, <1>6
  <2>2. \A v \in DOMAIN Variants : v <= variant /\ (v < variant \/ v = variant)
    BY <1>3, <2>1
  <2> QED
    BY <1>2, <1>3, <1>x, <1>6, <2>1, <2>2
<1> QED
  BY <1>2, <1>5, <1>6

\* A variant is over once its coordinates all have their cell.
LEMMA AdvanceKeeps ==
    ASSUME ExperimentInv, Advance, raised' = "no", askedCase' = NoCase,
           UNCHANGED <<gatewayVars, original, touched, unrestored>>,
           expAt # "done", expAt # "left", raised # "interrupt",
           ~touched /\ ~unrestored => dialState = original,
           IsFiniteSet(matrix'),
           \A x \in matrix' : x.variant \in DOMAIN Variants /\ x.case \in ToSet(Cases),
           \A x, y \in matrix' : x.variant = y.variant /\ x.case = y.case => x = y,
           \A v \in DOMAIN Variants, c \in ToSet(Cases) :
              (\E x \in matrix' : x.variant = v /\ x.case = c) <=> v <= variant
    PROVE  ExperimentInv'
<1>1. /\ variant' \in DOMAIN Variants /\ toDo' = <<>> /\ priorDials' = NoDials
      /\ \/ expAt' = "variant" /\ variant' = variant + 1
         \/ expAt' = "done" /\ variant' = variant /\ variant = Len(Variants)
      /\ \A v \in DOMAIN Variants :
            v < variant' \/ (v = variant' /\ expAt' = "done") <=> v <= variant
  BY AdvanceTyped DEF ExperimentInv
<1>2. <<>> \in Seq(Axes)
  BY EmptyHasNone
<1>3. ExperimentTyped'
  BY <1>1, <1>2 DEF ExperimentInv, ExperimentTyped, gatewayVars
<1>4. PlaceInv'
  BY <1>1 DEF PlaceInv
<1>5. \A v \in DOMAIN Variants, c \in ToSet(Cases) : Settled(v, c)' <=> v <= variant
  BY <1>1 DEF Settled
<1>6. MatrixInv'
  BY <1>5 DEF MatrixInv
<1>7. DialsInv'
  BY <1>1 DEF DialsInv, gatewayVars
<1>8. CellsUnderTheirDials'
  BY DEF ExperimentInv, CellsUnderTheirDials, gatewayVars
<1> QED
  BY <1>3, <1>4, <1>6, <1>7, <1>8 DEF ExperimentInv

\* Nothing of the variant is settled before its cells begin.
LEMMA NoneYet ==
    ASSUME ExperimentInv, expAt \in {"variant", "arm"} \/ (expAt = "restore" /\ raised = "error")
    PROVE  /\ raised # "interrupt"
           /\ \A x \in matrix : x.variant # variant
           /\ \A v \in DOMAIN Variants, c \in ToSet(Cases) :
                 (\E x \in matrix : x.variant = v /\ x.case = c) <=> v < variant
<1>1. raised # "interrupt"
  BY DEF ExperimentInv, PlaceInv
<1>2. variant \in Nat /\ DOMAIN Variants \subseteq Nat
  BY ConstantsOK DEF ExperimentInv, ExperimentTyped
<1>3. \A v \in DOMAIN Variants, c \in ToSet(Cases) : Settled(v, c) <=> v < variant
  BY DEF Settled
<1>4. \A v \in DOMAIN Variants, c \in ToSet(Cases) :
          (\E x \in matrix : x.variant = v /\ x.case = c) <=> v < variant
  BY <1>1, <1>3 DEF ExperimentInv, MatrixInv
<1>5. \A x \in matrix : x.variant # variant
  BY <1>2, <1>4 DEF ExperimentInv, MatrixInv
<1> QED
  BY <1>1, <1>4, <1>5

\* except Exception: the variant is lost as a whole, and every coordinate has its
\* error cell.
LEMMA AllErrorsSettle ==
    ASSUME ExperimentInv, matrix' = AllErrors,
           expAt \in {"variant", "arm"} \/ (expAt = "restore" /\ raised = "error")
    PROVE  /\ IsFiniteSet(matrix')
           /\ \A x \in matrix' : x.variant \in DOMAIN Variants /\ x.case \in ToSet(Cases)
           /\ \A x, y \in matrix' : x.variant = y.variant /\ x.case = y.case => x = y
           /\ \A v \in DOMAIN Variants, c \in ToSet(Cases) :
                 (\E x \in matrix' : x.variant = v /\ x.case = c) <=> v <= variant
<1>1. /\ \A x \in matrix : x.variant # variant
      /\ \A v \in DOMAIN Variants, c \in ToSet(Cases) :
            (\E x \in matrix : x.variant = v /\ x.case = c) <=> v < variant
  BY NoneYet
<1>2. IsFiniteSet(ToSet(Cases))
  <2>1. Cases \in [1..Len(Cases) -> ToSet(Cases)] /\ Len(Cases) \in Nat
    BY ConstantsOK
  <2>2. Cases \in Surjection(1..Len(Cases), ToSet(Cases))
    BY <2>1 DEF Surjection, ToSet
  <2>3. IsFiniteSet(1..Len(Cases))
    BY <2>1, FS_Interval
  <2> QED
    BY <2>2, <2>3, FS_Surjection
<1> DEFINE new == {Cell(c, "error", NoRunId) : c \in ToSet(Cases)}
           f == [c \in ToSet(Cases) |-> Cell(c, "error", NoRunId)]
<1>3. /\ matrix' = matrix \cup new /\ IsFiniteSet(new)
      /\ \A x \in new : x.variant = variant /\ x.case \in ToSet(Cases)
      /\ \A x, y \in new : x.case = y.case => x = y
      /\ \A c \in ToSet(Cases) : \E x \in new : x.case = c
  <2>1. f \in [ToSet(Cases) -> new] /\ \A x \in new : \E c \in ToSet(Cases) : f[c] = x
    OBVIOUS
  <2>2. \A c \in ToSet(Cases) : f[c] \in new /\ f[c].variant = variant /\ f[c].case = c
    BY DEF Cell
  <2>3. matrix' = matrix \cup new
    BY DEF AllErrors
  <2> HIDE DEF f, new
  <2>4. f \in Surjection(ToSet(Cases), new)
    BY <2>1 DEF Surjection
  <2>5. IsFiniteSet(new)
    BY <1>2, <2>4, FS_Surjection
  <2> QED
    BY <2>1, <2>2, <2>3, <2>5
<1> HIDE DEF new, f
<1>4. /\ IsFiniteSet(matrix')
      /\ \A x \in matrix' : x.variant \in DOMAIN Variants /\ x.case \in ToSet(Cases)
      /\ \A x, y \in matrix' : x.variant = y.variant /\ x.case = y.case => x = y
      /\ \A v, c : (\E x \in matrix' : x.variant = v /\ x.case = c) <=>
                      \/ \E x \in matrix : x.variant = v /\ x.case = c
                      \/ v = variant /\ c \in ToSet(Cases)
  <2>1. ExperimentTyped /\ MatrixInv
    BY DEF ExperimentInv
  <2>2. \A x \in matrix : x.variant = variant => x.case \notin ToSet(Cases)
    BY <1>1
  <2>3. ToSet(Cases) \subseteq ToSet(Cases)
    OBVIOUS
  <2> QED
    BY <1>2, <1>3, <2>1, <2>2, <2>3, CellsAdd
<1>5. \A v \in DOMAIN Variants : v <= variant <=> v < variant \/ v = variant
  BY ConstantsOK DEF ExperimentInv, ExperimentTyped
<1>6. ASSUME NEW v \in DOMAIN Variants, NEW c \in ToSet(Cases)
      PROVE  (\E x \in matrix' : x.variant = v /\ x.case = c) <=> v <= variant
  BY <1>1, <1>4, <1>5
<1> QED
  BY <1>4, <1>6

\* A cell is settled, and its case is no longer to do.
LEMMA CellSettles ==
    ASSUME ExperimentInv, expAt = "cells", toDo # <<>>, NEW status, NEW id,
           matrix' = Appended(Head(toDo), status, id), toDo' = Tail(toDo),
           UNCHANGED <<variant, expAt, raised>>
    PROVE  /\ MatrixInv' /\ IsFiniteSet(matrix')
           /\ toDo' \in Seq(ToSet(Cases)) /\ IsInjective(toDo')
<1> DEFINE c0 == Head(toDo)
           new == {Cell(c0, status, id)}
<1>1. /\ c0 \in ToSet(Cases) /\ toDo' \in Seq(ToSet(Cases)) /\ IsInjective(toDo')
      /\ ToSet(toDo) = ToSet(toDo') \cup {c0} /\ c0 \notin ToSet(toDo')
      /\ raised # "interrupt" /\ variant \in DOMAIN Variants
      /\ variant \in Nat /\ DOMAIN Variants \subseteq Nat
  BY TakeFirst, ConstantsOK DEF ExperimentInv, PlaceInv, ExperimentTyped
<1>2. /\ matrix' = matrix \cup new /\ IsFiniteSet(new)
      /\ \A x \in new : x.variant = variant /\ x.case = c0
      /\ \A x, y \in new : x = y
      /\ \E x \in new : x.case = c0
  <2>1. IsFiniteSet(new)
    BY FS_Singleton
  <2>2. Cell(c0, status, id).variant = variant /\ Cell(c0, status, id).case = c0
    BY DEF Cell
  <2>3. matrix' = matrix \cup new
    BY DEF Appended
  <2> QED
    BY <2>1, <2>2, <2>3
<1> HIDE DEF new, c0
<1>3. \A v \in DOMAIN Variants, c \in ToSet(Cases) :
          (\E x \in matrix : x.variant = v /\ x.case = c)
          <=> v < variant \/ (v = variant /\ c \notin ToSet(toDo))
  BY <1>1 DEF ExperimentInv, MatrixInv, Settled
<1>4. \A x \in matrix : x.variant = variant => x.case \notin {c0}
  <2> SUFFICES ASSUME NEW x \in matrix, x.variant = variant, x.case = c0 PROVE FALSE
    OBVIOUS
  <2>1. c0 \in ToSet(toDo) /\ ~(variant < variant)
    BY <1>1
  <2> QED
    BY <1>1, <1>3, <2>1
<1>5. /\ IsFiniteSet(matrix')
      /\ \A x \in matrix' : x.variant \in DOMAIN Variants /\ x.case \in ToSet(Cases)
      /\ \A x, y \in matrix' : x.variant = y.variant /\ x.case = y.case => x = y
      /\ \A v, c : (\E x \in matrix' : x.variant = v /\ x.case = c) <=>
                      \/ \E x \in matrix : x.variant = v /\ x.case = c
                      \/ v = variant /\ c \in {c0}
  <2>1. ExperimentTyped /\ MatrixInv /\ {c0} \subseteq ToSet(Cases)
    BY <1>1 DEF ExperimentInv
  <2> QED
    BY <1>2, <1>4, <2>1, CellsAdd
<1>6. \A v \in DOMAIN Variants, c \in ToSet(Cases) :
          Settled(v, c)' <=> \E x \in matrix' : x.variant = v /\ x.case = c
  <2> SUFFICES ASSUME NEW v \in DOMAIN Variants, NEW c \in ToSet(Cases)
               PROVE  Settled(v, c)' <=> \E x \in matrix' : x.variant = v /\ x.case = c
    OBVIOUS
  <2>1. (\E x \in matrix' : x.variant = v /\ x.case = c) <=>
           \/ v < variant
           \/ v = variant /\ (c \notin ToSet(toDo) \/ c = c0)
    <3>1. (\E x \in matrix : x.variant = v /\ x.case = c)
          <=> v < variant \/ (v = variant /\ c \notin ToSet(toDo))
      BY <1>3
    <3>2. (\E x \in matrix' : x.variant = v /\ x.case = c) <=>
              \/ \E x \in matrix : x.variant = v /\ x.case = c
              \/ v = variant /\ c \in {c0}
      BY <1>5, Zenon
    <3> QED
      BY <3>1, <3>2
  <2>2. Settled(v, c)' <=> v < variant \/ (v = variant /\ c \notin ToSet(toDo'))
    BY <1>1 DEF Settled
  <2> QED
    BY <1>1, <2>1, <2>2
<1> QED
  BY <1>1, <1>5, <1>6 DEF MatrixInv

\* A run joins the journal.
LEMMA JournalGrows ==
    ASSUME ExperimentTyped, NEW run \in JournalRun, journalOf' = Append(journalOf, run)
    PROVE  /\ journalOf' \in Seq(JournalRun)
           /\ \A i \in DOMAIN journalOf' :
                 \/ journalOf'[i] = run
                 \/ i \in DOMAIN journalOf /\ journalOf'[i] = journalOf[i]
<1>1. /\ journalOf' \in Seq(JournalRun) /\ Len(journalOf') = Len(journalOf) + 1
      /\ Len(journalOf) \in Nat /\ DOMAIN journalOf = 1..Len(journalOf)
      /\ \A i \in 1..Len(journalOf) : journalOf'[i] = journalOf[i]
      /\ journalOf'[Len(journalOf) + 1] = run
  BY AppendProperties, LenProperties DEF ExperimentTyped
<1>2. DOMAIN journalOf' = 1..(Len(journalOf) + 1)
  BY <1>1, LenProperties
<1>3. ASSUME NEW i \in DOMAIN journalOf'
      PROVE  \/ journalOf'[i] = run
             \/ i \in DOMAIN journalOf /\ journalOf'[i] = journalOf[i]
  <2> DEFINE n == Len(journalOf)
  <2>1. n \in Nat /\ i \in 1..(n + 1)
    BY <1>1, <1>2
  <2> HIDE DEF n
  <2>2. i \in 1..n \/ i = n + 1
    BY <2>1
  <2> QED
    BY <1>1, <2>2 DEF n
<1>4. journalOf' \in Seq(JournalRun)
  BY <1>1
<1> QED
  BY <1>3, <1>4

\* A run that is made for a cell is made under the dials of its variant.
LEMMA CellRun ==
    ASSUME ExperimentInv, expAt = "cells", NEW c \in ToSet(Cases),
           \/ journalOf' = journalOf
           \/ journalOf' = Append(journalOf, RunOf(c)),
           UNCHANGED <<original, touched, unrestored>>
    PROVE  /\ journalOf' \in Seq(JournalRun)
           /\ CellsUnderTheirDials'
<1>1. CASE journalOf' = journalOf
  BY <1>1 DEF ExperimentInv, ExperimentTyped, CellsUnderTheirDials
<1>2. CASE journalOf' = Append(journalOf, RunOf(c))
  <2>1. RunOf(c) \in JournalRun
    BY DEF ExperimentInv, ExperimentTyped, RunOf, JournalRun
  <2>2. /\ journalOf' \in Seq(JournalRun)
        /\ \A i \in DOMAIN journalOf' :
              \/ journalOf'[i] = RunOf(c)
              \/ i \in DOMAIN journalOf /\ journalOf'[i] = journalOf[i]
    BY <1>2, <2>1, JournalGrows DEF ExperimentInv
  <2>3. RunOf(c).variant = variant /\ RunOf(c).dials = dialState
    BY DEF RunOf
  <2>4. ASSUME ~touched, ~unrestored, NEW d \in Axes
        PROVE  dialState[d] = IF Variants[variant] = NoDials THEN original[d]
                              ELSE IF d \in DOMAIN Variants[variant]
                                   THEN Variants[variant][d] ELSE 0
    BY <2>4 DEF ExperimentInv, DialsInv, Desired, DialFor
  <2> HIDE DEF RunOf
  <2>5. CellsUnderTheirDials'
    <3> SUFFICES ASSUME ~touched, ~unrestored, NEW i \in DOMAIN journalOf',
                        journalOf'[i].variant > 0, NEW d \in Axes
                 PROVE  journalOf'[i].dials[d] =
                           IF Variants[journalOf'[i].variant] = NoDials THEN original[d]
                           ELSE IF d \in DOMAIN Variants[journalOf'[i].variant]
                                THEN Variants[journalOf'[i].variant][d] ELSE 0
      BY DEF CellsUnderTheirDials
    <3>1. CASE journalOf'[i] = RunOf(c)
      BY <2>3, <2>4, <3>1
    <3>2. CASE i \in DOMAIN journalOf /\ journalOf'[i] = journalOf[i]
      BY <3>2 DEF ExperimentInv, CellsUnderTheirDials
    <3> QED
      BY <2>2, <3>1, <3>2
  <2> QED
    BY <2>2, <2>5
<1> QED
  BY <1>1, <1>2

LEMMA StartKeeps ==
    ASSUME ExperimentInv, StartPlain \/ ReadAxes
    PROVE  ExperimentInv'
<1>1. /\ expAt = "variant" /\ priorDials = NoDials /\ raised = "no"
      /\ UNCHANGED <<gatewayVars, variant, matrix, raised, original, touched, unrestored,
                     askedCase>>
      /\ askedCase = NoCase
  BY DEF ExperimentInv, PlaceInv, StartPlain, ReadAxes
<1>2. CellsUnderTheirDials'
  BY <1>1 DEF ExperimentInv, CellsUnderTheirDials, gatewayVars
<1>3. /\ \A v \in DOMAIN Variants, c \in ToSet(Cases) :
            (\E x \in matrix : x.variant = v /\ x.case = c) <=> v < variant
  BY <1>1, NoneYet
<1>4. CASE StartPlain
  <2>1. /\ expAt' = "cells" /\ toDo' = Cases /\ priorDials' = NoDials /\ Desired = NoDials
        /\ Desired' = NoDials
    BY <1>1, <1>4 DEF StartPlain, Desired
  <2>2. ExperimentTyped' /\ PlaceInv'
    BY <1>1, <2>1, ConstantsOK DEF ExperimentInv, ExperimentTyped, PlaceInv, gatewayVars
  <2>3. \A v \in DOMAIN Variants, c \in ToSet(Cases) : Settled(v, c)' <=> v < variant
    BY <1>1, <2>1 DEF Settled
  <2>4. MatrixInv'
    BY <1>1, <1>3, <2>3 DEF ExperimentInv, MatrixInv
  <2>5. DialsInv'
    BY <1>1, <2>1 DEF ExperimentInv, DialsInv, gatewayVars
  <2> QED
    BY <1>2, <2>2, <2>4, <2>5 DEF ExperimentInv
<1>5. CASE ReadAxes
  <2>1. /\ expAt' = "arm" /\ toDo' = Dials /\ priorDials' = dialState /\ Desired # NoDials
        /\ Desired' # NoDials
    BY <1>1, <1>5 DEF ReadAxes, Desired
  <2>2. ExperimentTyped' /\ PlaceInv'
    BY <1>1, <2>1, ConstantsOK DEF ExperimentInv, ExperimentTyped, PlaceInv, gatewayVars
  <2>3. \A v \in DOMAIN Variants, c \in ToSet(Cases) : Settled(v, c)' <=> v < variant
    BY <1>1, <2>1 DEF Settled
  <2>4. MatrixInv'
    BY <1>1, <1>3, <2>3 DEF ExperimentInv, MatrixInv
  <2>5. DialsInv'
    BY <1>1, <2>1, ConstantsOK DEF ExperimentInv, DialsInv, gatewayVars
  <2> QED
    BY <1>2, <2>2, <2>4, <2>5 DEF ExperimentInv
<1> QED
  BY <1>4, <1>5

LEMMA AxesFailKeeps ==
    ASSUME ExperimentInv, AxesFail
    PROVE  ExperimentInv'
<1>1. /\ expAt = "variant" /\ raised = "no" /\ askedCase = NoCase
      /\ UNCHANGED <<gatewayVars, askedCase, raised, original, touched, unrestored>>
      /\ matrix' = AllErrors /\ Advance
  BY DEF ExperimentInv, PlaceInv, AxesFail
<1>2. /\ IsFiniteSet(matrix')
      /\ \A x \in matrix' : x.variant \in DOMAIN Variants /\ x.case \in ToSet(Cases)
      /\ \A x, y \in matrix' : x.variant = y.variant /\ x.case = y.case => x = y
      /\ \A v \in DOMAIN Variants, c \in ToSet(Cases) :
            (\E x \in matrix' : x.variant = v /\ x.case = c) <=> v <= variant
  BY <1>1, AllErrorsSettle
<1>3. ~touched /\ ~unrestored => dialState = original
  BY <1>1 DEF ExperimentInv, DialsInv
<1> QED
  BY <1>1, <1>2, <1>3, AdvanceKeeps

\* What holds of the matrix and the journal when neither changes, and no cell
\* is settled or unsettled.
LEMMA MatrixStays ==
    ASSUME ExperimentInv,
           UNCHANGED <<journalOf, variant, matrix, raised, original, touched, unrestored>>,
           \A v \in DOMAIN Variants, c \in ToSet(Cases) : Settled(v, c)' <=> Settled(v, c)
    PROVE  MatrixInv' /\ CellsUnderTheirDials'
BY DEF ExperimentInv, MatrixInv, CellsUnderTheirDials

\* A dial is set: it is the variant's, and no other is changed.
LEMMA ArmKeeps ==
    ASSUME ExperimentInv, NEW d \in Axes, Arm(d)
    PROVE  ExperimentInv'
<1>1. /\ expAt = "arm" /\ d = Head(toDo) /\ toDo # <<>>
      /\ dialState' = [dialState EXCEPT ![d] = DialFor(d)]
      /\ \/ expAt' = "cells" /\ toDo' = Cases /\ Len(toDo) = 1
         \/ expAt' = "arm" /\ toDo' = Tail(toDo)
      /\ UNCHANGED <<serving, journalOf, variant, priorDials, askedCase, matrix, raised,
                     original, touched, unrestored>>
  BY DEF Arm
<1>2. /\ Desired # NoDials /\ priorDials # NoDials /\ raised = "no" /\ askedCase = NoCase
      /\ toDo \in Seq(Axes) /\ Desired' = Desired
  BY <1>1 DEF ExperimentInv, PlaceInv, Desired
<1>3. /\ Tail(toDo) \in Seq(Axes) /\ ToSet(toDo) = ToSet(Tail(toDo)) \cup {d}
      /\ Len(toDo) = 1 => ToSet(toDo) = {d}
  BY <1>1, <1>2, TakeFirst
<1>4. DialFor(d) \in DialValues
  BY <1>2, DialForTyped DEF ExperimentInv
<1>5. ExperimentTyped'
  BY <1>1, <1>3, <1>4, ConstantsOK DEF ExperimentInv, ExperimentTyped
<1>6. PlaceInv'
  BY <1>1, <1>2, <1>3, ConstantsOK DEF PlaceInv
<1>7. MatrixInv' /\ CellsUnderTheirDials'
  BY <1>1, MatrixStays DEF Settled
<1>8. DialsInv'
  <2> SUFFICES ASSUME ~touched, ~unrestored PROVE DialsInv'
    BY <1>1 DEF DialsInv
  <2>1. /\ \A e \in Axes \ ToSet(toDo) : dialState[e] = DialFor(e)
        /\ priorDials \in {original, NoDials}
    BY <1>1 DEF ExperimentInv, DialsInv
  <2>2. DialFor(d)' = DialFor(d) /\ \A e \in Axes : e # d => dialState'[e] = dialState[e]
    BY <1>1, <1>2 DEF DialFor, ExperimentInv, ExperimentTyped
  <2>3. \A e \in Axes : DialFor(e)' = DialFor(e)
    BY <1>2 DEF DialFor
  <2>4. dialState'[d] = DialFor(d)
    BY <1>1 DEF ExperimentInv, ExperimentTyped
  <2>5. \A e \in Axes : e = d \/ e \notin ToSet(toDo) => dialState'[e] = DialFor(e)'
    BY <2>1, <2>2, <2>3, <2>4
  <2>6. CASE expAt' = "cells"
    BY <1>1, <1>2, <1>3, <2>1, <2>5, <2>6 DEF DialsInv
  <2>7. CASE expAt' = "arm" /\ toDo' = Tail(toDo)
    BY <1>1, <1>3, <2>1, <2>5, <2>7 DEF DialsInv
  <2> QED
    BY <1>1, <2>6, <2>7
<1> QED
  BY <1>5, <1>6, <1>7, <1>8 DEF ExperimentInv

\* A dial that could not be set leaves the `with` block before it opened: all
\* the dials are put back.
LEMMA ArmFailsKeeps ==
    ASSUME ExperimentInv, NEW d \in Axes, ArmFails(d)
    PROVE  ExperimentInv'
<1>1. /\ expAt = "arm" /\ expAt' = "restore" /\ raised' = "error" /\ toDo' = Dials
      /\ dialState' \in {dialState, [dialState EXCEPT ![d] = DialFor(d)]}
      /\ UNCHANGED <<serving, journalOf, variant, priorDials, askedCase, matrix,
                     original, touched, unrestored>>
  BY DEF ArmFails
<1>2. /\ Desired # NoDials /\ priorDials # NoDials /\ raised = "no" /\ askedCase = NoCase
      /\ DialFor(d) \in DialValues
  BY <1>1, DialForTyped DEF ExperimentInv, PlaceInv
<1>3. ExperimentTyped'
  BY <1>1, <1>2, ConstantsOK DEF ExperimentInv, ExperimentTyped
<1>4. PlaceInv'
  BY <1>1, <1>2, ConstantsOK DEF PlaceInv
<1>5. \A v \in DOMAIN Variants, c \in ToSet(Cases) : Settled(v, c)' <=> Settled(v, c)
  BY <1>1 DEF Settled
<1>6. MatrixInv' /\ CellsUnderTheirDials'
  BY <1>1, <1>2, <1>5 DEF ExperimentInv, MatrixInv, CellsUnderTheirDials
<1>7. DialsInv'
  BY <1>1, ConstantsOK DEF ExperimentInv, DialsInv
<1> QED
  BY <1>3, <1>4, <1>6, <1>7 DEF ExperimentInv

\* A case is asked for, or its completion fails.
LEMMA CaseKeeps ==
    ASSUME ExperimentInv, NEW c \in ToSet(Cases), AskCase(c) \/ AskFails(c)
    PROVE  ExperimentInv'
<1>1. /\ expAt = "cells" /\ askedCase = NoCase /\ toDo # <<>> /\ c = Head(toDo)
      /\ journalOf' = journalOf \/ journalOf' = Append(journalOf, RunOf(c))
      /\ UNCHANGED <<dialState, serving, expAt, variant, priorDials, raised,
                     original, touched, unrestored>>
  BY DEF AskCase, AskFails
<1>2. journalOf' \in Seq(JournalRun) /\ CellsUnderTheirDials'
  BY <1>1, CellRun
<1>3. DialsInv'
  BY <1>1 DEF ExperimentInv, DialsInv, Desired, DialFor
<1>4. CASE AskCase(c)
  <2>1. matrix' = matrix /\ toDo' = toDo /\ askedCase'.case = c
    BY <1>4 DEF AskCase
  <2>2. ExperimentTyped' /\ PlaceInv' /\ MatrixInv'
    BY <1>1, <1>2, <2>1
    DEF ExperimentInv, ExperimentTyped, PlaceInv, MatrixInv, Settled, Desired
  <2> QED
    BY <1>2, <1>3, <2>2 DEF ExperimentInv
<1>5. CASE AskFails(c)
  <2>1. /\ matrix' = Appended(Head(toDo), "error", NoRunId) /\ toDo' = Tail(toDo)
        /\ askedCase' = NoCase
    BY <1>1, <1>5 DEF AskFails
  <2>2. /\ MatrixInv' /\ IsFiniteSet(matrix')
        /\ toDo' \in Seq(ToSet(Cases)) /\ IsInjective(toDo')
    BY <1>1, <2>1, CellSettles
  <2>3. ExperimentTyped' /\ PlaceInv'
    BY <1>1, <1>2, <2>1, <2>2 DEF ExperimentInv, ExperimentTyped, PlaceInv, Desired
  <2> QED
    BY <1>2, <1>3, <2>2, <2>3 DEF ExperimentInv
<1> QED
  BY <1>4, <1>5

LEMMA FetchKeeps ==
    ASSUME ExperimentInv, Fetch
    PROVE  ExperimentInv'
<1>1. expAt = "cells" /\ toDo # <<>> /\ askedCase.case = Head(toDo)
  BY DEF ExperimentInv, PlaceInv, Fetch
<1>2. /\ UNCHANGED <<dialState, serving, journalOf, expAt, variant, priorDials, raised,
                     original, touched, unrestored>>
      /\ toDo' = Tail(toDo) /\ askedCase' = NoCase
      /\ \E status, id : matrix' = Appended(Head(toDo), status, id)
  BY <1>1 DEF Fetch, gatewayVars
<1>3. /\ MatrixInv' /\ IsFiniteSet(matrix')
      /\ toDo' \in Seq(ToSet(Cases)) /\ IsInjective(toDo')
  BY <1>1, <1>2, CellSettles
<1>4. ExperimentTyped' /\ PlaceInv'
  BY <1>1, <1>2, <1>3 DEF ExperimentInv, ExperimentTyped, PlaceInv, Desired
<1>5. DialsInv' /\ CellsUnderTheirDials'
  BY <1>1, <1>2 DEF ExperimentInv, DialsInv, Desired, DialFor, CellsUnderTheirDials
<1> QED
  BY <1>3, <1>4, <1>5 DEF ExperimentInv

\* The cases of a variant are through.
LEMMA CellsDoneKeeps ==
    ASSUME ExperimentInv, CellsDone
    PROVE  ExperimentInv'
<1>1. /\ expAt = "cells" /\ toDo = <<>> /\ askedCase = NoCase /\ raised = "no"
      /\ UNCHANGED <<gatewayVars, askedCase, matrix, raised, original, touched, unrestored>>
  BY DEF ExperimentInv, PlaceInv, CellsDone
<1>2. \A v \in DOMAIN Variants, c \in ToSet(Cases) :
          Settled(v, c) <=> v < variant \/ v = variant
  BY <1>1, EmptyHasNone DEF Settled
<1>3. CASE priorDials = NoDials /\ Advance
  <2>1. Desired = NoDials
    BY <1>1, <1>3 DEF ExperimentInv, PlaceInv
  <2>2. ~touched /\ ~unrestored => dialState = original
    <3> SUFFICES ASSUME ~touched, ~unrestored PROVE dialState = original
      OBVIOUS
    <3>1. \A d \in Axes : dialState[d] = original[d]
      BY <1>1, <2>1 DEF ExperimentInv, DialsInv
    <3> QED
      BY <3>1 DEF ExperimentInv, ExperimentTyped
  <2>3. \A v \in DOMAIN Variants : v <= variant <=> v < variant \/ v = variant
    BY ConstantsOK DEF ExperimentInv, ExperimentTyped
  <2>4. /\ IsFiniteSet(matrix')
        /\ \A x \in matrix' : x.variant \in DOMAIN Variants /\ x.case \in ToSet(Cases)
        /\ \A x, y \in matrix' : x.variant = y.variant /\ x.case = y.case => x = y
        /\ \A v \in DOMAIN Variants, c \in ToSet(Cases) :
              (\E x \in matrix' : x.variant = v /\ x.case = c) <=> v <= variant
    BY <1>1, <1>2, <2>3 DEF ExperimentInv, MatrixInv, ExperimentTyped
  <2> QED
    BY <1>1, <1>3, <2>2, <2>4, AdvanceKeeps
<1>4. CASE /\ priorDials # NoDials /\ expAt' = "restore" /\ toDo' = Dials
           /\ UNCHANGED <<variant, priorDials>>
  <2>1. ExperimentTyped' /\ PlaceInv'
    BY <1>1, <1>4, ConstantsOK DEF ExperimentInv, ExperimentTyped, PlaceInv, gatewayVars
  <2>2. \A v \in DOMAIN Variants, c \in ToSet(Cases) : Settled(v, c)' <=> Settled(v, c)
    BY <1>1, <1>2, <1>4 DEF Settled
  <2>3. MatrixInv' /\ CellsUnderTheirDials'
    BY <1>1, <1>4, <2>2, MatrixStays DEF gatewayVars
  <2>4. DialsInv'
    BY <1>1, <1>4, ConstantsOK DEF ExperimentInv, DialsInv, gatewayVars
  <2> QED
    BY <2>1, <2>3, <2>4 DEF ExperimentInv
<1> QED
  BY <1>3, <1>4 DEF CellsDone

\* ^C leaves the matrix as it is, and the dials to the finally block.
LEMMA InterruptKeeps ==
    ASSUME ExperimentInv, Interrupt
    PROVE  ExperimentInv'
<1>1. /\ expAt \in {"variant", "arm", "cells"} /\ raised' = "interrupt" /\ askedCase' = NoCase
      /\ UNCHANGED <<gatewayVars, variant, priorDials, matrix, original, touched, unrestored>>
      /\ \/ priorDials = NoDials /\ expAt' = "left" /\ toDo' = <<>>
         \/ priorDials # NoDials /\ expAt' = "restore" /\ toDo' = Dials
  BY DEF Interrupt
<1>2. priorDials = NoDials => expAt = "variant" \/ (expAt = "cells" /\ Desired = NoDials)
  BY <1>1 DEF ExperimentInv, PlaceInv
<1>3. ExperimentTyped' /\ PlaceInv'
  BY <1>1, ConstantsOK, EmptyHasNone DEF ExperimentInv, ExperimentTyped, PlaceInv, gatewayVars
<1>4. MatrixInv' /\ CellsUnderTheirDials'
  BY <1>1 DEF ExperimentInv, MatrixInv, CellsUnderTheirDials, gatewayVars
<1>5. DialsInv'
  <2> SUFFICES ASSUME ~touched, ~unrestored PROVE DialsInv'
    BY <1>1 DEF DialsInv
  <2>1. CASE priorDials = NoDials /\ expAt' = "left"
    <3>1. \A d \in Axes : dialState[d] = original[d]
      BY <1>2, <2>1 DEF ExperimentInv, DialsInv
    <3>2. dialState = original
      BY <3>1 DEF ExperimentInv, ExperimentTyped
    <3> QED
      BY <1>1, <2>1, <3>2 DEF DialsInv, gatewayVars
  <2>2. CASE expAt' = "restore" /\ toDo' = Dials
    BY <1>1, <2>2, ConstantsOK DEF ExperimentInv, DialsInv, gatewayVars
  <2> QED
    BY <1>1, <2>1, <2>2
<1> QED
  BY <1>3, <1>4, <1>5 DEF ExperimentInv

\* ^C in the finally block: what it had not come to is still to do.
LEMMA InterruptRestoreKeeps ==
    ASSUME ExperimentInv, InterruptRestore
    PROVE  ExperimentInv'
<1>1. /\ expAt = "restore" /\ expAt' = "left" /\ raised' = "interrupt" /\ priorDials' = NoDials
      /\ UNCHANGED <<gatewayVars, variant, toDo, askedCase, matrix, original, touched, unrestored>>
      /\ askedCase = NoCase
  BY DEF InterruptRestore, ExperimentInv, PlaceInv
<1>2. ExperimentTyped' /\ PlaceInv'
  BY <1>1 DEF ExperimentInv, ExperimentTyped, PlaceInv, gatewayVars
<1>3. MatrixInv' /\ CellsUnderTheirDials'
  BY <1>1 DEF ExperimentInv, MatrixInv, CellsUnderTheirDials, gatewayVars
<1>4. DialsInv'
  BY <1>1 DEF ExperimentInv, DialsInv, gatewayVars
<1> QED
  BY <1>2, <1>3, <1>4 DEF ExperimentInv

\* A dial is put back, or passed over.
LEMMA RestoreKeeps ==
    ASSUME ExperimentInv, NEW d \in Axes, RestoreDial(d) \/ RestoreDialFails(d)
    PROVE  ExperimentInv'
<1>1. /\ expAt = "restore" /\ toDo # <<>> /\ d = Head(toDo) /\ toDo' = Tail(toDo)
      /\ UNCHANGED <<serving, journalOf, expAt, variant, priorDials, askedCase, matrix, raised,
                     original, touched>>
      /\ \/ dialState' = [dialState EXCEPT ![d] = priorDials[d]] /\ unrestored' = unrestored
         \/ dialState' = dialState /\ unrestored' = TRUE
  BY DEF RestoreDial, RestoreDialFails, gatewayVars
<1>2. /\ priorDials \in [Axes -> DialValues] /\ toDo \in Seq(Axes) /\ askedCase = NoCase
  BY <1>1 DEF ExperimentInv, ExperimentTyped, PlaceInv
<1>3. toDo' \in Seq(Axes) /\ ToSet(toDo) = ToSet(toDo') \cup {d}
  BY <1>1, <1>2, TakeFirst
<1>4. ExperimentTyped' /\ PlaceInv'
  BY <1>1, <1>2, <1>3 DEF ExperimentInv, ExperimentTyped, PlaceInv
<1>5. \A v \in DOMAIN Variants, c \in ToSet(Cases) : Settled(v, c)' <=> Settled(v, c)
  BY <1>1 DEF Settled
<1>6. MatrixInv' /\ CellsUnderTheirDials'
  BY <1>1, <1>5 DEF ExperimentInv, MatrixInv, CellsUnderTheirDials
<1>7. DialsInv'
  <2> SUFFICES ASSUME ~touched', ~unrestored' PROVE DialsInv'
    BY DEF DialsInv
  <2>1. /\ dialState' = [dialState EXCEPT ![d] = priorDials[d]]
        /\ ~touched /\ ~unrestored
    BY <1>1
  <2>2. priorDials = original /\ \A e \in Axes \ ToSet(toDo) : dialState[e] = original[e]
    BY <1>1, <1>2, <2>1, ConstantsOK DEF ExperimentInv, DialsInv
  <2>3. \A e \in Axes : e = d \/ e \notin ToSet(toDo) => dialState'[e] = original[e]
    BY <2>1, <2>2 DEF ExperimentInv, ExperimentTyped
  <2> QED
    BY <1>1, <1>3, <2>2, <2>3 DEF DialsInv
<1> QED
  BY <1>4, <1>6, <1>7 DEF ExperimentInv

\* The `with` block is left: every dial had its turn.
LEMMA LeaveKeeps ==
    ASSUME ExperimentInv, LeaveWith
    PROVE  ExperimentInv'
<1>1. /\ expAt = "restore" /\ toDo = <<>> /\ askedCase = NoCase
      /\ UNCHANGED <<gatewayVars, askedCase, original, touched, unrestored>>
      /\ raised \in {"no", "error", "interrupt"}
  BY DEF ExperimentInv, ExperimentTyped, PlaceInv, LeaveWith
<1>2. ~touched /\ ~unrestored => dialState = original
  <2> SUFFICES ASSUME ~touched, ~unrestored PROVE dialState = original
    OBVIOUS
  <2>1. \A d \in Axes : dialState[d] = original[d]
    BY <1>1, EmptyHasNone DEF ExperimentInv, DialsInv
  <2> QED
    BY <2>1 DEF ExperimentInv, ExperimentTyped
<1>3. CASE raised = "error"
  <2>1. matrix' = AllErrors /\ Advance /\ raised' = "no"
    BY <1>3 DEF LeaveWith
  <2>2. /\ IsFiniteSet(matrix')
        /\ \A x \in matrix' : x.variant \in DOMAIN Variants /\ x.case \in ToSet(Cases)
        /\ \A x, y \in matrix' : x.variant = y.variant /\ x.case = y.case => x = y
        /\ \A v \in DOMAIN Variants, c \in ToSet(Cases) :
              (\E x \in matrix' : x.variant = v /\ x.case = c) <=> v <= variant
    BY <1>1, <1>3, <2>1, AllErrorsSettle
  <2> QED
    BY <1>1, <1>2, <1>3, <2>1, <2>2, AdvanceKeeps
<1>4. CASE raised = "no"
  <2>1. matrix' = matrix /\ Advance /\ raised' = "no"
    BY <1>4 DEF LeaveWith
  <2>2. \A v \in DOMAIN Variants : v <= variant <=> v < variant \/ v = variant
    BY ConstantsOK DEF ExperimentInv, ExperimentTyped
  <2>3. \A v \in DOMAIN Variants, c \in ToSet(Cases) : Settled(v, c) <=> v <= variant
    BY <1>1, <1>4, <2>2 DEF Settled
  <2>4. /\ IsFiniteSet(matrix')
        /\ \A x \in matrix' : x.variant \in DOMAIN Variants /\ x.case \in ToSet(Cases)
        /\ \A x, y \in matrix' : x.variant = y.variant /\ x.case = y.case => x = y
        /\ \A v \in DOMAIN Variants, c \in ToSet(Cases) :
              (\E x \in matrix' : x.variant = v /\ x.case = c) <=> v <= variant
    BY <1>4, <2>1, <2>3 DEF ExperimentInv, MatrixInv, ExperimentTyped
  <2> QED
    BY <1>1, <1>2, <1>4, <2>1, <2>4, AdvanceKeeps
<1>5. CASE raised = "interrupt"
  <2>1. /\ expAt' = "left" /\ priorDials' = NoDials
        /\ UNCHANGED <<variant, toDo, raised, matrix>>
    BY <1>5 DEF LeaveWith
  <2> QED
    BY <1>1, <1>2, <1>5, <2>1
    DEF ExperimentInv, ExperimentTyped, PlaceInv, MatrixInv, DialsInv,
        CellsUnderTheirDials, gatewayVars
<1> QED
  BY <1>1, <1>3, <1>4, <1>5

\* Others: a run of theirs is nobody's cell, and once they turn a dial the dials
\* are no longer this experiment's to answer for.
LEMMA OthersKeep ==
    ASSUME ExperimentInv, OtherRun \/ OtherSetsDial \/ ModelSwapped
    PROVE  ExperimentInv'
<1>1. UNCHANGED <<expAt, variant, toDo, priorDials, askedCase, matrix, raised, original,
                  unrestored>>
  BY DEF OtherRun, OtherSetsDial, ModelSwapped
<1>2. PlaceInv' /\ MatrixInv'
  BY <1>1 DEF ExperimentInv, PlaceInv, MatrixInv, Settled, Desired
<1>3. CASE OtherRun
  <2> DEFINE run == [RunOf(NoRunId) EXCEPT !.variant = 0]
  <2>1. run \in JournalRun /\ run.variant = 0
    BY DEF ExperimentInv, ExperimentTyped, RunOf, JournalRun
  <2>2. journalOf' = Append(journalOf, run) /\ UNCHANGED <<dialState, serving, touched>>
    BY <1>3 DEF OtherRun
  <2> HIDE DEF run
  <2>3. /\ journalOf' \in Seq(JournalRun)
        /\ \A i \in DOMAIN journalOf' :
              \/ journalOf'[i] = run
              \/ i \in DOMAIN journalOf /\ journalOf'[i] = journalOf[i]
    BY <2>1, <2>2, JournalGrows DEF ExperimentInv
  <2>4. ExperimentTyped' /\ DialsInv'
    BY <1>1, <2>2, <2>3 DEF ExperimentInv, ExperimentTyped, DialsInv, Desired, DialFor
  <2>5. CellsUnderTheirDials'
    <3>1. \A i \in DOMAIN journalOf' :
              journalOf'[i].variant > 0 => i \in DOMAIN journalOf /\ journalOf'[i] = journalOf[i]
      BY <2>1, <2>3
    <3> QED
      BY <1>1, <2>2, <3>1 DEF ExperimentInv, CellsUnderTheirDials
  <2> QED
    BY <1>2, <2>4, <2>5 DEF ExperimentInv
<1>4. CASE OtherSetsDial
  <2>1. /\ touched' = TRUE /\ UNCHANGED <<serving, journalOf>>
        /\ \E d \in Axes, x \in DialValues : dialState' = [dialState EXCEPT ![d] = x]
    BY <1>4 DEF OtherSetsDial
  <2>2. dialState' \in [Axes -> DialValues]
    BY <2>1 DEF ExperimentInv, ExperimentTyped
  <2> QED
    BY <1>1, <1>2, <2>1, <2>2
    DEF ExperimentInv, ExperimentTyped, DialsInv, CellsUnderTheirDials
<1>5. CASE ModelSwapped
  <2>1. serving' \in Identities /\ UNCHANGED <<dialState, journalOf, touched>>
    BY <1>5 DEF ModelSwapped
  <2> QED
    BY <1>1, <1>2, <2>1
    DEF ExperimentInv, ExperimentTyped, DialsInv, Desired, DialFor, CellsUnderTheirDials
<1> QED
  BY <1>3, <1>4, <1>5

LEMMA ExperimentStarts == ExperimentInit => ExperimentInv
<1> SUFFICES ASSUME ExperimentInit PROVE ExperimentInv
  OBVIOUS
<1>1. /\ variant = 1 /\ expAt = "variant" /\ matrix = {} /\ journalOf = <<>> /\ toDo = <<>>
      /\ priorDials = NoDials /\ askedCase = NoCase /\ raised = "no" /\ original = dialState
      /\ dialState \in [Axes -> DialValues] /\ serving \in Identities
  BY DEF ExperimentInit
<1>2. 1 \in DOMAIN Variants /\ \A v \in DOMAIN Variants : ~(v < 1)
  BY ConstantsOK
<1>3. ExperimentTyped
  BY <1>1, <1>2, EmptyHasNone, FS_EmptySet DEF ExperimentTyped
<1>4. PlaceInv /\ DialsInv /\ CellsUnderTheirDials
  BY <1>1 DEF PlaceInv, DialsInv, CellsUnderTheirDials
<1>5. MatrixInv
  BY <1>1, <1>2 DEF MatrixInv, Settled
<1> QED
  BY <1>3, <1>4, <1>5 DEF ExperimentInv

LEMMA ExperimentSteps == ExperimentInv /\ [ExperimentNext]_expVars => ExperimentInv'
<1> SUFFICES ASSUME ExperimentInv, [ExperimentNext]_expVars PROVE ExperimentInv'
  OBVIOUS
<1>1. CASE StartPlain \/ ReadAxes
  BY <1>1, StartKeeps
<1>2. CASE AxesFail
  BY <1>2, AxesFailKeeps
<1>3. CASE Fetch
  BY <1>3, FetchKeeps
<1>4. CASE CellsDone
  BY <1>4, CellsDoneKeeps
<1>5. CASE Interrupt \/ InterruptRestore
  BY <1>5, InterruptKeeps, InterruptRestoreKeeps
<1>6. CASE LeaveWith
  BY <1>6, LeaveKeeps
<1>7. CASE \E d \in Axes : Arm(d) \/ ArmFails(d) \/ RestoreDial(d) \/ RestoreDialFails(d)
  BY <1>7, ArmKeeps, ArmFailsKeeps, RestoreKeeps
<1>8. CASE \E c \in ToSet(Cases) : AskCase(c) \/ AskFails(c)
  BY <1>8, CaseKeeps
<1>9. CASE OtherRun \/ OtherSetsDial \/ ModelSwapped
  BY <1>9, OthersKeep
<1>10. CASE UNCHANGED expVars
  BY <1>10
  DEF expVars, gatewayVars, ExperimentInv, ExperimentTyped, PlaceInv, MatrixInv, Settled,
      DialsInv, Desired, DialFor, CellsUnderTheirDials
<1> QED
  BY <1>1, <1>2, <1>3, <1>4, <1>5, <1>6, <1>7, <1>8, <1>9, <1>10 DEF ExperimentNext

-----------------------------------------------------------------------------
(* The result *)

\* Where a coordinate has its cell and no other, the cells there are one.
LEMMA OneCell ==
    ASSUME ExperimentInv, expAt = "done"
    PROVE  MatrixComplete
<1> SUFFICES ASSUME NEW v \in DOMAIN Variants, NEW c \in ToSet(Cases)
             PROVE  Cardinality({x \in matrix : x.variant = v /\ x.case = c}) = 1
  BY DEF MatrixComplete
<1>1. raised # "interrupt" /\ variant = Len(Variants)
  BY DEF ExperimentInv, PlaceInv
<1>2. v < variant \/ v = variant
  BY <1>1, ConstantsOK
<1>3. Settled(v, c)
  BY <1>2 DEF Settled
<1>4. PICK x \in matrix : x.variant = v /\ x.case = c
  BY <1>1, <1>3 DEF ExperimentInv, MatrixInv
<1>5. {y \in matrix : y.variant = v /\ y.case = c} = {x}
  BY <1>4 DEF ExperimentInv, MatrixInv
<1> QED
  BY <1>5, FS_Singleton

\* The gate counts the models under the cells of a variant, of which there are
\* finitely many.
LEMMA OneModel ==
    ASSUME ExperimentInv, Green, NEW x \in matrix, NEW y \in matrix, x.variant = y.variant
    PROVE  journalOf[x.run].sha = journalOf[y.run].sha
<1> DEFINE v == x.variant
           ofV == {z \in Evidence : z.variant = v}
           shas == {journalOf[z.run].sha : z \in ofV}
           f == [z \in ofV |-> journalOf[z.run].sha]
<1>1. v \in DOMAIN Variants /\ matrix = Evidence /\ GateFindings = {}
  BY DEF ExperimentInv, MatrixInv, Green
<1>2. IsFiniteSet(shas)
  <2>1. IsFiniteSet(ofV)
    BY FS_Subset, <1>1 DEF ExperimentInv, ExperimentTyped
  <2>2. f \in Surjection(ofV, shas)
    BY DEF Surjection
  <2> HIDE DEF f, shas, ofV
  <2> QED
    BY <2>1, <2>2, FS_Surjection
<1>3. ~(Cardinality(shas) > 1)
  BY <1>1 DEF GateFindings
<1>4. journalOf[x.run].sha \in shas /\ journalOf[y.run].sha \in shas
  BY <1>1
<1> HIDE DEF shas
<1>5. Cardinality(shas) \in Nat
  BY <1>2, FS_CardinalityType
<1>6. Cardinality(shas) # 0
  BY <1>2, <1>4, FS_EmptySet
<1>7. Cardinality(shas) = 1
  BY <1>3, <1>5, <1>6
<1>8. PICK s : shas = {s}
  BY <1>2, <1>7, FS_Singleton
<1> QED
  BY <1>4, <1>8

\* Whatever fails, is interrupted, or is done on the gateway by others, for every
\* manifest the validator accepts: the result of run_manifest has each coordinate
\* exactly once, and a green gate compared one model per variant.  If nobody else
\* turned a dial and no restore failed, the runs were made under their variant's
\* dials, and the gateway's dials are put back, but for those an interrupted
\* restore had not come to.
THEOREM ExperimentKept == ExperimentSpec => []ExperimentSound
<1>1. ExperimentInv => ExperimentSound
  <2> SUFFICES ASSUME ExperimentInv PROVE ExperimentSound
    OBVIOUS
  <2>1. MatrixComplete
    BY OneCell DEF MatrixComplete
  <2>2. CellsUnderTheirDials /\ DialsRestored
    BY DEF ExperimentInv, DialsInv, DialsRestored
  <2>3. GreenIsOneModel
    BY OneModel DEF GreenIsOneModel
  <2> QED
    BY <2>1, <2>2, <2>3 DEF ExperimentSound
<1> QED
  BY <1>1, ExperimentStarts, ExperimentSteps, PTL DEF ExperimentSpec

-----------------------------------------------------------------------------
(* Dialogues with tools *)

\* The recursion of the scanner defines a function, whatever it reads.
LEMMA ScansDef ==
  ASSUME NEW messages, NEW o, Len(messages) \in Nat
  PROVE  /\ Scans(messages, o)[0] = [ok |-> TRUE, pending |-> NoCall, answered |-> {}]
         /\ \A k \in 1..Len(messages) :
              Scans(messages, o)[k] = ReadMessage(Scans(messages, o)[k - 1], messages[k], o)
<1> DEFINE a == [ok |-> TRUE, pending |-> NoCall, answered |-> {}]
           S == {m \in Nat : \E f : f = [k \in 0..m |->
                   IF k = 0 THEN a ELSE ReadMessage(f[k - 1], messages[k], o)]}
<1> HIDE DEF a
<1>1. 0 \in S
  <2> DEFINE e == [k \in 0..0 |-> a]
  <2>1. e = [k \in 0..0 |-> IF k = 0 THEN a ELSE ReadMessage(e[k - 1], messages[k], o)]
    OBVIOUS
  <2> HIDE DEF e
  <2> QED BY <2>1
<1>2. ASSUME NEW m \in Nat, m \in S PROVE m + 1 \in S
  <2>1. PICK h : h = [k \in 0..m |-> IF k = 0 THEN a ELSE ReadMessage(h[k - 1], messages[k], o)]
    BY <1>2
  <2> DEFINE last == ReadMessage(h[m], messages[m + 1], o)
             g == [k \in 0..(m + 1) |-> IF k = m + 1 THEN last ELSE h[k]]
  <2>2. ASSUME NEW k \in 0..(m + 1)
        PROVE  g[k] = IF k = 0 THEN a ELSE ReadMessage(g[k - 1], messages[k], o)
    <3>1. CASE k = m + 1
      <4>1. g[k] = last /\ m \in 0..(m + 1) /\ m # m + 1 /\ k # 0 /\ k - 1 = m
        BY <3>1
      <4>2. g[k - 1] = h[m]
        BY <4>1
      <4> QED BY <3>1, <4>1, <4>2
    <3>2. CASE k # m + 1
      <4>1. k \in 0..m /\ g[k] = h[k]
        BY <3>2
      <4>2. h[k] = IF k = 0 THEN a ELSE ReadMessage(h[k - 1], messages[k], o)
        BY <4>1, <2>1
      <4>3. k # 0 => k - 1 \in 0..(m + 1) /\ k - 1 # m + 1
        BY <4>1
      <4>4. k # 0 => g[k - 1] = h[k - 1]
        BY <4>3
      <4> HIDE DEF g
      <4> QED BY <4>1, <4>2, <4>4
    <3> QED BY <3>1, <3>2
  <2>3. g = [k \in 0..(m + 1) |-> g[k]]
    OBVIOUS
  <2> HIDE DEF g
  <2>4. g = [k \in 0..(m + 1) |-> IF k = 0 THEN a ELSE ReadMessage(g[k - 1], messages[k], o)]
    BY <2>2, <2>3
  <2>5. \E f : f = [k \in 0..(m + 1) |-> IF k = 0 THEN a ELSE ReadMessage(f[k - 1], messages[k], o)]
    BY <2>4
  <2>6. m + 1 \in Nat
    OBVIOUS
  <2> QED BY <2>5, <2>6, Zenon
<1> HIDE DEF S
<1> DEFINE n == Len(messages)
<1>3. n \in S
  BY <1>1, <1>2, SetInduction
<1> HIDE DEF n
<1>4. \E f : f = [k \in 0..n |-> IF k = 0 THEN a ELSE ReadMessage(f[k - 1], messages[k], o)]
  BY <1>3 DEF S
<1> DEFINE scan == CHOOSE f : f = [k \in 0..n |->
                      IF k = 0 THEN a ELSE ReadMessage(f[k - 1], messages[k], o)]
<1>5. scan = [k \in 0..n |-> IF k = 0 THEN a ELSE ReadMessage(scan[k - 1], messages[k], o)]
  BY <1>4, Zenon
<1>6. Scans(messages, o) = scan
  BY DEF Scans, n, a
<1>7. n \in Nat
  BY DEF n
<1> HIDE DEF scan
<1>8. ASSUME NEW k \in 0..n
      PROVE  scan[k] = IF k = 0 THEN a ELSE ReadMessage(scan[k - 1], messages[k], o)
  BY <1>5
<1>9. scan[0] = a /\ \A k \in 1..n : scan[k] = ReadMessage(scan[k - 1], messages[k], o)
  BY <1>7, <1>8
<1> QED
  BY <1>6, <1>9 DEF a, n

-----------------------------------------------------------------------------

\* What is well paired up to the message k.
PairedUpTo(ms, o, k) ==
  /\ \A i \in 1..k : ms[i].role # "mixed"
  /\ \A i \in 1..k : ms[i].role = "call" => Fits(ms[i], o)
  /\ \A i \in 1..k : ms[i].role = "call" /\ i < k =>
        /\ ms[i + 1].role = "result" /\ ms[i + 1].id = ms[i].id
        /\ ms[i + 1].name \in {Absent, ms[i].tool}
  /\ \A i \in 1..k : ms[i].role = "result" => i > 1 /\ ms[i - 1].role = "call"
  /\ \A i, j \in 1..k : ms[i].role = "call" /\ ms[j].role = "call" /\ ms[i].id = ms[j].id => i = j

OpenAt(ms, k) == k > 0 /\ ms[k].role = "call"

Knows(scan, ms, o, k) ==
  IF PairedUpTo(ms, o, k)
  THEN scan = [ok |-> TRUE,
               pending |-> IF OpenAt(ms, k) THEN ms[k] ELSE NoCall,
               answered |-> {ms[i].id : i \in {i \in 1..k : ms[i].role = "call" /\ i < k}}]
  ELSE scan.ok = FALSE

MessageTyped(m) ==
  /\ m.role \in {"text", "mixed", "call", "result"}
  /\ m.role = "call" => m.id # 0

\* One message further.
LEMMA ReadsOneMore ==
  ASSUME NEW ms, NEW o, NEW k \in Nat, NEW scan, \A i \in 1..(k + 1) : MessageTyped(ms[i]),
         Knows(scan, ms, o, k)
  PROVE  Knows(ReadMessage(scan, ms[k + 1], o), ms, o, k + 1)
<1> DEFINE m == ms[k + 1]
           next == ReadMessage(scan, m, o)
<1>1. MessageTyped(m) /\ k + 1 \in 1..(k + 1) /\ 1..k \subseteq 1..(k + 1)
  OBVIOUS
<1>2. PairedUpTo(ms, o, k + 1) => PairedUpTo(ms, o, k)
  BY DEF PairedUpTo
<1>3. CASE ~PairedUpTo(ms, o, k)
  <2>1. scan.ok = FALSE /\ ~PairedUpTo(ms, o, k + 1)
    BY <1>2, <1>3 DEF Knows
  <2>2. next = scan
    BY <2>1 DEF ReadMessage
  <2> QED BY <2>1, <2>2 DEF Knows
<1>4. CASE PairedUpTo(ms, o, k) /\ OpenAt(ms, k)
  <2>1. /\ k \in 1..k /\ ms[k].role = "call" /\ ms[k].id # 0
    BY <1>4 DEF OpenAt, MessageTyped
  <2> DEFINE old == {ms[i].id : i \in {i \in 1..k : ms[i].role = "call" /\ i < k}}
  <2>2. scan = [ok |-> TRUE, pending |-> ms[k], answered |-> old]
    BY <1>4 DEF Knows
  <2>3. ms[k] # NoCall
    BY <2>1 DEF NoCall
  <2> DEFINE good == m.role = "result" /\ m.id = ms[k].id /\ m.name \in {Absent, ms[k].tool}
  <2>4. PairedUpTo(ms, o, k + 1) <=> good
    <3>1. PairedUpTo(ms, o, k + 1) => good
      BY <2>1 DEF PairedUpTo
    <3>2. ASSUME good PROVE PairedUpTo(ms, o, k + 1)
      <4>1. \A i \in 1..(k + 1) : i \in 1..k \/ i = k + 1
        OBVIOUS
      <4>2. m.role = "result"
        BY <3>2
      <4>3. \A i \in 1..k : ms[i].role = "call" /\ i < k + 1 =>
               /\ ms[i + 1].role = "result" /\ ms[i + 1].id = ms[i].id
               /\ ms[i + 1].name \in {Absent, ms[i].tool}
        <5>1. \A i \in 1..k : i < k \/ i = k
          OBVIOUS
        <5> QED BY <5>1, <3>2, <1>4 DEF PairedUpTo
      <4> QED BY <1>4, <2>1, <4>1, <4>2, <4>3 DEF PairedUpTo
    <3> QED BY <3>1, <3>2
  <2>5. CASE good
    <3>1. next = [ok |-> TRUE, pending |-> NoCall, answered |-> old \cup {m.id}]
      BY <2>2, <2>3, <2>5 DEF ReadMessage
    <3>2. ~OpenAt(ms, k + 1)
      BY <2>5 DEF OpenAt
    <3>3. old \cup {m.id} =
            {ms[i].id : i \in {i \in 1..(k + 1) : ms[i].role = "call" /\ i < k + 1}}
      <4>1. {i \in 1..(k + 1) : ms[i].role = "call" /\ i < k + 1} =
              {i \in 1..k : ms[i].role = "call" /\ i < k} \cup {k}
        BY <2>1
      <4> QED BY <4>1, <2>5
    <3> QED BY <2>4, <2>5, <3>1, <3>2, <3>3 DEF Knows
  <2>6. CASE ~good
    <3>1. next = [scan EXCEPT !.ok = FALSE]
      BY <1>1, <2>2, <2>3, <2>6 DEF ReadMessage, MessageTyped
    <3>2. next.ok = FALSE
      BY <3>1, <2>2
    <3> QED BY <2>4, <2>6, <3>2 DEF Knows
  <2> QED BY <2>5, <2>6
<1>5. CASE PairedUpTo(ms, o, k) /\ ~OpenAt(ms, k)
  <2> DEFINE old == {ms[i].id : i \in {i \in 1..k : ms[i].role = "call" /\ i < k}}
  <2>1. scan = [ok |-> TRUE, pending |-> NoCall, answered |-> old]
    BY <1>5 DEF Knows
  <2>2. k = 0 \/ (k \in 1..k /\ ms[k].role # "call")
    BY <1>5 DEF OpenAt
  <2>3. {i \in 1..(k + 1) : ms[i].role = "call" /\ i < k + 1} =
          {i \in 1..k : ms[i].role = "call" /\ i < k}
    BY <2>2
  <2> DEFINE good == \/ m.role = "text"
                     \/ m.role = "call" /\ Fits(m, o) /\ m.id \notin old
  <2>4. PairedUpTo(ms, o, k + 1) <=> good
    <3>1. ASSUME PairedUpTo(ms, o, k + 1) PROVE good
      <4>1. m.role # "mixed" /\ (m.role = "call" => Fits(m, o))
        BY <1>1, <3>1 DEF PairedUpTo
      <4>2. m.role # "result"
        <5>1. m.role = "result" => k + 1 > 1 /\ ms[k + 1 - 1].role = "call"
          BY <1>1, <3>1 DEF PairedUpTo
        <5>2. k + 1 - 1 = k
          OBVIOUS
        <5> QED BY <5>1, <5>2, <2>2
      <4>3. m.role = "call" => m.id \notin old
        <5>1. \A i \in 1..k : i # k + 1 /\ i \in 1..(k + 1)
          OBVIOUS
        <5>2. m.role = "call" => \A i \in 1..k : ms[i].role = "call" => ms[i].id # m.id
          BY <1>1, <3>1, <5>1 DEF PairedUpTo
        <5> QED BY <5>2
      <4> QED BY <4>1, <4>2, <4>3, <1>1 DEF MessageTyped
    <3>2. ASSUME good PROVE PairedUpTo(ms, o, k + 1)
      <4>1. \A i \in 1..(k + 1) : i \in 1..k \/ i = k + 1
        OBVIOUS
      <4>2. m.role # "mixed" /\ m.role # "result" /\ (m.role = "call" => Fits(m, o))
        BY <3>2
      <4>3. \A i \in 1..k : ms[i].role = "call" => i < k
        BY <2>2
      <4>4. m.role = "call" => \A i \in 1..k : ms[i].role = "call" => ms[i].id # m.id
        BY <3>2, <4>3
      <4>5. \A i \in 1..(k + 1) : ms[i].role = "call" /\ i < k + 1 => i \in 1..k /\ i < k
        BY <4>1, <4>3
      <4> HIDE DEF good, m
      <4>6. \A i \in 1..(k + 1) : i \in 1..k \/ ms[i] = m
        BY <4>1 DEF m
      <4>7. \A i, j \in 1..(k + 1) :
              ms[i].role = "call" /\ ms[j].role = "call" /\ ms[i].id = ms[j].id => i = j
        BY <1>5, <4>1, <4>4 DEF PairedUpTo, m
      <4> QED BY <1>5, <4>2, <4>5, <4>6, <4>7 DEF PairedUpTo
    <3> QED BY <3>1, <3>2
  <2>5. CASE good
    <3>1. m.role = "text" => next = scan
      BY <2>1 DEF ReadMessage
    <3>2. m.role = "call" => next = [ok |-> TRUE, pending |-> m, answered |-> old]
      BY <2>1, <2>5 DEF ReadMessage
    <3>3. OpenAt(ms, k + 1) <=> m.role = "call"
      BY DEF OpenAt
    <3> QED BY <2>1, <2>3, <2>4, <2>5, <3>1, <3>2, <3>3 DEF Knows
  <2>6. CASE ~good
    <3>1. next = [scan EXCEPT !.ok = FALSE]
      BY <1>1, <2>1, <2>6 DEF ReadMessage, MessageTyped
    <3>2. next.ok = FALSE
      BY <3>1, <2>1
    <3> QED BY <2>4, <2>6, <3>2 DEF Knows
  <2> QED BY <2>5, <2>6
<1> QED
  BY <1>3, <1>4, <1>5

\* The scanner knows, after each message, exactly whether all is well so far.
LEMMA ScannerKnows ==
  ASSUME NEW ms, NEW o, Len(ms) \in Nat, \A i \in 1..Len(ms) : MessageTyped(ms[i])
  PROVE  Knows(Scans(ms, o)[Len(ms)], ms, o, Len(ms))
<1> DEFINE S == {k \in Nat : k <= Len(ms) => Knows(Scans(ms, o)[k], ms, o, k)}
<1>1. 0 \in S
  <2>1. Scans(ms, o)[0] = [ok |-> TRUE, pending |-> NoCall, answered |-> {}]
    BY ScansDef
  <2>2. ~OpenAt(ms, 0) /\ PairedUpTo(ms, o, 0)
    BY DEF OpenAt, PairedUpTo
  <2>3. {ms[i].id : i \in {i \in 1..0 : ms[i].role = "call" /\ i < 0}} = {}
    OBVIOUS
  <2>4. Knows(Scans(ms, o)[0], ms, o, 0)
    BY <2>1, <2>2, <2>3 DEF Knows
  <2> QED BY <2>4
<1>2. ASSUME NEW k \in Nat, k \in S PROVE k + 1 \in S
  <2> SUFFICES ASSUME k + 1 <= Len(ms) PROVE Knows(Scans(ms, o)[k + 1], ms, o, k + 1)
    OBVIOUS
  <2>1. Knows(Scans(ms, o)[k], ms, o, k)
    BY <1>2
  <2>2. k + 1 \in 1..Len(ms) /\ k + 1 - 1 = k /\ 1..(k + 1) \subseteq 1..Len(ms)
    OBVIOUS
  <2>3. Scans(ms, o)[k + 1] = ReadMessage(Scans(ms, o)[k], ms[k + 1], o)
    BY <2>2, ScansDef
  <2> QED BY <2>1, <2>2, <2>3, ReadsOneMore
<1> HIDE DEF S
<1>3. Len(ms) \in S
  BY <1>1, <1>2, SetInduction
<1> QED
  BY <1>3 DEF S

LEMMA AcceptedIsPaired ==
  ASSUME NEW ms, NEW o, Len(ms) \in Nat, DOMAIN ms = 1..Len(ms), ms # <<>> <=> Len(ms) # 0,
         \A i \in 1..Len(ms) : MessageTyped(ms[i])
  PROVE  Accepted(ms, o) <=> WellPaired(ms, o)
<1> DEFINE n == Len(ms)
           scan == Scans(ms, o)[n]
<1>1. Knows(scan, ms, o, n)
  BY ScannerKnows
<1>2. WellPaired(ms, o) <=> n # 0 /\ PairedUpTo(ms, o, n) /\ ~OpenAt(ms, n)
  <2>1. ASSUME WellPaired(ms, o) PROVE n # 0 /\ PairedUpTo(ms, o, n) /\ ~OpenAt(ms, n)
    <3>1. n # 0 /\ n \in 1..n /\ ~(n < n)
      BY <2>1 DEF WellPaired
    <3>2. ~OpenAt(ms, n)
      BY <2>1, <3>1 DEF WellPaired, CallsIn, OpenAt
    <3>3. \A i \in 1..n : ms[i].role = "result" => i > 1 /\ ms[i - 1].role = "call"
      <4>1. \A i \in 1..n : ms[i].role = "result" => i - 1 \in CallsIn(ms)
        BY <2>1 DEF WellPaired
      <4>2. \A i \in CallsIn(ms) : i \in 1..n /\ ms[i].role = "call"
        BY DEF CallsIn
      <4> QED BY <4>1, <4>2
    <3> QED BY <2>1, <3>1, <3>2, <3>3 DEF WellPaired, CallsIn, PairedUpTo
  <2>2. ASSUME n # 0, PairedUpTo(ms, o, n), ~OpenAt(ms, n) PROVE WellPaired(ms, o)
    <3>1. \A i \in CallsIn(ms) : i \in 1..n /\ i < n /\ ms[i].role = "call"
      BY <2>2 DEF CallsIn, OpenAt
    <3>2. \A i \in 1..n : ms[i].role = "result" => i - 1 \in CallsIn(ms)
      BY <2>2 DEF PairedUpTo, CallsIn
    <3> QED BY <2>2, <3>1, <3>2 DEF WellPaired, PairedUpTo
  <2> QED BY <2>1, <2>2
<1>3. Accepted(ms, o) <=> n # 0 /\ scan.ok /\ scan.pending = NoCall
  BY DEF Accepted
<1>4. CASE PairedUpTo(ms, o, n)
  <2>1. scan.ok = TRUE /\ scan.pending = IF OpenAt(ms, n) THEN ms[n] ELSE NoCall
    BY <1>1, <1>4 DEF Knows
  <2>2. OpenAt(ms, n) => ms[n] # NoCall
    BY DEF OpenAt, NoCall, MessageTyped
  <2> QED BY <1>2, <1>3, <1>4, <2>1, <2>2
<1>5. CASE ~PairedUpTo(ms, o, n)
  BY <1>1, <1>2, <1>3, <1>5 DEF Knows
<1> QED
  BY <1>4, <1>5

DialogueTyped ==
  /\ transcript \in Seq(Messages)
  /\ strays \in Nat /\ minted \in 0..MaxMinted
  /\ dialogue \in {"client", "native", "prose"}
  /\ dialogue = "native" => offer \in Offers

\* What an honest client and the server have made of the transcript: no two
\* calls have one id, and what follows a call is its result.
HonestSoFar ==
  /\ \A i \in DOMAIN transcript : transcript[i].role # "mixed"
  /\ \A i \in CallsIn(transcript) :
        /\ transcript[i].id \in 1..minted
        /\ i < Len(transcript) =>
              /\ transcript[i + 1].role = "result" /\ transcript[i + 1].id = transcript[i].id
              /\ transcript[i + 1].name \in {Absent, transcript[i].tool}
  /\ \A i \in DOMAIN transcript :
        transcript[i].role = "result" => i - 1 \in CallsIn(transcript)
  /\ \A i, j \in CallsIn(transcript) : transcript[i].id = transcript[j].id => i = j

DialogueInv ==
  /\ DialogueTyped
  /\ dialogue # "client" => ~OpenCall
  /\ strays = 0 => HonestSoFar

LEMMA MessagesTyped == \A m \in Messages : MessageTyped(m)
BY DialogueAssumption
   DEF DialogueAssumption, Messages, MessageTyped, Text, Mixed, Call, Result, Ids, PublicIds

LEMMA TranscriptIs ==
  ASSUME DialogueTyped
  PROVE  /\ Len(transcript) \in Nat /\ DOMAIN transcript = 1..Len(transcript)
         /\ transcript # <<>> <=> Len(transcript) # 0
         /\ \A i \in 1..Len(transcript) : transcript[i] \in Messages
         /\ \A i \in 1..Len(transcript) : MessageTyped(transcript[i])
BY MessagesTyped DEF DialogueTyped

LEMMA TranscriptAccepted ==
  ASSUME DialogueTyped, NEW o
  PROVE  Accepted(transcript, o) <=> WellPaired(transcript, o)
BY TranscriptIs, AcceptedIsPaired

LEMMA OpenCallIs ==
  ASSUME DialogueTyped
  PROVE  OpenCall <=> \E i \in CallsIn(transcript) : i = Len(transcript)
BY TranscriptIs DEF OpenCall, CallsIn, Last

\* A message is appended to a transcript.
LEMMA MessageAppended ==
  ASSUME DialogueTyped, NEW m \in Messages, transcript' = Append(transcript, m)
  PROVE  /\ transcript' \in Seq(Messages) /\ Len(transcript') = Len(transcript) + 1
         /\ DOMAIN transcript' = 1..(Len(transcript) + 1)
         /\ \A i \in 1..Len(transcript) : transcript'[i] = transcript[i]
         /\ transcript'[Len(transcript) + 1] = m
BY DEF DialogueTyped

\* It may be a text, the result of the open call, or the server's next call.
LEMMA HonestStep ==
  ASSUME DialogueTyped, HonestSoFar, NEW m \in Messages, transcript' = Append(transcript, m),
         minted' \in {minted, minted + 1},
         \/ ~OpenCall /\ m.role = "text"
         \/ /\ OpenCall /\ m.role = "result" /\ m.id = Last(transcript).id
            /\ m.name \in {Absent, Last(transcript).tool}
         \/ ~OpenCall /\ m.role = "call" /\ minted' = minted + 1 /\ m.id = minted'
  PROVE  HonestSoFar'
<1> DEFINE n == Len(transcript)
<1>1. /\ n \in Nat /\ DOMAIN transcript = 1..n /\ DOMAIN transcript' = 1..(n + 1)
      /\ Len(transcript') = n + 1 /\ transcript'[n + 1] = m
      /\ \A i \in 1..n : transcript'[i] = transcript[i]
  BY TranscriptIs, MessageAppended
<1>2. \A i \in 1..(n + 1) : i \in 1..n \/ i = n + 1
  BY <1>1
<1>3. OpenCall <=> n \in CallsIn(transcript)
  BY <1>1, OpenCallIs DEF CallsIn
<1>4. OpenCall => Last(transcript) = transcript[n]
  BY DEF Last
<1>5. m.role # "mixed"
  OBVIOUS
<1>6. CallsIn(transcript') = CallsIn(transcript) \cup IF m.role = "call" THEN {n + 1} ELSE {}
  BY <1>1, <1>2 DEF CallsIn
<1>7. CallsIn(transcript) \subseteq 1..n /\ minted \in Nat /\ minted' \in Nat /\ minted <= minted'
  BY <1>1 DEF CallsIn, DialogueTyped
<1> HIDE DEF n
<1>8. \A i \in DOMAIN transcript' : transcript'[i].role # "mixed"
  BY <1>1, <1>2, <1>5 DEF HonestSoFar
<1>9. ASSUME NEW i \in CallsIn(transcript)
      PROVE  /\ transcript'[i].id \in 1..minted'
             /\ /\ transcript'[i + 1].role = "result" /\ transcript'[i + 1].id = transcript'[i].id
                /\ transcript'[i + 1].name \in {Absent, transcript'[i].tool}
  <2>1. i \in 1..n /\ transcript'[i] = transcript[i] /\ transcript[i].id \in 1..minted
    BY <1>1, <1>7 DEF HonestSoFar
  <2>2. CASE i = n
    <3>1. OpenCall /\ m.role = "result" /\ m.id = transcript[n].id /\ m.name \in {Absent, transcript[n].tool}
      BY <1>3, <1>4, <2>2
    <3> QED BY <1>1, <1>7, <2>1, <2>2, <3>1
  <2>3. CASE i # n
    <3>1. i < n /\ i + 1 \in 1..n
      BY <1>1, <2>1, <2>3
    <3>2. transcript'[i + 1] = transcript[i + 1]
      BY <1>1, <3>1
    <3> QED BY <1>7, <2>1, <3>1, <3>2 DEF HonestSoFar, n
  <2> QED BY <2>2, <2>3
<1>10. ASSUME NEW i \in DOMAIN transcript', transcript'[i].role = "result"
       PROVE  i - 1 \in CallsIn(transcript')
  <2>1. CASE i \in 1..n
    BY <1>1, <1>6, <1>10, <2>1 DEF HonestSoFar
  <2>2. CASE i = n + 1
    <3>1. OpenCall /\ i - 1 = n
      BY <1>1, <1>10, <2>2
    <3> QED BY <1>3, <1>6, <3>1
  <2> QED BY <1>1, <1>2, <2>1, <2>2
<1>11. ASSUME NEW i \in CallsIn(transcript'), NEW j \in CallsIn(transcript'),
              transcript'[i].id = transcript'[j].id
       PROVE  i = j
  <2>1. \A c \in CallsIn(transcript') :
          \/ /\ c \in CallsIn(transcript) /\ c # n + 1
             /\ transcript'[c].id = transcript[c].id /\ transcript[c].id \in 1..minted
          \/ c = n + 1 /\ transcript'[c].id = minted + 1
    BY <1>1, <1>6, <1>7 DEF HonestSoFar
  <2>2. \A c \in 1..minted : c # minted + 1
    BY <1>7
  <2>3. \A c, d \in CallsIn(transcript) : transcript[c].id = transcript[d].id => c = d
    BY DEF HonestSoFar
  <2> DEFINE a == transcript'[i].id
             b == transcript'[j].id
  <2>4. a = b
    BY <1>11
  <2> HIDE DEF a, b
  <2>5. \/ i \in CallsIn(transcript) /\ i # n + 1 /\ a = transcript[i].id /\ a \in 1..minted
        \/ i = n + 1 /\ a = minted + 1
    BY <2>1 DEF a
  <2>6. \/ j \in CallsIn(transcript) /\ j # n + 1 /\ b = transcript[j].id /\ b \in 1..minted
        \/ j = n + 1 /\ b = minted + 1
    BY <2>1 DEF b
  <2> QED BY <2>2, <2>3, <2>4, <2>5, <2>6
<1>12. ASSUME NEW i \in CallsIn(transcript')
       PROVE  /\ transcript'[i].id \in 1..minted'
              /\ i < Len(transcript') =>
                    /\ transcript'[i + 1].role = "result" /\ transcript'[i + 1].id = transcript'[i].id
                    /\ transcript'[i + 1].name \in {Absent, transcript'[i].tool}
  <2>1. CASE i \in CallsIn(transcript)
    BY <1>9, <2>1
  <2>2. CASE i = n + 1 /\ m.role = "call"
    BY <1>1, <1>7, <2>2
  <2> QED BY <1>6, <2>1, <2>2
<1> QED
  BY <1>8, <1>10, <1>11, <1>12 DEF HonestSoFar

LEMMA DialogueStep == DialogueInv /\ [DialogueNext]_dialogueVars => DialogueInv'
<1> SUFFICES ASSUME DialogueInv, [DialogueNext]_dialogueVars PROVE DialogueInv'
  OBVIOUS
<1>a. DialogueTyped
  BY DEF DialogueInv
<1>b. Text \in Messages /\ \A x, y, z : Call(x, y, z).role = "call" /\ Call(x, y, z).id = x
  BY DEF Messages, Text, Call
<1>1. ASSUME NEW m \in Messages, Say(m) PROVE DialogueInv'
  <2>1. DialogueTyped'
    <3>1. transcript' \in Seq(Messages)
      BY <1>a, <1>1, MessageAppended DEF Say
    <3>2. strays' \in Nat
      BY <1>1 DEF Say, DialogueInv, DialogueTyped
    <3> QED BY <1>1, <3>1, <3>2 DEF Say, DialogueInv, DialogueTyped
  <2>2. dialogue' = "client"
    BY <1>1 DEF Say
  <2>3. ASSUME strays' = 0 PROVE HonestSoFar'
    <3>1. strays = 0 /\ Proper(m)
      BY <1>a, <1>1, <2>3 DEF Say, DialogueTyped
    <3>2. HonestSoFar /\ minted' = minted /\ transcript' = Append(transcript, m)
      BY <1>1, <3>1 DEF DialogueInv, Say
    <3>3. \/ ~OpenCall /\ m.role = "text"
          \/ /\ OpenCall /\ m.role = "result" /\ m.id = Last(transcript).id
             /\ m.name \in {Absent, Last(transcript).tool}
      BY <3>1 DEF Proper, Text, Result
    <3> QED BY <1>a, <3>2, <3>3, HonestStep
  <2> QED BY <2>1, <2>2, <2>3 DEF DialogueInv
<1>2. ASSUME NEW o \in Offers, Post(o) PROVE DialogueInv'
  <2>1. /\ offer' = o /\ dialogue' \in {"native", "prose"} /\ Accepted(transcript, o)
        /\ transcript' = transcript /\ strays' = strays /\ minted' = minted
    BY <1>2 DEF Post
  <2>2. DialogueTyped'
    BY <1>a, <2>1 DEF DialogueTyped
  <2>3. ~OpenCall
    <3>1. WellPaired(transcript, o)
      BY <1>a, <2>1, TranscriptAccepted
    <3> QED BY <1>a, <3>1, OpenCallIs, TranscriptIs DEF WellPaired
  <2>4. ~OpenCall' /\ (HonestSoFar => HonestSoFar')
    BY <2>1, <2>3 DEF OpenCall, HonestSoFar
  <2> QED BY <2>1, <2>2, <2>4 DEF DialogueInv
<1>3. ASSUME Deliver PROVE DialogueInv'
  <2>1. PICK message \in {x \in NativeMessages : Valid(x, offer)} :
          IF message.calls = <<>>
          THEN transcript' = Append(transcript, Text) /\ minted' = minted
          ELSE /\ minted < MaxMinted /\ minted' = minted + 1
               /\ transcript' = Append(transcript, Serialized(message.calls[1], minted'))
    BY <1>3 DEF Deliver
  <2>2. dialogue = "native" /\ dialogue' = "client" /\ strays' = strays /\ ~OpenCall
    BY <1>3 DEF Deliver, DialogueInv
  <2>3. PICK m \in Messages :
          /\ transcript' = Append(transcript, m)
          /\ \/ m.role = "text" /\ minted' = minted
             \/ m.role = "call" /\ minted < MaxMinted /\ minted' = minted + 1 /\ m.id = minted'
    <3>1. CASE message.calls = <<>>
      <4>1. Text.role = "text"
        BY DEF Text
      <4> QED BY <1>b, <2>1, <3>1, <4>1
    <3>2. CASE message.calls # <<>>
      <4> DEFINE c == message.calls[1]
      <4>1. c \in NativeCalls
        BY <3>2 DEF NativeMessages
      <4>2. c.tool \in Tools /\ c.args \in Arguments
        BY <4>1 DEF NativeCalls
      <4>3. minted' \in PublicIds /\ minted < MaxMinted /\ minted' = minted + 1
        BY <1>a, <2>1, <3>2, DialogueAssumption DEF DialogueTyped, PublicIds, DialogueAssumption
      <4>4. Serialized(c, minted') = Call(minted', c.tool, c.args)
        BY DEF Serialized
      <4>5. Serialized(c, minted') \in Messages
        BY <4>2, <4>3, <4>4 DEF Messages, Ids
      <4>6. transcript' = Append(transcript, Serialized(c, minted'))
        BY <2>1, <3>2
      <4> HIDE DEF c
      <4> QED BY <1>b, <4>3, <4>4, <4>5, <4>6
    <3> QED BY <3>1, <3>2
  <2>4. transcript' \in Seq(Messages)
    BY <1>a, <2>3, MessageAppended
  <2>5. DialogueTyped'
    BY <1>a, <2>2, <2>3, <2>4, DialogueAssumption DEF DialogueTyped, DialogueAssumption
  <2>6. strays' = 0 => HonestSoFar'
    BY <1>a, <2>2, <2>3, HonestStep DEF DialogueInv
  <2> QED BY <2>2, <2>5, <2>6 DEF DialogueInv
<1>4. ASSUME Reject PROVE DialogueInv'
  <2>1. /\ dialogue' = "client" /\ transcript' = transcript /\ strays' = strays /\ minted' = minted
    BY <1>4 DEF Reject
  <2> QED BY <2>1 DEF DialogueInv, DialogueTyped, HonestSoFar
<1>5. ASSUME AnswerInProse PROVE DialogueInv'
  <2>1. /\ dialogue = "prose" /\ dialogue' = "client" /\ strays' = strays /\ minted' = minted
        /\ transcript' = Append(transcript, Text)
    BY <1>5 DEF AnswerInProse
  <2>2. ~OpenCall /\ Text.role = "text"
    BY <2>1 DEF DialogueInv, Text
  <2>3. DialogueTyped'
    BY <1>a, <1>b, <2>1, MessageAppended DEF DialogueTyped
  <2>4. strays' = 0 => HonestSoFar'
    BY <1>a, <1>b, <2>1, <2>2, HonestStep DEF DialogueInv
  <2> QED BY <2>1, <2>3, <2>4 DEF DialogueInv
<1>6. CASE UNCHANGED dialogueVars
  BY <1>6 DEF dialogueVars, DialogueInv, DialogueTyped, HonestSoFar, OpenCall
<1> QED
  BY <1>1, <1>2, <1>3, <1>4, <1>5, <1>6 DEF DialogueNext

\* For any tools, schemas and offers, and any number of calls and messages: the
\* history check of a request, one pass with a pending call and a set of
\* answered ids, takes exactly the histories in which each call is followed by
\* its own result; and a client that only repeats what it was answered is never
\* turned away, unless a schema no longer fits an earlier call.
THEOREM DialoguesMakeSense == DialogueSpec => []DialogueSound
<1>1. DialogueInit => DialogueInv
  <2> SUFFICES ASSUME DialogueInit PROVE DialogueInv
    OBVIOUS
  <2>1. transcript = <<>> /\ DOMAIN transcript = {} /\ CallsIn(transcript) = {}
    BY DEF DialogueInit, CallsIn
  <2> QED BY <2>1, DialogueAssumption
       DEF DialogueInit, DialogueInv, DialogueTyped, HonestSoFar, DialogueAssumption
<1>2. DialogueInv /\ [DialogueNext]_dialogueVars => DialogueInv'
  BY DialogueStep
<1>3. DialogueInv => DialogueSound
  <2> SUFFICES ASSUME DialogueInv PROVE AcceptsExactlyPaired /\ HonestIsAccepted
    BY DEF DialogueSound
  <2>1. DialogueTyped
    BY DEF DialogueInv
  <2>2. AcceptsExactlyPaired
    BY <2>1, TranscriptAccepted DEF AcceptsExactlyPaired
  <2>3. ASSUME strays = 0, ~OpenCall, transcript # <<>>, NEW o \in Offers
        PROVE  WellPaired(transcript, o) <=> \A i \in CallsIn(transcript) : Fits(transcript[i], o)
    <3>1. HonestSoFar
      BY <2>3 DEF DialogueInv
    <3>2. \A i \in CallsIn(transcript) : i < Len(transcript)
      BY <2>1, <2>3, OpenCallIs, TranscriptIs DEF CallsIn
    <3> QED BY <2>3, <3>1, <3>2 DEF WellPaired, HonestSoFar
  <2>4. HonestIsAccepted
    BY <2>1, <2>3, TranscriptAccepted DEF HonestIsAccepted
  <2> QED BY <2>2, <2>4
<1> QED
  BY <1>1, <1>2, <1>3, PTL DEF DialogueSpec

=============================================================================
