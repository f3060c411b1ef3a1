--------------------------- MODULE ServingProofs ---------------------------
(***************************************************************************)
(* What lets a request in, what makes its reply, and what is done with it  *)
(* afterwards.                                                             *)
(*                                                                         *)
(* The POST gate, for any number of threads, slots and polls.  GateInv is  *)
(* inductive: it says who holds the turn and the slots, and that the       *)
(* counters are theirs.                                                    *)
(*                                                                         *)
(* A completion, for any models, pipelines, registry and loop-guard        *)
(* retries.  What is kept once the last attempt is made is all of that     *)
(* attempt, and a structured one reaches the record only if its pipeline   *)
(* is the admitted one (Finished, Admitted).                               *)
(*                                                                         *)
(* A guarded reply, for any concepts, calibration, readings and number of  *)
(* corrections.  The cap is spent when it is admitted, it is admitted as   *)
(* soon as a piece goes unchecked, and what is correctable is calibrated   *)
(* at the layer that is polled (GuardPlace, Admits).                       *)
(*                                                                         *)
(* Replays, for any dials, cards, presets and doses.  While an arm runs    *)
(* the request holds what it borrowed; every child is the run its arm asks *)
(* for and says so (Borrowed, Recorded, Compared).                         *)
(*                                                                         *)
(* The think-tag filter, for any alphabet, pieces and number of them, and  *)
(* any two tags of which none begins in the other (TagsAssumption).  Its   *)
(* state is what reading the whole reply once, tag by tag, gives up to     *)
(* some place after which no tag is complete (ReadTo, Plain): a piece more *)
(* changes nothing before that place, and each turn of the loop moves it.  *)
(***************************************************************************)
EXTENDS RequestGate, ChatCompletion, GuardLoop, Replay, ThinkTags, DataLemmas,
        FiniteSetTheorems, SequenceTheorems, TLAPS

-----------------------------------------------------------------------------
(* The POST gate *)

\* The part of TypeOK that no counting argument is needed for.
Shape ==
    /\ slots \in Nat
    /\ waiting \in Nat
    /\ turn \in Requests \cup {NoOne}
    /\ active \in {0, 1}
    /\ pc \in [Requests -> Locations]
    /\ polls \in [Requests -> 0..MaxPolls]
    /\ gone \in [Requests -> BOOLEAN]
    /\ outcome \in [Requests -> Outcomes]

\* The holders of a slot and the counted waiters are finite sets, and every
\* counted waiter holds a slot.
LEMMA Finite ==
    /\ IsFiniteSet(SlotHolders) /\ Cardinality(SlotHolders) \in Nat
    /\ IsFiniteSet(Waiters) /\ Cardinality(Waiters) \in Nat
    /\ Cardinality(Waiters) <= Cardinality(SlotHolders)
<1>1. IsFiniteSet(SlotHolders) /\ IsFiniteSet(Waiters)
  BY GateAssumption, FS_Subset DEF GateAssumption, SlotHolders, Waiters
<1>2. Waiters \subseteq SlotHolders
  BY DEF Waiters, SlotHolders, IsWaiting, HasSlot
<1>3. Cardinality(Waiters) <= Cardinality(SlotHolders)
  BY <1>1, <1>2, FS_Subset
<1> QED
  BY <1>1, <1>3, FS_CardinalityType

\* The semaphore and the waiting counter stay in range because they balance
\* the threads that are inside the gate.
LEMMA BalanceBoundsCounters ==
    Shape /\ SlotsBalance /\ SnapshotHonest => TypeOK
<1> SUFFICES ASSUME Shape, SlotsBalance, SnapshotHonest PROVE TypeOK
  OBVIOUS
<1>1. /\ Cardinality(SlotHolders) \in Nat
      /\ Cardinality(Waiters) \in Nat
      /\ Cardinality(Waiters) <= Cardinality(SlotHolders)
  BY Finite
<1>2. waiting <= Capacity /\ slots <= Capacity
  BY <1>1, GateAssumption DEF GateAssumption, Shape, SlotsBalance, SnapshotHonest
<1> QED
  BY <1>2, GateAssumption DEF GateAssumption, Shape, TypeOK

LEMMA InitGate == Init => GateInv
<1> SUFFICES ASSUME Init PROVE GateInv
  OBVIOUS
<1>1. Shape /\ TurnHeld
  BY GateAssumption
     DEF GateAssumption, Init, Shape, TurnHeld, HasTurn, Locations, Outcomes
<1>2. SlotHolders = {} /\ Waiters = {}
  BY DEF Init, SlotHolders, Waiters, HasSlot, IsWaiting
<1>3. SlotsBalance
  BY <1>2, FS_EmptySet, GateAssumption DEF GateAssumption, Init, SlotsBalance
<1>4. SnapshotHonest
  BY <1>2, FS_EmptySet DEF Init, SnapshotHonest
<1> QED
  BY <1>1, <1>3, <1>4, BalanceBoundsCounters DEF GateInv

\* Which sets of threads one step changes, and what it does to the counters
\* that are meant to follow them.
LEMMA StepShape ==
    ASSUME GateInv, NEW r \in Requests, Step(r)
    PROVE  /\ Shape'
           /\ TurnHeld'
           /\ (active = 1 <=> \E q \in Requests : pc[q] = "dispatching")'
           /\ \A q \in Requests \ {r} : pc'[q] = pc[q]
<1> USE GateAssumption DEF GateAssumption, GateInv, TypeOK, Shape, TurnHeld,
        HasTurn, Locations, Outcomes, SnapshotHonest, Goto
<1>1. CASE Admit(r)
  BY <1>1 DEF Admit, RejectFull, TakeSlot
<1>2. CASE Wait(r)
  <2>1. CASE CountWaiting(r)
    BY <2>1 DEF CountWaiting
  <2>2. CASE TakeTurn(r)
    BY <2>2 DEF TakeTurn
  <2>3. CASE PollFails(r)
    BY <2>3 DEF PollFails
  <2>4. CASE ProbeCancels(r) \/ DeadlinePasses(r) \/ PollAgain(r)
    BY <2>4 DEF ProbeCancels, DeadlinePasses, PollAgain
  <2>5. CASE LeaveQueueGranted(r) \/ LeaveQueueEmpty(r) \/ GiveSlotBack(r)
    <3>1. waiting > 0 \/ GiveSlotBack(r)
      <4>1. CASE LeaveQueueGranted(r) \/ LeaveQueueEmpty(r)
        <5>1. r \in Waiters
          BY <4>1 DEF LeaveQueueGranted, LeaveQueueEmpty, Waiters, IsWaiting
        <5>2. Cardinality(Waiters) # 0
          BY <5>1, Finite, FS_EmptySet
        <5> QED
          BY <5>2
      <4> QED
        BY <2>5, <4>1
    <3> QED
      BY <2>5, <3>1 DEF LeaveQueueGranted, LeaveQueueEmpty, GiveSlotBack
  <2>6. CASE MarkActive(r)
    BY <2>6 DEF MarkActive
  <2> QED
    BY <1>2, <2>1, <2>2, <2>3, <2>4, <2>5, <2>6 DEF Wait
<1>3. CASE ClearActive(r)
  BY <1>3 DEF ClearActive
<1>4. CASE FinishRelease(r)
  BY <1>4 DEF FinishRelease, ReleaseTurn, ReleaseSlot
<1>5. CASE ClientLeaves(r)
  <2>1. gone' \in [Requests -> BOOLEAN]
    BY <1>5 DEF ClientLeaves
  <2> QED
    BY <1>5, <2>1 DEF ClientLeaves
<1>6. CASE NextPost(r)
  <2>1. gone' \in [Requests -> BOOLEAN]
    BY <1>6 DEF NextPost
  <2> QED
    BY <1>6, <2>1 DEF NextPost
<1> QED
  BY <1>1, <1>2, <1>3, <1>4, <1>5, <1>6 DEF Step

\* A step moves at most its own thread into or out of the set of slot
\* holders, and the semaphore moves the other way.
LEMMA StepSlots ==
    ASSUME GateInv, NEW r \in Requests, Step(r)
    PROVE  SlotsBalance'
<1>1. /\ IsFiniteSet(SlotHolders) /\ Cardinality(SlotHolders) \in Nat
      /\ slots \in Nat /\ Capacity \in Nat
      /\ slots + Cardinality(SlotHolders) = Capacity
  BY Finite, GateAssumption DEF GateAssumption, GateInv, TypeOK, SlotsBalance
<1>2. \A q \in Requests \ {r} : pc'[q] = pc[q]
  BY StepShape
<1>3. CASE TakeSlot(r)
  <2>1. r \notin SlotHolders /\ slots' = slots - 1 /\ slots > 0 /\ r \in SlotHolders'
    BY <1>3 DEF TakeSlot, Goto, SlotHolders, HasSlot, GateInv, TypeOK
  <2>2. SlotHolders' = SlotHolders \cup {r}
    BY <1>2, <2>1 DEF SlotHolders, HasSlot
  <2> QED
    BY <1>1, <2>1, <2>2, FS_AddElement DEF SlotsBalance
<1>4. CASE GiveSlotBack(r) \/ ReleaseSlot(r)
  <2>1. r \in SlotHolders /\ slots' = slots + 1 /\ r \notin SlotHolders'
    BY <1>4 DEF GiveSlotBack, ReleaseSlot, Goto, SlotHolders, HasSlot, GateInv, TypeOK
  <2>2. SlotHolders' = SlotHolders \ {r}
    BY <1>2, <2>1 DEF SlotHolders, HasSlot
  <2>3. Cardinality(SlotHolders \ {r}) = Cardinality(SlotHolders) - 1
    BY <1>1, <2>1, FS_RemoveElement
  <2> QED
    BY <1>1, <2>1, <2>2, <2>3 DEF SlotsBalance
<1>5. CASE ~(TakeSlot(r) \/ GiveSlotBack(r) \/ ReleaseSlot(r))
  <2>1. slots' = slots /\ (r \in SlotHolders' <=> r \in SlotHolders)
    BY <1>5 DEF Step, Admit, Wait, FinishRelease, RejectFull, CountWaiting,
       TakeTurn, PollFails, ProbeCancels, DeadlinePasses, PollAgain,
       LeaveQueueGranted, LeaveQueueEmpty, MarkActive, ClearActive,
       ReleaseTurn, ClientLeaves, NextPost, Goto, SlotHolders, HasSlot,
       GateInv, TypeOK
  <2>2. SlotHolders' = SlotHolders
    BY <1>2, <2>1 DEF SlotHolders, HasSlot
  <2> QED
    BY <1>1, <2>1, <2>2 DEF SlotsBalance
<1> QED
  BY <1>3, <1>4, <1>5

\* Likewise for the waiting counter and the threads inside the try block.
LEMMA StepWaiting ==
    ASSUME GateInv, NEW r \in Requests, Step(r)
    PROVE  (waiting = Cardinality(Waiters))'
<1>1. /\ IsFiniteSet(Waiters) /\ Cardinality(Waiters) \in Nat
      /\ waiting \in Nat /\ waiting = Cardinality(Waiters)
  BY Finite, GateAssumption DEF GateAssumption, GateInv, TypeOK, SnapshotHonest
<1>2. \A q \in Requests \ {r} : pc'[q] = pc[q]
  BY StepShape
<1>3. CASE CountWaiting(r)
  <2>1. r \notin Waiters /\ waiting' = waiting + 1 /\ r \in Waiters'
    BY <1>3 DEF CountWaiting, Goto, Waiters, IsWaiting, GateInv, TypeOK
  <2>2. Waiters' = Waiters \cup {r}
    BY <1>2, <2>1 DEF Waiters, IsWaiting
  <2> QED
    BY <1>1, <2>1, <2>2, FS_AddElement
<1>4. CASE LeaveQueueGranted(r) \/ LeaveQueueEmpty(r)
  <2>1. r \in Waiters /\ waiting' = waiting - 1 /\ r \notin Waiters'
    BY <1>4 DEF LeaveQueueGranted, LeaveQueueEmpty, Goto, Waiters, IsWaiting,
       GateInv, TypeOK
  <2>2. Waiters' = Waiters \ {r}
    BY <1>2, <2>1 DEF Waiters, IsWaiting
  <2>3. Cardinality(Waiters \ {r}) = Cardinality(Waiters) - 1
    BY <1>1, <2>1, FS_RemoveElement
  <2> QED
    BY <1>1, <2>1, <2>2, <2>3
<1>5. CASE ~(CountWaiting(r) \/ LeaveQueueGranted(r) \/ LeaveQueueEmpty(r))
  <2>1. waiting' = waiting /\ (r \in Waiters' <=> r \in Waiters)
    BY <1>5 DEF Step, Admit, Wait, FinishRelease, RejectFull, TakeSlot,
       TakeTurn, PollFails, ProbeCancels, DeadlinePasses, PollAgain,
       GiveSlotBack, MarkActive, ClearActive, ReleaseTurn, ReleaseSlot,
       ClientLeaves, NextPost, Goto, Waiters, IsWaiting, GateInv, TypeOK
  <2>2. Waiters' = Waiters
    BY <1>2, <2>1 DEF Waiters, IsWaiting
  <2> QED
    BY <1>1, <2>1, <2>2
<1> QED
  BY <1>3, <1>4, <1>5

LEMMA NextGate == GateInv /\ [Next]_vars => GateInv'
<1> SUFFICES ASSUME GateInv, [Next]_vars PROVE GateInv'
  OBVIOUS
<1>1. ASSUME NEW r \in Requests, Step(r) PROVE GateInv'
  <2>1. Shape' /\ TurnHeld'
    BY <1>1, StepShape
  <2>2. SlotsBalance'
    BY <1>1, StepSlots
  <2>3. SnapshotHonest'
    BY <1>1, StepShape, StepWaiting DEF SnapshotHonest
  <2>4. (Shape /\ SlotsBalance /\ SnapshotHonest => TypeOK)'
    BY BalanceBoundsCounters, PTL
  <2> QED
    BY <2>1, <2>2, <2>3, <2>4 DEF GateInv
<1>2. ASSUME UNCHANGED vars PROVE GateInv'
  BY <1>2 DEF vars, GateInv, TypeOK, TurnHeld, HasTurn, SlotsBalance,
     SlotHolders, HasSlot, SnapshotHonest, Waiters, IsWaiting
<1> QED
  BY <1>1, <1>2 DEF Next

\* The inductive invariant holds in every reachable state of the gate.
THEOREM GateSafe == Spec => []GateInv
<1> QED
  BY InitGate, NextGate, PTL DEF Spec

\* Two POST handlers never dispatch together, whatever the number of threads:
\* the turn lock has one owner from _turn.acquire to _turn.release.
THEOREM Serialised == Spec => []OneAtATime
<1>1. GateInv => OneAtATime
  BY GateAssumption DEF GateAssumption, GateInv, TurnHeld, HasTurn, OneAtATime
<1> QED
  BY <1>1, GateSafe, PTL

\* acquire() and release() give back exactly the slots they take, and what
\* snapshot() reports to /health is the true number of waiters and dispatchers.
THEOREM GateBalanced == Spec => []Balanced
<1>1. GateInv => Balanced
  BY DEF GateInv, Balanced
<1> QED
  BY <1>1, GateSafe, PTL

-----------------------------------------------------------------------------
(* A completion *)

\* Before it answers, a request has no record; what it holds then depends on
\* where it is, and on its mode.
ChatPlace ==
    /\ stage # "idle" => answer = Nothing /\ rows = <<>>
    /\ stage = "native" => qualified \in Registry
    /\ stage \in {"assemble", "generate", "half", "zero", "sanitize"} => mode = "prose"
    /\ stage \in {"qualify", "native", "process", "logError"} => mode = "structured"
    /\ stage \in {"idle", "qualify", "assemble", "generate", "half", "zero", "sanitize",
                  "native", "process", "logError", "log"}

\* What is kept, once the last attempt is made, is of that attempt.
KeptIsOf(a) ==
    /\ kept.reply = a.n /\ kept.finish = a.n
    /\ kept.steps \in {0, a.n} /\ kept.timing \in {0, a.n}
    /\ kept.strength = a.strength

Finished == stage \in {"sanitize", "process", "logError", "log"} => KeptIsOf(attempt)

\* The pipeline a structured request was admitted with, and the one its reply
\* came from once that was compared.
Admitted ==
    /\ stage = "process" => qualified \in Registry
    /\ stage = "log" /\ mode = "structured" =>
          /\ [sha |-> attempt.sha, pipe |-> attempt.pipe] \in Registry
          /\ ~attempt.cut /\ attempt.valid

ChatInv ==
    ChatPlace /\ Finished /\ Admitted /\ StructuredReplySound /\ EvidenceIsOfTheReply

-----------------------------------------------------------------------------

\* A step that answers nothing and records nothing.
LEMMA NoAnswerYet ==
    ASSUME ChatInv, answer' = Nothing, rows' = <<>>
    PROVE  StructuredReplySound' /\ EvidenceIsOfTheReply'
BY DEF StructuredReplySound, StructuredReplyQualified, StructuredReplyJournaled,
       EvidenceIsOfTheReply

\* A refusal, with one record of the attempt, or without.
LEMMA RefusalKeeps ==
    ASSUME ChatInv, NEW status, status # 200, answer' = Refusal(status), stage' = "idle",
           UNCHANGED <<attempt, mode>>,
           \/ rows' = <<>>
           \/ rows' = <<[of |-> 0, ok |-> FALSE, kept |-> Blank]>>
           \/ rows' = <<[of |-> attempt.n, ok |-> FALSE, kept |-> kept]>> /\ KeptIsOf(attempt)
    PROVE  ChatInv'
<1>0. /\ Len(rows') <= 1
      /\ \A i \in 1..Len(rows') :
            \/ rows'[i].of = 0
            \/ rows'[i].of = attempt.n /\ rows'[i].kept = kept /\ KeptIsOf(attempt)
  <2>1. CASE rows' = <<>>
    BY <2>1
  <2>2. ASSUME NEW row, rows' = <<row>>
        PROVE  Len(rows') = 1 /\ \A i \in 1..Len(rows') : rows'[i] = row
    BY <2>2
  <2> QED
    BY <2>1, <2>2
<1>1. StructuredReplySound'
  BY <1>0 DEF StructuredReplySound, StructuredReplyQualified, StructuredReplyJournaled, Refusal
<1>2. EvidenceIsOfTheReply'
  <2> SUFFICES ASSUME NEW i \in 1..Len(rows'), rows'[i].of # 0
               PROVE  /\ rows'[i].kept.reply = rows'[i].of
                      /\ rows'[i].kept.finish = rows'[i].of
                      /\ rows'[i].kept.steps \in {0, rows'[i].of}
                      /\ rows'[i].kept.timing \in {0, rows'[i].of}
                      /\ rows'[i].of = attempt'.n
                         => rows'[i].kept.strength = attempt'.strength
    BY DEF EvidenceIsOfTheReply
  <2> QED
    BY <1>0 DEF KeptIsOf
<1> QED
  BY <1>1, <1>2 DEF ChatInv, ChatPlace, Finished, Admitted

\* The request comes in, and is admitted or refused.
LEMMA AdmissionKeeps ==
    ASSUME ChatInv, (\E m \in {"prose", "structured"} : Arrive(m)) \/ Qualify \/ Assemble
    PROVE  ChatInv'
<1>1. ASSUME NEW m \in {"prose", "structured"}, Arrive(m) PROVE ChatInv'
  BY <1>1
  DEF Arrive, Answered, Refusal, ChatInv, ChatPlace, Finished, Admitted,
      StructuredReplySound, StructuredReplyQualified, StructuredReplyJournaled,
      EvidenceIsOfTheReply
<1>2. CASE Qualify
  <2>1. stage = "qualify" /\ answer = Nothing /\ rows = <<>> /\ rows' = <<>>
        /\ UNCHANGED <<attempt, mode>>
    BY <1>2 DEF Qualify, ChatInv, ChatPlace
  <2>2. CASE Answered(Refusal(400))
    BY <2>1, <2>2, RefusalKeeps DEF Answered
  <2>3. CASE /\ Qualifies(IdentityMeta, worker.pipe) /\ stage' = "native" /\ answer' = answer
             /\ qualified' = [sha |-> IdentityMeta, pipe |-> worker.pipe]
    <3>1. StructuredReplySound' /\ EvidenceIsOfTheReply'
      BY <2>1, <2>3, NoAnswerYet
    <3>2. qualified' \in Registry
      BY <2>3 DEF Qualifies
    <3>3. mode = "structured"
      BY <2>1 DEF ChatInv, ChatPlace
    <3> QED
      BY <2>1, <2>3, <3>1, <3>2, <3>3 DEF ChatInv, ChatPlace, Finished, Admitted
  <2> QED
    BY <1>2, <2>2, <2>3 DEF Qualify
<1>3. CASE Assemble
  <2>1. /\ stage = "assemble" /\ stage' = "generate" /\ answer' = Nothing /\ rows' = <<>>
        /\ mode' = "prose"
    BY <1>3 DEF Assemble, ChatInv, ChatPlace
  <2> QED
    BY <2>1, NoAnswerYet DEF ChatInv, ChatPlace, Finished, Admitted
<1> QED
  BY <1>1, <1>2, <1>3

\* A completion, the first or a retry of the loop guard; the one that is kept is
\* kept whole.
LEMMA TracedKeeps ==
    ASSUME ChatInv, Generate \/ RetryHalf \/ RetryZero
    PROVE  ChatInv'
<1>1. /\ stage \in {"generate", "half", "zero"} /\ mode = "prose" /\ mode' = mode
      /\ answer' = Nothing /\ rows' = <<>> /\ qualified' = qualified
  BY DEF Generate, RetryHalf, RetryZero, ChatInv, ChatPlace
<1>2. stage' \in {"half", "zero", "sanitize"}
  BY DEF Generate, RetryHalf, RetryZero
<1>3. stage' = "sanitize" => KeptIsOf(attempt)'
  <2> SUFFICES ASSUME stage' = "sanitize" PROVE KeptIsOf(attempt)'
    OBVIOUS
  <2>1. PICK strength, timed : TracedAttempt(strength) /\ Keep(attempt', strength, timed)
    BY DEF Generate, RetryHalf, RetryZero
  <2>2. attempt'.strength = strength
    BY <2>1 DEF TracedAttempt, Attempt
  <2>3. /\ kept'.reply = attempt'.n /\ kept'.finish = attempt'.n
        /\ kept'.steps \in {0, attempt'.n} /\ kept'.timing \in {0, attempt'.n}
        /\ kept'.strength = strength
    BY <2>1 DEF Keep
  <2> QED
    BY <2>2, <2>3 DEF KeptIsOf
<1> QED
  BY <1>1, <1>2, <1>3, NoAnswerYet DEF ChatInv, ChatPlace, Finished, Admitted

LEMMA NativeKeeps ==
    ASSUME ChatInv, GenerateNative \/ Sanitize \/ Process
    PROVE  ChatInv'
<1>1. /\ stage \in {"native", "sanitize", "process"} /\ answer' = Nothing /\ rows' = <<>>
      /\ UNCHANGED <<mode, qualified>>
  BY DEF GenerateNative, Sanitize, Process, ChatInv, ChatPlace
<1>2. StructuredReplySound' /\ EvidenceIsOfTheReply'
  BY <1>1, NoAnswerYet
<1>3. CASE GenerateNative
  <2>1. /\ stage = "native" /\ stage' = "process" /\ qualified \in Registry
        /\ mode = "structured"
    BY <1>3 DEF GenerateNative, ChatInv, ChatPlace
  <2>2. attempt'.strength = "none"
    BY <1>3 DEF GenerateNative, Attempt
  <2>3. KeptIsOf(attempt)'
    BY <1>3, <2>2 DEF GenerateNative, Keep, KeptIsOf
  <2> QED
    BY <1>1, <1>2, <2>1, <2>3 DEF ChatInv, ChatPlace, Finished, Admitted
<1>4. CASE Sanitize
  BY <1>1, <1>2, <1>4 DEF Sanitize, ChatInv, ChatPlace, Finished, KeptIsOf, Admitted
<1>5. CASE Process
  <2>1. /\ stage = "process" /\ qualified \in Registry /\ mode = "structured"
        /\ UNCHANGED <<attempt, kept>> /\ stage' \in {"logError", "log"}
    BY <1>5 DEF Process, ChatInv, ChatPlace, Admitted
  <2>2. stage' = "log" => /\ [sha |-> attempt.sha, pipe |-> attempt.pipe] \in Registry
                          /\ ~attempt.cut /\ attempt.valid
    <3> SUFFICES ASSUME stage' = "log"
                 PROVE  /\ [sha |-> attempt.sha, pipe |-> attempt.pipe] \in Registry
                        /\ ~attempt.cut /\ attempt.valid
      OBVIOUS
    <3>1. /\ attempt.sha = qualified.sha /\ attempt.pipe = qualified.pipe
          /\ ~attempt.cut /\ attempt.valid
      BY <1>5 DEF Process
    <3>2. qualified = [sha |-> qualified.sha, pipe |-> qualified.pipe]
      BY <2>1, ChatAssumption DEF ChatAssumption
    <3> QED
      BY <2>1, <3>1, <3>2
  <2> QED
    BY <1>1, <1>2, <2>1, <2>2 DEF ChatInv, ChatPlace, Finished, KeptIsOf, Admitted
<1> QED
  BY <1>3, <1>4, <1>5

LEMMA FailureKeeps ==
    ASSUME ChatInv, GenerationFails \/ LogError
    PROVE  ChatInv'
<1>1. /\ rows = <<>> /\ answer' = Refusal(502) /\ stage' = "idle"
      /\ UNCHANGED <<attempt, mode>>
  BY DEF GenerationFails, LogError, Answered, ChatInv, ChatPlace
<1>2. CASE GenerationFails
  BY <1>1, <1>2, RefusalKeeps DEF GenerationFails
<1>3. CASE LogError
  <2>1. KeptIsOf(attempt)
    BY <1>3 DEF LogError, ChatInv, Finished
  <2> QED
    BY <1>1, <1>3, <2>1, RefusalKeeps DEF LogError
<1> QED
  BY <1>2, <1>3

\* The reply goes out, a structured one with its record.
LEMMA LogKeepsChat ==
    ASSUME ChatInv, Log
    PROVE  ChatInv'
<1>1. /\ stage = "log" /\ stage' = "idle" /\ rows = <<>> /\ KeptIsOf(attempt)
      /\ UNCHANGED <<attempt, mode, kept>>
      /\ mode = "structured" => /\ [sha |-> attempt.sha, pipe |-> attempt.pipe] \in Registry
                                /\ ~attempt.cut /\ attempt.valid
  BY DEF Log, Answered, ChatInv, ChatPlace, Finished, Admitted
<1>2. CASE /\ rows' = Append(rows, [of |-> attempt.n, ok |-> TRUE, kept |-> kept])
           /\ Answered(Delivered)
  <2>1. /\ rows' = <<[of |-> attempt.n, ok |-> TRUE, kept |-> kept]>>
        /\ answer' = [status |-> 200, of |-> attempt.n, structured |-> mode = "structured"]
    BY <1>1, <1>2 DEF Answered, Delivered
  <2>2. /\ Len(rows') = 1 /\ rows'[1] = [of |-> attempt.n, ok |-> TRUE, kept |-> kept]
        /\ rows'[1].ok /\ rows'[1].of = attempt.n /\ rows'[1].kept = kept
    BY <2>1
  <2>3. answer'.structured => mode = "structured"
    BY <2>1
  <2>4. StructuredReplySound'
    BY <1>1, <2>1, <2>2, <2>3
    DEF StructuredReplySound, StructuredReplyQualified, StructuredReplyJournaled
  <2>5. EvidenceIsOfTheReply'
    BY <1>1, <2>2 DEF EvidenceIsOfTheReply, KeptIsOf
  <2> QED
    BY <1>1, <2>4, <2>5 DEF ChatInv, ChatPlace, Finished, Admitted
<1>3. CASE rows' = rows /\ mode = "structured" /\ answer' = Refusal(502)
  BY <1>1, <1>3, RefusalKeeps
<1>4. CASE rows' = rows /\ mode # "structured" /\ Answered(Delivered)
  <2>1. rows' = <<>> /\ answer'.structured = FALSE
    BY <1>1, <1>4 DEF Answered, Delivered
  <2>2. StructuredReplySound' /\ EvidenceIsOfTheReply'
    BY <2>1 DEF StructuredReplySound, StructuredReplyQualified, StructuredReplyJournaled,
                EvidenceIsOfTheReply
  <2> QED
    BY <1>1, <2>2 DEF ChatInv, ChatPlace, Finished, Admitted
<1> QED
  BY <1>2, <1>3, <1>4 DEF Log, Answered

LEMMA ChatStarts == ChatInit => ChatInv
BY DEF ChatInit, Blank, ChatInv, ChatPlace, Finished, Admitted, StructuredReplySound,
       StructuredReplyQualified, StructuredReplyJournaled, EvidenceIsOfTheReply

LEMMA ChatSteps == ChatInv /\ [ChatNext]_chatVars => ChatInv'
<1> SUFFICES ASSUME ChatInv, [ChatNext]_chatVars PROVE ChatInv'
  OBVIOUS
<1>1. CASE SwapWorker \/ UNCHANGED chatVars
  BY <1>1
  DEF SwapWorker, chatVars, ChatInv, ChatPlace, Finished, KeptIsOf, Admitted,
      StructuredReplySound, StructuredReplyQualified, StructuredReplyJournaled,
      EvidenceIsOfTheReply
<1> QED
  BY <1>1, AdmissionKeeps, TracedKeeps, NativeKeeps, FailureKeeps, LogKeepsChat DEF ChatNext

\* For any models, pipelines and registry, and a worker that is swapped between
\* any two steps: a structured reply that is delivered came, whole and valid,
\* from a model and pipeline the registry lists, and has its record.
THEOREM RepliesQualified == ChatSpec => []StructuredReplySound
<1>1. ChatInv => StructuredReplySound
  BY DEF ChatInv
<1> QED
  BY <1>1, ChatStarts, ChatSteps, PTL DEF ChatSpec

\* However streams break off and however often the loop guard retries, what a
\* record says of a reply is of the attempt whose text was returned.
THEOREM EvidenceKept == ChatSpec => []EvidenceIsOfTheReply
<1>1. ChatInv => EvidenceIsOfTheReply
  BY DEF ChatInv
<1> QED
  BY <1>1, ChatStarts, ChatSteps, PTL DEF ChatSpec

-----------------------------------------------------------------------------
(* A guarded reply *)

Guarded == ToSet(Concepts)
PieceOfReply == [tokens : Int, seen : Reading, how : {"plain", "steered", "unpolled"}]

GuardTyped ==
    /\ guardAt \in {"open", "chunk", "steer", "rest", "done", "refused", "failed"}
    /\ remaining \in Int /\ emitted \in Seq(PieceOfReply) /\ piece \in Reading
    /\ fires \in Seq(Guarded) /\ capReached \in BOOLEAN /\ observed \in Reading

\* While chunks are polled the cap is not spent, and once it is admitted it has
\* been: what fires is correctable, and all that is correctable was calibrated
\* at the layer that is polled.
GuardPlace ==
    /\ guardAt = "open" => emitted = <<>> /\ fires = <<>>
    /\ guardAt \in {"open", "chunk", "steer"} => ~capReached
    /\ guardAt = "steer" => Len(fires) < MaxFires
    /\ guardAt = "rest" => capReached
    /\ Len(fires) <= MaxFires
    /\ capReached => Len(fires) = MaxFires
    /\ correctable \subseteq Guarded
    /\ \A c \in correctable : calibration.at[c] = layer /\ layer \in fitted
    /\ \A i \in 1..Len(fires) : fires[i] \in correctable

\* Text that was not checked is admitted.
Admits ==
    \A i \in 1..Len(emitted) :
        \/ emitted[i].how = "unpolled"
        \/ emitted[i].how = "plain" /\ Crossed(emitted[i].seen) # {}
        => capReached

GuardInv == GuardTyped /\ GuardPlace /\ Admits /\ ObservedCoversReply

-----------------------------------------------------------------------------

\* The highest reading only rises, and to the one that is noted.
LEMMA ObservedRises ==
    ASSUME NEW old \in Reading, NEW seen \in Reading
    PROVE  /\ Observed(old, seen) \in Reading
           /\ \A c \in Guarded, r \in {old, seen} :
                 r[c] # Unset => /\ Observed(old, seen)[c] # Unset
                                 /\ Observed(old, seen)[c] >= r[c]
<1> USE GuardAssumption DEF GuardAssumption
<1>1. ASSUME NEW c \in Guarded
      PROVE  /\ Observed(old, seen)[c] \in Levels \cup {Unset}
             /\ \A r \in {old, seen} :
                   r[c] # Unset => /\ Observed(old, seen)[c] # Unset
                                   /\ Observed(old, seen)[c] >= r[c]
  <2>1. /\ old[c] \in Levels \cup {Unset} /\ seen[c] \in Levels \cup {Unset}
        /\ old[c] # Unset => old[c] \in Nat
        /\ seen[c] # Unset => seen[c] \in Nat
    BY DEF Reading, Guarded
  <2>2. Observed(old, seen)[c] =
            CASE seen[c] = Unset -> old[c]
              [] old[c] = Unset -> seen[c]
              [] OTHER -> IF seen[c] > old[c] THEN seen[c] ELSE old[c]
    BY DEF Observed, Guarded
  <2>3. CASE seen[c] = Unset
    <3>1. Observed(old, seen)[c] = old[c] \/ old[c] = Unset
      BY <2>2, <2>3
    <3>2. Observed(old, seen)[c] = old[c]
      BY <2>2, <2>3
    <3> QED
      BY <2>1, <2>3, <3>2
  <2>4. CASE seen[c] # Unset /\ old[c] = Unset
    <3>1. Observed(old, seen)[c] = seen[c]
      BY <2>2, <2>4
    <3> QED
      BY <2>1, <2>4, <3>1
  <2>5. CASE seen[c] # Unset /\ old[c] # Unset
    <3>1. Observed(old, seen)[c] = IF seen[c] > old[c] THEN seen[c] ELSE old[c]
      BY <2>2, <2>5
    <3> QED
      BY <2>1, <2>5, <3>1
  <2> QED
    BY <2>3, <2>4, <2>5
<1>2. Observed(old, seen) \in Reading
  BY <1>1 DEF Observed, Reading, Guarded
<1> QED
  BY <1>1, <1>2

\* A piece joins the reply: it is admitted if it was not checked, and the
\* highest reading covers it.
LEMMA AcceptKeeps ==
    ASSUME GuardTyped, Admits, ObservedCoversReply,
           NEW chunk \in PieceOfReply, Accept(chunk), capReached' \in BOOLEAN,
           observed' \in Reading, correctable' = correctable, capReached => capReached',
           \/ chunk.how = "unpolled"
           \/ chunk.how = "plain" /\ Crossed(chunk.seen) # {}
           => capReached',
           \A c \in Guarded :
              /\ observed[c] # Unset => observed'[c] # Unset /\ observed'[c] >= observed[c]
              /\ chunk.seen[c] # Unset => observed'[c] # Unset /\ observed'[c] >= chunk.seen[c]
    PROVE  /\ emitted' \in Seq(PieceOfReply) /\ remaining' \in Int
           /\ guardAt' \in {"chunk", "rest", "done"}
           /\ guardAt' = "chunk" => ~capReached'
           /\ guardAt' = "rest" => capReached'
           /\ Admits' /\ ObservedCoversReply'
<1> DEFINE n == Len(emitted)
<1>1. /\ n \in Nat /\ emitted' \in Seq(PieceOfReply) /\ Len(emitted') = n + 1
      /\ \A i \in 1..n : emitted'[i] = emitted[i] /\ emitted[i] \in PieceOfReply
      /\ emitted'[n + 1] = chunk
  BY AppendProperties, ElementOfSeq DEF Accept, GuardTyped
<1>2. \A i \in 1..Len(emitted') : i \in 1..n \/ i = n + 1
  BY <1>1
<1>x. Len(emitted) = n
  OBVIOUS
<1> HIDE DEF n
<1>3. /\ remaining' \in Int /\ guardAt' \in {"chunk", "rest", "done"}
      /\ guardAt' = "chunk" => ~capReached'
      /\ guardAt' = "rest" => capReached'
  BY DEF Accept, GuardTyped, PieceOfReply
<1>4. Admits'
  <2>1. \A s : Crossed(s)' = Crossed(s)
    BY DEF Crossed
  <2> SUFFICES ASSUME NEW i \in 1..Len(emitted'),
                      \/ emitted'[i].how = "unpolled"
                      \/ emitted'[i].how = "plain" /\ Crossed(emitted'[i].seen) # {}
               PROVE  capReached'
    BY <2>1 DEF Admits, Crossed
  <2>2. CASE i \in 1..n
    BY <1>1, <1>x, <2>2 DEF Admits
  <2>3. CASE i = n + 1
    BY <1>1, <2>3
  <2> QED
    BY <1>2, <2>2, <2>3
<1>5. ObservedCoversReply'
  <2> SUFFICES ASSUME NEW i \in 1..Len(emitted'), NEW c \in Guarded,
                      emitted'[i].seen[c] # Unset
               PROVE  observed'[c] # Unset /\ observed'[c] >= emitted'[i].seen[c]
    BY DEF ObservedCoversReply, Guarded
  <2>1. CASE i \in 1..n
    <3>1. /\ emitted'[i] = emitted[i] /\ emitted[i].seen \in Reading
          /\ observed[c] # Unset /\ observed[c] >= emitted[i].seen[c]
      BY <1>1, <1>x, <2>1 DEF ObservedCoversReply, Guarded, PieceOfReply
    <3>2. observed'[c] # Unset /\ observed'[c] >= observed[c]
      BY <3>1
    <3>3. /\ observed[c] \in Nat /\ observed'[c] \in Nat /\ emitted[i].seen[c] \in Nat
      BY <3>1, <3>2, GuardAssumption DEF GuardAssumption, GuardTyped, Reading, Guarded
    <3> QED
      BY <3>1, <3>2, <3>3
  <2>2. CASE i = n + 1
    BY <1>1, <2>2
  <2> QED
    BY <1>2, <2>1, <2>2
<1> QED
  BY <1>1, <1>3, <1>4, <1>5

LEMMA OpenKeeps ==
    ASSUME GuardInv, NEW explicit, Open(explicit)
    PROVE  GuardInv'
<1>1. /\ guardAt = "open" /\ emitted = <<>> /\ fires = <<>> /\ ~capReached
      /\ UNCHANGED <<fitted, calibration, remaining, emitted, piece, fires, capReached,
                     observed>>
      /\ guardAt' \in {"chunk", "refused"}
  BY DEF Open, GuardInv, GuardPlace
<1>2. /\ correctable' \subseteq Guarded
      /\ \A c \in correctable' : calibration.at[c] = layer' /\ layer' \in fitted
  BY DEF Open, CalibratedAt, Guarded
<1>3. GuardTyped' /\ GuardPlace'
  BY <1>1, <1>2 DEF GuardInv, GuardTyped, GuardPlace
<1>4. Admits' /\ ObservedCoversReply'
  BY <1>1 DEF Admits, ObservedCoversReply
<1> QED
  BY <1>3, <1>4 DEF GuardInv

\* A chunk that does not cross is accepted; one that does is generated again, or
\* is the last that is watched.
LEMMA ChunkKeeps ==
    ASSUME GuardInv, NEW seen \in Reading, Chunk(seen)
    PROVE  GuardInv'
<1>1. /\ guardAt = "chunk" /\ ~capReached /\ observed' = Observed(observed, seen)
      /\ observed \in Reading /\ Len(fires) <= MaxFires
      /\ UNCHANGED <<fitted, calibration, layer, correctable, fires>>
  BY DEF Chunk, GuardInv, GuardTyped, GuardPlace
<1>2. /\ observed' \in Reading
      /\ \A c \in Guarded :
            /\ observed[c] # Unset => observed'[c] # Unset /\ observed'[c] >= observed[c]
            /\ seen[c] # Unset => observed'[c] # Unset /\ observed'[c] >= seen[c]
  BY <1>1, ObservedRises
<1>3. Len(fires) \in Nat /\ MaxFires \in Nat
  BY GuardAssumption DEF GuardInv, GuardTyped, GuardAssumption
<1>4. CASE /\ Crossed(seen) # {} /\ Len(fires) < MaxFires /\ guardAt' = "steer"
           /\ piece' = seen /\ UNCHANGED <<emitted, remaining, capReached>>
  <2>1. GuardTyped' /\ GuardPlace'
    BY <1>1, <1>2, <1>4 DEF GuardInv, GuardTyped, GuardPlace
  <2>2. Admits'
    BY <1>1, <1>4 DEF GuardInv, Admits, Crossed
  <2>3. ObservedCoversReply'
    <3> SUFFICES ASSUME NEW i \in 1..Len(emitted), NEW c \in Guarded,
                        emitted[i].seen[c] # Unset
                 PROVE  observed'[c] # Unset /\ observed'[c] >= emitted[i].seen[c]
      BY <1>4 DEF ObservedCoversReply, Guarded
    <3>1. observed[c] # Unset /\ observed[c] >= emitted[i].seen[c]
      BY DEF GuardInv, ObservedCoversReply, Guarded
    <3>2. observed'[c] # Unset /\ observed'[c] >= observed[c]
      BY <1>2, <3>1
    <3>3. emitted[i].seen \in Reading
      <4>1. emitted \in Seq(PieceOfReply)
        BY DEF GuardInv, GuardTyped
      <4>2. emitted[i] \in PieceOfReply
        BY <4>1, ElementOfSeq
      <4> QED
        BY <4>2 DEF PieceOfReply
    <3>4. /\ observed[c] \in Nat /\ observed'[c] \in Nat /\ emitted[i].seen[c] \in Nat
      BY <1>1, <1>2, <3>1, <3>2, <3>3, GuardAssumption DEF GuardAssumption, Reading, Guarded
    <3> QED
      BY <3>1, <3>2, <3>4
  <2> QED
    BY <2>1, <2>2, <2>3 DEF GuardInv
<1>5. CASE /\ ~(Crossed(seen) # {} /\ Len(fires) < MaxFires)
           /\ capReached' = (Crossed(seen) # {}) /\ UNCHANGED piece
           /\ Accept([tokens |-> ChunkSize, seen |-> seen, how |-> "plain"])
  <2> DEFINE chunk == [tokens |-> ChunkSize, seen |-> seen, how |-> "plain"]
  <2>1. ChunkSize \in Int
    BY GuardAssumption DEF ChunkSize, GuardInv, GuardTyped, GuardAssumption
  <2>2. chunk \in PieceOfReply /\ chunk.how = "plain" /\ chunk.seen = seen
    BY <2>1 DEF PieceOfReply
  <2>3. capReached' \in BOOLEAN /\ (capReached' <=> Crossed(seen) # {})
    BY <1>5
  <2>4. Accept(chunk) /\ GuardTyped /\ Admits /\ ObservedCoversReply
    BY <1>5 DEF GuardInv
  <2> HIDE DEF chunk
  <2>5. /\ emitted' \in Seq(PieceOfReply) /\ remaining' \in Int
        /\ guardAt' \in {"chunk", "rest", "done"}
        /\ guardAt' = "chunk" => ~capReached'
        /\ guardAt' = "rest" => capReached'
        /\ Admits' /\ ObservedCoversReply'
    BY <1>1, <1>2, <2>2, <2>3, <2>4, AcceptKeeps
  <2>6. capReached' => Len(fires) = MaxFires
    BY <1>1, <1>3, <1>5, <2>3
  <2>7. GuardTyped'
    BY <1>1, <1>2, <1>5, <2>3, <2>5 DEF GuardInv, GuardTyped
  <2>8. GuardPlace'
    BY <1>1, <2>5, <2>6 DEF GuardInv, GuardPlace
  <2> QED
    BY <2>5, <2>7, <2>8 DEF GuardInv
<1> QED
  BY <1>4, <1>5 DEF Chunk

\* A correction: one more concept has fired, a calibrated one.
LEMMA SteerKeeps ==
    ASSUME GuardInv, NEW seen \in Reading, Steer(seen)
    PROVE  GuardInv'
<1>1. /\ guardAt = "steer" /\ ~capReached /\ observed' = Observed(observed, seen)
      /\ observed \in Reading /\ Len(fires) < MaxFires /\ fires \in Seq(Guarded)
      /\ UNCHANGED <<fitted, calibration, layer, correctable, capReached>>
      /\ piece' \in Reading
      /\ Accept([tokens |-> ChunkSize, seen |-> seen, how |-> "steered"])
  BY DEF Steer, Silent, Reading, GuardInv, GuardTyped, GuardPlace
<1>2. /\ observed' \in Reading
      /\ \A c \in Guarded :
            /\ observed[c] # Unset => observed'[c] # Unset /\ observed'[c] >= observed[c]
            /\ seen[c] # Unset => observed'[c] # Unset /\ observed'[c] >= seen[c]
  BY <1>1, ObservedRises
<1>3. PICK c \in correctable : c \in Guarded /\ fires' = Append(fires, c)
  BY DEF Steer, Crossed, GuardInv, GuardPlace
<1>4. /\ fires' \in Seq(Guarded) /\ Len(fires') = Len(fires) + 1
      /\ \A i \in 1..Len(fires) : fires'[i] = fires[i]
      /\ fires'[Len(fires) + 1] = c
  BY <1>1, <1>3, AppendProperties
<1>5. \A i \in 1..Len(fires') : fires'[i] \in correctable
  <2> DEFINE n == Len(fires)
  <2>1. n \in Nat /\ Len(fires') = n + 1
    BY <1>1, <1>4
  <2>2. \A i \in 1..n : fires'[i] \in correctable
    BY <1>4 DEF GuardInv, GuardPlace
  <2>3. fires'[n + 1] \in correctable
    BY <1>3, <1>4
  <2> HIDE DEF n
  <2>4. \A i \in 1..(n + 1) : i \in 1..n \/ i = n + 1
    BY <2>1
  <2> QED
    BY <2>1, <2>2, <2>3, <2>4
<1>6. Len(fires') <= MaxFires
  BY <1>1, <1>4, GuardAssumption DEF GuardAssumption
<1> DEFINE chunk == [tokens |-> ChunkSize, seen |-> seen, how |-> "steered"]
<1>7. ChunkSize \in Int
  BY GuardAssumption DEF ChunkSize, GuardInv, GuardTyped, GuardAssumption
<1>8. /\ chunk \in PieceOfReply /\ chunk.how = "steered" /\ chunk.seen = seen
      /\ Accept(chunk) /\ GuardTyped /\ Admits /\ ObservedCoversReply
  BY <1>1, <1>7 DEF PieceOfReply, GuardInv
<1>9. capReached' \in BOOLEAN
  BY <1>1 DEF GuardInv, GuardTyped
<1> HIDE DEF chunk
<1>10. /\ emitted' \in Seq(PieceOfReply) /\ remaining' \in Int
       /\ guardAt' \in {"chunk", "rest", "done"}
       /\ guardAt' = "chunk" => ~capReached'
       /\ guardAt' = "rest" => capReached'
       /\ Admits' /\ ObservedCoversReply'
  BY <1>1, <1>2, <1>8, <1>9, AcceptKeeps
<1>11. GuardTyped'
  BY <1>1, <1>2, <1>4, <1>9, <1>10 DEF GuardInv, GuardTyped
<1>12. GuardPlace'
  BY <1>1, <1>5, <1>6, <1>10 DEF GuardInv, GuardPlace
<1> QED
  BY <1>10, <1>11, <1>12 DEF GuardInv

LEMMA RestKeeps ==
    ASSUME GuardInv, Rest
    PROVE  GuardInv'
<1> DEFINE chunk == [tokens |-> remaining, seen |-> Silent, how |-> "unpolled"]
<1>1. /\ guardAt = "rest" /\ capReached /\ Accept(chunk)
      /\ UNCHANGED <<fitted, calibration, layer, correctable, piece, fires, observed,
                     capReached>>
      /\ GuardTyped /\ Admits /\ ObservedCoversReply
  BY DEF Rest, GuardInv, GuardPlace
<1>2. /\ chunk \in PieceOfReply /\ chunk.how = "unpolled"
      /\ \A c \in Guarded : chunk.seen[c] = Unset
  BY DEF GuardInv, GuardTyped, PieceOfReply, Silent, Reading, Guarded
<1>3. /\ capReached' \in BOOLEAN /\ observed' \in Reading
      /\ \A c \in Guarded :
            observed[c] # Unset => observed'[c] # Unset /\ observed'[c] >= observed[c]
  <2>1. \A c \in Guarded : observed[c] # Unset => observed[c] \in Nat
    BY GuardAssumption DEF GuardAssumption, GuardInv, GuardTyped, Reading, Guarded
  <2>2. \A c \in Guarded : observed[c] # Unset => observed[c] >= observed[c]
    BY <2>1
  <2> QED
    BY <1>1, <2>2 DEF GuardTyped
<1> HIDE DEF chunk
<1>4. /\ emitted' \in Seq(PieceOfReply) /\ remaining' \in Int
      /\ guardAt' \in {"chunk", "rest", "done"}
      /\ guardAt' = "chunk" => ~capReached'
      /\ Admits' /\ ObservedCoversReply'
  BY <1>1, <1>2, <1>3, AcceptKeeps
<1>5. GuardTyped' /\ GuardPlace'
  BY <1>1, <1>4 DEF GuardInv, GuardTyped, GuardPlace
<1> QED
  BY <1>4, <1>5 DEF GuardInv

LEMMA GuardStarts == GuardInit => GuardInv
<1> SUFFICES ASSUME GuardInit PROVE GuardInv
  OBVIOUS
<1>1. /\ guardAt = "open" /\ correctable = {} /\ remaining = MaxTokens /\ emitted = <<>>
      /\ piece = Silent /\ fires = <<>> /\ capReached = FALSE /\ observed = Silent
  BY DEF GuardInit
<1>2. Silent \in Reading /\ MaxTokens \in Int /\ 0 <= MaxFires
  BY GuardAssumption DEF GuardAssumption, Silent, Reading
<1>3. <<>> \in Seq(PieceOfReply) /\ <<>> \in Seq(Guarded) /\ Len(<<>>) = 0
  OBVIOUS
<1>4. GuardTyped
  BY <1>1, <1>2, <1>3 DEF GuardTyped
<1>5. GuardPlace
  BY <1>1, <1>2, <1>3 DEF GuardPlace
<1> QED
  BY <1>1, <1>3, <1>4, <1>5 DEF GuardInv, Admits, ObservedCoversReply

LEMMA GuardSteps == GuardInv /\ [GuardNext]_guardVars => GuardInv'
<1> SUFFICES ASSUME GuardInv, [GuardNext]_guardVars PROVE GuardInv'
  OBVIOUS
<1>1. CASE EngineFails \/ Journal \/ UNCHANGED guardVars
  <2>1. /\ UNCHANGED <<fitted, calibration, layer, correctable, remaining, emitted, piece,
                       fires, capReached, observed>>
        /\ guardAt' \in {guardAt, "failed"}
    BY <1>1 DEF EngineFails, Journal, guardVars
  <2> QED
    BY <2>1
    DEF GuardInv, GuardTyped, GuardPlace, Admits, Crossed, ObservedCoversReply
<1> QED
  BY <1>1, OpenKeeps, ChunkKeeps, SteerKeeps, RestKeeps DEF GuardNext

\* For any concepts, layers, calibration, readings, chunk size and number of
\* corrections, wherever the engine fails: the receipt admits the text that was
\* not checked, fires by thresholds measured at the polled layer, and shows the
\* highest reading of all text of the reply.
THEOREM GuardAdmits == GuardSpec => []GuardHonest
<1>1. GuardInv => GuardHonest
  <2> SUFFICES ASSUME GuardInv PROVE GuardHonest
    OBVIOUS
  <2>1. CapIsAdmitted
    BY DEF GuardInv, GuardPlace, Admits, CapIsAdmitted
  <2>2. FiresAreCalibrated
    BY DEF GuardInv, GuardPlace, FiresAreCalibrated
  <2> QED
    BY <2>1, <2>2 DEF GuardInv, GuardHonest
<1> QED
  BY <1>1, GuardStarts, GuardSteps, PTL DEF GuardSpec

-----------------------------------------------------------------------------
(* Replays *)

IsDials(d) == d = [n \in DOMAIN d |-> d[n]]

StudioTyped ==
    /\ IsDials(savedDials) /\ pastRuns \in Seq(ToSet(pastRuns))
    /\ post.at \in {"none", "apply", "generate", "answer"}
    /\ post.at = "none" <=> post = NoPost
    /\ post # NoPost => post.children \in Seq(Nat) /\ Len(post.arms) \in Nat

\* While an arm is generated, what it borrowed is in its hands, and the live
\* state is the changed one.
Borrowed ==
    /\ post.at # "generate" => dials = savedDials /\ memStrength = MemoryDue /\ excluded = {}
    /\ post.at \in {"apply", "generate"} => Len(post.children) < Len(post.arms)
    /\ post.at = "generate" =>
          /\ post.dials = savedDials /\ post.strength = MemoryDue /\ post.excluded = {}
          /\ dials = Applied(savedDials, Change) /\ post.active = Active(dials)
          /\ memStrength = IF Change.memOff THEN 0 ELSE MemoryDue
          /\ excluded = Change.disabled

\* A run says under which dials it was made, and of those only the ones turned.
Recorded ==
    /\ RecordedAsGiven
    /\ \A i \in DOMAIN pastRuns :
          /\ IsDials(pastRuns[i].active)
          /\ \A n \in DOMAIN pastRuns[i].active : pastRuns[i].active[n] # 0

\* The arms of a comparison change one thing, against one baseline.
OneThing(ch) == ~ch.off /\ ch.nudge = NoName /\ ~ch.memOff /\ ch.disabled = {} /\ ch.greedy
ComparisonArms(arms) ==
    /\ Len(arms) \in {2, 4}
    /\ \A i \in 1..Len(arms) : OneThing(arms[i])
    /\ arms[1].set = Empty /\ arms[1].presets \subseteq arms[2].presets
    /\ Len(arms) = 4 => arms[3] = arms[1] /\ arms[1].presets \subseteq arms[4].presets

\* The run that an arm of a comparison made.
ChildOf(c, ch) ==
    /\ c \in DOMAIN pastRuns
    /\ pastRuns[c].changes = ch
    /\ pastRuns[c].active = Active(Applied(savedDials, ch))
    /\ pastRuns[c].given =
          [dials |-> Steered(Applied(savedDials, ch)), cards |-> pastRuns[c].given.cards,
           greedy |-> TRUE, presets |-> ch.presets, known |-> vecs]
    /\ ~cardsRaced => pastRuns[c].given.cards = IF MemoryDue = 0 THEN {} ELSE inStore

Compared ==
    post # NoPost /\ post.kind # "replay" =>
        /\ ComparisonArms(post.arms)
        /\ \A i \in 1..Len(post.children) :
              post.children[i] # 0 =>
                  i <= Len(post.arms) /\ ChildOf(post.children[i], post.arms[i])

ReplayInv == StudioTyped /\ Borrowed /\ Recorded /\ Compared

-----------------------------------------------------------------------------
(* Dicts of dials *)

LEMMA DialDicts ==
    ASSUME NEW d, IsDials(d)
    PROVE  /\ IsDials(Active(d)) /\ IsDials(Steered(d)) /\ IsDials(Empty)
           /\ DOMAIN Active(d) = {n \in DOMAIN d : d[n] # 0}
           /\ \A n \in DOMAIN Active(d) : Active(d)[n] = d[n]
           /\ DOMAIN Steered(d) = DOMAIN Active(d) \cap vecs
           /\ \A n \in DOMAIN Steered(d) : Steered(d)[n] = d[n]
           /\ d = Empty <=> DOMAIN d = {}
BY DEF IsDials, Active, Steered, Restrict, Empty

LEMMA SameDicts ==
    ASSUME NEW d, NEW e, IsDials(d), IsDials(e), DOMAIN d = DOMAIN e,
           \A n \in DOMAIN d : d[n] = e[n]
    PROVE  d = e
BY DEF IsDials

\* What is recorded of a dict is a dict of the dials that are turned.
LEMMA ActiveIsTurned ==
    ASSUME NEW d, IsDials(d)
    PROVE  IsDials(Active(d)) /\ \A n \in DOMAIN Active(d) : Active(d)[n] # 0
<1>1. IsDials(Active(d))
  BY DialDicts, Zenon
<1>2. /\ DOMAIN Active(d) = {n \in DOMAIN d : d[n] # 0}
      /\ \A n \in DOMAIN Active(d) : Active(d)[n] = d[n]
  BY DialDicts, Zenon
<1>3. \A n \in DOMAIN Active(d) : n \in DOMAIN d /\ d[n] # 0
  BY <1>2, Zenon
<1> QED
  BY <1>1, <1>2, <1>3, Zenon

\* What is recorded of a dict is what is given of it.
LEMMA ActiveIsGiven ==
    ASSUME NEW d, IsDials(d)
    PROVE  Restrict(Active(d), DOMAIN Active(d) \cap vecs) = Steered(d)
BY DEF Steered

LEMMA AppliedDict ==
    ASSUME NEW d, IsDials(d), NEW ch
    PROVE  /\ IsDials(Applied(d, ch))
           /\ ~ch.off /\ Applied(d, ch) = Empty => d = Empty
           /\ ~ch.off /\ ch.nudge = NoName =>
                 /\ DOMAIN Applied(d, ch) = DOMAIN d \cup DOMAIN ch.set
                 /\ \A n \in DOMAIN ch.set : Applied(d, ch)[n] = Min({ch.set[n], MaxDial})
                 /\ \A n \in DOMAIN d \ DOMAIN ch.set : Applied(d, ch)[n] = d[n]
<1> DEFINE base == IF ch.off THEN Empty ELSE d
           over == [n \in DOMAIN base \cup DOMAIN ch.set |->
                      IF n \in DOMAIN ch.set THEN Min({ch.set[n], MaxDial}) ELSE base[n]]
           x == 1 + IF ch.nudge \in DOMAIN over THEN over[ch.nudge] ELSE 0
<1>1. Applied(d, ch) = IF ch.nudge = NoName THEN over ELSE SetTo(over, ch.nudge, x)
  BY DEF Applied
<1>2. IsDials(over) /\ DOMAIN over = DOMAIN base \cup DOMAIN ch.set
  BY DEF IsDials
<1>3. /\ \A n \in DOMAIN ch.set : over[n] = Min({ch.set[n], MaxDial})
      /\ \A n \in DOMAIN base \ DOMAIN ch.set : over[n] = base[n]
  OBVIOUS
<1>4. ~ch.off => base = d
  OBVIOUS
<1> HIDE DEF base, over, x
<1>5. IsDials(SetTo(over, ch.nudge, x)) /\ DOMAIN SetTo(over, ch.nudge, x) # {}
  BY DEF SetTo, IsDials
<1>6. IsDials(Applied(d, ch))
  BY <1>1, <1>2, <1>5
<1>7. ASSUME ~ch.off, Applied(d, ch) = Empty PROVE d = Empty
  <2>1. DOMAIN Applied(d, ch) = {}
    BY <1>7 DEF Empty
  <2>2. Applied(d, ch) = over
    BY <1>1, <1>5, <2>1
  <2>3. DOMAIN d = {}
    BY <1>2, <1>4, <1>7, <2>1, <2>2
  <2> QED
    BY <2>3, DialDicts
<1>8. ASSUME ~ch.off, ch.nudge = NoName
      PROVE  /\ DOMAIN Applied(d, ch) = DOMAIN d \cup DOMAIN ch.set
             /\ \A n \in DOMAIN ch.set : Applied(d, ch)[n] = Min({ch.set[n], MaxDial})
             /\ \A n \in DOMAIN d \ DOMAIN ch.set : Applied(d, ch)[n] = d[n]
  BY <1>1, <1>2, <1>3, <1>4, <1>8
<1> QED
  BY <1>6, <1>7, <1>8

\* The value that a dict has, on record, and as the model is given it.
LEMMA ValuesOf ==
    ASSUME NEW d, IsDials(d), NEW n
    PROVE  /\ ValueOf(Active(d), n) = ValueOf(d, n)
           /\ ValueOf(Steered(d), n) = IF n \in vecs THEN ValueOf(d, n) ELSE 0
BY DialDicts DEF ValueOf

LEMMA ValueApplied ==
    ASSUME NEW d, IsDials(d), NEW ch, ~ch.off, ch.nudge = NoName, NEW n
    PROVE  ValueOf(Applied(d, ch), n) =
              IF n \in DOMAIN ch.set THEN Min({ch.set[n], MaxDial}) ELSE ValueOf(d, n)
<1>1. /\ DOMAIN Applied(d, ch) = DOMAIN d \cup DOMAIN ch.set
      /\ \A m \in DOMAIN ch.set : Applied(d, ch)[m] = Min({ch.set[m], MaxDial})
      /\ \A m \in DOMAIN d \ DOMAIN ch.set : Applied(d, ch)[m] = d[m]
  BY AppliedDict
<1>2. CASE n \in DOMAIN ch.set
  BY <1>1, <1>2 DEF ValueOf
<1>3. CASE n \notin DOMAIN ch.set
  BY <1>1, <1>3 DEF ValueOf
<1> QED
  BY <1>2, <1>3

\* Baselines leave the dials as they are.
LEMMA BaselineDials ==
    ASSUME NEW d, IsDials(d), NEW ch, OneThing(ch), ch.set = Empty
    PROVE  Applied(d, ch) = d
<1>1. DOMAIN ch.set = {}
  BY DEF Empty
<1>2. /\ DOMAIN Applied(d, ch) = DOMAIN d
      /\ \A n \in DOMAIN d : Applied(d, ch)[n] = d[n]
      /\ IsDials(Applied(d, ch))
  BY <1>1, AppliedDict DEF OneThing
<1> QED
  BY <1>2, SameDicts

-----------------------------------------------------------------------------
(* The steps *)

LEMMA JournalAdds ==
    ASSUME pastRuns \in Seq(ToSet(pastRuns)), NEW run, pastRuns' = Append(pastRuns, run)
    PROVE  /\ pastRuns' \in Seq(ToSet(pastRuns)')
           /\ Len(pastRuns) \in Nat /\ Len(pastRuns) + 1 \in DOMAIN pastRuns'
           /\ Len(pastRuns) + 1 # 0 /\ pastRuns'[Len(pastRuns) + 1] = run
           /\ \A i \in DOMAIN pastRuns : i \in DOMAIN pastRuns' /\ pastRuns'[i] = pastRuns[i]
           /\ \A i \in DOMAIN pastRuns' : i \in DOMAIN pastRuns \/ i = Len(pastRuns) + 1
<1> DEFINE n == Len(pastRuns)
           T == ToSet(pastRuns) \cup {run}
<1>1. n \in Nat /\ DOMAIN pastRuns = 1..n /\ pastRuns \in Seq(T)
  <2>1. pastRuns \in [1..n -> ToSet(pastRuns)] /\ n \in Nat
    OBVIOUS
  <2>2. pastRuns \in [1..n -> T]
    BY <2>1
  <2> HIDE DEF n
  <2> QED
    BY <2>1, <2>2
<1>2. /\ pastRuns' \in Seq(T) /\ Len(pastRuns') = n + 1 /\ pastRuns'[n + 1] = run
      /\ \A i \in 1..n : pastRuns'[i] = pastRuns[i]
  BY <1>1, AppendProperties
<1> HIDE DEF n, T
<1>3. DOMAIN pastRuns' = 1..(n + 1)
  BY <1>2
<1>4. pastRuns' \in Seq(ToSet(pastRuns)')
  <2> DEFINE m == Len(pastRuns')
             S == ToSet(pastRuns)'
  <2>1. m \in Nat /\ pastRuns' \in [1..m -> T] /\ DOMAIN pastRuns' = 1..m
    BY <1>2, LenProperties
  <2>2. \A i \in 1..m : pastRuns'[i] \in S
    BY <2>1 DEF ToSet
  <2> HIDE DEF m, S
  <2>3. pastRuns' \in [1..m -> S]
    BY <2>1, <2>2
  <2>4. pastRuns' \in Seq(S)
    BY <2>1, <2>3, SeqDef
  <2> QED
    BY <2>4 DEF S
<1>5. /\ n + 1 \in 1..(n + 1) /\ n + 1 # 0 /\ \A i \in 1..n : i \in 1..(n + 1)
      /\ \A i \in 1..(n + 1) : i \in 1..n \/ i = n + 1
  BY <1>1
<1> QED
  BY <1>1, <1>2, <1>3, <1>4, <1>5 DEF n

LEMMA RecordKeeps ==
    ASSUME ReplayInv, NEW run, pastRuns' = Append(pastRuns, run), IsDials(run.active),
           \A n \in DOMAIN run.active : run.active[n] # 0,
           ~run.changes.off =>
              Restrict(run.active, DOMAIN run.active \cap run.given.known) = run.given.dials
    PROVE  Recorded'
<1>1. \A i \in DOMAIN pastRuns' :
          \/ i \in DOMAIN pastRuns /\ pastRuns'[i] = pastRuns[i]
          \/ pastRuns'[i] = run
  BY JournalAdds DEF ReplayInv, StudioTyped
<1>2. RecordedAsGiven'
  <2> SUFFICES ASSUME NEW i \in DOMAIN pastRuns', ~pastRuns'[i].changes.off
               PROVE  Restrict(pastRuns'[i].active,
                               DOMAIN pastRuns'[i].active \cap pastRuns'[i].given.known)
                          = pastRuns'[i].given.dials
    BY DEF RecordedAsGiven
  <2>1. CASE i \in DOMAIN pastRuns /\ pastRuns'[i] = pastRuns[i]
    BY <2>1 DEF ReplayInv, Recorded, RecordedAsGiven
  <2>2. CASE pastRuns'[i] = run
    BY <2>2
  <2> QED
    BY <1>1, <2>1, <2>2
<1>3. \A i \in DOMAIN pastRuns' :
          /\ IsDials(pastRuns'[i].active)
          /\ \A n \in DOMAIN pastRuns'[i].active : pastRuns'[i].active[n] # 0
  BY <1>1 DEF ReplayInv, Recorded
<1> QED
  BY <1>2, <1>3 DEF Recorded

LEMMA SettingKeeps ==
    ASSUME ReplayInv,
           \/ \E n \in Names : DeleteDial(n) \/ AddDial(n) \/ \E x \in 0..MaxDial : SetDial(n, x)
           \/ \E x \in {0, 1} : SetMemory(x)
    PROVE  ReplayInv'
<1>a. /\ post = NoPost /\ post.at = "none" /\ excluded = {} /\ memStrength = MemoryDue
      /\ dials = savedDials
  BY DEF ReplayInv, StudioTyped, Borrowed, DeleteDial, AddDial, SetDial, SetMemory, Setting,
         NoPost
<1>b. UNCHANGED <<post, pastRuns, excluded>>
  BY DEF DeleteDial, AddDial, SetDial, SetMemory, Setting
<1>c. memStrength' = MemoryDue'
  <2>1. ASSUME NEW x, SetMemory(x) PROVE memStrength' = MemoryDue'
    BY <2>1 DEF SetMemory, MemoryDue
  <2>2. ASSUME UNCHANGED <<memStrength, memSetting, leftOff>> PROVE memStrength' = MemoryDue'
    BY <1>a, <2>2 DEF MemoryDue
  <2> QED
    BY <2>1, <2>2 DEF DeleteDial, AddDial, SetDial
<1>1. /\ post = NoPost /\ post.at = "none" /\ UNCHANGED <<post, pastRuns, excluded>>
      /\ excluded = {} /\ memStrength' = MemoryDue'
      /\ dials = savedDials
  BY <1>a, <1>b, <1>c
<1>2. dials' = savedDials' /\ IsDials(savedDials')
  BY <1>1
  DEF DeleteDial, AddDial, SetDial, SetMemory, SetTo, Restrict, IsDials, ReplayInv, StudioTyped
<1> QED
  BY <1>1, <1>2
  DEF ReplayInv, StudioTyped, Borrowed, Recorded, RecordedAsGiven, Compared, NoPost

LEMMA EditKeeps ==
    ASSUME ReplayInv, NEW c, EditStore(c)
    PROVE  ReplayInv'
<1>1. /\ UNCHANGED <<studioVars, pastRuns, post>> /\ MemoryDue' = MemoryDue
      /\ post # NoPost => cardsRaced' = TRUE
  BY DEF EditStore, MemoryDue
<1>2. StudioTyped' /\ Borrowed' /\ Recorded'
  BY <1>1
  DEF ReplayInv, StudioTyped, Borrowed, Change, Recorded, RecordedAsGiven, studioVars
<1>3. Compared'
  <2>1. ASSUME post # NoPost, post.kind # "replay", NEW i \in 1..Len(post.children),
               post.children[i] # 0
        PROVE  i <= Len(post.arms) /\ ChildOf(post.children[i], post.arms[i])'
    BY <1>1, <2>1 DEF ReplayInv, Compared, ChildOf, studioVars, Steered
  <2>2. post # NoPost /\ post.kind # "replay" => ComparisonArms(post.arms)
    BY DEF ReplayInv, Compared
  <2> QED
    BY <1>1, <2>1, <2>2 DEF Compared
<1> QED
  BY <1>2, <1>3 DEF ReplayInv

\* A reply of the product route, and a branch, are made under the live dials; a
\* fork under those its parent recorded.
LEMMA TurnKeeps ==
    ASSUME ReplayInv, ChatTurn \/ \E r \in DOMAIN pastRuns : BranchRun(r, TRUE) \/ Fork(r)
    PROVE  ReplayInv'
<1>1. /\ post = NoPost /\ post.at = "none" /\ UNCHANGED <<studioVars, post>>
      /\ MemoryDue' = MemoryDue /\ dials = savedDials /\ IsDials(savedDials)
  <2>0. UNCHANGED <<memSetting, leftOff>>
    BY DEF ChatTurn, BranchRun, Fork
  <2>1. MemoryDue' = MemoryDue
    BY <2>0 DEF MemoryDue
  <2> QED
    BY <2>1 DEF ReplayInv, StudioTyped, Borrowed, ChatTurn, BranchRun, Fork, NoPost
<1>2. /\ IsDials(Active(dials)) /\ \A n \in DOMAIN Active(dials) : Active(dials)[n] # 0
      /\ Restrict(Active(dials), DOMAIN Active(dials) \cap vecs) = Steered(dials)
  <2>1. IsDials(dials)
    BY <1>1
  <2>2. IsDials(Active(dials)) /\ \A n \in DOMAIN Active(dials) : Active(dials)[n] # 0
    BY <2>1, ActiveIsTurned
  <2> QED
    BY <2>1, <2>2, ActiveIsGiven
<1>3. \A greedy, presets : /\ Given(greedy, presets).dials = Steered(dials)
                           /\ Given(greedy, presets).known = vecs
  BY <1>1 DEF Given
<1>4. ASSUME NEW kind, NEW parent, NEW greedy,
             pastRuns' = Append(pastRuns, RunRecord(kind, parent, NoChange, Active(dials),
                                                    Given(greedy, {})))
      PROVE  Recorded' /\ pastRuns' \in Seq(ToSet(pastRuns)')
  <2> DEFINE run == RunRecord(kind, parent, NoChange, Active(dials), Given(greedy, {}))
  <2>1. /\ run.active = Active(dials) /\ run.given.dials = Steered(dials)
        /\ run.given.known = vecs
    BY <1>3 DEF RunRecord
  <2>2. pastRuns' = Append(pastRuns, run)
    BY <1>4
  <2> HIDE DEF run
  <2> QED
    BY <1>2, <2>1, <2>2, RecordKeeps, JournalAdds DEF ReplayInv, StudioTyped
<1>5. ASSUME NEW r \in DOMAIN pastRuns, Fork(r)
      PROVE  Recorded' /\ pastRuns' \in Seq(ToSet(pastRuns)')
  <2> DEFINE pa == pastRuns[r].active
             given == [pastRuns[r].given EXCEPT !.dials = Steered(pa), !.greedy = TRUE,
                                                !.known = vecs]
             act == IF Steered(pa) = Empty THEN Empty ELSE pa
             run == RunRecord("fork", r, NoChange, act, given)
  <2>1. IsDials(pa) /\ \A n \in DOMAIN pa : pa[n] # 0
    BY DEF ReplayInv, Recorded
  <2>2. given.dials = Steered(pa) /\ given.known = vecs
    OBVIOUS
  <2>3. run.active = act /\ run.given = given /\ pastRuns' = Append(pastRuns, run)
    BY <1>5 DEF Fork, RunRecord
  <2>4. IsDials(act) /\ \A n \in DOMAIN act : act[n] # 0
    BY <2>1, DialDicts DEF Empty
  <2> HIDE DEF pa
  <2>5. Active(pa) = pa
    <3>1. /\ IsDials(Active(pa)) /\ DOMAIN Active(pa) = DOMAIN pa
          /\ \A n \in DOMAIN pa : Active(pa)[n] = pa[n]
      BY <2>1, DialDicts
    <3> QED
      BY <2>1, <3>1, SameDicts
  <2>6. Restrict(act, DOMAIN act \cap vecs) = Steered(pa)
    <3>1. CASE Steered(pa) = Empty
      BY <3>1 DEF Restrict, Empty
    <3>2. CASE Steered(pa) # Empty
      BY <2>1, <2>5, <3>2, ActiveIsGiven
    <3> QED
      BY <3>1, <3>2
  <2> HIDE DEF run, given, act, pa
  <2> QED
    BY <2>2, <2>3, <2>4, <2>6, RecordKeeps, JournalAdds DEF ReplayInv, StudioTyped
<1>6. Recorded' /\ pastRuns' \in Seq(ToSet(pastRuns)')
  BY <1>4, <1>5 DEF ChatTurn, BranchRun
<1> QED
  BY <1>1, <1>6 DEF ReplayInv, StudioTyped, Borrowed, Compared, studioVars

\* A request begins: a comparison with the arms of one.
LEMMA BeginsKeeps ==
    ASSUME ReplayInv, NEW kind, NEW r, NEW arms, Begins(kind, r, arms),
           Len(arms) \in Nat \ {0}, kind # "replay" => ComparisonArms(arms)
    PROVE  ReplayInv'
<1>1. /\ post.at = "none" /\ UNCHANGED <<studioVars, pastRuns>> /\ MemoryDue' = MemoryDue
      /\ post' = [at |-> "apply", kind |-> kind, parent |-> r, arms |-> arms,
                  children |-> <<>>]
  BY DEF ReplayInv, StudioTyped, Begins, NoPost, MemoryDue
<1>2. /\ post'.at = "apply" /\ post'.kind = kind /\ post'.arms = arms
      /\ post'.children = <<>> /\ Len(post'.children) = 0 /\ post' # NoPost
      /\ post'.children \in Seq(Nat)
  BY <1>1 DEF NoPost
<1>3. /\ StudioTyped' /\ Recorded'
  BY <1>1, <1>2 DEF ReplayInv, StudioTyped, Recorded, RecordedAsGiven, studioVars
<1>4. Borrowed'
  BY <1>1, <1>2 DEF ReplayInv, Borrowed, studioVars
<1>5. Compared'
  BY <1>2 DEF Compared
<1> QED
  BY <1>3, <1>4, <1>5 DEF ReplayInv

LEMMA StartKeepsReplay ==
    ASSUME ReplayInv, NEW r,
           \/ StartReplay(r)
           \/ \E now \in SUBSET Presets, p \in Presets : StartRetry(r, now, p)
           \/ \E n \in Names, x \in 0..(MaxDial + 1) : StartCounterfactual(r, n, x)
           \/ \E n \in Names, x, y \in 1..MaxDial : x < y /\ StartSweep(r, n, x, y)
    PROVE  ReplayInv'
<1>1. ASSUME NEW ch, Begins("replay", r, <<ch>>) PROVE ReplayInv'
  <2>1. Len(<<ch>>) \in Nat \ {0}
    OBVIOUS
  <2> QED
    BY <1>1, <2>1, BeginsKeeps
<1>2. OneThing(Baseline) /\ Baseline.set = Empty /\ Baseline.presets = {}
  BY DEF OneThing, Baseline, NoChange
<1>3. \A n, x : OneThing(Dose(n, x)) /\ Dose(n, x).presets = {}
  BY <1>2 DEF OneThing, Dose, Baseline, NoChange
<1>4. ASSUME NEW kind, NEW c, OneThing(c), NEW b, OneThing(b), b.set = Empty,
             b.presets \subseteq c.presets, Begins(kind, r, <<b, c>>)
      PROVE  ReplayInv'
  <2>1. /\ Len(<<b, c>>) = 2 /\ <<b, c>>[1] = b /\ <<b, c>>[2] = c
        /\ \A i \in 1..2 : i = 1 \/ i = 2
    OBVIOUS
  <2>2. ComparisonArms(<<b, c>>)
    BY <1>4, <2>1 DEF ComparisonArms
  <2> QED
    BY <1>4, <2>1, <2>2, BeginsKeeps
<1>5. ASSUME NEW n, NEW x, NEW y, StartSweep(r, n, x, y) PROVE ReplayInv'
  <2> DEFINE b == Baseline
             c == Dose(n, x)
             d == Dose(n, y)
             arms == <<b, c, b, d>>
  <2>1. /\ Len(arms) = 4 /\ arms[1] = b /\ arms[2] = c /\ arms[3] = b /\ arms[4] = d
        /\ \A i \in 1..4 : i = 1 \/ i = 2 \/ i = 3 \/ i = 4
    OBVIOUS
  <2>2. Begins("counterfactual", r, arms)
    BY <1>5 DEF StartSweep
  <2>3. OneThing(b) /\ OneThing(c) /\ OneThing(d) /\ b.set = Empty /\ b.presets = {}
    BY <1>2, <1>3
  <2> HIDE DEF arms, b, c, d
  <2>4. ComparisonArms(arms)
    BY <2>1, <2>3 DEF ComparisonArms
  <2> QED
    BY <2>1, <2>2, <2>4, BeginsKeeps
<1>6. ASSUME NEW now, NEW p, StartRetry(r, now, p) PROVE ReplayInv'
  <2> DEFINE b == [Baseline EXCEPT !.presets = now]
             c == [Baseline EXCEPT !.presets = now \cup {p}]
  <2>1. /\ OneThing(b) /\ OneThing(c) /\ b.set = Empty /\ b.presets = now
        /\ c.presets = now \cup {p}
    BY DEF OneThing, Baseline, NoChange
  <2>2. Begins("retry", r, <<b, c>>)
    BY <1>6 DEF StartRetry
  <2> HIDE DEF b, c
  <2> QED
    BY <1>4, <2>1, <2>2
<1>7. ASSUME NEW n, NEW x, StartCounterfactual(r, n, x) PROVE ReplayInv'
  BY <1>2, <1>3, <1>4, <1>7 DEF StartCounterfactual
<1> QED
  BY <1>1, <1>5, <1>6, <1>7 DEF StartReplay

\* The live state is changed, and what it was is in the request's hands.
LEMMA ApplyKeeps ==
    ASSUME ReplayInv, Apply
    PROVE  ReplayInv'
<1>1. /\ post.at = "apply" /\ dials = savedDials /\ memStrength = MemoryDue /\ excluded = {}
      /\ post.children \in Seq(Nat) /\ Len(post.arms) \in Nat /\ post # NoPost
      /\ Len(post.children) < Len(post.arms) /\ IsDials(savedDials)
  BY DEF ReplayInv, StudioTyped, Borrowed, Apply, NoPost
<1>2. /\ dials' = Applied(savedDials, Change)
      /\ memStrength' = IF Change.memOff THEN 0 ELSE MemoryDue
      /\ excluded' = Change.disabled
      /\ UNCHANGED <<savedDials, vecs, inStore, pastRuns, MemoryDue, cardsRaced>>
  BY <1>1 DEF Apply, MemoryDue
<1>3. /\ post'.at = "generate" /\ post'.kind = post.kind /\ post'.parent = post.parent
      /\ post'.arms = post.arms /\ post'.children = post.children
      /\ post'.dials = savedDials /\ post'.strength = MemoryDue /\ post'.excluded = {}
      /\ post'.active = Active(dials')
  BY <1>1 DEF Apply
<1>4. post' # NoPost
  BY <1>3 DEF NoPost
<1>5. Change' = Change
  BY <1>3 DEF Change
<1>6. StudioTyped' /\ Recorded'
  BY <1>1, <1>2, <1>3, <1>4 DEF ReplayInv, StudioTyped, Recorded, RecordedAsGiven
<1>7. Borrowed'
  BY <1>1, <1>2, <1>3, <1>5 DEF Borrowed
<1>8. Compared'
  <2>1. ASSUME post.kind # "replay", NEW i \in 1..Len(post.children), post.children[i] # 0
        PROVE  i <= Len(post.arms) /\ ChildOf(post.children[i], post.arms[i])'
    <3>1. i <= Len(post.arms) /\ ChildOf(post.children[i], post.arms[i])
      BY <1>1, <2>1 DEF ReplayInv, Compared
    <3> QED
      BY <1>2, <1>3, <3>1 DEF ChildOf, Steered
  <2>2. post.kind # "replay" => ComparisonArms(post.arms)
    BY <1>1 DEF ReplayInv, Compared
  <2> QED
    BY <1>3, <2>1, <2>2 DEF Compared
<1> QED
  BY <1>6, <1>7, <1>8 DEF ReplayInv

\* The next arm, or the answer.
LEMMA ArmsOver ==
    ASSUME ReplayInv, post.at \in {"apply", "generate"}, NEW child \in Nat, Arms(child)
    PROVE  /\ post'.at \in {"apply", "answer"} /\ post' # NoPost
           /\ post'.kind = post.kind /\ post'.arms = post.arms
           /\ post'.children \in Seq(Nat)
           /\ post'.at = "apply" => Len(post'.children) < Len(post'.arms)
           /\ \A i \in 1..Len(post'.children) :
                 \/ i \in 1..Len(post.children) /\ post'.children[i] = post.children[i]
                 \/ i = Len(post.children) + 1 /\ post'.children[i] = child
                 \/ post'.children[i] = 0
<1> DEFINE s == post.children
           n == Len(s)
           done == Append(s, child)
           odd == Len(done) % 2 = 1
           next == IF child = 0 /\ odd THEN Append(done, 0) ELSE done
<1>1. s \in Seq(Nat) /\ n \in Nat /\ Len(post.arms) \in Nat /\ post # NoPost
  BY DEF ReplayInv, StudioTyped, NoPost
<1>2. post' = [at |-> IF Len(next) >= Len(post.arms) THEN "answer" ELSE "apply",
               kind |-> post.kind, parent |-> post.parent, arms |-> post.arms,
               children |-> next]
  BY DEF Arms
<1>3. /\ done \in Seq(Nat) /\ Len(done) = n + 1 /\ done[n + 1] = child
      /\ \A i \in 1..n : done[i] = s[i]
  BY <1>1, AppendProperties
<1> HIDE DEF done, odd
<1>4. /\ Append(done, 0) \in Seq(Nat) /\ Len(Append(done, 0)) = n + 2
      /\ Append(done, 0)[n + 2] = 0
      /\ \A i \in 1..(n + 1) : Append(done, 0)[i] = done[i]
  BY <1>1, <1>3, AppendProperties
<1>x. n = Len(s)
  OBVIOUS
<1> HIDE DEF n
<1>5. /\ \A i \in 1..(n + 1) : i \in 1..n \/ i = n + 1
      /\ \A i \in 1..(n + 2) : i \in 1..(n + 1) \/ i = n + 2
  BY <1>1
<1>6. next = done \/ next = Append(done, 0)
  OBVIOUS
<1> HIDE DEF next
<1>7. /\ next \in Seq(Nat) /\ Len(next) \in Nat
      /\ \A i \in 1..Len(next) :
            \/ i \in 1..n /\ next[i] = s[i]
            \/ i = n + 1 /\ next[i] = child
            \/ next[i] = 0
  <2>1. CASE next = done
    BY <1>1, <1>3, <1>5, <2>1
  <2>2. CASE next = Append(done, 0)
    BY <1>1, <1>3, <1>4, <1>5, <2>2, SMTT(30)
  <2> QED
    BY <1>6, <2>1, <2>2
<1>8. /\ post'.at = (IF Len(next) >= Len(post.arms) THEN "answer" ELSE "apply")
      /\ post'.kind = post.kind /\ post'.arms = post.arms /\ post'.children = next
  BY <1>2
<1>9. post'.at \in {"apply", "answer"} /\ post' # NoPost
  BY <1>8 DEF NoPost
<1>10. post'.at = "apply" => Len(post'.children) < Len(post'.arms)
  BY <1>1, <1>7, <1>8
<1> QED
  BY <1>7, <1>8, <1>9, <1>10, <1>x

\* The finally block puts back what the arm borrowed.
LEMMA RestoredStudio ==
    ASSUME ReplayInv, post.at = "generate", Restored, UNCHANGED <<savedDials, MemoryDue>>
    PROVE  dials' = savedDials' /\ memStrength' = MemoryDue' /\ excluded' = {}
BY DEF ReplayInv, Borrowed, Restored

\* What an arm made is recorded as it was given.
LEMMA ChildMade ==
    ASSUME ReplayInv, post.at = "generate"
    PROVE  LET g == Given(Change.greedy, Change.presets) IN
           /\ IsDials(post.active) /\ post.active = Active(Applied(savedDials, Change))
           /\ \A n \in DOMAIN post.active : post.active[n] # 0
           /\ g.known = vecs
           /\ ~Change.off =>
                 /\ g.dials = Steered(Applied(savedDials, Change))
                 /\ Restrict(post.active, DOMAIN post.active \cap vecs) = g.dials
           /\ OneThing(Change) =>
                 /\ g.greedy = TRUE /\ g.presets = Change.presets
                 /\ g.cards = IF MemoryDue = 0 THEN {} ELSE inStore
<1> DEFINE g == Given(Change.greedy, Change.presets)
           d == Applied(savedDials, Change)
<1>1. /\ dials = d /\ post.active = Active(d) /\ IsDials(savedDials)
      /\ memStrength = IF Change.memOff THEN 0 ELSE MemoryDue
      /\ excluded = Change.disabled
  BY DEF ReplayInv, StudioTyped, Borrowed
<1>2. IsDials(d)
  BY <1>1, AppliedDict
<1>3. /\ g.dials = Steered(IF dials = Empty THEN savedDials ELSE dials)
      /\ g.cards = (IF memStrength = 0 THEN {} ELSE inStore \ excluded)
      /\ g.greedy = Change.greedy /\ g.presets = Change.presets /\ g.known = vecs
  BY DEF Given
<1>4. ~Change.off => g.dials = Steered(d)
  <2> SUFFICES ASSUME ~Change.off PROVE g.dials = Steered(d)
    OBVIOUS
  <2>1. d = Empty => savedDials = Empty
    BY <1>1, AppliedDict
  <2> QED
    BY <1>1, <1>3, <2>1
<1> HIDE DEF g, d
<1>5. IsDials(Active(d)) /\ \A n \in DOMAIN Active(d) : Active(d)[n] # 0
  BY <1>2, ActiveIsTurned
<1>6. Restrict(Active(d), DOMAIN Active(d) \cap vecs) = Steered(d)
  BY <1>2, ActiveIsGiven
<1>7. ASSUME OneThing(Change)
      PROVE  g.cards = IF MemoryDue = 0 THEN {} ELSE inStore
  BY <1>1, <1>3, <1>7 DEF OneThing
<1>8. OneThing(Change) => Change.greedy
  BY DEF OneThing
<1> QED
  BY <1>1, <1>3, <1>4, <1>5, <1>6, <1>7, <1>8 DEF g, d

\* An arm that made its run, and the comparison that has it as its child.
LEMMA ChildKeeps ==
    ASSUME ReplayInv, ReplayChild
    PROVE  ReplayInv'
<1> DEFINE g == Given(Change.greedy, Change.presets)
           run == RunRecord("replay", post.parent, Change, post.active, g)
           c == Len(pastRuns) + 1
<1>1. /\ post.at = "generate" /\ Restored /\ pastRuns' = Append(pastRuns, run) /\ Arms(c)
      /\ UNCHANGED <<savedDials, vecs, inStore, MemoryDue, cardsRaced>>
  BY DEF ReplayChild, MemoryDue
<1>2. /\ IsDials(post.active) /\ post.active = Active(Applied(savedDials, Change))
      /\ \A n \in DOMAIN post.active : post.active[n] # 0
      /\ g.known = vecs
      /\ ~Change.off =>
            /\ g.dials = Steered(Applied(savedDials, Change))
            /\ Restrict(post.active, DOMAIN post.active \cap vecs) = g.dials
      /\ OneThing(Change) =>
            /\ g.greedy = TRUE /\ g.presets = Change.presets
            /\ g.cards = IF MemoryDue = 0 THEN {} ELSE inStore
  BY <1>1, ChildMade
<1>3. g = [dials |-> g.dials, cards |-> g.cards, greedy |-> g.greedy, presets |-> g.presets,
           known |-> g.known]
  BY DEF Given
<1> HIDE DEF g
<1>4. run.active = post.active /\ run.changes = Change /\ run.given = g
  BY DEF RunRecord
<1> HIDE DEF run
<1>5. /\ pastRuns' \in Seq(ToSet(pastRuns)')
      /\ c \in Nat /\ c # 0 /\ c \in DOMAIN pastRuns' /\ pastRuns'[c] = run
      /\ \A i \in DOMAIN pastRuns : i \in DOMAIN pastRuns' /\ pastRuns'[i] = pastRuns[i]
  BY <1>1, JournalAdds DEF ReplayInv, StudioTyped
<1> HIDE DEF c
<1>6. /\ post'.at \in {"apply", "answer"} /\ post' # NoPost
      /\ post'.kind = post.kind /\ post'.arms = post.arms
      /\ post'.children \in Seq(Nat)
      /\ post'.at = "apply" => Len(post'.children) < Len(post'.arms)
      /\ \A i \in 1..Len(post'.children) :
            \/ i \in 1..Len(post.children) /\ post'.children[i] = post.children[i]
            \/ i = Len(post.children) + 1 /\ post'.children[i] = c
            \/ post'.children[i] = 0
  BY <1>1, <1>5, ArmsOver
<1>7. dials' = savedDials' /\ memStrength' = MemoryDue' /\ excluded' = {}
  BY <1>1, RestoredStudio
<1>8. Recorded'
  BY <1>1, <1>2, <1>4, RecordKeeps
<1>9. post # NoPost /\ IsDials(savedDials) /\ Len(post.arms) \in Nat
      /\ Len(post.children) \in Nat /\ Len(post.children) < Len(post.arms)
  BY <1>1 DEF NoPost, ReplayInv, StudioTyped, Borrowed
<1>10. StudioTyped'
  BY <1>1, <1>5, <1>6, <1>9 DEF StudioTyped
<1>11. Borrowed'
  BY <1>6, <1>7 DEF Borrowed
<1>12. ASSUME post.kind # "replay", NEW i \in 1..Len(post'.children), post'.children[i] # 0
       PROVE  i <= Len(post'.arms) /\ ChildOf(post.children[i], post.arms[i])'
  <2>1. CASE i \in 1..Len(post.children) /\ post'.children[i] = post.children[i]
    <3>1. i <= Len(post.arms) /\ ChildOf(post.children[i], post.arms[i])
      BY <1>9, <1>12, <2>1 DEF ReplayInv, Compared
    <3> QED
      BY <1>1, <1>5, <1>6, <2>1, <3>1 DEF ChildOf, Steered
  <2>2. CASE i = Len(post.children) + 1 /\ post'.children[i] = c
    <3>1. i \in 1..Len(post.arms) /\ Change = post.arms[i]
      BY <1>9, <2>2 DEF Change
    <3>2. OneThing(Change)
      BY <1>9, <1>12, <3>1 DEF ReplayInv, Compared, ComparisonArms
    <3>3. ~Change.off
      BY <3>2 DEF OneThing
    <3>4. /\ pastRuns'[c].changes = Change
          /\ pastRuns'[c].active = Active(Applied(savedDials, Change))
          /\ pastRuns'[c].given = g
      BY <1>2, <1>4, <1>5
    <3>5. g = [dials |-> Steered(Applied(savedDials, Change)), cards |-> g.cards,
               greedy |-> TRUE, presets |-> Change.presets, known |-> vecs]
      BY <1>2, <1>3, <3>2, <3>3
    <3>6. g.cards = IF MemoryDue = 0 THEN {} ELSE inStore
      BY <1>2, <3>2
    <3>7. i <= Len(post'.arms) /\ post'.arms[i] = Change
      BY <1>6, <1>9, <3>1
    <3> QED
      BY <1>1, <1>5, <2>2, <3>4, <3>5, <3>6, <3>7 DEF ChildOf, Steered
  <2> QED
    BY <1>6, <1>12, <2>1, <2>2
<1>13. post.kind # "replay" => ComparisonArms(post'.arms)
  BY <1>6, <1>9 DEF ReplayInv, Compared
<1>14. Compared'
  BY <1>6, <1>12, <1>13 DEF Compared
<1> QED
  BY <1>8, <1>10, <1>11, <1>14 DEF ReplayInv

LEMMA FailsKeeps ==
    ASSUME ReplayInv, ReplayFails
    PROVE  ReplayInv'
<1>1. /\ post.at = "generate" /\ Restored /\ Arms(0)
      /\ UNCHANGED <<savedDials, vecs, inStore, pastRuns, MemoryDue, cardsRaced>>
  BY DEF ReplayFails, MemoryDue
<1>2. /\ post'.at \in {"apply", "answer"} /\ post' # NoPost
      /\ post'.kind = post.kind /\ post'.arms = post.arms
      /\ post'.children \in Seq(Nat)
      /\ post'.at = "apply" => Len(post'.children) < Len(post'.arms)
      /\ \A i \in 1..Len(post'.children) :
            \/ i \in 1..Len(post.children) /\ post'.children[i] = post.children[i]
            \/ post'.children[i] = 0
  BY <1>1, ArmsOver
<1>3. dials' = savedDials' /\ memStrength' = MemoryDue' /\ excluded' = {}
  BY <1>1, RestoredStudio
<1>4. post # NoPost /\ Len(post.arms) \in Nat
  BY <1>1 DEF NoPost, ReplayInv, StudioTyped
<1>5. StudioTyped' /\ Recorded' /\ Borrowed'
  BY <1>1, <1>2, <1>3, <1>4
  DEF ReplayInv, StudioTyped, Recorded, RecordedAsGiven, Borrowed
<1>6. ASSUME post.kind # "replay", NEW i \in 1..Len(post'.children), post'.children[i] # 0
      PROVE  i <= Len(post'.arms) /\ ChildOf(post.children[i], post.arms[i])'
  <2>1. i \in 1..Len(post.children) /\ post'.children[i] = post.children[i]
    BY <1>2, <1>6
  <2>2. i <= Len(post.arms) /\ ChildOf(post.children[i], post.arms[i])
    BY <1>4, <1>6, <2>1 DEF ReplayInv, Compared
  <2> QED
    BY <1>1, <1>2, <2>1, <2>2 DEF ChildOf, Steered
<1>7. post.kind # "replay" => ComparisonArms(post'.arms)
  BY <1>2, <1>4 DEF ReplayInv, Compared
<1>8. Compared'
  BY <1>2, <1>6, <1>7 DEF Compared
<1> QED
  BY <1>5, <1>8 DEF ReplayInv

\* The changes could not all be applied: the memory may be off, and is then left
\* so; nothing else of the studio has moved.
LEMMA RaisesKeeps ==
    ASSUME ReplayInv, ApplyRaises
    PROVE  ReplayInv'
<1>1. /\ post.at = "apply" /\ Arms(0)
      /\ UNCHANGED <<dials, savedDials, vecs, excluded, inStore, pastRuns, cardsRaced>>
      /\ memStrength' = (IF Change.memOff THEN 0 ELSE memStrength)
      /\ MemoryDue' = IF Change.memOff THEN 0 ELSE MemoryDue
  BY DEF ApplyRaises, MemoryDue
<1>2. /\ post'.at \in {"apply", "answer"} /\ post' # NoPost
      /\ post'.kind = post.kind /\ post'.arms = post.arms
      /\ post'.children \in Seq(Nat)
      /\ post'.at = "apply" => Len(post'.children) < Len(post'.arms)
      /\ \A i \in 1..Len(post'.children) :
            \/ i \in 1..Len(post.children) /\ post'.children[i] = post.children[i]
            \/ post'.children[i] = 0
  BY <1>1, ArmsOver
<1>3. /\ dials = savedDials /\ memStrength = MemoryDue /\ excluded = {}
      /\ post # NoPost /\ Len(post.arms) \in Nat /\ post.children \in Seq(Nat)
      /\ Len(post.children) < Len(post.arms)
  BY <1>1 DEF NoPost, ReplayInv, StudioTyped, Borrowed
<1>4. dials' = savedDials' /\ memStrength' = MemoryDue' /\ excluded' = {}
  BY <1>1, <1>3
<1>5. StudioTyped' /\ Recorded' /\ Borrowed'
  BY <1>1, <1>2, <1>3, <1>4
  DEF ReplayInv, StudioTyped, Recorded, RecordedAsGiven, Borrowed
<1>6. ASSUME post.kind # "replay" PROVE MemoryDue' = MemoryDue
  <2>1. ComparisonArms(post.arms) /\ Len(post.children) + 1 \in 1..Len(post.arms)
    BY <1>3, <1>6 DEF ReplayInv, Compared
  <2>2. ~Change.memOff
    BY <2>1 DEF ComparisonArms, OneThing, Change
  <2> QED
    BY <1>1, <2>2
<1>7. ASSUME post.kind # "replay", NEW i \in 1..Len(post'.children), post'.children[i] # 0
      PROVE  i <= Len(post'.arms) /\ ChildOf(post.children[i], post.arms[i])'
  <2>1. i \in 1..Len(post.children) /\ post'.children[i] = post.children[i]
    BY <1>2, <1>7
  <2>2. i <= Len(post.arms) /\ ChildOf(post.children[i], post.arms[i])
    BY <1>3, <1>7, <2>1 DEF ReplayInv, Compared
  <2> QED
    BY <1>1, <1>2, <1>6, <1>7, <2>1, <2>2 DEF ChildOf, Steered
<1>8. post.kind # "replay" => ComparisonArms(post'.arms)
  BY <1>2, <1>3 DEF ReplayInv, Compared
<1>9. Compared'
  BY <1>2, <1>7, <1>8 DEF Compared
<1> QED
  BY <1>5, <1>9 DEF ReplayInv

LEMMA ReplayStarts == ReplayInit => ReplayInv
<1> SUFFICES ASSUME ReplayInit PROVE ReplayInv
  OBVIOUS
<1>1. /\ savedDials = dials /\ MemoryDue = memStrength /\ excluded = {}
      /\ pastRuns = <<>> /\ post = NoPost /\ post.at = "none"
      /\ dials = Empty \/ dials \in [Axes0 -> {0, 1}]
  BY DEF ReplayInit, NoPost, MemoryDue
<1>2. IsDials(savedDials)
  BY <1>1 DEF IsDials, Empty
<1>3. <<>> \in Seq(ToSet(<<>>))
  OBVIOUS
<1>4. StudioTyped
  BY <1>1, <1>2, <1>3 DEF StudioTyped
<1> QED
  BY <1>1, <1>4 DEF ReplayInv, Borrowed, Recorded, RecordedAsGiven, Compared

LEMMA ReplaySteps == ReplayInv /\ [ReplayNext]_replayVars => ReplayInv'
<1> SUFFICES ASSUME ReplayInv, [ReplayNext]_replayVars PROVE ReplayInv'
  OBVIOUS
<1>1. CASE Respond
  <2>1. /\ post' = NoPost /\ post.at = "answer"
        /\ UNCHANGED <<studioVars, inStore, pastRuns, MemoryDue, cardsRaced>>
    BY <1>1 DEF Respond, MemoryDue
  <2>2. post'.at = "none"
    BY <2>1 DEF NoPost
  <2> QED
    BY <2>1, <2>2
    DEF studioVars, ReplayInv, StudioTyped, Borrowed, Recorded, RecordedAsGiven, Compared
<1>2. CASE UNCHANGED replayVars
  <2>1. UNCHANGED <<dials, savedDials, vecs, memStrength, excluded, inStore, pastRuns, post,
                    MemoryDue, cardsRaced>>
    BY <1>2 DEF replayVars, studioVars, MemoryDue
  <2>2. StudioTyped' /\ Borrowed' /\ Recorded'
    BY <2>1 DEF ReplayInv, StudioTyped, Borrowed, Change, Recorded, RecordedAsGiven
  <2>3. Compared'
    BY <2>1 DEF ReplayInv, Compared, ChildOf, Steered
  <2> QED
    BY <2>2, <2>3 DEF ReplayInv
<1>3. CASE \/ \E n \in Names : DeleteDial(n) \/ AddDial(n) \/ \E x \in 0..MaxDial : SetDial(n, x)
           \/ \E x \in {0, 1} : SetMemory(x)
  BY <1>3, SettingKeeps
<1>4. CASE \E c \in MemCards : EditStore(c)
  BY <1>4, EditKeeps
<1>5. CASE ChatTurn \/ \E r \in DOMAIN pastRuns : BranchRun(r, TRUE) \/ Fork(r)
  BY <1>5, TurnKeeps
<1>6. ASSUME NEW r,
             \/ StartReplay(r)
             \/ \E now \in SUBSET Presets, p \in Presets : StartRetry(r, now, p)
             \/ \E n \in Names, x \in 0..(MaxDial + 1) : StartCounterfactual(r, n, x)
             \/ \E n \in Names, x, y \in 1..MaxDial : x < y /\ StartSweep(r, n, x, y)
      PROVE  ReplayInv'
  BY <1>6, StartKeepsReplay
<1>7. CASE Apply \/ ApplyRaises \/ ReplayChild \/ ReplayFails
  BY <1>7, ApplyKeeps, RaisesKeeps, ChildKeeps, FailsKeeps
<1> QED
  BY <1>1, <1>2, <1>3, <1>4, <1>5, <1>6, <1>7 DEF ReplayNext

-----------------------------------------------------------------------------
(* What a comparison says *)

\* The two runs of a pair, with the arms that made them.
LEMMA PairsAreArms ==
    ASSUME ReplayInv, NEW bc \in Pairs
    PROVE  \E b, c :
              /\ OneThing(b) /\ OneThing(c) /\ b.set = Empty /\ b.presets \subseteq c.presets
              /\ b = post.arms[1] /\ ChildOf(bc[1], b) /\ ChildOf(bc[2], c)
<1>1. post.at = "answer" /\ post.kind # "replay" /\ post # NoPost
  BY DEF Pairs, NoPost
<1>2. PICK i \in DOMAIN post.children :
          /\ i % 2 = 0 /\ bc = <<post.children[i - 1], post.children[i]>>
          /\ bc[1] # 0 /\ bc[2] # 0
  BY DEF Pairs
<1>3. /\ ComparisonArms(post.arms)
      /\ post.children \in Seq(Nat)
      /\ \A j \in 1..Len(post.children) :
            post.children[j] # 0 =>
                j <= Len(post.arms) /\ ChildOf(post.children[j], post.arms[j])
  BY <1>1 DEF ReplayInv, StudioTyped, Compared
<1> DEFINE n == Len(post.children)
           m == Len(post.arms)
<1>4. /\ n \in Nat /\ i \in 1..n /\ m \in {2, 4}
      /\ bc[1] = post.children[i - 1] /\ bc[2] = post.children[i]
  BY <1>2, <1>3 DEF ComparisonArms
<1>5. i <= m
  BY <1>2, <1>3, <1>4
<1> HIDE DEF n, m
<1>6. i = 2 \/ (i = 4 /\ m = 4)
  BY <1>2, <1>4, <1>5
<1>7. i - 1 \in 1..n /\ i - 1 \in {1, 3} /\ i - 1 <= m /\ i \in 1..m /\ i - 1 \in 1..m
  BY <1>4, <1>5, <1>6
<1>8. ChildOf(bc[1], post.arms[i - 1]) /\ ChildOf(bc[2], post.arms[i])
  BY <1>2, <1>3, <1>4, <1>7 DEF n
<1>9. /\ post.arms[i - 1] = post.arms[1] /\ OneThing(post.arms[1]) /\ OneThing(post.arms[i])
      /\ post.arms[1].set = Empty /\ post.arms[1].presets \subseteq post.arms[i].presets
  <2>1. /\ m \in {2, 4} /\ \A j \in 1..m : OneThing(post.arms[j])
        /\ post.arms[1].set = Empty /\ post.arms[1].presets \subseteq post.arms[2].presets
        /\ m = 4 => /\ post.arms[3] = post.arms[1]
                    /\ post.arms[1].presets \subseteq post.arms[4].presets
    BY <1>3 DEF ComparisonArms, m
  <2> HIDE DEF ComparisonArms
  <2>2. 1 \in 1..m /\ OneThing(post.arms[1]) /\ OneThing(post.arms[i])
    BY <1>4, <1>7, <2>1
  <2>3. CASE i = 2
    <3>1. i - 1 = 1
      BY <2>3
    <3> QED BY <2>1, <2>2, <2>3, <3>1
  <2>4. CASE i = 4 /\ m = 4
    <3>1. i - 1 = 3
      BY <2>4
    <3> QED BY <2>1, <2>2, <2>4, <3>1
  <2> QED BY <1>6, <2>3, <2>4
<1> QED
  BY <1>8, <1>9

LEMMA ChildValues ==
    ASSUME ReplayInv, NEW d, NEW ch, OneThing(ch), ChildOf(d, ch), NEW n
    PROVE  /\ ValueOf(pastRuns[d].active, n) =
                 IF n \in DOMAIN ch.set THEN Min({ch.set[n], MaxDial}) ELSE ValueOf(savedDials, n)
           /\ ValueOf(pastRuns[d].given.dials, n) =
                 IF n \in vecs
                 THEN IF n \in DOMAIN ch.set THEN Min({ch.set[n], MaxDial})
                      ELSE ValueOf(savedDials, n)
                 ELSE 0
<1> DEFINE e == Applied(savedDials, ch)
<1>1. IsDials(savedDials) /\ ~ch.off /\ ch.nudge = NoName
  BY DEF ReplayInv, StudioTyped, OneThing
<1>2. /\ IsDials(e)
      /\ ValueOf(e, n) = IF n \in DOMAIN ch.set THEN Min({ch.set[n], MaxDial})
                         ELSE ValueOf(savedDials, n)
  <2>1. IsDials(e)
    BY <1>1, AppliedDict
  <2>2. ValueOf(e, n) = IF n \in DOMAIN ch.set THEN Min({ch.set[n], MaxDial})
                        ELSE ValueOf(savedDials, n)
    BY <1>1, ValueApplied
  <2> HIDE DEF e
  <2> QED
    BY <2>1, <2>2
<1>3. pastRuns[d].active = Active(e) /\ pastRuns[d].given.dials = Steered(e)
  BY DEF ChildOf
<1> HIDE DEF e
<1>4. /\ ValueOf(Active(e), n) = ValueOf(e, n)
      /\ ValueOf(Steered(e), n) = IF n \in vecs THEN ValueOf(e, n) ELSE 0
  BY <1>2, ValuesOf
<1> QED
  BY <1>2, <1>3, <1>4

LEMMA ArmsDiffer == ReplayInv => ArmsDifferOnlyInTheIntervention
<1> SUFFICES ASSUME ReplayInv PROVE ArmsDifferOnlyInTheIntervention
  OBVIOUS
<1>1. ASSUME NEW bc \in Pairs
      PROVE  LET b == pastRuns[bc[1]].given
                 c == pastRuns[bc[2]].given
                 ch == pastRuns[bc[2]].changes IN
             /\ cardsRaced \/ c.cards = b.cards
             /\ b.greedy /\ c.greedy /\ b.presets \subseteq c.presets
             /\ \A n \in Names :
                   ValueOf(c.dials, n) =
                       IF n \in DOMAIN ch.set /\ n \in vecs
                       THEN Min({ch.set[n], MaxDial}) ELSE ValueOf(b.dials, n)
  <2>1. PICK b, c :
            /\ OneThing(b) /\ OneThing(c) /\ b.set = Empty /\ b.presets \subseteq c.presets
            /\ b = post.arms[1] /\ ChildOf(bc[1], b) /\ ChildOf(bc[2], c)
    BY <1>1, PairsAreArms
  <2>2. /\ cardsRaced \/ pastRuns[bc[2]].given.cards = pastRuns[bc[1]].given.cards
        /\ pastRuns[bc[1]].given.greedy /\ pastRuns[bc[2]].given.greedy
        /\ pastRuns[bc[1]].given.presets = b.presets
        /\ pastRuns[bc[2]].given.presets = c.presets
        /\ pastRuns[bc[2]].changes = c
    BY <2>1 DEF ChildOf
  <2>3. ASSUME NEW n
        PROVE  ValueOf(pastRuns[bc[2]].given.dials, n) =
                  IF n \in DOMAIN c.set /\ n \in vecs THEN Min({c.set[n], MaxDial})
                  ELSE ValueOf(pastRuns[bc[1]].given.dials, n)
    <3>1. n \notin DOMAIN b.set
      BY <2>1 DEF Empty
    <3>2. ValueOf(pastRuns[bc[1]].given.dials, n) =
              IF n \in vecs THEN ValueOf(savedDials, n) ELSE 0
      BY <2>1, <3>1, ChildValues
    <3>3. ValueOf(pastRuns[bc[2]].given.dials, n) =
              IF n \in vecs THEN IF n \in DOMAIN c.set THEN Min({c.set[n], MaxDial})
                                 ELSE ValueOf(savedDials, n)
              ELSE 0
      BY <2>1, ChildValues
    <3> QED
      BY <3>2, <3>3
  <2> QED
    BY <2>1, <2>2, <2>3
<1>2. ASSUME NEW p \in Pairs, NEW q \in Pairs
      PROVE  LET b == pastRuns[p[1]].given
                 c == pastRuns[q[1]].given IN
             /\ cardsRaced \/ c.cards = b.cards
             /\ c.dials = b.dials /\ c.presets = b.presets
  <2> DEFINE b == post.arms[1]
  <2>1. ChildOf(p[1], b) /\ ChildOf(q[1], b)
    BY PairsAreArms
  <2> HIDE DEF b
  <2> QED
    BY <2>1 DEF ChildOf
<1> QED
  BY <1>1, <1>2 DEF ArmsDifferOnlyInTheIntervention

LEMMA VerifiedApplied == ReplayInv => VerifiedMeansApplied
<1> SUFFICES ASSUME ReplayInv, NEW bc \in Pairs, Verified(bc[2]),
                    NEW n \in DOMAIN pastRuns[bc[2]].changes.set, n \in vecs
             PROVE  ValueOf(pastRuns[bc[2]].given.dials, n) = pastRuns[bc[2]].changes.set[n]
  BY DEF VerifiedMeansApplied
<1>1. PICK c : OneThing(c) /\ ChildOf(bc[2], c)
  BY PairsAreArms
<1>2. pastRuns[bc[2]].changes = c
  BY <1>1 DEF ChildOf
<1>3. /\ ValueOf(pastRuns[bc[2]].active, n) = Min({c.set[n], MaxDial})
      /\ ValueOf(pastRuns[bc[2]].given.dials, n) = Min({c.set[n], MaxDial})
  BY <1>1, <1>2, ChildValues
<1>4. c.set[n] = 0 \/ ValueOf(pastRuns[bc[2]].active, n) = c.set[n]
  BY <1>2 DEF Verified
<1>5. Min({0, MaxDial}) = 0
  BY ReplayAssumption DEF ReplayAssumption, Min
<1> QED
  BY <1>2, <1>3, <1>4, <1>5

\* Whatever a replay, a counterfactual, a sweep or a retry changes, and whatever
\* fails in it: outside an arm the studio is as the user left it, but for the
\* memory, which stays off after a replay that raised between switching it off
\* and reading the cards to leave out, until the user sets it again.
THEOREM StudioLeftAlone == ReplaySpec => []StudioUnchanged
<1>1. ReplayInv => StudioUnchanged
  BY DEF ReplayInv, Borrowed, StudioUnchanged, NoPost
<1> QED
  BY <1>1, ReplayStarts, ReplaySteps, PTL DEF ReplaySpec

\* For any dials, axes, cards and presets, and any dose: the two arms of a
\* comparison were given the same but for the one thing it reports, unless the
\* cards were written to in between; a dial that has a direction and is said to be
\* verified was applied; and of the dials that have one, every run records those
\* it was given.
THEOREM ComparisonsKept == ReplaySpec => []ComparisonsHonest
<1>1. ReplayInv => ComparisonsHonest
  <2>1. ReplayInv => RecordedAsGiven
    BY DEF ReplayInv, Recorded
  <2> QED
    BY <2>1, ArmsDiffer, VerifiedApplied DEF ComparisonsHonest
<1> QED
  BY <1>1, ReplayStarts, ReplaySteps, PTL DEF ReplaySpec

-----------------------------------------------------------------------------
(* The think-tag filter *)

\* The characters that are as long as their lower case.
Narrow == Characters \ Wide

\* What the assumption on the tags gives.
LEMMA TagsTyped ==
    /\ OpenTag \in Seq(Narrow) /\ CloseTag \in Seq(Narrow)
    /\ \A tag \in Tags : /\ tag \in Seq(Narrow) /\ Len(tag) \in Nat \ {0} /\ tag # <<>>
                         /\ DOMAIN tag = 1..Len(tag) /\ tag[1] # Space
    /\ OpenTag \in Tags /\ CloseTag \in Tags /\ OpenTag # CloseTag
<1>1. \A tag \in Tags : tag \in Seq(Narrow) /\ tag # <<>> /\ tag[1] # Space
  <2> SUFFICES ASSUME NEW tag \in Tags PROVE tag \in Seq(Narrow)
    BY TagsAssumption DEF TagsAssumption
  <2>1. tag \in Seq(Characters) /\ DOMAIN tag = 1..Len(tag) /\ ToSet(tag) \cap Wide = {}
    BY TagsAssumption DEF TagsAssumption
  <2>2. \A i \in 1..Len(tag) : tag[i] \in Narrow
    BY <2>1 DEF Narrow, ToSet
  <2> QED BY <2>1, <2>2
<1> QED
  BY <1>1, TagsAssumption DEF TagsAssumption, Tags

\* A text of such characters is its own lower case.
LEMMA LowerSame ==
    ASSUME NEW text \in Seq(Narrow)
    PROVE  Lower(text) = text
<1> DEFINE singles == [i \in DOMAIN text |-> IF text[i] \in Wide THEN WideLower ELSE <<text[i]>>]
<1>1. DOMAIN text = 1..Len(text) /\ Len(text) \in Nat
      /\ \A i \in 1..Len(text) : text[i] \in Narrow /\ text[i] \notin Wide
  BY DEF Narrow
<1>2. DOMAIN singles = 1..Len(text) /\ \A i \in 1..Len(text) : singles[i] = <<text[i]>>
  BY <1>1
<1>3. Lower(text) = FlattenSeq(singles)
  BY DEF Lower
<1>4. singles = [i \in 1..Len(text) |-> singles[i]]
  BY <1>1
<1> HIDE DEF singles
<1>5. \A i \in 1..Len(text) : singles[i] \in Seq(Narrow)
  <2>1. \A c \in Narrow : <<c>> \in Seq(Narrow)
    OBVIOUS
  <2> QED BY <1>1, <1>2, <2>1
<1>6. singles \in Seq(Seq(Narrow)) /\ Len(singles) = Len(text)
  BY <1>1, <1>4, <1>5
<1> QED
  BY <1>2, <1>3, <1>6, FlattenSingles

\* What there is of the text from i on is the tag or its beginning.
MayStart(text, tag, i) ==
    \A k \in DOMAIN tag : i + k - 1 <= Len(text) => text[i + k - 1] = tag[k]

\* A tag starts where it may start and ends within the text.
LEMMA Starts ==
    ASSUME NEW text \in Seq(Narrow), NEW tag \in Seq(Narrow), NEW i \in Nat \ {0}
    PROVE  StartsAt(text, tag, i) <=> MayStart(text, tag, i) /\ i + Len(tag) - 1 <= Len(text)
<1> DEFINE n == Len(tag)
           e == i + n - 1
<1>1. n \in Nat /\ e \in Nat /\ e - i + 1 = n /\ DOMAIN tag = 1..n /\ Len(text) \in Nat
  OBVIOUS
<1> SUFFICES ASSUME e <= Len(text) PROVE SubSeq(text, i, e) = tag <=> MayStart(text, tag, i)
  BY DEF StartsAt
<1> HIDE DEF e, n
<1>2. i \in 1..(Len(text) + 1) /\ e \in (i - 1)..Len(text)
  BY <1>1 DEF e
<1>3. SubSeq(text, i, e) \in Seq(Narrow) /\ Len(SubSeq(text, i, e)) = n
      /\ \A k \in 1..n : SubSeq(text, i, e)[k] = text[i + k - 1]
  BY <1>1, <1>2
<1>4. \A k \in 1..n : i + k - 1 <= Len(text)
  BY <1>1, <1>2 DEF e
<1>5. MayStart(text, tag, i) <=> \A k \in 1..n : text[i + k - 1] = tag[k]
  BY <1>1, <1>4 DEF MayStart
<1>6. SubSeq(text, i, e) = tag <=> \A k \in 1..n : SubSeq(text, i, e)[k] = tag[k]
  <2> DEFINE chunk == SubSeq(text, i, e)
  <2>1. chunk \in Seq(Narrow) /\ Len(chunk) = Len(tag)
    BY <1>3 DEF n
  <2> HIDE DEF chunk
  <2>2. chunk = tag <=> \A k \in 1..Len(chunk) : chunk[k] = tag[k]
    BY <2>1, SeqEqual
  <2> QED BY <2>1, <2>2 DEF n, chunk
<1> QED
  BY <1>3, <1>5, <1>6

\* No tag begins in another, not even one that is still arriving.
LEMMA Apart ==
    ASSUME NEW text \in Seq(Narrow), NEW tag \in Tags, NEW other \in Tags,
           NEW j \in Nat \ {0}, NEW i \in j..(j + Len(tag) - 1),
           MayStart(text, tag, j), MayStart(text, other, i),
           \/ j + Len(tag) - 1 <= Len(text)
           \/ i + Len(other) - 1 <= Len(text)
    PROVE  i = j /\ other = tag
<1> DEFINE d == i - j
<1>1. d \in 0..(Len(tag) - 1) /\ Len(tag) \in Nat /\ Len(other) \in Nat /\ i \in Nat
      /\ DOMAIN other = 1..Len(other) /\ DOMAIN tag = 1..Len(tag) /\ Len(text) \in Nat
  BY TagsTyped
<1>a. (d = 0 /\ other = tag) \/ \E k \in DOMAIN other : d + k <= Len(tag) /\ tag[d + k] # other[k]
  <2> HIDE DEF d
  <2> QED BY <1>1, TagsAssumption DEF TagsAssumption, TagsApart
<1> SUFFICES ASSUME NEW k \in DOMAIN other, d + k <= Len(tag), tag[d + k] # other[k]
             PROVE  FALSE
  BY <1>1, <1>a
<1>2. i + k - 1 <= Len(text) /\ d + k \in DOMAIN tag /\ j + (d + k) - 1 = i + k - 1
  BY <1>1
<1>3. text[i + k - 1] = other[k]
  BY <1>2 DEF MayStart
<1>4. text[j + (d + k) - 1] = tag[d + k]
  <2> HIDE DEF d
  <2> QED BY <1>2 DEF MayStart
<1> QED
  BY <1>2, <1>3, <1>4

\* Depth is the function its definition describes, with natural values.
LEMMA DepthIs ==
    ASSUME NEW text \in Seq(Narrow), NEW implicit \in BOOLEAN
    PROVE  /\ Depth(text, implicit) \in [0..Len(text) -> Nat]
           /\ Depth(text, implicit)[0] = IF implicit THEN 1 ELSE 0
           /\ \A n \in 1..Len(text) :
                 Depth(text, implicit)[n] =
                    DepthSeen(text, implicit, n, Depth(text, implicit)[n - 1])
<1> DEFINE N == Len(text)
           a == IF implicit THEN 1 ELSE 0
           next == [n \in 1..N |-> [d \in Nat |-> DepthSeen(text, implicit, n, d)]]
           Same(f) == f = [i \in 0..Len(text) |->
                             IF i = 0 THEN IF implicit THEN 1 ELSE 0
                             ELSE DepthSeen(text, implicit, i, f[i - 1])]
           depth == CHOOSE f : Same(f)
<1>1. N \in Nat /\ a \in Nat
  OBVIOUS
<1>2. \A n \in 1..N : \A d \in Nat :
         /\ next[n][d] = DepthSeen(text, implicit, n, d)
         /\ DepthSeen(text, implicit, n, d) \in Nat
  BY DEF DepthSeen
<1> HIDE DEF next
<1>3. PICK f : /\ f = [n \in 0..N |-> IF n = 0 THEN a ELSE next[n][f[n - 1]]]
               /\ f \in [0..N -> Nat]
  <2> HIDE DEF N, a
  <2>1. \A n \in 1..N : \A d \in Nat : next[n][d] \in Nat
    BY <1>2
  <2> QED BY <1>1, <2>1, Recursion, Zenon
<1>4. \A n \in 0..N : f[n] = IF n = 0 THEN IF implicit THEN 1 ELSE 0
                             ELSE DepthSeen(text, implicit, n, f[n - 1])
  <2> SUFFICES ASSUME NEW n \in 0..N, n # 0
               PROVE f[n] = DepthSeen(text, implicit, n, f[n - 1])
    BY <1>1, <1>3
  <2>1. n \in 1..N /\ n - 1 \in 0..N
    BY <1>1
  <2>2. f[n] = next[n][f[n - 1]] /\ f[n - 1] \in Nat
    BY <1>3, <2>1
  <2> HIDE DEF N
  <2> QED BY <1>2, <2>1, <2>2
<1>5. f = [n \in 0..N |-> f[n]]
  BY <1>3
<1>6. Same(f)
  BY <1>4, <1>5
<1>7. Same(depth)
  <2> HIDE DEF Same
  <2> QED BY <1>6
<1>8. Depth(text, implicit) = depth
  BY DEF Depth
<1> HIDE DEF depth
<1>9. \A n \in 0..N : depth[n] = IF n = 0 THEN IF implicit THEN 1 ELSE 0
                                 ELSE DepthSeen(text, implicit, n, depth[n - 1])
  BY <1>7
<1> DEFINE S == {n \in Nat : n <= N => depth[n] \in Nat}
<1>10. 0 \in S
  BY <1>1, <1>9
<1>11. ASSUME NEW n \in Nat, n \in S PROVE n + 1 \in S
  <2> SUFFICES ASSUME n + 1 <= N PROVE depth[n + 1] \in Nat
    OBVIOUS
  <2> DEFINE z == n + 1
  <2>1. z \in 0..N /\ z # 0 /\ z - 1 = n /\ n <= N /\ depth[n] \in Nat /\ z \in 1..N
    BY <1>1, <1>11
  <2> HIDE DEF z, N
  <2>2. depth[z] = DepthSeen(text, implicit, z, depth[n])
    BY <1>9, <2>1
  <2> QED BY <1>2, <2>1, <2>2 DEF z
<1>12. \A n \in 0..N : depth[n] \in Nat
  <2> HIDE DEF S, N
  <2>1. Nat \subseteq S
    BY <1>10, <1>11, SetInduction
  <2> QED BY <1>1, <2>1 DEF S
<1>13. depth \in [0..N -> Nat]
  <2>1. depth = [n \in 0..N |-> depth[n]]
    BY <1>7
  <2> QED BY <1>12, <2>1
<1>14. \A n \in 1..N : n \in 0..N /\ n # 0
  BY <1>1
<1> HIDE DEF N
<1>15. depth[0] = (IF implicit THEN 1 ELSE 0)
       /\ \A n \in 1..N : depth[n] = DepthSeen(text, implicit, n, depth[n - 1])
  BY <1>1, <1>9, <1>14
<1> QED
  BY <1>8, <1>13, <1>15 DEF N

\* Spelt is the function its definition describes, with texts as its values.
LEMMA SpeltIs ==
    ASSUME NEW text \in Seq(Narrow), NEW keeps
    PROVE  /\ Spelt(text, keeps) \in [0..Len(text) -> Seq(Narrow)]
           /\ Spelt(text, keeps)[0] = <<>>
           /\ \A n \in 1..Len(text) :
                 Spelt(text, keeps)[n] =
                    IF n \in keeps THEN Append(Spelt(text, keeps)[n - 1], text[n])
                    ELSE Spelt(text, keeps)[n - 1]
<1> DEFINE N == Len(text)
           More(n, t) == IF n \in keeps THEN Append(t, text[n]) ELSE t
           next == [n \in 1..N |-> [t \in Seq(Narrow) |-> More(n, t)]]
           Same(f) == f = [n \in 0..Len(text) |->
                             IF n = 0 THEN <<>>
                             ELSE IF n \in keeps THEN Append(f[n - 1], text[n]) ELSE f[n - 1]]
           spelt == CHOOSE f : Same(f)
<1>1. N \in Nat /\ <<>> \in Seq(Narrow)
  BY EmptySeq
<1>2. \A n \in 1..N : \A t \in Seq(Narrow) :
         next[n][t] = More(n, t) /\ More(n, t) \in Seq(Narrow)
  OBVIOUS
<1> HIDE DEF next
<1>3. PICK f : /\ f = [n \in 0..N |-> IF n = 0 THEN <<>> ELSE next[n][f[n - 1]]]
               /\ f \in [0..N -> Seq(Narrow)]
  <2> HIDE DEF N, More
  <2>1. \A n \in 1..N : \A t \in Seq(Narrow) : next[n][t] \in Seq(Narrow)
    BY <1>2
  <2> QED BY <1>1, <2>1, Recursion, Zenon
<1>4. \A n \in 0..N : f[n] = IF n = 0 THEN <<>> ELSE More(n, f[n - 1])
  <2> SUFFICES ASSUME NEW n \in 0..N, n # 0 PROVE f[n] = More(n, f[n - 1])
    BY <1>1, <1>3
  <2>1. n \in 1..N /\ n - 1 \in 0..N
    BY <1>1
  <2>2. f[n] = next[n][f[n - 1]] /\ f[n - 1] \in Seq(Narrow)
    BY <1>3, <2>1
  <2> HIDE DEF N, More
  <2> QED BY <1>2, <2>1, <2>2
<1>5. f = [n \in 0..N |-> f[n]]
  BY <1>3
<1>6. Same(f)
  BY <1>4, <1>5
<1>7. Same(spelt)
  <2> HIDE DEF Same
  <2> QED BY <1>6
<1>8. Spelt(text, keeps) = spelt
  BY DEF Spelt
<1> HIDE DEF spelt
<1>9. \A n \in 0..N : spelt[n] = IF n = 0 THEN <<>> ELSE More(n, spelt[n - 1])
  BY <1>7
<1> HIDE DEF Same, More
<1> DEFINE S == {n \in Nat : n <= N => spelt[n] \in Seq(Narrow)}
<1>10. 0 \in S
  <2>1. 0 \in 0..N /\ spelt[0] = <<>>
    BY <1>1, <1>9
  <2> QED BY <1>1, <2>1
<1>11. ASSUME NEW n \in Nat, n \in S PROVE n + 1 \in S
  <2> SUFFICES ASSUME n + 1 <= N PROVE spelt[n + 1] \in Seq(Narrow)
    OBVIOUS
  <2> DEFINE z == n + 1
  <2>1. z \in 0..N /\ z # 0 /\ z - 1 = n /\ n <= N /\ spelt[n] \in Seq(Narrow) /\ z \in 1..N
    BY <1>1, <1>11
  <2> HIDE DEF z, N
  <2>2. spelt[z] = More(z, spelt[n])
    BY <1>9, <2>1
  <2> QED BY <1>2, <2>1, <2>2 DEF z
<1>12. \A n \in 0..N : spelt[n] \in Seq(Narrow)
  <2> HIDE DEF S, N
  <2>1. Nat \subseteq S
    BY <1>10, <1>11, SetInduction
  <2> QED BY <1>1, <2>1 DEF S
<1>13. spelt \in [0..N -> Seq(Narrow)]
  <2>1. spelt = [n \in 0..N |-> spelt[n]]
    BY <1>7 DEF Same
  <2> QED BY <1>12, <2>1
<1>14. \A n \in 1..N : n \in 0..N /\ n # 0
  BY <1>1
<1> HIDE DEF N
<1>15. spelt[0] = <<>> /\ \A n \in 1..N : spelt[n] = More(n, spelt[n - 1])
  BY <1>1, <1>9, <1>14
<1> QED
  BY <1>8, <1>13, <1>15 DEF N, More

-----------------------------------------------------------------------------
(* Reading further *)

\* No tag begins at the places from a + 1 to b.
Plain(text, a, b) == \A i \in (a + 1)..b : \A tag \in Tags : ~StartsAt(text, tag, i)

\* Where no tag starts there is none.
LEMMA NoTagAt ==
    ASSUME NEW text, NEW i, \A tag \in Tags : ~StartsAt(text, tag, i)
    PROVE  TagAt(text, i) = <<>>
BY DEF TagAt, Tags

\* What TagAt gives is a tag that starts there, or nothing.
LEMMA TagAtIs ==
    ASSUME NEW text, NEW i
    PROVE  /\ TagAt(text, i) \in Tags \cup {<<>>} /\ Len(TagAt(text, i)) \in Nat
           /\ TagAt(text, i) # <<>> => StartsAt(text, TagAt(text, i), i) /\ TagAt(text, i) \in Tags
BY TagsTyped DEF TagAt, Tags

\* There the depth is what it was.
LEMMA DepthStays ==
    ASSUME NEW text \in Seq(Narrow), NEW implicit \in BOOLEAN,
           NEW a \in 0..Len(text), NEW b \in a..Len(text), Plain(text, a, b)
    PROVE  \A n \in a..b : Depth(text, implicit)[n] = Depth(text, implicit)[a]
<1> DEFINE depth == Depth(text, implicit)
           S == {k \in Nat : a + k <= b => depth[a + k] = depth[a]}
<1>1. \A n \in 1..Len(text) : depth[n] = DepthSeen(text, implicit, n, depth[n - 1])
  BY DepthIs
<1> HIDE DEF depth
<1>2. 0 \in S
  OBVIOUS
<1>3. ASSUME NEW k \in Nat, k \in S PROVE k + 1 \in S
  <2> SUFFICES ASSUME a + (k + 1) <= b PROVE depth[a + (k + 1)] = depth[a]
    OBVIOUS
  <2> DEFINE z == a + (k + 1)
  <2>1. z \in 1..Len(text) /\ z \in (a + 1)..b /\ z - 1 = a + k /\ depth[a + k] = depth[a]
    BY <1>3
  <2> HIDE DEF z
  <2>2. TagAt(text, z) = <<>>
    BY <2>1, NoTagAt DEF Plain
  <2>3. depth[z] = depth[z - 1]
    BY <1>1, <2>1, <2>2, TagsTyped DEF DepthSeen, Tags
  <2> QED BY <2>1, <2>3 DEF z
<1>4. Nat \subseteq S
  <2> HIDE DEF S
  <2> QED BY <1>2, <1>3, SetInduction
<1>5. ASSUME NEW n \in a..b PROVE depth[n] = depth[a]
  <2> DEFINE k == n - a
  <2>1. k \in Nat /\ a + k = n /\ n <= b
    OBVIOUS
  <2> HIDE DEF k
  <2> QED BY <1>4, <2>1
<1> QED
  BY <1>5 DEF depth

\* Places that are not kept add nothing.
LEMMA NoneSpelt ==
    ASSUME NEW text \in Seq(Narrow), NEW keeps,
           NEW a \in 0..Len(text), NEW b \in a..Len(text),
           \A i \in (a + 1)..b : i \notin keeps
    PROVE  Spelt(text, keeps)[b] = Spelt(text, keeps)[a]
<1> DEFINE spelt == Spelt(text, keeps)
           S == {k \in Nat : a + k <= b => spelt[a + k] = spelt[a]}
<1>1. \A n \in 1..Len(text) : n \notin keeps => spelt[n] = spelt[n - 1]
  BY SpeltIs
<1> HIDE DEF spelt
<1>2. 0 \in S
  OBVIOUS
<1>3. ASSUME NEW k \in Nat, k \in S PROVE k + 1 \in S
  <2> SUFFICES ASSUME a + (k + 1) <= b PROVE spelt[a + (k + 1)] = spelt[a]
    OBVIOUS
  <2> DEFINE z == a + (k + 1)
  <2>1. z \in 1..Len(text) /\ z \in (a + 1)..b /\ z - 1 = a + k /\ spelt[a + k] = spelt[a]
    BY <1>3
  <2> HIDE DEF z
  <2> QED BY <1>1, <2>1 DEF z
<1>4. Nat \subseteq S
  <2> HIDE DEF S
  <2> QED BY <1>2, <1>3, SetInduction
<1> DEFINE k == b - a
<1>5. k \in Nat /\ a + k = b /\ a + k <= b
  OBVIOUS
<1> HIDE DEF k
<1>6. spelt[b] = spelt[a]
  <2>1. spelt[a + k] = spelt[a]
    BY <1>4, <1>5
  <2> QED BY <1>5, <2>1
<1> QED
  BY <1>6 DEF spelt

\* Places that are kept add what stands there.
LEMMA AllSpelt ==
    ASSUME NEW text \in Seq(Narrow), NEW keeps,
           NEW a \in 0..Len(text), NEW b \in a..Len(text),
           \A i \in (a + 1)..b : i \in keeps
    PROVE  Spelt(text, keeps)[b] = Spelt(text, keeps)[a] \o SubSeq(text, a + 1, b)
<1> DEFINE spelt == Spelt(text, keeps)
           Part(n) == SubSeq(text, a + 1, n)
           S == {k \in Nat : a + k <= b => spelt[a + k] = spelt[a] \o Part(a + k)}
<1>1. \A n \in 1..Len(text) : n \in keeps => spelt[n] = Append(spelt[n - 1], text[n])
  BY SpeltIs
<1>2. spelt \in [0..Len(text) -> Seq(Narrow)] /\ spelt[a] \in Seq(Narrow)
  BY SpeltIs
<1>3. Part(a) = <<>>
  BY SubSeqEmpty
<1>4. ASSUME NEW n \in (a + 1)..b
      PROVE  /\ n \in 1..Len(text) /\ n - 1 \in a..b /\ text[n] \in Narrow
             /\ Part(n - 1) \in Seq(Narrow) /\ Part(n) = Part(n - 1) \o <<text[n]>>
  <2>1. a + 1 \in 1..Len(text) /\ n \in (a + 1)..Len(text) /\ n \in 1..Len(text) /\ n - 1 \in a..b
    OBVIOUS
  <2>2. \A i \in (a + 1)..(n - 1) : i \in 1..Len(text)
    BY <2>1
  <2>3. Part(n - 1) \in Seq(Narrow)
    BY <2>2, SubSeqProperties
  <2> QED BY <2>1, <2>3, SubSeqRecursiveSecond
<1> HIDE DEF spelt, Part
<1>5. 0 \in S
  <2>1. a + 0 = a
    OBVIOUS
  <2> QED BY <1>2, <1>3, <2>1, ConcatEmptySeq
<1>6. ASSUME NEW k \in Nat, k \in S PROVE k + 1 \in S
  <2> DEFINE y == a + k
             z == a + (k + 1)
  <2>a. k + 1 \in Nat
    OBVIOUS
  <2>b. ASSUME z <= b PROVE spelt[z] = spelt[a] \o Part(z)
    <3>1. z \in (a + 1)..b /\ z - 1 = y /\ y <= b
      BY <2>b
    <3>2. spelt[y] = spelt[a] \o Part(y)
      BY <1>6, <3>1
    <3> HIDE DEF z, y
    <3>3. /\ z \in 1..Len(text) /\ text[z] \in Narrow
          /\ Part(y) \in Seq(Narrow) /\ Part(z) = Part(y) \o <<text[z]>>
      BY <1>4, <3>1
    <3>4. spelt[z] = Append(spelt[a] \o Part(y), text[z])
      BY <1>1, <3>1, <3>2, <3>3
    <3>5. Append(spelt[a] \o Part(y), text[z]) = spelt[a] \o (Part(y) \o <<text[z]>>)
      <4> DEFINE u == Part(y)
                 v == spelt[a]
                 e == text[z]
      <4>1. u \in Seq(Narrow) /\ v \in Seq(Narrow) /\ e \in Narrow /\ <<e>> \in Seq(Narrow)
        BY <1>2, <3>3
      <4> HIDE DEF u, v, e
      <4>2. v \o u \in Seq(Narrow) /\ Append(v \o u, e) = (v \o u) \o <<e>>
        BY <4>1, AppendIsConcat, ConcatProperties
      <4>3. (v \o u) \o <<e>> = v \o (u \o <<e>>)
        BY <4>1, ConcatAssociative, SMTT(30)
      <4> QED BY <4>2, <4>3 DEF u, v, e
    <3> QED BY <3>3, <3>4, <3>5
  <2>c. z <= b => spelt[z] = spelt[a] \o Part(z)
    BY <2>b
  <2> QED BY <2>a, <2>c, Zenon
<1>7. Nat \subseteq S
  <2> HIDE DEF S
  <2> QED BY <1>5, <1>6, SetInduction
<1> DEFINE k == b - a
<1>8. k \in Nat /\ a + k = b /\ a + k <= b
  OBVIOUS
<1> HIDE DEF k
<1>9. spelt[b] = spelt[a] \o Part(b)
  <2>1. spelt[a + k] = spelt[a] \o Part(a + k)
    BY <1>7, <1>8
  <2> QED BY <1>8, <2>1
<1> QED
  BY <1>9 DEF spelt, Part

-----------------------------------------------------------------------------
(* A text that goes on *)

\* Every tag that may have begun by p has ended by p.
Past(text, p) ==
    \A tag \in Tags : \A i \in 1..p : MayStart(text, tag, i) => i + Len(tag) - 1 <= p

\* What comes later does not change what tags there are up to p.
LEMMA GoesOn ==
    ASSUME NEW text \in Seq(Narrow), NEW more \in Seq(Narrow),
           NEW p \in 0..Len(text), Past(text, p)
    PROVE  /\ Past(text \o more, p)
           /\ \A tag \in Tags : \A i \in 1..p :
                 StartsAt(text \o more, tag, i) <=> StartsAt(text, tag, i)
           /\ \A i \in 1..p : (text \o more)[i] = text[i]
<1> DEFINE long == text \o more
<1>1. /\ long \in Seq(Narrow) /\ Len(text) \in Nat /\ Len(long) \in Nat /\ Len(text) <= Len(long)
      /\ \A i \in 1..Len(text) : long[i] = text[i]
  BY ConcatProperties
<1> HIDE DEF long
<1>2. ASSUME NEW tag \in Tags, NEW i \in 1..p, MayStart(long, tag, i)
      PROVE  MayStart(text, tag, i)
  <2> SUFFICES ASSUME NEW k \in DOMAIN tag, i + k - 1 <= Len(text)
               PROVE  text[i + k - 1] = tag[k]
    BY DEF MayStart
  <2>1. i + k - 1 \in 1..Len(text) /\ i + k - 1 <= Len(long)
    BY <1>1, TagsTyped
  <2>2. long[i + k - 1] = tag[k]
    BY <1>2, <2>1 DEF MayStart
  <2> QED BY <1>1, <2>1, <2>2
<1>3. Past(long, p)
  BY <1>2 DEF Past
<1>4. ASSUME NEW tag \in Tags, NEW i \in 1..p
      PROVE  StartsAt(long, tag, i) <=> StartsAt(text, tag, i)
  <2>1. tag \in Seq(Narrow) /\ Len(tag) \in Nat /\ DOMAIN tag = 1..Len(tag) /\ i \in Nat \ {0}
    BY TagsTyped
  <2>2. ASSUME StartsAt(long, tag, i) PROVE StartsAt(text, tag, i)
    <3>1. MayStart(text, tag, i)
      BY <1>1, <1>2, <2>1, <2>2, Starts
    <3>2. i + Len(tag) - 1 <= p
      BY <3>1 DEF Past
    <3>3. i + Len(tag) - 1 <= Len(text)
      BY <1>1, <2>1, <3>2
    <3> QED BY <2>1, <3>1, <3>3, Starts
  <2>3. ASSUME StartsAt(text, tag, i) PROVE StartsAt(long, tag, i)
    <3>1. MayStart(text, tag, i) /\ i + Len(tag) - 1 <= Len(text)
      BY <2>1, <2>3, Starts
    <3>2. \A k \in 1..Len(tag) : i + k - 1 \in 1..Len(text)
      BY <1>1, <2>1, <3>1
    <3>3. MayStart(long, tag, i)
      BY <1>1, <2>1, <3>1, <3>2 DEF MayStart
    <3>4. i + Len(tag) - 1 <= Len(long)
      BY <1>1, <2>1, <3>1
    <3> QED BY <1>1, <2>1, <3>3, <3>4, Starts
  <2> QED BY <2>2, <2>3
<1>5. \A i \in 1..p : long[i] = text[i]
  BY <1>1
<1> QED
  BY <1>3, <1>4, <1>5 DEF long

\* Nor what is in a tag, nor what is an echo.
LEMMA SameTags ==
    ASSUME NEW text \in Seq(Narrow), NEW more \in Seq(Narrow), NEW implicit \in BOOLEAN,
           NEW p \in 0..Len(text), Past(text, p)
    PROVE  /\ \A i \in 1..p : TagAt(text \o more, i) = TagAt(text, i)
           /\ \A i \in 1..p : i \in InTag(text \o more) <=> i \in InTag(text)
           /\ \A i \in 1..p : i \in Echo(text \o more, implicit) <=> i \in Echo(text, implicit)
<1> DEFINE long == text \o more
<1>1. /\ \A tag \in Tags : \A i \in 1..p : StartsAt(long, tag, i) <=> StartsAt(text, tag, i)
      /\ \A i \in 1..p : long[i] = text[i]
  BY GoesOn
<1>2. DOMAIN text = 1..Len(text) /\ DOMAIN long = 1..Len(long) /\ Len(text) \in Nat
      /\ Len(long) \in Nat /\ Len(text) <= Len(long)
  BY ConcatProperties
<1> HIDE DEF long
<1>3. \A i \in 1..p : TagAt(long, i) = TagAt(text, i)
  BY <1>1 DEF TagAt, Tags
<1>4. \A i \in 1..p : i \in DOMAIN text /\ i \in DOMAIN long /\ \A j \in 1..i : j \in 1..p
  BY <1>2
<1>5. \A i \in 1..p : i \in InTag(long) <=> i \in InTag(text)
  <2> SUFFICES ASSUME NEW i \in 1..p PROVE i \in InTag(long) <=> i \in InTag(text)
    OBVIOUS
  <2>1. \A j \in 1..i : TagAt(long, j) = TagAt(text, j)
    BY <1>3, <1>4
  <2> QED BY <1>4, <2>1 DEF InTag
<1>6. \A i \in 1..p : i \in Echo(long, implicit) <=> i \in Echo(text, implicit)
  <2> SUFFICES ASSUME NEW i \in 1..p PROVE i \in Echo(long, implicit) <=> i \in Echo(text, implicit)
    OBVIOUS
  <2>1. \A j \in 1..(i - 1) : long[j] = text[j]
    BY <1>1
  <2> QED BY <1>3, <1>4, <2>1 DEF Echo
<1> QED
  BY <1>3, <1>5, <1>6 DEF long

\* Up to p, then, depth and answer are what they were.
LEMMA SameReading ==
    ASSUME NEW text \in Seq(Narrow), NEW more \in Seq(Narrow), NEW implicit \in BOOLEAN,
           NEW p \in 0..Len(text), Past(text, p)
    PROVE  /\ Depth(text \o more, implicit)[p] = Depth(text, implicit)[p]
           /\ Spelt(text \o more, Kept(text \o more, implicit))[p] = Spelt(text, Kept(text, implicit))[p]
<1> DEFINE long == text \o more
           d == Depth(text, implicit)
           e == Depth(long, implicit)
           kd == Kept(text, implicit)
           ke == Kept(long, implicit)
           sd == Spelt(text, kd)
           se == Spelt(long, ke)
           S == {n \in Nat : n <= p => e[n] = d[n]}
           T == {n \in Nat : n <= p => se[n] = sd[n]}
<1>1. /\ \A i \in 1..p : TagAt(long, i) = TagAt(text, i)
      /\ \A i \in 1..p : i \in InTag(long) <=> i \in InTag(text)
      /\ \A i \in 1..p : i \in Echo(long, implicit) <=> i \in Echo(text, implicit)
  BY SameTags
<1>2. /\ long \in Seq(Narrow) /\ Len(text) \in Nat /\ Len(long) \in Nat /\ Len(text) <= Len(long)
      /\ DOMAIN text = 1..Len(text) /\ DOMAIN long = 1..Len(long)
      /\ \A i \in 1..p : long[i] = text[i]
  BY ConcatProperties
<1> HIDE DEF long
<1>3. /\ d[0] = (IF implicit THEN 1 ELSE 0) /\ e[0] = (IF implicit THEN 1 ELSE 0)
      /\ \A n \in 1..Len(text) : d[n] = DepthSeen(text, implicit, n, d[n - 1])
      /\ \A n \in 1..Len(long) : e[n] = DepthSeen(long, implicit, n, e[n - 1])
  BY <1>2, DepthIs
<1>4. /\ sd[0] = <<>> /\ se[0] = <<>>
      /\ \A n \in 1..Len(text) : sd[n] = IF n \in kd THEN Append(sd[n - 1], text[n]) ELSE sd[n - 1]
      /\ \A n \in 1..Len(long) : se[n] = IF n \in ke THEN Append(se[n - 1], long[n]) ELSE se[n - 1]
  <2> HIDE DEF kd, ke
  <2>1. sd[0] = <<>> /\ \A n \in 1..Len(text) :
           sd[n] = IF n \in kd THEN Append(sd[n - 1], text[n]) ELSE sd[n - 1]
    BY SpeltIs
  <2>2. se[0] = <<>> /\ \A n \in 1..Len(long) :
           se[n] = IF n \in ke THEN Append(se[n - 1], long[n]) ELSE se[n - 1]
    BY <1>2, SpeltIs
  <2> QED BY <2>1, <2>2
<1>5. /\ kd = {i \in DOMAIN text : i \notin InTag(text) /\ d[i] = 0}
      /\ ke = {i \in DOMAIN long : i \notin InTag(long) /\ e[i] = 0}
  BY DEF Kept
<1> HIDE DEF d, e, kd, ke, sd, se
<1>6. 0 \in S
  BY <1>3
<1>7. ASSUME NEW n \in Nat, n \in S PROVE n + 1 \in S
  <2> SUFFICES ASSUME n + 1 <= p PROVE e[n + 1] = d[n + 1]
    OBVIOUS
  <2> DEFINE z == n + 1
  <2>1. z \in 1..p /\ z \in 1..Len(text) /\ z \in 1..Len(long) /\ z - 1 = n /\ e[n] = d[n]
    BY <1>2, <1>7
  <2> HIDE DEF z
  <2>2. DepthSeen(long, implicit, z, d[n]) = DepthSeen(text, implicit, z, d[n])
    BY <1>1, <2>1 DEF DepthSeen
  <2> QED BY <1>3, <2>1, <2>2 DEF z
<1>8. \A n \in 0..p : e[n] = d[n]
  <2> HIDE DEF S
  <2>1. Nat \subseteq S
    BY <1>6, <1>7, SetInduction
  <2> QED BY <2>1 DEF S
<1>9. \A i \in 1..p : i \in ke <=> i \in kd
  BY <1>1, <1>2, <1>5, <1>8
<1>10. 0 \in T
  BY <1>4
<1>11. ASSUME NEW n \in Nat, n \in T PROVE n + 1 \in T
  <2> SUFFICES ASSUME n + 1 <= p PROVE se[n + 1] = sd[n + 1]
    OBVIOUS
  <2> DEFINE z == n + 1
  <2>1. z \in 1..p /\ z \in 1..Len(text) /\ z \in 1..Len(long) /\ z - 1 = n /\ se[n] = sd[n]
    BY <1>2, <1>11
  <2> HIDE DEF z
  <2> QED BY <1>2, <1>4, <1>9, <2>1 DEF z
<1>12. \A n \in 0..p : se[n] = sd[n]
  <2> HIDE DEF T
  <2>1. Nat \subseteq T
    BY <1>10, <1>11, SetInduction
  <2> QED BY <2>1 DEF T
<1> QED
  BY <1>8, <1>12 DEF d, e, sd, se, kd, ke, long

-----------------------------------------------------------------------------
(* The filter has read a text up to p *)

\* The filter, typed.
Filters ==
    [implicit : BOOLEAN, inThink : BOOLEAN, depth : Nat, redundant : BOOLEAN,
     pending : Seq(Narrow), reasoning : Seq(Narrow),
     blocks : Seq([text : Seq(Narrow), closed : BOOLEAN]),
     public : Seq(Narrow), orphans : Nat]

\* The prompt opened the block and there is only white space so far.
SpaceOnly(text, implicit, p) == implicit /\ \A j \in 1..p : text[j] = Space

\* The echo of the prompt's tag is expected as long as there was only white space.
EchoExpected(text, p, s) ==
    /\ SpaceOnly(text, s.implicit, p) => s.depth = 1
    /\ s.inThink => (SpaceOnly(text, s.implicit, p) <=> s.redundant /\ OnlySpace(s.reasoning))

\* No block and no orphan: there was no tag.
TagsLeaveTraces(text, p, s) ==
    s.blocks = <<>> /\ s.orphans = 0 /\ ~s.inThink =>
        ~s.implicit /\ \A i \in 1..p : TagAt(text, i) = <<>>

\* What reading a text up to p, tag by tag, leaves the filter with: the rest of
\* the text is pending, no tag is cut at p, depth and answer are those of the
\* definition.
ReadTo(text, p, s) ==
    /\ s \in Filters
    /\ p \in 0..Len(text) /\ s.pending = SubSeq(text, p + 1, Len(text)) /\ Past(text, p)
    /\ s.depth = Depth(text, s.implicit)[p] /\ (s.inThink <=> s.depth # 0)
    /\ s.public = Spelt(text, Kept(text, s.implicit))[p]
    /\ EchoExpected(text, p, s) /\ TagsLeaveTraces(text, p, s)

\* Two texts are white space when both are.
LEMMA SpaceOf ==
    ASSUME NEW s \in Seq(Narrow), NEW t \in Seq(Narrow)
    PROVE  OnlySpace(s \o t) <=> OnlySpace(s) /\ OnlySpace(t)
<1> DEFINE u == s \o t
<1>1. /\ u \in Seq(Narrow) /\ Len(u) = Len(s) + Len(t) /\ Len(s) \in Nat /\ Len(t) \in Nat
      /\ DOMAIN u = 1..Len(u) /\ DOMAIN s = 1..Len(s) /\ DOMAIN t = 1..Len(t)
      /\ \A i \in 1..Len(s) : i \in 1..Len(u) /\ u[i] = s[i]
      /\ \A i \in 1..Len(t) : Len(s) + i \in 1..Len(u) /\ u[Len(s) + i] = t[i]
  BY ConcatProperties
<1>2. \A i \in 1..Len(u) : i \in 1..Len(s) \/ (i - Len(s) \in 1..Len(t) /\ i = Len(s) + (i - Len(s)))
  BY <1>1
<1> HIDE DEF u
<1>3. OnlySpace(u) <=> OnlySpace(s) /\ OnlySpace(t)
  <2>1. ASSUME OnlySpace(u) PROVE OnlySpace(s) /\ OnlySpace(t)
    BY <1>1, <2>1 DEF OnlySpace
  <2>2. ASSUME OnlySpace(s), OnlySpace(t), NEW i \in 1..Len(u) PROVE u[i] = Space
    <3>1. CASE i \in 1..Len(s)
      BY <1>1, <2>2, <3>1 DEF OnlySpace
    <3>2. CASE i - Len(s) \in 1..Len(t) /\ i = Len(s) + (i - Len(s))
      <4> DEFINE k == i - Len(s)
      <4>1. k \in 1..Len(t) /\ i = Len(s) + k
        BY <3>2
      <4> HIDE DEF k
      <4> QED BY <1>1, <2>2, <4>1 DEF OnlySpace
    <3> QED BY <1>2, <3>1, <3>2
  <2> QED BY <1>1, <2>1, <2>2 DEF OnlySpace
<1> QED
  BY <1>3 DEF u

\* Outside the tags up to p and before the next one, characters are in none.
LEMMA OutsideTags ==
    ASSUME NEW text \in Seq(Narrow), NEW p \in 0..Len(text), Past(text, p),
           NEW q \in p..Len(text), Plain(text, p, q)
    PROVE  \A i \in (p + 1)..q : i \notin InTag(text)
<1> SUFFICES ASSUME NEW i \in (p + 1)..q, NEW j \in 1..i, i < j + Len(TagAt(text, j))
             PROVE  FALSE
  BY DEF InTag
<1> DEFINE tag == TagAt(text, j)
<1>1. j \in Nat \ {0} /\ i \in Nat /\ Len(tag) \in Nat
  BY TagAtIs
<1>2. tag # <<>>
  BY <1>1
<1>3. tag \in Tags /\ StartsAt(text, tag, j)
  BY <1>2, TagAtIs
<1> HIDE DEF tag
<1>4. CASE j <= p
  <2>1. MayStart(text, tag, j) /\ j \in 1..p
    BY <1>1, <1>3, <1>4, Starts, TagsTyped
  <2>2. j + Len(tag) - 1 <= p
    BY <1>3, <2>1 DEF Past
  <2> QED BY <1>1, <2>2 DEF tag
<1>5. CASE ~(j <= p)
  <2>1. j \in (p + 1)..q
    BY <1>1, <1>5
  <2> QED BY <1>3, <2>1 DEF Plain
<1> QED
  BY <1>4, <1>5

\* Text that is no tag is passed on.
LEMMA PassKeeps ==
    ASSUME NEW text \in Seq(Narrow), NEW p, NEW s, ReadTo(text, p, s),
           NEW n \in 0..Len(s.pending),
           \A i \in (p + 1)..(p + n) : \A tag \in Tags : ~MayStart(text, tag, i)
    PROVE  p + n \in p..Len(text) /\ ReadTo(text, p + n, Pass(s, n))
<1> DEFINE imp == s.implicit
           q == p + n
           t == SubSeq(text, p + 1, q)
           r == Pass(s, n)
           N == Len(text)
<1>1. /\ p \in 0..N /\ N \in Nat /\ s \in Filters /\ imp \in BOOLEAN /\ N \in p..N
      /\ s.pending = SubSeq(text, p + 1, N)
  BY DEF ReadTo, Filters
<1>2. Len(s.pending) = N - p
  BY <1>1, PartIs
<1>3. n \in 0..(N - p) /\ q \in 0..N /\ q \in p..N /\ N - p \in n..(N - p) /\ p + (N - p) = N /\ n \in Nat
  BY <1>1, <1>2
<1>4. t \in Seq(Narrow) /\ Len(t) = n /\ \A k \in 1..n : t[k] = text[p + k]
  BY <1>1, <1>3, PartIs
<1>5. SubSeq(s.pending, 1, n) = t
  <2>1. 0 \in 0..(N - p) /\ n \in 0..(N - p) /\ p + 0 + 1 = p + 1
    BY <1>1, <1>3
  <2>2. SubSeq(SubSeq(text, p + 1, N), 0 + 1, n) = SubSeq(text, p + 0 + 1, p + n)
    BY <1>1, <2>1, PartOfPart
  <2> QED BY <1>1, <2>1, <2>2
<1>6. SubSeq(s.pending, n + 1, Len(s.pending)) = SubSeq(text, q + 1, N)
  <2>1. SubSeq(SubSeq(text, p + 1, N), n + 1, N - p) = SubSeq(text, p + n + 1, p + (N - p))
    BY <1>1, <1>3, PartOfPart
  <2> QED BY <1>1, <1>2, <1>3, <2>1
<1>7. SubSeq(text, q + 1, N) \in Seq(Narrow)
  <2>1. N \in q..N
    BY <1>1, <1>3
  <2> HIDE DEF q
  <2> QED BY <1>3, <2>1, PartIs
<1> HIDE DEF q, t, N
<1>8. r = IF s.inThink THEN [s EXCEPT !.reasoning = @ \o t, !.pending = SubSeq(text, q + 1, N)]
          ELSE [s EXCEPT !.public = @ \o t, !.pending = SubSeq(text, q + 1, N)]
  <2>1. Min({n, Len(s.pending)}) = n
    <3> DEFINE both == {n, Len(s.pending)}
    <3>1. both \subseteq Nat /\ both # {} /\ n \in both /\ \A k \in both : n <= k
      BY <1>2, <1>3
    <3>2. Min(both) \in both /\ \A k \in both : Min(both) <= k
      <4> HIDE DEF both
      <4> QED BY <3>1, MinOfSet
    <3> HIDE DEF both
    <3>3. Min(both) <= n /\ n <= Min(both) /\ Min(both) \in Nat
      BY <3>1, <3>2
    <3> QED BY <1>3, <3>3 DEF both
  <2> QED BY <1>5, <1>6, <2>1 DEF Pass
<1>9. s.reasoning \o t \in Seq(Narrow) /\ s.public \o t \in Seq(Narrow)
  BY <1>1, <1>4, ConcatProperties DEF Filters
<1>10. r \in Filters
  BY <1>1, <1>7, <1>8, <1>9 DEF Filters
<1>11. /\ r.implicit = imp /\ r.inThink = s.inThink /\ r.depth = s.depth /\ r.redundant = s.redundant
       /\ r.blocks = s.blocks /\ r.orphans = s.orphans /\ r.pending = SubSeq(text, q + 1, N)
       /\ r.reasoning = (IF s.inThink THEN s.reasoning \o t ELSE s.reasoning)
       /\ r.public = (IF s.inThink THEN s.public ELSE s.public \o t)
  BY <1>1, <1>8 DEF Filters
<1> HIDE DEF r
<1>12. Plain(text, p, q)
  <2> SUFFICES ASSUME NEW i \in (p + 1)..q, NEW tag \in Tags, StartsAt(text, tag, i) PROVE FALSE
    BY DEF Plain
  <2>1. i \in Nat \ {0} /\ i \in (p + 1)..(p + n)
    BY <1>1, <1>3 DEF q
  <2>2. MayStart(text, tag, i)
    BY <2>1, Starts, TagsTyped
  <2> QED BY <2>1, <2>2
<1>13. Past(text, q)
  <2> SUFFICES ASSUME NEW tag \in Tags, NEW i \in 1..q, MayStart(text, tag, i)
               PROVE  i + Len(tag) - 1 <= q
    BY DEF Past
  <2>1. i \in (p + 1)..(p + n) \/ i \in 1..p
    BY <1>1, <1>3 DEF q
  <2>2. i \in 1..p
    BY <2>1
  <2>3. i + Len(tag) - 1 <= p /\ Len(tag) \in Nat
    BY <2>2, TagsTyped DEF ReadTo, Past
  <2> QED BY <1>1, <1>3, <2>2, <2>3
<1> DEFINE depth == Depth(text, imp)
           keeps == Kept(text, imp)
<1>14. \A i \in p..q : depth[i] = depth[p]
  BY <1>1, <1>3, <1>12, DepthStays DEF N
<1>15. s.depth = depth[p] /\ (s.inThink <=> s.depth # 0) /\ s.public = Spelt(text, keeps)[p] /\ Past(text, p)
  BY DEF ReadTo
<1>16. \A i \in (p + 1)..q : i \notin InTag(text) /\ i \in DOMAIN text /\ i \in p..q
  BY <1>1, <1>3, <1>12, <1>15, OutsideTags DEF N
<1>17. \A i \in (p + 1)..q : i \in keeps <=> ~s.inThink
  BY <1>14, <1>15, <1>16 DEF Kept
<1> HIDE DEF depth, keeps, imp
<1>18. r.public = Spelt(text, keeps)[q]
  <2>1. CASE s.inThink
    BY <1>1, <1>3, <1>11, <1>15, <1>17, <2>1, NoneSpelt DEF N
  <2>2. CASE ~s.inThink
    <3>1. Spelt(text, keeps)[q] = Spelt(text, keeps)[p] \o t
      BY <1>1, <1>3, <1>17, <2>2, AllSpelt DEF N, t
    <3> QED BY <1>11, <1>15, <2>2, <3>1
  <2> QED BY <2>1, <2>2
<1>19. SpaceOnly(text, imp, q) <=> SpaceOnly(text, imp, p) /\ OnlySpace(t)
  <2>1. DOMAIN t = 1..n
    BY <1>4
  <2>2. \A j \in 1..q : j \in 1..p \/ (j - p \in 1..n /\ j = p + (j - p))
    BY <1>1, <1>3 DEF q
  <2>3. \A k \in 1..n : p + k \in 1..q
    BY <1>1, <1>3 DEF q
  <2>4. \A j \in 1..p : j \in 1..q
    BY <1>1, <1>3 DEF q
  <2> QED BY <1>4, <2>1, <2>2, <2>3, <2>4 DEF SpaceOnly, OnlySpace
<1>20. EchoExpected(text, p, s) /\ TagsLeaveTraces(text, p, s)
  BY DEF ReadTo
<1>21. EchoExpected(text, q, r)
  <2>1. s.inThink => (OnlySpace(s.reasoning \o t) <=> OnlySpace(s.reasoning) /\ OnlySpace(t))
    BY <1>1, <1>4, SpaceOf DEF Filters
  <2> QED BY <1>11, <1>19, <1>20, <2>1 DEF EchoExpected, imp
<1>22. TagsLeaveTraces(text, q, r)
  <2>1. ASSUME NEW i \in 1..q PROVE i \in 1..p \/ TagAt(text, i) = <<>>
    <3>1. i \in 1..p \/ i \in (p + 1)..q
      BY <1>1, <1>3
    <3> QED BY <1>12, <3>1, NoTagAt DEF Plain
  <2> QED BY <1>11, <1>20, <2>1 DEF TagsLeaveTraces, imp
<1>23. ReadTo(text, q, r)
  BY <1>3, <1>10, <1>11, <1>13, <1>14, <1>15, <1>18, <1>21, <1>22 DEF ReadTo, N, depth, keeps
<1> QED
  BY <1>3, <1>23 DEF q, r, N

\* A tag is not white space.
LEMMA SpaceNot ==
    ASSUME NEW s \in Seq(Narrow), NEW tag \in Tags
    PROVE  s \o tag \in Seq(Narrow) /\ ~OnlySpace(s \o tag)
<1>1. tag \in Seq(Narrow) /\ 1 \in DOMAIN tag /\ tag[1] # Space
  BY TagsTyped
<1>2. ~OnlySpace(tag)
  BY <1>1 DEF OnlySpace
<1> QED
  BY <1>1, <1>2, SpaceOf, ConcatProperties

\* A tag at the head of the pending text, taken off: what changes whatever the
\* filter makes of it.
LEMMA TagTaken ==
    ASSUME NEW text \in Seq(Narrow), NEW p, NEW s, ReadTo(text, p, s),
           NEW tag \in Tags, StartsAt(s.pending, tag, 1), NEW q, q = p + Len(tag)
    PROVE  /\ q \in (p + 1)..Len(text) /\ Past(text, q)
           /\ s.pending \in Seq(Narrow)
           /\ SubSeq(s.pending, Len(tag) + 1, Len(s.pending)) = SubSeq(text, q + 1, Len(text))
           /\ SubSeq(text, q + 1, Len(text)) \in Seq(Narrow)
           /\ TagAt(text, p + 1) = tag
           /\ Depth(text, s.implicit)[q] = DepthSeen(text, s.implicit, p + 1, s.depth)
           /\ p + 1 \in Echo(text, s.implicit) <=> tag = OpenTag /\ SpaceOnly(text, s.implicit, p)
           /\ ~SpaceOnly(text, s.implicit, q)
           /\ s.public = Spelt(text, Kept(text, s.implicit))[q]
<1> DEFINE imp == s.implicit
           N == Len(text)
           n == Len(tag)
           depth == Depth(text, imp)
           keeps == Kept(text, imp)
<1>1. /\ p \in 0..N /\ N \in Nat /\ s \in Filters /\ imp \in BOOLEAN /\ N \in p..N
      /\ s.pending = SubSeq(text, p + 1, N) /\ Past(text, p)
      /\ s.depth = depth[p] /\ s.public = Spelt(text, keeps)[p]
  BY DEF ReadTo, Filters
<1>2. /\ tag \in Seq(Narrow) /\ n \in Nat \ {0} /\ DOMAIN tag = 1..n /\ tag[1] # Space
  BY TagsTyped
<1>3. /\ s.pending \in Seq(Narrow) /\ Len(s.pending) = N - p
      /\ \A k \in 1..(N - p) : s.pending[k] = text[p + k]
  BY <1>1, PartIs
<1>4. MayStart(s.pending, tag, 1) /\ 1 + n - 1 <= Len(s.pending)
  <2>1. 1 \in Nat \ {0}
    OBVIOUS
  <2> QED BY <1>2, <1>3, <2>1, Starts
<1>5. q \in (p + 1)..N /\ q \in 0..N /\ p + 1 \in Nat \ {0} /\ n \in 0..(N - p) /\ q \in Nat
      /\ p + 1 \in 1..N /\ q \in (p + 1)..N
  BY <1>1, <1>2, <1>3, <1>4
<1>6. ASSUME NEW k \in 1..n PROVE text[p + k] = tag[k]
  <2>1. 1 + k - 1 = k /\ k \in DOMAIN tag /\ k \in 1..(N - p) /\ k <= Len(s.pending)
    BY <1>1, <1>2, <1>3, <1>5
  <2>2. s.pending[k] = tag[k]
    BY <1>4, <2>1 DEF MayStart
  <2> QED BY <1>3, <2>1, <2>2
<1> HIDE DEF N, n
<1>7. MayStart(text, tag, p + 1) /\ (p + 1) + n - 1 = q /\ StartsAt(text, tag, p + 1)
  <2>1. (p + 1) + n - 1 = q
    BY <1>1, <1>2 DEF n
  <2>2. \A k \in 1..n : (p + 1) + k - 1 = p + k
    BY <1>1, <1>2
  <2>3. MayStart(text, tag, p + 1)
    BY <1>2, <1>6, <2>2 DEF MayStart
  <2> QED BY <1>2, <1>5, <2>1, <2>3, Starts DEF N, n
<1>8. SubSeq(s.pending, n + 1, Len(s.pending)) = SubSeq(text, q + 1, N)
  <2>1. N - p \in n..(N - p) /\ p + (N - p) = N /\ p + n = q
    BY <1>1, <1>2, <1>5 DEF n
  <2>2. SubSeq(SubSeq(text, p + 1, N), n + 1, N - p) = SubSeq(text, p + n + 1, p + (N - p))
    BY <1>1, <1>5, <2>1, PartOfPart DEF N
  <2> QED BY <1>1, <1>3, <2>1, <2>2
<1>9. SubSeq(text, q + 1, N) \in Seq(Narrow)
  <2>1. N \in q..N
    BY <1>1, <1>5
  <2> QED BY <1>5, <2>1, PartIs DEF N
\* No other tag begins in it.
<1>10. ASSUME NEW other \in Tags, NEW i \in (p + 1)..q, MayStart(text, other, i)
       PROVE  i = p + 1 /\ other = tag
  <2>1. i \in (p + 1)..((p + 1) + Len(tag) - 1) /\ (p + 1) + Len(tag) - 1 <= Len(text)
    BY <1>5, <1>7 DEF n, N
  <2> QED BY <1>5, <1>7, <1>10, <2>1, Apart
<1>11. Past(text, q)
  <2> SUFFICES ASSUME NEW other \in Tags, NEW i \in 1..q, MayStart(text, other, i)
               PROVE  i + Len(other) - 1 <= q
    BY DEF Past
  <2>1. i \in 1..p \/ i \in (p + 1)..q
    BY <1>1, <1>5
  <2>2. CASE i \in 1..p
    <3>1. i + Len(other) - 1 <= p /\ Len(other) \in Nat
      BY <1>1, <2>2, TagsTyped DEF Past
    <3> QED BY <1>1, <1>5, <3>1
  <2>3. CASE i \in (p + 1)..q
    BY <1>7, <1>10, <2>3 DEF n
  <2> QED BY <2>1, <2>2, <2>3
<1>12. TagAt(text, p + 1) = tag
  <2>1. TagAt(text, p + 1) # <<>>
    BY <1>7, TagsTyped DEF TagAt, Tags
  <2>2. TagAt(text, p + 1) \in Tags /\ StartsAt(text, TagAt(text, p + 1), p + 1)
    BY <2>1, TagAtIs
  <2>3. MayStart(text, TagAt(text, p + 1), p + 1) /\ p + 1 \in (p + 1)..q
    BY <1>5, <2>2, Starts, TagsTyped
  <2> QED BY <1>10, <2>2, <2>3
<1>13. Plain(text, p + 1, q)
  <2> SUFFICES ASSUME NEW i \in (p + 1 + 1)..q, NEW other \in Tags, StartsAt(text, other, i)
               PROVE  FALSE
    BY DEF Plain
  <2>1. i \in Nat \ {0} /\ i \in (p + 1)..q /\ i # p + 1
    BY <1>1, <1>5
  <2>2. MayStart(text, other, i)
    BY <2>1, Starts, TagsTyped
  <2> QED BY <1>10, <2>1, <2>2
<1>14. depth[q] = DepthSeen(text, imp, p + 1, s.depth)
  <2>a. /\ p + 1 \in 0..N /\ p + 1 \in 1..N /\ q \in (p + 1)..N
        /\ q \in (p + 1)..q /\ (p + 1) - 1 = p
    <3> HIDE DEF N
    <3> QED BY <1>1, <1>5
  <2>1. /\ p + 1 \in 0..Len(text) /\ p + 1 \in 1..Len(text) /\ q \in (p + 1)..Len(text)
        /\ q \in (p + 1)..q /\ (p + 1) - 1 = p
    BY <2>a DEF N
  <2>2. depth[q] = depth[p + 1]
    BY <1>1, <1>13, <2>1, DepthStays
  <2>3. depth[p + 1] = DepthSeen(text, imp, p + 1, depth[p])
    BY <1>1, <2>1, DepthIs
  <2> QED BY <1>1, <2>2, <2>3
<1>15. \A i \in (p + 1)..q : i \notin keeps
  <2> SUFFICES ASSUME NEW i \in (p + 1)..q PROVE i \in InTag(text)
    BY DEF Kept
  <2>1. p + 1 \in 1..i /\ i < (p + 1) + Len(tag) /\ i \in DOMAIN text
    BY <1>1, <1>5, <1>2, <1>7 DEF n, N
  <2> QED BY <1>12, <2>1 DEF InTag
<1>16. s.public = Spelt(text, keeps)[q]
  <2>1. q \in p..Len(text)
    BY <1>1, <1>5 DEF N
  <2> HIDE DEF keeps
  <2> QED BY <1>1, <1>15, <2>1, NoneSpelt DEF N
<1>17. ~SpaceOnly(text, imp, q)
  <2>1. text[p + 1] # Space /\ p + 1 \in 1..q
    BY <1>1, <1>2, <1>5, <1>6
  <2> QED BY <2>1 DEF SpaceOnly
<1>18. p + 1 \in Echo(text, imp) <=> tag = OpenTag /\ SpaceOnly(text, imp, p)
  <2>1. p + 1 \in DOMAIN text /\ (p + 1) - 1 = p
    BY <1>1, <1>5 DEF N
  <2> QED BY <1>1, <1>12, <2>1 DEF Echo, SpaceOnly
<1> QED
  BY <1>3, <1>5, <1>8, <1>9, <1>11, <1>12, <1>14, <1>16, <1>17, <1>18 DEF N, n

\* ReadTo, from its parts.
LEMMA ReadWhen ==
    ASSUME NEW text, NEW q \in 0..Len(text), NEW r \in Filters, NEW imp, r.implicit = imp,
           r.pending = SubSeq(text, q + 1, Len(text)), Past(text, q),
           r.depth = Depth(text, imp)[q], r.inThink <=> r.depth # 0,
           r.public = Spelt(text, Kept(text, imp))[q],
           EchoExpected(text, q, r), TagsLeaveTraces(text, q, r)
    PROVE  ReadTo(text, q, r)
BY DEF ReadTo

\* An opening tag is read as the definition reads it.
LEMMA OpeningKeeps ==
    ASSUME NEW text \in Seq(Narrow), NEW p, NEW s, ReadTo(text, p, s),
           StartsAt(s.pending, OpenTag, 1), NEW q, q = p + Len(OpenTag)
    PROVE  q \in (p + 1)..Len(text) /\ ReadTo(text, q, OpenSeen(Drop(s, OpenTag)))
<1> DEFINE imp == s.implicit
           rest == SubSeq(text, q + 1, Len(text))
           r == OpenSeen(Drop(s, OpenTag))
<1>a. OpenTag \in Tags
  BY TagsTyped
<1>1. /\ q \in (p + 1)..Len(text) /\ Past(text, q)
      /\ SubSeq(s.pending, Len(OpenTag) + 1, Len(s.pending)) = rest
      /\ rest \in Seq(Narrow)
      /\ TagAt(text, p + 1) = OpenTag
      /\ Depth(text, imp)[q] = DepthSeen(text, imp, p + 1, s.depth)
      /\ p + 1 \in Echo(text, imp) <=> SpaceOnly(text, imp, p)
      /\ ~SpaceOnly(text, imp, q)
      /\ s.public = Spelt(text, Kept(text, imp))[q]
  BY <1>a, TagTaken, SMTT(30)
<1>2. /\ s \in Filters /\ (s.inThink <=> s.depth # 0) /\ EchoExpected(text, p, s)
      /\ p \in 0..Len(text) /\ Len(text) \in Nat
  BY DEF ReadTo
<1> HIDE DEF rest
<1>3. q \in 0..Len(text)
  BY <1>1, <1>2
<1>4. r = IF ~s.inThink THEN [s EXCEPT !.pending = rest, !.inThink = TRUE, !.depth = 1, !.redundant = FALSE]
          ELSE IF s.redundant /\ OnlySpace(s.reasoning) /\ s.depth = 1
               THEN [s EXCEPT !.pending = rest, !.redundant = FALSE]
               ELSE [s EXCEPT !.pending = rest, !.reasoning = @ \o OpenTag, !.depth = @ + 1]
  BY <1>1, <1>2 DEF OpenSeen, Drop, Filters
<1>5. s.depth \in Nat /\ s.depth + 1 \in Nat /\ s.reasoning \in Seq(Narrow)
  BY <1>2 DEF Filters
<1>6. s.reasoning \o OpenTag \in Seq(Narrow) /\ ~OnlySpace(s.reasoning \o OpenTag)
  BY <1>5, <1>a, SpaceNot
<1> SUFFICES ReadTo(text, q, r)
  BY <1>1
<1> HIDE DEF r
<1>7. CASE ~s.inThink
  <2>1. r = [s EXCEPT !.pending = rest, !.inThink = TRUE, !.depth = 1, !.redundant = FALSE]
    BY <1>4, <1>7
  <2>2. r \in Filters
    BY <1>1, <1>2, <2>1 DEF Filters
  <2>3. /\ r.implicit = imp /\ r.inThink /\ r.depth = 1 /\ ~r.redundant
        /\ r.pending = rest /\ r.public = s.public
    BY <1>2, <2>1 DEF Filters
  <2>4. ~SpaceOnly(text, imp, p) /\ s.depth = 0
    BY <1>2, <1>7 DEF EchoExpected
  <2>5. Depth(text, imp)[q] = 1
    BY <1>1, <2>4 DEF DepthSeen
  <2>6. EchoExpected(text, q, r)
    BY <1>1, <2>3 DEF EchoExpected
  <2>7. TagsLeaveTraces(text, q, r)
    BY <2>3, Zenon DEF TagsLeaveTraces
  <2>8. r.inThink <=> r.depth # 0
    BY <2>3
  <2> QED BY <1>1, <1>3, <2>2, <2>3, <2>5, <2>6, <2>7, <2>8, ReadWhen DEF rest
<1>8. CASE s.inThink /\ SpaceOnly(text, imp, p)
  <2>1. r = [s EXCEPT !.pending = rest, !.redundant = FALSE]
    BY <1>2, <1>4, <1>8 DEF EchoExpected
  <2>2. r \in Filters
    BY <1>1, <1>2, <2>1 DEF Filters
  <2>3. /\ r.implicit = imp /\ (r.inThink <=> s.inThink) /\ r.depth = s.depth /\ ~r.redundant
        /\ r.pending = rest /\ r.public = s.public
    BY <1>2, <2>1 DEF Filters
  <2>4. Depth(text, imp)[q] = s.depth
    BY <1>1, <1>8, TagsTyped DEF DepthSeen
  <2>5. EchoExpected(text, q, r)
    BY <1>1, <2>3 DEF EchoExpected
  <2>6. TagsLeaveTraces(text, q, r)
    BY <1>8, <2>3, Zenon DEF TagsLeaveTraces
  <2> QED BY <1>1, <1>2, <1>3, <2>2, <2>3, <2>4, <2>5, <2>6, ReadWhen DEF rest
<1>9. CASE s.inThink /\ ~SpaceOnly(text, imp, p)
  <2>1. r = [s EXCEPT !.pending = rest, !.reasoning = @ \o OpenTag, !.depth = @ + 1]
    BY <1>2, <1>4, <1>9 DEF EchoExpected
  <2>2. r \in Filters
    BY <1>1, <1>2, <1>5, <1>6, <2>1 DEF Filters
  <2>3. /\ r.implicit = imp /\ (r.inThink <=> s.inThink) /\ r.depth = s.depth + 1
        /\ r.pending = rest /\ r.public = s.public /\ r.reasoning = s.reasoning \o OpenTag
    BY <1>2, <2>1 DEF Filters
  <2>4. Depth(text, imp)[q] = s.depth + 1
    BY <1>1, <1>9 DEF DepthSeen
  <2>5. EchoExpected(text, q, r)
    BY <1>1, <1>6, <2>3 DEF EchoExpected
  <2>6. TagsLeaveTraces(text, q, r)
    BY <1>9, <2>3, Zenon DEF TagsLeaveTraces
  <2>7. r.inThink <=> r.depth # 0
    BY <1>5, <1>9, <2>3
  <2> QED BY <1>1, <1>3, <2>2, <2>3, <2>4, <2>5, <2>6, <2>7, ReadWhen DEF rest
<1> QED
  BY <1>7, <1>8, <1>9

\* A closing tag is read as the definition reads it.
LEMMA ClosingKeeps ==
    ASSUME NEW text \in Seq(Narrow), NEW p, NEW s, ReadTo(text, p, s),
           StartsAt(s.pending, CloseTag, 1), NEW q, q = p + Len(CloseTag)
    PROVE  q \in (p + 1)..Len(text) /\ ReadTo(text, q, CloseSeen(Drop(s, CloseTag)))
<1> DEFINE imp == s.implicit
           rest == SubSeq(text, q + 1, Len(text))
           r == CloseSeen(Drop(s, CloseTag))
           block == [text |-> s.reasoning, closed |-> TRUE]
<1>a. CloseTag \in Tags
  BY TagsTyped
<1>1. /\ q \in (p + 1)..Len(text) /\ Past(text, q)
      /\ SubSeq(s.pending, Len(CloseTag) + 1, Len(s.pending)) = rest
      /\ rest \in Seq(Narrow)
      /\ TagAt(text, p + 1) = CloseTag
      /\ Depth(text, imp)[q] = DepthSeen(text, imp, p + 1, s.depth)
      /\ ~SpaceOnly(text, imp, q)
      /\ s.public = Spelt(text, Kept(text, imp))[q]
  BY <1>a, TagTaken, SMTT(30)
<1>2. /\ s \in Filters /\ (s.inThink <=> s.depth # 0) /\ EchoExpected(text, p, s)
      /\ p \in 0..Len(text) /\ Len(text) \in Nat
  BY DEF ReadTo
<1> HIDE DEF rest
<1>3. q \in 0..Len(text)
  BY <1>1, <1>2
<1>4. r = IF ~s.inThink THEN [s EXCEPT !.pending = rest, !.orphans = @ + 1]
          ELSE IF s.depth <= 1
               THEN [s EXCEPT !.pending = rest, !.blocks = Append(@, block), !.reasoning = <<>>,
                              !.inThink = FALSE, !.depth = 0]
               ELSE [s EXCEPT !.pending = rest, !.reasoning = @ \o CloseTag, !.depth = @ - 1]
  BY <1>1, <1>2 DEF CloseSeen, Closed, Drop, Filters
<1>5. s.depth \in Nat /\ s.reasoning \in Seq(Narrow) /\ s.orphans \in Nat /\ s.orphans + 1 \in Nat
      /\ s.blocks \in Seq([text : Seq(Narrow), closed : BOOLEAN])
  BY <1>2 DEF Filters
<1>6. s.reasoning \o CloseTag \in Seq(Narrow) /\ ~OnlySpace(s.reasoning \o CloseTag)
  BY <1>5, <1>a, SpaceNot
<1>7. Depth(text, imp)[q] = IF s.depth > 0 THEN s.depth - 1 ELSE s.depth
  BY <1>1, TagsTyped DEF DepthSeen
<1> SUFFICES ReadTo(text, q, r)
  BY <1>1
<1> HIDE DEF r, block
<1>8. CASE ~s.inThink
  <2>1. r = [s EXCEPT !.pending = rest, !.orphans = @ + 1]
    BY <1>4, <1>8
  <2>2. r \in Filters
    BY <1>1, <1>2, <1>5, <2>1 DEF Filters
  <2>3. /\ r.implicit = imp /\ (r.inThink <=> s.inThink) /\ r.depth = s.depth /\ r.orphans = s.orphans + 1
        /\ r.pending = rest /\ r.public = s.public
    BY <1>2, <2>1 DEF Filters
  <2>4. Depth(text, imp)[q] = s.depth
    BY <1>2, <1>5, <1>7, <1>8
  <2>5. EchoExpected(text, q, r)
    BY <1>1, <1>8, <2>3 DEF EchoExpected
  <2>6. TagsLeaveTraces(text, q, r)
    <3>1. r.orphans # 0
      BY <1>5, <2>3
    <3> QED BY <3>1, Zenon DEF TagsLeaveTraces
  <2> QED BY <1>1, <1>2, <1>3, <2>2, <2>3, <2>4, <2>5, <2>6, ReadWhen DEF rest
<1>9. CASE s.inThink /\ s.depth <= 1
  <2>1. r = [s EXCEPT !.pending = rest, !.blocks = Append(@, block), !.reasoning = <<>>,
                      !.inThink = FALSE, !.depth = 0]
    BY <1>4, <1>9
  <2>2. /\ block \in [text : Seq(Narrow), closed : BOOLEAN]
        /\ <<>> \in Seq(Narrow)
    BY <1>5, EmptySeq DEF block
  <2>3. /\ Append(s.blocks, block) \in Seq([text : Seq(Narrow), closed : BOOLEAN])
        /\ Append(s.blocks, block) # <<>>
    <3> DEFINE Blocks == [text : Seq(Narrow), closed : BOOLEAN]
    <3>1. s.blocks \in Seq(Blocks) /\ block \in Blocks
      BY <1>5, <2>2
    <3> HIDE DEF Blocks
    <3>2. Append(s.blocks, block) \in Seq(Blocks) /\ Append(s.blocks, block) # <<>>
      BY <3>1
    <3> QED BY <3>2 DEF Blocks
  <2>4. r \in Filters
    BY <1>1, <1>2, <2>1, <2>2, <2>3 DEF Filters
  <2>5. /\ r.implicit = imp /\ ~r.inThink /\ r.depth = 0 /\ r.blocks = Append(s.blocks, block)
        /\ r.pending = rest /\ r.public = s.public
    BY <1>2, <2>1 DEF Filters
  <2>6. Depth(text, imp)[q] = 0
    BY <1>2, <1>5, <1>7, <1>9
  <2>7. EchoExpected(text, q, r)
    BY <1>1, <2>5 DEF EchoExpected
  <2>8. TagsLeaveTraces(text, q, r)
    BY <2>3, <2>5, Zenon DEF TagsLeaveTraces
  <2> QED BY <1>1, <1>3, <2>4, <2>5, <2>6, <2>7, <2>8, ReadWhen DEF rest
<1>10. CASE s.inThink /\ ~(s.depth <= 1)
  <2>1. r = [s EXCEPT !.pending = rest, !.reasoning = @ \o CloseTag, !.depth = @ - 1]
    BY <1>4, <1>10
  <2>a. s.depth - 1 \in Nat /\ s.depth - 1 # 0
    BY <1>5, <1>10
  <2>2. r \in Filters
    BY <1>1, <1>2, <1>6, <2>1, <2>a DEF Filters
  <2>3. /\ r.implicit = imp /\ (r.inThink <=> s.inThink) /\ r.depth = s.depth - 1
        /\ r.pending = rest /\ r.public = s.public /\ r.reasoning = s.reasoning \o CloseTag
    BY <1>2, <2>1 DEF Filters
  <2>4. Depth(text, imp)[q] = s.depth - 1
    BY <1>5, <1>7, <1>10
  <2>5. EchoExpected(text, q, r)
    BY <1>1, <1>6, <2>3 DEF EchoExpected
  <2>6. TagsLeaveTraces(text, q, r)
    BY <1>10, <2>3, Zenon DEF TagsLeaveTraces
  <2> QED BY <1>1, <1>3, <1>10, <2>2, <2>3, <2>4, <2>5, <2>6, <2>a, ReadWhen DEF rest
<1> QED
  BY <1>8, <1>9, <1>10

\* Where a tag starts in the pending text and where in the whole.
LEMMA StartsThere ==
    ASSUME NEW text \in Seq(Narrow), NEW a \in 0..Len(text), NEW tag \in Tags, NEW k \in Nat \ {0}
    PROVE  StartsAt(SubSeq(text, a + 1, Len(text)), tag, k) <=> StartsAt(text, tag, a + k)
<1> DEFINE part == SubSeq(text, a + 1, Len(text))
           n == Len(tag)
<1>1. Len(text) \in a..Len(text) /\ Len(text) \in Nat /\ a \in Nat /\ a + k \in Nat \ {0}
  OBVIOUS
<1>2. /\ part \in Seq(Narrow) /\ Len(part) = Len(text) - a
      /\ \A i \in 1..(Len(text) - a) : part[i] = text[a + i]
  BY <1>1, PartIs
<1>3. tag \in Seq(Narrow) /\ n \in Nat /\ DOMAIN tag = 1..n
  BY TagsTyped
<1> HIDE DEF part, n
<1>4. k + n - 1 <= Len(part) <=> (a + k) + n - 1 <= Len(text)
  BY <1>1, <1>2, <1>3
<1>5. ASSUME k + n - 1 <= Len(part)
      PROVE  MayStart(part, tag, k) <=> MayStart(text, tag, a + k)
  <2>1. \A i \in 1..n : /\ k + i - 1 <= Len(part) /\ (a + k) + i - 1 <= Len(text)
                        /\ k + i - 1 \in 1..(Len(text) - a) /\ a + (k + i - 1) = (a + k) + i - 1
    BY <1>1, <1>2, <1>3, <1>5, SMTT(30)
  <2>2. \A i \in 1..n : part[k + i - 1] = text[(a + k) + i - 1]
    BY <1>2, <2>1
  <2> QED BY <1>3, <2>1, <2>2 DEF MayStart
<1> QED
  BY <1>1, <1>2, <1>3, <1>4, <1>5, Starts DEF part, n

\* What is left to read is in the pending text.
LEMMA PendingIs ==
    ASSUME NEW text \in Seq(Narrow), NEW p, NEW s, ReadTo(text, p, s)
    PROVE  /\ p \in 0..Len(text) /\ Len(text) \in Nat /\ s \in Filters
           /\ s.pending \in Seq(Narrow) /\ Len(s.pending) = Len(text) - p
           /\ DOMAIN s.pending = 1..(Len(text) - p)
           /\ \A k \in 1..(Len(text) - p) : s.pending[k] = text[p + k]
           /\ \A tag \in Tags : \A k \in Nat \ {0} :
                 StartsAt(s.pending, tag, k) <=> StartsAt(text, tag, p + k)
<1>1. p \in 0..Len(text) /\ s.pending = SubSeq(text, p + 1, Len(text)) /\ s \in Filters
  BY DEF ReadTo
<1>2. Len(text) \in p..Len(text) /\ Len(text) \in Nat
  BY <1>1
<1>3. /\ s.pending \in Seq(Narrow) /\ Len(s.pending) = Len(text) - p
      /\ \A k \in 1..(Len(text) - p) : s.pending[k] = text[p + k]
  BY <1>1, <1>2, PartIs
<1>4. \A tag \in Tags : \A k \in Nat \ {0} :
        StartsAt(s.pending, tag, k) <=> StartsAt(text, tag, p + k)
  BY <1>1, StartsThere
<1>5. DOMAIN s.pending = 1..(Len(text) - p)
  BY <1>3
<1> QED
  BY <1>1, <1>2, <1>3, <1>4, <1>5

\* The places FirstTags gives.
LEMMA FirstTagsAre ==
    ASSUME NEW text \in Seq(Narrow), NEW k
    PROVE  k \in FirstTags(text) <=> k \in 1..Len(text) /\ \E tag \in Tags : StartsAt(text, tag, k)
BY DEF FirstTags, Tags

\* One turn of the loop.
LEMMA TagTurnKeeps ==
    ASSUME NEW text \in Seq(Narrow), NEW p, NEW s, ReadTo(text, p, s)
    PROVE  \E q \in p..Len(text) :
              /\ ReadTo(text, q, Turn(s))
              /\ q > p \/ (Turn(s) = s /\ FirstTags(s.pending) = {})
<1> DEFINE N == Len(text)
           tags == FirstTags(s.pending)
           i == Min(tags)
           n == i - 1
           at == Pass(s, n)
<1>a. Lower(s.pending) = s.pending
  BY PendingIs, LowerSame
<1>1. /\ p \in 0..N /\ N \in Nat /\ s.pending \in Seq(Narrow) /\ Len(s.pending) = N - p
      /\ \A tag \in Tags : \A k \in Nat \ {0} :
            StartsAt(s.pending, tag, k) <=> StartsAt(text, tag, p + k)
  BY PendingIs
<1>2. CASE tags = {}
  <2>1. Turn(s) = s /\ p \in p..N
    BY <1>1, <1>2, <1>a DEF Turn
  <2> QED BY <1>2, <2>1
<1>3. CASE tags # {}
  <2>1. tags \subseteq Nat \ {0}
    BY <1>1, FirstTagsAre
  <2>2. i \in tags /\ \A k \in tags : i <= k
    <3> HIDE DEF tags
    <3> QED BY <1>3, <2>1, MinOfSet
  <2>3. PICK t \in Tags : StartsAt(s.pending, t, i)
    BY <1>1, <2>2, FirstTagsAre
  <2>4. i \in 1..(N - p) /\ i \in Nat \ {0}
    BY <1>1, <2>1, <2>2, FirstTagsAre
  <2> HIDE DEF i, N
  <2>5. StartsAt(text, t, p + i) /\ p + i \in Nat \ {0}
    BY <1>1, <2>3, <2>4
  <2>6. MayStart(text, t, p + i) /\ (p + i) + Len(t) - 1 <= N
    BY <2>5, Starts, TagsTyped DEF N
  <2>7. n \in 0..Len(s.pending) /\ p + n \in 0..N /\ (p + n) + 1 = p + i
    BY <1>1, <2>4
  <2>8. ASSUME NEW j \in (p + 1)..(p + n), NEW u \in Tags, MayStart(text, u, j) PROVE FALSE
    <3>1. j \in Nat \ {0} /\ j < p + i /\ Len(u) \in Nat /\ j \in Int
      BY <1>1, <2>4, TagsTyped
    <3>2. CASE j + Len(u) - 1 <= N
      <4> DEFINE k == j - p
      <4>1. k \in Nat \ {0} /\ p + k = j /\ k < i /\ k \in 1..(N - p)
        BY <1>1, <2>4, <3>1
      <4> HIDE DEF k
      <4>2. StartsAt(text, u, j)
        BY <2>8, <3>1, <3>2, Starts, TagsTyped DEF N
      <4>3. StartsAt(s.pending, u, k)
        BY <1>1, <4>1, <4>2
      <4>4. k \in tags
        BY <1>1, <4>1, <4>3, FirstTagsAre
      <4> QED BY <2>2, <2>4, <4>1, <4>4
    <3>3. CASE ~(j + Len(u) - 1 <= N)
      <4>1. p + i \in j..(j + Len(u) - 1)
        BY <1>1, <2>4, <3>1, <3>3
      <4>2. p + i = j
        BY <2>6, <2>8, <3>1, <4>1, Apart DEF N
      <4> QED BY <3>1, <4>2
    <3> QED BY <3>2, <3>3
  <2>9. p + n \in p..Len(text) /\ ReadTo(text, p + n, at)
    <3> HIDE DEF n
    <3> QED BY <2>7, <2>8, PassKeeps
  <2>10. StartsAt(at.pending, t, 1)
    <3> HIDE DEF at, n
    <3>1. 1 \in Nat \ {0}
      OBVIOUS
    <3>2. StartsAt(at.pending, t, 1) <=> StartsAt(text, t, (p + n) + 1)
      BY <2>9, <3>1, PendingIs
    <3> QED BY <2>5, <2>7, <3>2
  <2>11. Turn(s) = IF StartsAt(at.pending, OpenTag, 1) THEN OpenSeen(Drop(at, OpenTag))
                   ELSE CloseSeen(Drop(at, CloseTag))
    <3>1. Turn(s) = IF StartsAt(s.pending, OpenTag, i) THEN OpenSeen(Drop(at, OpenTag))
                    ELSE CloseSeen(Drop(at, CloseTag))
      BY <1>3, <1>a DEF Turn, i
    <3>2. StartsAt(s.pending, OpenTag, i) <=> StartsAt(text, OpenTag, p + i)
      BY <1>1, <2>4, TagsTyped
    <3>3. StartsAt(at.pending, OpenTag, 1) <=> StartsAt(text, OpenTag, (p + n) + 1)
      <4> HIDE DEF at, n
      <4>1. 1 \in Nat \ {0}
        OBVIOUS
      <4> QED BY <2>9, <4>1, PendingIs, TagsTyped
    <3> QED BY <2>7, <3>1, <3>2, <3>3
  <2> HIDE DEF at, n, tags
  <2>12. ASSUME NEW q, NEW r, q \in (p + n + 1)..Len(text), ReadTo(text, q, r), Turn(s) = r
         PROVE  \E y \in p..Len(text) :
                   /\ ReadTo(text, y, Turn(s))
                   /\ y > p \/ (Turn(s) = s /\ FirstTags(s.pending) = {})
    <3>1. q \in p..Len(text) /\ q > p
      BY <1>1, <2>7, <2>9, <2>12 DEF N
    <3> QED BY <2>12, <3>1
  <2>13. CASE StartsAt(at.pending, OpenTag, 1)
    <3> DEFINE q == p + n + Len(OpenTag)
               r == OpenSeen(Drop(at, OpenTag))
    <3>1. q = (p + n) + Len(OpenTag)
      OBVIOUS
    <3> HIDE DEF q
    <3>2. q \in ((p + n) + 1)..Len(text) /\ ReadTo(text, q, r)
      BY <2>9, <2>13, <3>1, OpeningKeeps
    <3>3. Turn(s) = r
      BY <2>11, <2>13
    <3> HIDE DEF r
    <3> QED BY <2>12, <3>2, <3>3
  <2>14. CASE ~StartsAt(at.pending, OpenTag, 1)
    <3> DEFINE q == p + n + Len(CloseTag)
               r == CloseSeen(Drop(at, CloseTag))
    <3>1. q = (p + n) + Len(CloseTag) /\ StartsAt(at.pending, CloseTag, 1)
      BY <2>10, <2>14 DEF Tags
    <3> HIDE DEF q
    <3>2. q \in ((p + n) + 1)..Len(text) /\ ReadTo(text, q, r)
      BY <2>9, <3>1, ClosingKeeps
    <3>3. Turn(s) = r
      BY <2>11, <2>14
    <3> HIDE DEF r
    <3> QED BY <2>12, <3>2, <3>3
  <2> QED BY <2>13, <2>14
<1> QED
  BY <1>2, <1>3

\* The filter was told once whether the prompt opened the block.
LEMMA ImplicitStays ==
    ASSUME NEW s \in Filters
    PROVE  Turn(s).implicit = s.implicit /\ PassRest(s).implicit = s.implicit
<1> DEFINE Like(r) == DOMAIN r = DOMAIN s /\ r.implicit = s.implicit
<1>1. "implicit" \in DOMAIN s
  BY DEF Filters
<1>2. \A r, n : Like(r) => Like(Pass(r, n))
  BY <1>1 DEF Pass
<1>3. \A r, tag : Like(r) => Like(Drop(r, tag))
  BY <1>1 DEF Drop
<1>4. \A r : Like(r) => Like(OpenSeen(r))
  BY <1>1 DEF OpenSeen
<1>5. \A r : Like(r) => Like(CloseSeen(r))
  <2>1. \A r : Like(r) => Like(Closed(r, TRUE))
    BY <1>1 DEF Closed
  <2>2. \A r : Like(r) => Like([r EXCEPT !.depth = 0])
    BY <1>1
  <2>3. \A r : Like(r) => Like([Closed(r, TRUE) EXCEPT !.depth = 0])
    <3> HIDE DEF Like
    <3> QED BY <2>1, <2>2
  <2> QED BY <1>1, <2>3 DEF CloseSeen
<1>6. Like(s)
  OBVIOUS
<1> HIDE DEF Like
<1>7. Like(Turn(s))
  BY <1>2, <1>3, <1>4, <1>5, <1>6 DEF Turn
<1>8. Like(PassRest(s))
  BY <1>2, <1>6 DEF PassRest
<1> QED
  BY <1>7, <1>8 DEF Like

\* As many turns as there are characters pending find every tag.
LEMMA TurnsEnd ==
    ASSUME NEW text \in Seq(Narrow), NEW p, NEW s, ReadTo(text, p, s), NEW after,
           after[0] = s, \A n \in 1..Len(s.pending) : after[n] = Turn(after[n - 1])
    PROVE  \E q \in p..Len(text) :
              /\ ReadTo(text, q, after[Len(s.pending)])
              /\ after[Len(s.pending)].implicit = s.implicit
              /\ FirstTags(after[Len(s.pending)].pending) = {}
<1> DEFINE N == Len(text)
           K == Len(s.pending)
           Done(n, q) == /\ ReadTo(text, q, after[n]) /\ after[n].implicit = s.implicit
                         /\ q >= p + n \/ FirstTags(after[n].pending) = {}
           S == {n \in Nat : n <= K => \E q \in p..N : Done(n, q)}
<1>1. p \in 0..N /\ N \in Nat /\ K = N - p /\ K \in Nat /\ p \in p..N
  BY PendingIs
<1>2. 0 \in S
  <2>1. Done(0, p)
    BY <1>1
  <2> HIDE DEF Done
  <2> QED BY <1>1, <2>1
<1>3. ASSUME NEW n \in Nat, n \in S PROVE n + 1 \in S
  <2> DEFINE z == n + 1
  <2>1. z \in Nat
    OBVIOUS
  <2>2. ASSUME z <= K PROVE \E q \in p..N : Done(z, q)
    <3>1. n <= K /\ z \in 1..Len(s.pending) /\ z - 1 = n
      BY <1>1, <2>2
    <3>2. PICK q \in p..N : Done(n, q)
      <4> HIDE DEF Done, N, K
      <4> QED BY <1>3, <3>1
    <3>3. after[z] = Turn(after[n])
      BY <3>1
    <3>4. PICK y \in q..N : /\ ReadTo(text, y, Turn(after[n]))
                            /\ y > q \/ (Turn(after[n]) = after[n] /\ FirstTags(after[n].pending) = {})
      BY <3>2, TagTurnKeeps
    <3>5. y \in p..N
      BY <1>1, <3>2, <3>4
    <3> HIDE DEF z
    <3>6. y >= p + z \/ FirstTags(after[z].pending) = {}
      <4>1. CASE FirstTags(after[n].pending) = {}
        <5>1. Turn(after[n]) = after[n]
          <6>1. Lower(after[n].pending) = after[n].pending
            BY <3>2, PendingIs, LowerSame
          <6> QED BY <4>1, <6>1 DEF Turn
        <5> QED BY <3>3, <4>1, <5>1
      <4>2. CASE FirstTags(after[n].pending) # {}
        <5>1. y > q /\ q >= p + n
          BY <3>2, <3>4, <4>2
        <5> QED BY <1>1, <3>2, <3>4, <5>1 DEF z
      <4> QED BY <4>1, <4>2
    <3>7. after[z].implicit = s.implicit
      <4>1. after[n] \in Filters /\ after[n].implicit = s.implicit
        BY <3>2 DEF ReadTo
      <4> QED BY <3>3, <4>1, ImplicitStays
    <3>8. Done(z, y)
      BY <3>3, <3>4, <3>6, <3>7
    <3> HIDE DEF Done
    <3> QED BY <3>5, <3>8
  <2>3. z <= K => \E q \in p..N : Done(z, q)
    BY <2>2
  <2> HIDE DEF Done
  <2> QED BY <2>1, <2>3, Zenon
<1>4. PICK q \in p..N : Done(K, q)
  <2> HIDE DEF S
  <2>1. K \in S
    BY <1>1, <1>2, <1>3, SetInduction
  <2> HIDE DEF Done, N, K
  <2>2. K <= K
    BY <1>1
  <2> QED BY <2>1, <2>2 DEF S
<1>5. FirstTags(after[K].pending) = {}
  <2>1. CASE q >= p + K
    <3>1. Len(after[K].pending) = 0 /\ after[K].pending \in Seq(Narrow)
      BY <1>1, <1>4, <2>1, PendingIs
    <3>2. \A k : k \notin 1..Len(after[K].pending)
      BY <3>1
    <3> DEFINE rest == after[K].pending
    <3> HIDE DEF rest
    <3>3. \A k : k \notin FirstTags(rest)
      <4> SUFFICES ASSUME NEW k, k \in FirstTags(rest) PROVE FALSE
        OBVIOUS
      <4>1. k \in 1..Len(rest)
        BY <3>1, FirstTagsAre DEF rest
      <4> QED BY <3>2, <4>1 DEF rest
    <3> QED BY <3>3 DEF rest
  <2>2. CASE ~(q >= p + K)
    BY <1>4, <2>2
  <2> QED BY <2>1, <2>2
<1> QED
  BY <1>4, <1>5

\* What is passed on in the end holds neither a tag nor the beginning of one.
LEMMA PassRestKeeps ==
    ASSUME NEW text \in Seq(Narrow), NEW p, NEW s, ReadTo(text, p, s),
           FirstTags(s.pending) = {}
    PROVE  \E q \in p..Len(text) : ReadTo(text, q, PassRest(s)) /\ Plain(text, q, Len(text))
<1> DEFINE N == Len(text)
           M == Len(s.pending)
           Of(tag) == {n \in 1..(Len(tag) - 1) : n <= M /\ IsSuffix(SubSeq(tag, 1, n), s.pending)}
           keeps == TagSuffixLen(s.pending)
           all == {0} \cup Of(OpenTag) \cup Of(CloseTag)
           n == M - keeps
<1>1. /\ p \in 0..N /\ N \in Nat /\ s.pending \in Seq(Narrow) /\ M = N - p /\ M \in Nat
      /\ \A k \in 1..(N - p) : s.pending[k] = text[p + k]
      /\ \A tag \in Tags : \A k \in Nat \ {0} :
            StartsAt(s.pending, tag, k) <=> StartsAt(text, tag, p + k)
  BY PendingIs
<1>2. keeps = Max(all)
  BY DEF TagSuffixLen
<1>3. all \subseteq 0..M /\ all # {}
  BY <1>1
<1>4. keeps \in all /\ \A m \in all : keeps >= m
  <2> HIDE DEF all
  <2> QED BY <1>1, <1>2, <1>3, MaxOfSet
<1>5. keeps \in 0..M /\ n \in 0..M
  BY <1>1, <1>3, <1>4
<1> HIDE DEF keeps, N, M
<1>6. Plain(text, p, N)
  <2> SUFFICES ASSUME NEW i \in (p + 1)..N, NEW tag \in Tags, StartsAt(text, tag, i) PROVE FALSE
    BY DEF Plain
  <2> DEFINE k == i - p
  <2>1. k \in Nat \ {0} /\ p + k = i /\ k \in 1..(N - p)
    BY <1>1
  <2> HIDE DEF k
  <2>2. StartsAt(s.pending, tag, k) /\ k \in 1..Len(s.pending)
    BY <1>1, <2>1 DEF M
  <2> QED BY <1>1, <2>2, FirstTagsAre
<1>7. ASSUME NEW i \in (p + 1)..(p + n), NEW tag \in Tags, MayStart(text, tag, i) PROVE FALSE
  <2>1. /\ i \in Nat \ {0} /\ i \in (p + 1)..N /\ Len(tag) \in Nat /\ tag \in Seq(Narrow)
        /\ DOMAIN tag = 1..Len(tag)
    BY <1>1, <1>5, TagsTyped
  <2>2. ~(i + Len(tag) - 1 <= N)
    <3> SUFFICES ASSUME i + Len(tag) - 1 <= N PROVE FALSE
      OBVIOUS
    <3>1. StartsAt(text, tag, i)
      BY <1>7, <2>1, Starts DEF N
    <3> QED BY <1>6, <2>1, <3>1 DEF Plain
  <2> DEFINE m == N - i + 1
  <2>3. m \in 1..(Len(tag) - 1) /\ m <= M /\ m \in 0..Len(tag)
        /\ \A k \in 1..m : i + k - 1 <= N /\ M - m + k \in 1..(N - p) /\ p + (M - m + k) = i + k - 1
                           /\ k \in 1..Len(tag)
    <3> DEFINE len == Len(tag)
    <3>1. len \in Nat /\ i \in (p + 1)..N /\ ~(i + len - 1 <= N)
      BY <2>1, <2>2
    <3> HIDE DEF len
    <3>a. i \in Int /\ p \in Int /\ N \in Int /\ M = N - p /\ p + 1 <= i /\ i <= N /\ N < i + len - 1
      BY <1>1, <3>1
    <3>2. m \in 1..(len - 1) /\ m <= M /\ m \in 0..len
      BY <3>1, <3>a
    <3>3. ASSUME NEW k \in 1..m
          PROVE  i + k - 1 <= N /\ M - m + k \in 1..(N - p) /\ p + (M - m + k) = i + k - 1
      <4>1. i \in Int /\ p \in Int /\ N \in Int /\ k \in Int /\ p + 1 <= i /\ i <= N /\ 1 <= k /\ k <= N - i + 1
        BY <1>1, <3>1
      <4>2. M - m + k = i - p - 1 + k
        BY <1>1, <4>1
      <4> QED BY <4>1, <4>2
    <3>4. \A k \in 1..m : k \in 1..len
      BY <3>1, <3>2
    <3> QED BY <3>2, <3>3, <3>4 DEF len
  <2>4. \A k \in 1..m : text[i + k - 1] = tag[k]
    BY <1>7, <2>1, <2>3 DEF MayStart, N
  <2>5. \A k \in 1..m : s.pending[M - m + k] = tag[k]
    BY <1>1, <2>3, <2>4
  <2>6. keeps < m
    BY <1>1, <1>5, <2>1, SMTT(30)
  <2> HIDE DEF m
  <2>7. IsSuffix(SubSeq(tag, 1, m), s.pending)
    BY <1>1, <2>1, <2>3, <2>5, SuffixIs DEF M
  <2>8. m \in Of(tag)
    BY <2>3, <2>7
  <2>9. m \in all
    BY <2>8 DEF Tags
  <2> HIDE DEF all
  <2>10. keeps >= m
    BY <1>4, <2>9
  <2> QED BY <1>5, <2>3, <2>6, <2>10
<1>8. PassRest(s) = Pass(s, n)
  <2>1. Lower(s.pending) = s.pending
    BY <1>1, LowerSame
  <2> QED BY <2>1 DEF PassRest, keeps, M
<1>9. p + n \in p..Len(text) /\ ReadTo(text, p + n, Pass(s, n))
  <2>1. n \in 0..Len(s.pending)
    BY <1>5 DEF M
  <2> HIDE DEF n
  <2> QED BY <1>7, <2>1, PassKeeps
<1>10. Plain(text, p + n, Len(text))
  <2>1. \A i \in (p + n + 1)..N : i \in (p + 1)..N
    BY <1>1, <1>5
  <2> QED BY <1>6, <2>1 DEF Plain, N
<1> QED
  BY <1>8, <1>9, <1>10

\* At the start nothing is read.
LEMMA ReadNothing ==
    ASSUME NEW implicit \in BOOLEAN
    PROVE  ReadTo(<<>>, 0, NewStream(implicit))
<1> DEFINE s == NewStream(implicit)
<1>1. <<>> \in Seq(Narrow) /\ Len(<<>>) = 0 /\ 0 \in 0..0
  OBVIOUS
<1>2. \A T : <<>> \in Seq(T)
  OBVIOUS
<1>3. s \in Filters
  BY <1>2 DEF NewStream, Filters
<1>4. /\ s.implicit = implicit /\ (s.inThink <=> implicit) /\ s.depth = (IF implicit THEN 1 ELSE 0)
      /\ (s.redundant <=> implicit) /\ s.pending = <<>> /\ s.reasoning = <<>> /\ s.public = <<>>
  BY DEF NewStream
<1> HIDE DEF s
<1>5. Depth(<<>>, implicit)[0] = s.depth
  BY <1>1, <1>4, DepthIs
<1>6. Spelt(<<>>, Kept(<<>>, implicit))[0] = <<>>
  BY <1>1, SpeltIs
<1>7. SubSeq(<<>>, 0 + 1, Len(<<>>)) = <<>>
  BY <1>1
<1>8. \A i : i \notin 1..0
  OBVIOUS
<1>9. Past(<<>>, 0)
  BY <1>8 DEF Past
<1>10. s.inThink <=> s.depth # 0
  BY <1>4
<1>11. OnlySpace(<<>>)
  BY DEF OnlySpace
<1>12. SpaceOnly(<<>>, implicit, 0) <=> implicit
  BY <1>8 DEF SpaceOnly
<1>13. EchoExpected(<<>>, 0, s)
  BY <1>4, <1>11, <1>12 DEF EchoExpected
<1>14. TagsLeaveTraces(<<>>, 0, s)
  BY <1>4, <1>8 DEF TagsLeaveTraces
<1>15. ReadTo(<<>>, 0, s)
  BY <1>1, <1>3, <1>4, <1>5, <1>6, <1>7, <1>9, <1>10, <1>13, <1>14, ReadWhen
<1> QED
  BY <1>15 DEF s

\* A piece more, not yet looked at.
LEMMA PieceKeeps ==
    ASSUME NEW text \in Seq(Narrow), NEW p, NEW s, ReadTo(text, p, s),
           NEW chunk \in Seq(Narrow)
    PROVE  ReadTo(text \o chunk, p, [s EXCEPT !.pending = s.pending \o chunk])
<1> DEFINE long == text \o chunk
           r == [s EXCEPT !.pending = s.pending \o chunk]
           imp == s.implicit
           N == Len(text)
<1>1. /\ p \in 0..N /\ N \in Nat /\ s \in Filters /\ imp \in BOOLEAN
      /\ s.pending \in Seq(Narrow) /\ Len(s.pending) = N - p
      /\ \A k \in 1..(N - p) : s.pending[k] = text[p + k]
  <2>1. /\ p \in 0..N /\ N \in Nat /\ s \in Filters
        /\ s.pending \in Seq(Narrow) /\ Len(s.pending) = N - p
        /\ \A k \in 1..(N - p) : s.pending[k] = text[p + k]
    BY PendingIs
  <2>2. s.implicit \in BOOLEAN
    BY <2>1 DEF Filters
  <2> HIDE DEF N
  <2> QED BY <2>1, <2>2
<1>2. /\ long \in Seq(Narrow) /\ Len(long) = N + Len(chunk) /\ Len(chunk) \in Nat
      /\ \A i \in 1..(N + Len(chunk)) : long[i] = IF i <= N THEN text[i] ELSE chunk[i - N]
  BY ConcatProperties
<1>3. /\ s.pending \o chunk \in Seq(Narrow)
      /\ Len(s.pending \o chunk) = (N - p) + Len(chunk)
      /\ \A k \in 1..((N - p) + Len(chunk)) :
            (s.pending \o chunk)[k] = IF k <= N - p THEN s.pending[k] ELSE chunk[k - (N - p)]
  <2> DEFINE before == s.pending
             M == Len(s.pending)
  <2>1. before \in Seq(Narrow) /\ M = N - p
    BY <1>1
  <2> HIDE DEF before, N
  <2>2. /\ before \o chunk \in Seq(Narrow)
        /\ Len(before \o chunk) = Len(before) + Len(chunk)
        /\ \A k \in 1..(Len(before) + Len(chunk)) :
              (before \o chunk)[k] = IF k <= Len(before) THEN before[k] ELSE chunk[k - Len(before)]
    BY <2>1, ConcatProperties
  <2>3. Len(before) = N - p
    BY <2>1 DEF before
  <2> QED BY <2>2, <2>3 DEF before
<1>4. s.pending \o chunk = SubSeq(long, p + 1, Len(long))
  <2> DEFINE a == s.pending \o chunk
             b == SubSeq(long, p + 1, Len(long))
  <2> HIDE DEF long
  <2>1. p \in 0..Len(long) /\ Len(long) \in p..Len(long) /\ Len(long) - p = (N - p) + Len(chunk)
    BY <1>1, <1>2
  <2>2. /\ b \in Seq(Narrow) /\ Len(b) = (N - p) + Len(chunk)
        /\ \A k \in 1..((N - p) + Len(chunk)) : b[k] = long[p + k]
    BY <1>2, <2>1, PartIs
  <2> HIDE DEF a, b, N
  <2>3. ASSUME NEW k \in 1..((N - p) + Len(chunk)) PROVE a[k] = b[k]
    <3> DEFINE j == p + k
    <3>1. j \in 1..(N + Len(chunk)) /\ (j <= N <=> k <= N - p) /\ j - N = k - (N - p)
      BY <1>1, <1>2
    <3> HIDE DEF j
    <3>2. long[j] = IF k <= N - p THEN text[j] ELSE chunk[k - (N - p)]
      BY <1>2, <3>1
    <3>3. k <= N - p => s.pending[k] = text[p + k]
      BY <1>1
    <3>4. a[k] = IF k <= N - p THEN s.pending[k] ELSE chunk[k - (N - p)]
      BY <1>3 DEF a
    <3>5. b[k] = long[j]
      BY <2>2 DEF j
    <3> QED BY <3>2, <3>3, <3>4, <3>5 DEF j
  <2>4. a = b
    BY <1>3, <2>2, <2>3, SeqEqual DEF a
  <2> QED BY <2>4 DEF a, b
<1> HIDE DEF N
<1>5. /\ r \in Filters /\ r.implicit = imp /\ (r.inThink <=> s.inThink) /\ r.depth = s.depth
      /\ (r.redundant <=> s.redundant) /\ r.pending = s.pending \o chunk
      /\ r.reasoning = s.reasoning /\ r.blocks = s.blocks /\ r.public = s.public
      /\ r.orphans = s.orphans
  BY <1>1, <1>3 DEF Filters
<1>6. /\ Past(text, p) /\ s.depth = Depth(text, imp)[p] /\ (s.inThink <=> s.depth # 0)
      /\ s.public = Spelt(text, Kept(text, imp))[p]
      /\ EchoExpected(text, p, s) /\ TagsLeaveTraces(text, p, s)
  BY DEF ReadTo
<1>7. Past(long, p) /\ \A i \in 1..p : long[i] = text[i]
  BY <1>1, <1>6, GoesOn DEF N
<1>8. \A i \in 1..p : TagAt(long, i) = TagAt(text, i)
  BY <1>1, <1>6, SameTags DEF N
<1>9. /\ Depth(long, imp)[p] = Depth(text, imp)[p]
      /\ Spelt(long, Kept(long, imp))[p] = Spelt(text, Kept(text, imp))[p]
  BY <1>1, <1>6, SameReading DEF N
<1> HIDE DEF long, r
<1>10. p \in 0..Len(long)
  BY <1>1, <1>2
<1>11. SpaceOnly(long, imp, p) <=> SpaceOnly(text, imp, p)
  BY <1>7 DEF SpaceOnly
<1>12. EchoExpected(long, p, r)
  BY <1>5, <1>6, <1>11 DEF EchoExpected
<1>13. TagsLeaveTraces(long, p, r)
  BY <1>5, <1>6, <1>8 DEF TagsLeaveTraces
<1>14. ReadTo(long, p, r)
  <2>1. r.depth = Depth(long, imp)[p] /\ r.public = Spelt(long, Kept(long, imp))[p]
        /\ (r.inThink <=> r.depth # 0)
    BY <1>5, <1>6, <1>9
  <2>2. r.pending = SubSeq(long, p + 1, Len(long))
    BY <1>4, <1>5
  <2> QED BY <1>5, <1>7, <1>10, <1>12, <1>13, <2>1, <2>2, ReadWhen
<1> QED
  BY <1>14 DEF long, r

\* feed() reads the piece, up to what may become a tag.
LEMMA FeedKeeps ==
    ASSUME NEW text \in Seq(Narrow), NEW p, NEW s, ReadTo(text, p, s),
           NEW chunk \in Seq(Narrow)
    PROVE  \E q \in p..Len(text \o chunk) :
              /\ ReadTo(text \o chunk, q, FeedPiece(s, chunk))
              /\ FeedPiece(s, chunk).implicit = s.implicit
              /\ Plain(text \o chunk, q, Len(text \o chunk))
<1> DEFINE long == text \o chunk
           N == Len(long)
           pend == s.pending \o chunk
           first == [s EXCEPT !.pending = pend]
           K == Len(pend)
           D == {r \in Filters : \E q \in 0..N : ReadTo(long, q, r)}
           next == [n \in 1..K |-> [r \in D |-> Turn(r)]]
           Same(f) == f = [n \in 0..Len(pend) |->
                             IF n = 0 THEN [s EXCEPT !.pending = pend] ELSE Turn(f[n - 1])]
           after == CHOOSE f : Same(f)
<1>1. long \in Seq(Narrow) /\ N \in Nat
  BY ConcatProperties
<1>2. ReadTo(long, p, first)
  BY PieceKeeps
<1>3. first.pending = pend /\ first.implicit = s.implicit
  <2>1. s \in Filters
    BY DEF ReadTo
  <2> QED BY <2>1 DEF Filters
<1> HIDE DEF long, pend
<1>4. FeedPiece(s, chunk) = PassRest(after[K])
  BY DEF FeedPiece, pend
<1> HIDE DEF first, after
<1>5. p \in 0..N /\ K \in Nat /\ first \in D
  <2>1. p \in 0..N /\ K \in Nat /\ first \in Filters
    BY <1>1, <1>2, <1>3, PendingIs
  <2> QED BY <1>2, <2>1
<1>6. \A r \in D : Turn(r) \in D
  <2> SUFFICES ASSUME NEW r \in D PROVE Turn(r) \in D
    OBVIOUS
  <2>1. PICK q \in 0..N : ReadTo(long, q, r)
    OBVIOUS
  <2>2. PICK y \in q..N : ReadTo(long, y, Turn(r))
    BY <1>1, <2>1, TagTurnKeeps
  <2>3. y \in 0..N
    BY <1>1, <2>1, <2>2
  <2>4. Turn(r) \in Filters
    BY <2>2 DEF ReadTo
  <2> QED BY <2>2, <2>3, <2>4
<1> HIDE DEF D
<1>7. \A n \in 1..K : \A r \in D : next[n][r] = Turn(r) /\ next[n][r] \in D
  BY <1>6
<1> HIDE DEF next, K
<1>8. PICK f : /\ f = [n \in 0..K |-> IF n = 0 THEN first ELSE next[n][f[n - 1]]]
               /\ f \in [0..K -> D]
  <2>1. \A n \in 1..K : \A r \in D : next[n][r] \in D
    BY <1>7
  <2> QED BY <1>5, <2>1, Recursion, Zenon
<1>9. \A n \in 0..K : f[n] = IF n = 0 THEN first ELSE Turn(f[n - 1])
  <2> SUFFICES ASSUME NEW n \in 0..K, n # 0 PROVE f[n] = Turn(f[n - 1])
    BY <1>5, <1>8
  <2>1. n \in 1..K /\ n - 1 \in 0..K
    BY <1>5
  <2>2. f[n] = next[n][f[n - 1]] /\ f[n - 1] \in D
    BY <1>8, <2>1
  <2> QED BY <1>7, <2>1, <2>2
<1>10. Same(f)
  <2>1. f = [n \in 0..K |-> f[n]]
    BY <1>8
  <2>2. f = [n \in 0..K |-> IF n = 0 THEN first ELSE Turn(f[n - 1])]
    BY <1>9, <2>1
  <2> QED BY <2>2 DEF K, first
<1>11. Same(after)
  <2> HIDE DEF Same
  <2> QED BY <1>10 DEF after
<1>12. \A n \in 0..K : after[n] = IF n = 0 THEN first ELSE Turn(after[n - 1])
  BY <1>11 DEF K, first
<1>13. after[0] = first /\ \A n \in 1..Len(first.pending) : after[n] = Turn(after[n - 1])
  <2>1. K = Len(first.pending) /\ 0 \in 0..K /\ \A n \in 1..K : n \in 0..K /\ n # 0
    BY <1>3, <1>5 DEF K
  <2> HIDE DEF Same
  <2> QED BY <1>12, <2>1
<1>14. PICK q \in p..N : /\ ReadTo(long, q, after[K]) /\ FirstTags(after[K].pending) = {}
                        /\ after[K].implicit = s.implicit
  <2>1. K = Len(first.pending)
    BY <1>3 DEF K
  <2> HIDE DEF Same
  <2>2. \E q \in p..Len(long) :
           /\ ReadTo(long, q, after[Len(first.pending)])
           /\ after[Len(first.pending)].implicit = first.implicit
           /\ FirstTags(after[Len(first.pending)].pending) = {}
    BY <1>1, <1>2, <1>13, TurnsEnd
  <2> QED BY <1>3, <2>1, <2>2
<1>15. PICK y \in q..N : ReadTo(long, y, PassRest(after[K])) /\ Plain(long, y, N)
  BY <1>1, <1>14, PassRestKeeps
<1>16. y \in p..N
  BY <1>1, <1>5, <1>14, <1>15
<1>17. PassRest(after[K]).implicit = s.implicit
  <2>1. after[K] \in Filters
    BY <1>14 DEF ReadTo
  <2> QED BY <1>14, <2>1, ImplicitStays
<1> QED
  BY <1>4, <1>15, <1>16, <1>17 DEF long

-----------------------------------------------------------------------------
(* The answer at the end *)

\* What is spelt of more of the text goes on from what is spelt of less.
LEMMA SpeltGrows ==
    ASSUME NEW text \in Seq(Narrow), NEW keeps,
           NEW a \in 0..Len(text), NEW b \in a..Len(text)
    PROVE  \E t \in Seq(Narrow) : Spelt(text, keeps)[b] = Spelt(text, keeps)[a] \o t
<1> DEFINE spelt == Spelt(text, keeps)
           Goes(n) == \E t \in Seq(Narrow) : spelt[n] = spelt[a] \o t
           S == {k \in Nat : a + k <= b => Goes(a + k)}
<1>1. /\ spelt \in [0..Len(text) -> Seq(Narrow)]
      /\ \A n \in 1..Len(text) :
            spelt[n] = IF n \in keeps THEN Append(spelt[n - 1], text[n]) ELSE spelt[n - 1]
  BY SpeltIs
<1>2. spelt[a] \in Seq(Narrow)
  BY <1>1
<1> HIDE DEF spelt
<1>3. 0 \in S
  <2>1. a + 0 = a /\ <<>> \in Seq(Narrow)
    BY EmptySeq
  <2>2. Goes(a)
    BY <1>2, <2>1, ConcatEmptySeq
  <2> HIDE DEF Goes
  <2> QED BY <2>1, <2>2
<1>4. ASSUME NEW k \in Nat, k \in S PROVE k + 1 \in S
  <2> DEFINE y == a + k
             z == a + (k + 1)
  <2>1. k + 1 \in Nat
    OBVIOUS
  <2>2. ASSUME z <= b PROVE Goes(z)
    <3>1. z \in 1..Len(text) /\ z - 1 = y /\ y <= b
      BY <2>2
    <3>2. PICK t \in Seq(Narrow) : spelt[y] = spelt[a] \o t
      BY <1>4, <3>1
    <3> HIDE DEF y, z
    <3>3. CASE z \in keeps
      <4>1. text[z] \in Narrow /\ spelt[z] = Append(spelt[a] \o t, text[z])
        <5>1. text[z] \in Narrow
          BY <3>1
        <5> QED BY <1>1, <3>1, <3>2, <3>3, <5>1
      <4>2. Append(spelt[a] \o t, text[z]) = spelt[a] \o Append(t, text[z])
        <5> DEFINE v == spelt[a]
                   e == text[z]
        <5>1. v \in Seq(Narrow) /\ e \in Narrow /\ <<e>> \in Seq(Narrow)
          BY <1>2, <4>1
        <5> HIDE DEF v, e
        <5>2. /\ v \o t \in Seq(Narrow) /\ Append(v \o t, e) = (v \o t) \o <<e>>
              /\ Append(t, e) = t \o <<e>>
          BY <5>1, AppendIsConcat, ConcatProperties
        <5>3. (v \o t) \o <<e>> = v \o (t \o <<e>>)
          BY <5>1, ConcatAssociative
        <5> QED BY <5>2, <5>3 DEF v, e
      <4>3. Append(t, text[z]) \in Seq(Narrow)
        BY <4>1
      <4> QED BY <4>1, <4>2, <4>3
    <3>4. CASE z \notin keeps
      BY <1>1, <3>1, <3>2, <3>4
    <3> QED BY <3>3, <3>4
  <2>3. z <= b => Goes(z)
    BY <2>2
  <2> HIDE DEF Goes
  <2> QED BY <2>1, <2>3, Zenon
<1>5. Nat \subseteq S
  <2> HIDE DEF S
  <2> QED BY <1>3, <1>4, SetInduction
<1> DEFINE k == b - a
<1>6. k \in Nat /\ a + k = b /\ a + k <= b
  OBVIOUS
<1> HIDE DEF k, Goes
<1>7. Goes(a + k)
  BY <1>5, <1>6
<1> QED
  BY <1>6, <1>7 DEF Goes, spelt

\* The answer a text gives.
Answers(text, implicit) == Spelt(text, Kept(text, implicit))[Len(text)]

\* Wherever the reply ends, finish() gives the answer of what was read.
LEMMA FinishGives ==
    ASSUME NEW text \in Seq(Narrow), NEW p, NEW s, ReadTo(text, p, s),
           Plain(text, p, Len(text))
    PROVE  /\ FinishStream(s).public = Answers(text, s.implicit)
           /\ Answers(text, s.implicit) = IF s.inThink THEN s.public ELSE s.public \o s.pending
           /\ FinishStream(s).blocks = <<>> /\ s.orphans = 0 => Answers(text, s.implicit) = text
<1> DEFINE imp == s.implicit
           N == Len(text)
           depth == Depth(text, imp)
           keeps == Kept(text, imp)
           t == SubSeq(text, p + 1, N)
<1>1. /\ s \in Filters /\ imp \in BOOLEAN /\ p \in 0..N /\ N \in Nat /\ N \in p..N /\ Past(text, p)
      /\ s.pending = t /\ s.depth = depth[p] /\ (s.inThink <=> s.depth # 0)
      /\ s.public = Spelt(text, keeps)[p] /\ TagsLeaveTraces(text, p, s)
  BY DEF ReadTo, Filters
<1>2. \A i \in p..N : depth[i] = depth[p]
  BY <1>1, DepthStays
<1>3. \A i \in (p + 1)..N : i \notin InTag(text) /\ i \in DOMAIN text /\ i \in p..N
  <2>1. \A i \in (p + 1)..N : i \notin InTag(text)
    BY <1>1, OutsideTags
  <2>2. \A i \in (p + 1)..N : i \in DOMAIN text /\ i \in p..N
    BY <1>1
  <2> HIDE DEF N
  <2> QED BY <2>1, <2>2
<1>4. \A i \in (p + 1)..N : i \in keeps <=> ~s.inThink
  BY <1>1, <1>2, <1>3 DEF Kept
<1>5. Answers(text, imp) = Spelt(text, keeps)[N]
  BY DEF Answers
<1>6. CASE s.inThink
  <2>1. Spelt(text, keeps)[N] = s.public
    <3> HIDE DEF keeps, N, depth
    <3>1. \A i \in (p + 1)..N : i \notin keeps
      BY <1>4, <1>6
    <3> QED BY <1>1, <3>1, NoneSpelt DEF N
  <2>2. FinishStream(s).public = s.public
    BY <1>1, <1>6 DEF FinishStream, Closed, Filters
  <2>3. FinishStream(s).blocks # <<>>
    <3> DEFINE b == [text |-> s.reasoning \o s.pending, closed |-> FALSE]
    <3>1. FinishStream(s).blocks = Append(s.blocks, b)
      BY <1>1, <1>6 DEF FinishStream, Closed, Filters
    <3>2. s.blocks \in Seq([text : Seq(Narrow), closed : BOOLEAN])
      BY <1>1 DEF Filters
    <3> HIDE DEF b
    <3>3. Append(s.blocks, b) # <<>>
      BY <3>2, SMTT(30)
    <3> QED BY <3>1, <3>3
  <2> QED BY <1>5, <1>6, <2>1, <2>2, <2>3
<1>7. CASE ~s.inThink
  <2>1. Spelt(text, keeps)[N] = s.public \o s.pending
    <3> HIDE DEF keeps, N, depth
    <3>1. \A i \in (p + 1)..N : i \in keeps
      BY <1>4, <1>7
    <3> QED BY <1>1, <3>1, AllSpelt DEF N
  <2>2. FinishStream(s).public = s.public \o s.pending /\ FinishStream(s).blocks = s.blocks
    BY <1>1, <1>7 DEF FinishStream, Filters
  <2>3. ASSUME s.blocks = <<>>, s.orphans = 0 PROVE Answers(text, imp) = text
    <3>1. ~imp /\ \A i \in 1..p : TagAt(text, i) = <<>>
      BY <1>1, <1>7, <2>3 DEF TagsLeaveTraces
    <3>2. Plain(text, 0, N)
      <4> SUFFICES ASSUME NEW i \in 1..N, NEW tag \in Tags, StartsAt(text, tag, i) PROVE FALSE
        BY DEF Plain
      <4>1. TagAt(text, i) # <<>>
        BY TagsTyped DEF TagAt, Tags
      <4>2. i \in (p + 1)..N
        BY <1>1, <3>1, <4>1
      <4> QED BY <4>2 DEF Plain
    <3>3. Past(text, 0)
      BY DEF Past
    <3>4. 0 \in 0..N /\ N \in 0..N /\ depth[0] = 0
      BY <1>1, <3>1, DepthIs
    <3>5. \A i \in 0..N : depth[i] = depth[0]
      BY <1>1, <3>2, <3>4, DepthStays
    <3>6. \A i \in 1..N : i \notin InTag(text)
      <4>1. \A i \in (0 + 1)..N : i \notin InTag(text)
        BY <3>2, <3>3, <3>4, OutsideTags
      <4> QED BY <4>1
    <3>7. \A i \in (0 + 1)..N : i \in keeps
      BY <1>1, <3>4, <3>5, <3>6 DEF Kept
    <3> HIDE DEF keeps, depth
    <3>8. Spelt(text, keeps)[N] = Spelt(text, keeps)[0] \o SubSeq(text, 0 + 1, N)
      BY <3>4, <3>7, AllSpelt
    <3>9. Spelt(text, keeps)[0] = <<>> /\ SubSeq(text, 0 + 1, N) = text
      BY SpeltIs, SubSeqFull
    <3>10. <<>> \o text = text
      BY ConcatEmptySeq
    <3> QED BY <1>5, <3>8, <3>9, <3>10
  <2> QED BY <1>5, <1>7, <2>1, <2>2, <2>3
<1> QED
  BY <1>6, <1>7

\* The filter has read the reply so far up to what may become a tag, and the
\* steps of the trace spell what it has let through.
ReadSoFar ==
    /\ publicSteps \in Seq(Seq(Narrow))
    /\ \E p \in 0..Len(Raw) : ReadTo(Raw, p, thinker) /\ Plain(Raw, p, Len(Raw))
    /\ FlattenSeq(publicSteps) = thinker.public

\* It is so of a reply whose characters are as long as their lower case.
ThinkInv ==
    /\ piecesFed \in Seq(Seq(Characters))
    /\ piecesFed \in Seq(Seq(Narrow)) => ReadSoFar

\* The invariant holds of a new stream.
LEMMA ThinkStarts ==
    ASSUME ThinkInit
    PROVE  ThinkInv
<1>1. PICK implicit \in BOOLEAN : thinker = NewStream(implicit)
  BY DEF ThinkInit
<1>2. piecesFed = <<>> /\ publicSteps = <<>> /\ Raw = <<>>
  BY FlattenEmpty DEF ThinkInit, Raw
<1>3. Len(<<>>) = 0 /\ 0 \in 0..0 /\ \A T : <<>> \in Seq(T)
  OBVIOUS
<1>4. ReadTo(Raw, 0, thinker)
  BY <1>1, <1>2, ReadNothing
<1>5. Plain(Raw, 0, 0)
  BY DEF Plain
<1>6. FlattenSeq(publicSteps) = thinker.public
  BY <1>1, <1>2, FlattenEmpty DEF NewStream
<1>7. \E p \in 0..Len(Raw) : ReadTo(Raw, p, thinker) /\ Plain(Raw, p, Len(Raw))
  BY <1>2, <1>3, <1>4, <1>5
<1> QED
  BY <1>2, <1>3, <1>6, <1>7 DEF ThinkInv, ReadSoFar

\* What was appended, and to what.
LEMMA AppendBack ==
    ASSUME NEW T, NEW S, NEW seqs \in Seq(S), NEW e, Append(seqs, e) \in Seq(T)
    PROVE  seqs \in Seq(T) /\ e \in T
<1> DEFINE more == Append(seqs, e)
<1>1. /\ Len(seqs) \in Nat /\ seqs = [i \in 1..Len(seqs) |-> seqs[i]]
      /\ Len(more) = Len(seqs) + 1 /\ \A i \in 1..Len(seqs) : more[i] = seqs[i]
      /\ more[Len(seqs) + 1] = e
  OBVIOUS
<1>2. more \in Seq(T)
  OBVIOUS
<1> HIDE DEF more
<1>3. \A i \in 1..(Len(seqs) + 1) : more[i] \in T
  BY <1>1, <1>2
<1>4. e \in T /\ \A i \in 1..Len(seqs) : seqs[i] \in T
  BY <1>1, <1>3
<1> QED
  BY <1>1, <1>4

\* A piece that is fed is read.
LEMMA ThinkReads ==
    ASSUME ThinkInv, ThinkNext, piecesFed' \in Seq(Seq(Narrow))
    PROVE  ReadSoFar'
<1>1. PICK chunk \in PieceSet :
         LET after == FeedPiece(thinker, chunk)
             out == SubSeq(after.public, Len(thinker.public) + 1, Len(after.public))
         IN /\ thinker' = after
            /\ piecesFed' = Append(piecesFed, chunk)
            /\ publicSteps' = IF out # <<>> THEN Append(publicSteps, out) ELSE publicSteps
  BY DEF ThinkNext, Feed
<1> DEFINE after == FeedPiece(thinker, chunk)
           out == SubSeq(after.public, Len(thinker.public) + 1, Len(after.public))
           text == Raw
           long == text \o chunk
           imp == thinker.implicit
<1> HIDE DEF after
<1>2. /\ thinker' = after /\ piecesFed' = Append(piecesFed, chunk)
      /\ publicSteps' = IF out # <<>> THEN Append(publicSteps, out) ELSE publicSteps
  BY <1>1 DEF after
<1>3. chunk \in Seq(Narrow) /\ piecesFed \in Seq(Seq(Narrow))
  BY <1>2, AppendBack DEF ThinkInv
<1>b. ReadSoFar
  BY <1>3 DEF ThinkInv
<1>4. /\ piecesFed \in Seq(Seq(Narrow)) /\ publicSteps \in Seq(Seq(Narrow))
      /\ FlattenSeq(publicSteps) = thinker.public
  BY <1>3, <1>b DEF ReadSoFar
<1>5. piecesFed' \in Seq(Seq(Narrow)) /\ Raw' = long
  BY <1>2, <1>3, <1>4, FlattenAppend DEF Raw
<1>6. text \in Seq(Narrow)
  BY <1>4, FlattenType DEF Raw
<1>7. PICK p \in 0..Len(text) : ReadTo(text, p, thinker)
  BY <1>b DEF ReadSoFar
<1> HIDE DEF text
<1>8. PICK q \in p..Len(long) : /\ ReadTo(long, q, after) /\ after.implicit = imp
                               /\ Plain(long, q, Len(long))
  BY <1>3, <1>6, <1>7, FeedKeeps DEF after
<1>9. long \in Seq(Narrow) /\ Len(text) \in Nat /\ Len(long) \in Nat /\ Len(text) <= Len(long)
  BY <1>3, <1>6, ConcatProperties
<1> HIDE DEF long
<1>10. p \in 0..Len(long) /\ q \in 0..Len(long)
  BY <1>7, <1>8, <1>9
<1>11. PICK t \in Seq(Narrow) : after.public = thinker.public \o t
  <2> DEFINE keeps == Kept(long, imp)
  <2>1. /\ imp \in BOOLEAN /\ Past(text, p)
        /\ thinker.public = Spelt(text, Kept(text, imp))[p]
    BY <1>7 DEF ReadTo, Filters
  <2>2. Spelt(long, keeps)[p] = Spelt(text, Kept(text, imp))[p]
    BY <1>3, <1>6, <1>7, <2>1, SameReading DEF long
  <2>3. after.public = Spelt(long, keeps)[q]
    BY <1>8 DEF ReadTo
  <2> HIDE DEF keeps
  <2>4. \E t \in Seq(Narrow) : Spelt(long, keeps)[q] = Spelt(long, keeps)[p] \o t
    BY <1>8, <1>9, <1>10, SpeltGrows
  <2> QED BY <2>1, <2>2, <2>3, <2>4
<1>12. thinker.public \in Seq(Narrow)
  BY <1>7 DEF ReadTo, Filters
<1>13. out = t
  BY <1>11, <1>12, AfterBeginning
<1>14. publicSteps' \in Seq(Seq(Narrow)) /\ FlattenSeq(publicSteps') = after.public
  <2> HIDE DEF out
  <2>1. CASE out # <<>>
    <3>1. publicSteps' = Append(publicSteps, t)
      BY <1>2, <1>13, <2>1
    <3> QED BY <1>4, <1>11, <3>1, FlattenAppend
  <2>2. CASE out = <<>>
    <3>1. publicSteps' = publicSteps /\ thinker.public \o t = thinker.public
      BY <1>2, <1>12, <1>13, <2>2, ConcatEmptySeq
    <3> QED BY <1>4, <1>11, <3>1
  <2> QED BY <2>1, <2>2
<1>15. \E y \in 0..Len(long) : ReadTo(long, y, after) /\ Plain(long, y, Len(long))
  BY <1>8, <1>10
<1>16. \E y \in 0..Len(Raw') : ReadTo(Raw', y, thinker') /\ Plain(Raw', y, Len(Raw'))
  BY <1>2, <1>5, <1>15
<1> QED
  BY <1>2, <1>5, <1>14, <1>16 DEF ReadSoFar

\* A piece that is fed keeps the invariant.
LEMMA ThinkGoesOn ==
    ASSUME ThinkInv, ThinkNext
    PROVE  ThinkInv'
<1>1. PICK chunk \in PieceSet : piecesFed' = Append(piecesFed, chunk)
  BY DEF ThinkNext, Feed
<1>2. chunk \in Seq(Characters) /\ piecesFed \in Seq(Seq(Characters))
  BY TagsAssumption DEF TagsAssumption, ThinkInv
<1>3. piecesFed' \in Seq(Seq(Characters))
  BY <1>1, <1>2, AppendProperties
<1>4. piecesFed' \in Seq(Seq(Narrow)) => ReadSoFar'
  BY ThinkReads
<1> QED
  BY <1>3, <1>4 DEF ThinkInv

\* So does a step that changes nothing.
LEMMA ThinkRests ==
    ASSUME ThinkInv, UNCHANGED thinkVars
    PROVE  ThinkInv'
BY DEF ThinkInv, ReadSoFar, Raw, thinkVars

\* With it the answer is exact, wherever the reply ends.
LEMMA ThinkExact ==
    ASSUME ThinkInv
    PROVE  AnswerIsExact
<1> DEFINE text == Raw
           imp == thinker.implicit
           pending == thinker.pending
<1> SUFFICES ASSUME \A i \in DOMAIN piecesFed : ToSet(piecesFed[i]) \cap Wide = {}
             PROVE  SplitsDoNotMatter /\ StepsSpellTheAnswer
  BY DEF AnswerIsExact
<1>a. piecesFed \in Seq(Seq(Narrow))
  <2>1. /\ piecesFed \in Seq(Seq(Characters)) /\ DOMAIN piecesFed = 1..Len(piecesFed)
        /\ \A i \in 1..Len(piecesFed) : piecesFed[i] \in Seq(Characters)
    BY DEF ThinkInv
  <2>2. ASSUME NEW i \in 1..Len(piecesFed) PROVE piecesFed[i] \in Seq(Narrow)
    <3> DEFINE t == piecesFed[i]
    <3>1. t \in Seq(Characters) /\ ToSet(t) \cap Wide = {}
      BY <2>1
    <3> HIDE DEF t
    <3>2. DOMAIN t = 1..Len(t) /\ \A k \in 1..Len(t) : t[k] \in Narrow
      BY <3>1 DEF Narrow, ToSet
    <3>3. t \in Seq(Narrow)
      BY <3>1, <3>2
    <3> QED BY <3>3 DEF t
  <2> QED BY <2>1, <2>2
<1>b. ReadSoFar
  BY <1>a DEF ThinkInv
<1>1. /\ piecesFed \in Seq(Seq(Narrow)) /\ publicSteps \in Seq(Seq(Narrow))
      /\ FlattenSeq(publicSteps) = thinker.public /\ text \in Seq(Narrow)
  BY <1>a, <1>b, FlattenType DEF ReadSoFar, Raw
<1>2. PICK p \in 0..Len(text) : ReadTo(text, p, thinker) /\ Plain(text, p, Len(text))
  BY <1>b DEF ReadSoFar
<1>3. thinker.public \in Seq(Narrow) /\ pending \in Seq(Narrow)
  BY <1>2 DEF ReadTo, Filters
<1>4. Answer = Answers(text, imp)
  BY DEF Answer, Answers
<1> HIDE DEF text
<1>5. /\ FinishStream(thinker).public = Answer
      /\ Answer = IF thinker.inThink THEN thinker.public ELSE thinker.public \o pending
      /\ FinishStream(thinker).blocks = <<>> /\ thinker.orphans = 0 => Answer = text
  BY <1>1, <1>2, <1>4, FinishGives
<1>6. FlattenSeq(FinalSteps) = Answer
  <2> DEFINE tail == IF thinker.inThink THEN <<>> ELSE pending
  <2>1. CASE FinishStream(thinker).blocks = <<>> /\ thinker.orphans = 0
    BY <1>5, <2>1 DEF FinalSteps, Raw, text
  <2>2. CASE ~(FinishStream(thinker).blocks = <<>> /\ thinker.orphans = 0)
    <3>1. FinalSteps = IF tail = <<>> THEN publicSteps
                       ELSE IF publicSteps = <<>> THEN <<tail>>
                       ELSE Front(publicSteps) \o <<Last(publicSteps) \o tail>>
      BY <2>2 DEF FinalSteps
    <3>2. tail \in Seq(Narrow) /\ Answer = thinker.public \o tail
      BY <1>3, <1>5, ConcatEmptySeq, EmptySeq
    <3> HIDE DEF tail
    <3>3. CASE tail = <<>>
      BY <1>1, <1>3, <3>1, <3>2, <3>3, ConcatEmptySeq
    <3>4. CASE tail # <<>> /\ publicSteps = <<>>
      <4>1. <<>> \in Seq(Seq(Narrow)) /\ Append(<<>>, tail) = <<tail>>
        BY <3>2
      <4>2. FlattenSeq(Append(<<>>, tail)) = FlattenSeq(<<>>) \o tail
        BY <3>2, <4>1, FlattenAppend
      <4> QED BY <1>1, <3>1, <3>2, <3>4, <4>1, <4>2
    <3>5. CASE tail # <<>> /\ publicSteps # <<>>
      BY <1>1, <3>1, <3>2, <3>5, FlattenLonger
    <3> QED BY <3>3, <3>4, <3>5
  <2> QED BY <2>1, <2>2
<1> QED
  BY <1>5, <1>6 DEF SplitsDoNotMatter, StepsSpellTheAnswer

\* However a reply is cut into pieces and wherever it ends, ThinkTagStream lets
\* through exactly the characters outside its blocks, and the steps
\* sanitize_steps keeps spell them: for any tags of which none begins inside the
\* other, any alphabet, pieces and number of them.  It is so of the replies whose
\* characters are each as long as their lower case; of others it is not claimed.
THEOREM AnswerKept == ThinkSpec => []AnswerIsExact
<1>1. ThinkInit => ThinkInv
  BY ThinkStarts
<1>2. ThinkInv /\ [ThinkNext]_thinkVars => ThinkInv'
  BY ThinkGoesOn, ThinkRests
<1>3. ThinkInv => AnswerIsExact
  BY ThinkExact
<1> QED
  BY <1>1, <1>2, <1>3, PTL DEF ThinkSpec

=============================================================================
