---------------------------- MODULE EngineProofs ----------------------------
(***************************************************************************)
(* Promises of the native worker (engine/core/serve), for any pool, any    *)
(* number of requests and generations of any length.                       *)
(*                                                                         *)
(* EngineServer: a request generates under the settings it asked for, and  *)
(* a cancel or the loss of the client stops a stream within one more       *)
(* event.  The first rests on the pool: a context is in the free list once *)
(* or held by one lease, and a free context that no bad exit has spoiled   *)
(* has nothing armed.  The second rests on the registry: a stream that can *)
(* be cancelled stays registered until it has ended, so that the write     *)
(* that fails finds its flag.                                              *)
(*                                                                         *)
(* ReadoutPlane: for any bound of the queue and any size of a batch, the   *)
(* client gets every readout that was made once and in order, and the      *)
(* stats frame adds up; both follow from PlaneInv.                         *)
(*                                                                         *)
(* CheckpointStore: the newest checkpoint is there to be restored.         *)
(*                                                                         *)
(* ArDecode: a continuation, a forced prefix and a branch see the cells an *)
(* uninterrupted decode of the same text would have made.  DecodeInv says  *)
(* at every state which cells the context holds and for which text.        *)
(*                                                                         *)
(* Denoise: with the cache refreshed at every pass, a reused cell is exact *)
(* and the plan is never refused.  DenoiseInv says what the frozen cells   *)
(* were computed from, and that no step can change it.                     *)
(***************************************************************************)
EXTENDS EngineServer, ReadoutPlane, CheckpointStore, ArDecode, Denoise,
        FiniteSetTheorems, SequenceTheorems, TLAPS

-----------------------------------------------------------------------------
(* EngineServer *)

Holds(r) == handler[r].at \in {"generate", "frame"}

EngineShapes ==
    /\ free \in Seq(Contexts)
    /\ armed = [c \in Contexts |-> armed[c]]
    /\ handler = [r \in Calls |-> handler[r]]
    /\ \A r \in Calls : handler[r] = [at |-> handler[r].at, kind |-> handler[r].kind,
                                      wants |-> handler[r].wants,
                                      stream |-> handler[r].stream]
    /\ lease \in [Calls -> Contexts \cup {NoContext}]

\* A context is free once, or leased once, or neither.
PoolOK ==
    /\ \A i, j \in 1..Len(free) : free[i] = free[j] => i = j
    /\ \A r \in Calls : lease[r] # NoContext <=> Holds(r)
    /\ \A r, q \in Calls : lease[r] = lease[q] /\ lease[r] # NoContext => r = q
    /\ \A r \in Calls, i \in 1..Len(free) : free[i] # lease[r]

\* What is armed on the contexts that no exit has spoiled.
SettingsOK ==
    /\ \A i \in 1..Len(free) : free[i] \notin spoiled => armed[free[i]] = {}
    /\ RegimeIsOwn

PoolInv == EngineShapes /\ PoolOK /\ SettingsOK

-----------------------------------------------------------------------------
(* The pool *)

\* SetToSeq lists each element of a finite set once.
LEMMA SetToSeqOnce ==
    ASSUME NEW T, IsFiniteSet(T)
    PROVE  /\ SetToSeq(T) \in Seq(T)
           /\ \A i, j \in 1..Len(SetToSeq(T)) : SetToSeq(T)[i] = SetToSeq(T)[j] => i = j
<1>1. Cardinality(T) \in Nat /\ ExistsBijection(1..Cardinality(T), T)
  BY FS_NatBijection, FS_CountingElements
<1>2. PICK f \in [1..Cardinality(T) -> T] : IsInjective(f)
  BY <1>1 DEF ExistsBijection, Bijection, Injection
<1>3. SetToSeq(T) \in [1..Cardinality(T) -> T] /\ IsInjective(SetToSeq(T))
  BY <1>1, <1>2 DEF SetToSeq
<1>4. Len(SetToSeq(T)) = Cardinality(T)
  BY <1>1, <1>3
<1> QED
  BY <1>1, <1>3, <1>4 DEF IsInjective

LEMMA PoolStarts == EngineInit => PoolInv
<1> SUFFICES ASSUME EngineInit PROVE PoolInv
  OBVIOUS
<1>1. /\ free \in Seq(Contexts)
      /\ \A i, j \in 1..Len(free) : free[i] = free[j] => i = j
  BY SetToSeqOnce, EngineAssumption DEF EngineInit, EngineAssumption
<1>2. /\ armed = [c \in Contexts |-> {}]
      /\ handler = [r \in Calls |-> NoHandler]
      /\ lease = [r \in Calls |-> NoContext]
  BY DEF EngineInit
<1>3. EngineShapes
  BY <1>1, <1>2 DEF EngineShapes, NoHandler
<1>4. \A i \in 1..Len(free) : free[i] \in Contexts
  BY <1>1
<1>5. NoContext \notin Contexts
  BY EngineAssumption DEF EngineAssumption
<1>6. \A r \in Calls : handler[r].at = "new" /\ lease[r] = NoContext
  BY <1>2 DEF NoHandler
<1>7. PoolOK
  BY <1>1, <1>4, <1>5, <1>6 DEF PoolOK, Holds
<1>8. SettingsOK
  BY <1>2, <1>4, <1>6 DEF SettingsOK, RegimeIsOwn, Generating
<1> QED
  BY <1>3, <1>7, <1>8 DEF PoolInv

\* What a handler's move leaves alone.
LEMMA GoMoves ==
    ASSUME EngineShapes, NEW r \in Calls, NEW s, Go(r, s)
    PROVE  /\ handler' = [q \in Calls |-> handler'[q]]
           /\ handler'[r] = [at |-> s, kind |-> handler[r].kind,
                             wants |-> handler[r].wants, stream |-> handler[r].stream]
           /\ \A q \in Calls : q # r => handler'[q] = handler[q]
<1>1. handler' = [handler EXCEPT ![r].at = s] /\ handler = [q \in Calls |-> handler[q]]
  BY DEF EngineShapes, Go
<1>2. handler[r] = [at |-> handler[r].at, kind |-> handler[r].kind,
                    wants |-> handler[r].wants, stream |-> handler[r].stream]
  BY DEF EngineShapes
<1>3. handler'[r] = [handler[r] EXCEPT !.at = s]
  BY <1>1
<1> QED
  BY <1>1, <1>2, <1>3

\* A lease takes a context out of the list of the free ones, arms on it what
\* the request wants and nothing else.
LEMMA AcquireKeeps ==
    ASSUME PoolInv, NEW r \in Calls, Acquire(r)
    PROVE  PoolInv'
<1> DEFINE c == Head(free)
<1>1. /\ At(r, "acquire") /\ free # <<>> /\ free' = Tail(free)
      /\ lease' = [lease EXCEPT ![r] = c]
      /\ armed' = [armed EXCEPT ![c] = Armed(armed[c], handler[r])]
      /\ spoiled' = spoiled /\ Go(r, "generate")
  BY DEF Acquire
<1>2. /\ free \in Seq(Contexts) /\ Len(free) \in Nat /\ Len(free) > 0
      /\ c = free[1] /\ c \in Contexts
      /\ free' \in Seq(Contexts) /\ Len(free') = Len(free) - 1
      /\ \A i \in 1..Len(free') : free'[i] = free[i + 1] /\ i + 1 \in 1..Len(free)
  BY <1>1, HeadTailProperties DEF PoolInv, EngineShapes
<1> HIDE DEF c
<1>3. /\ handler' = [q \in Calls |-> handler'[q]]
      /\ handler'[r] = [at |-> "generate", kind |-> handler[r].kind,
                        wants |-> handler[r].wants, stream |-> handler[r].stream]
      /\ \A q \in Calls : q # r => handler'[q] = handler[q]
  BY <1>1, GoMoves DEF PoolInv
<1>4. EngineShapes'
  <2>1. armed' = [d \in Contexts |-> armed'[d]] /\ lease' \in [Calls -> Contexts \cup {NoContext}]
    BY <1>1, <1>2 DEF PoolInv, EngineShapes
  <2>2. \A q \in Calls : handler'[q] = [at |-> handler'[q].at, kind |-> handler'[q].kind,
                                        wants |-> handler'[q].wants,
                                        stream |-> handler'[q].stream]
    BY <1>3 DEF PoolInv, EngineShapes
  <2> QED
    BY <1>2, <1>3, <2>1, <2>2 DEF EngineShapes
<1>5. /\ lease'[r] = c
      /\ \A q \in Calls : q # r => lease'[q] = lease[q]
      /\ armed'[c] = Armed(armed[c], handler[r])
      /\ \A d \in Contexts : d # c => armed'[d] = armed[d]
  BY <1>1, <1>2 DEF PoolInv, EngineShapes
<1>6. /\ ~Holds(r) /\ Holds(r)' /\ \A q \in Calls : q # r => (Holds(q)' <=> Holds(q))
      /\ \A q \in Calls : lease[q] # c
      /\ \A i \in 1..Len(free') : free'[i] # c
  <2>1. ~Holds(r) /\ Holds(r)' /\ \A q \in Calls : q # r => (Holds(q)' <=> Holds(q))
    BY <1>1, <1>3 DEF Holds, At
  <2>2. \A q \in Calls : lease[q] # c
    BY <1>2 DEF PoolInv, PoolOK
  <2>3. \A i \in 1..Len(free') : i + 1 # 1
    BY <1>2
  <2>4. \A i \in 1..Len(free') : free'[i] # c
    <3> SUFFICES ASSUME NEW i \in 1..Len(free'), free'[i] = c PROVE FALSE
      OBVIOUS
    <3>1. free[i + 1] = free[1] /\ i + 1 \in 1..Len(free) /\ 1 \in 1..Len(free)
      BY <1>2
    <3>2. i + 1 = 1
      BY <3>1 DEF PoolInv, PoolOK
    <3> QED
      BY <3>2, <2>3
  <2> QED
    BY <2>1, <2>2, <2>4
<1>7. PoolOK'
  <2>1. ASSUME NEW i \in 1..Len(free'), NEW j \in 1..Len(free'), free'[i] = free'[j]
        PROVE  i = j
    <3>1. i + 1 = j + 1
      BY <1>2, <2>1 DEF PoolInv, PoolOK
    <3> QED
      BY <3>1, <1>2
  <2>2. \A q \in Calls : lease'[q] # NoContext <=> Holds(q)'
    BY <1>2, <1>5, <1>6, EngineAssumption DEF PoolInv, PoolOK, EngineAssumption
  <2>3. \A q, t \in Calls : lease'[q] = lease'[t] /\ lease'[q] # NoContext => q = t
    BY <1>5, <1>6 DEF PoolInv, PoolOK
  <2>4. ASSUME NEW q \in Calls, NEW i \in 1..Len(free') PROVE free'[i] # lease'[q]
    <3>1. CASE q = r
      BY <3>1, <1>5, <1>6
    <3>2. CASE q # r
      <4>1. free'[i] = free[i + 1] /\ i + 1 \in 1..Len(free) /\ lease'[q] = lease[q]
        BY <3>2, <1>2, <1>5
      <4> QED
        BY <4>1 DEF PoolInv, PoolOK
    <3> QED
      BY <3>1, <3>2
  <2> QED
    BY <2>1, <2>2, <2>3, <2>4 DEF PoolOK
<1>8. SettingsOK'
  <2>1. \A i \in 1..Len(free') : free'[i] \notin spoiled' => armed'[free'[i]] = {}
    BY <1>1, <1>2, <1>5, <1>6 DEF PoolInv, SettingsOK
  <2>2. c \notin spoiled => armed[c] = {}
    BY <1>2 DEF PoolInv, SettingsOK
  <2>3. c \notin spoiled => armed'[c] = handler'[r].wants
    BY <1>3, <1>5, <2>2 DEF Armed
  <2>4. ASSUME NEW q \in Calls, Generating(q)', lease'[q] \notin spoiled', q # r
        PROVE  armed'[lease'[q]] = handler'[q].wants
    <3>1. Generating(q) /\ lease[q] \notin spoiled /\ lease[q] # c /\ Holds(q)
      BY <1>1, <1>3, <1>5, <1>6, <2>4 DEF Generating, Holds
    <3>2. lease[q] \in Contexts
      BY <3>1 DEF PoolInv, PoolOK, EngineShapes
    <3>3. armed[lease[q]] = handler[q].wants
      BY <3>1 DEF PoolInv, SettingsOK, RegimeIsOwn
    <3> QED
      BY <1>3, <1>5, <2>4, <3>1, <3>2, <3>3
  <2>5. RegimeIsOwn'
    BY <1>1, <1>5, <2>3, <2>4 DEF RegimeIsOwn
  <2> QED
    BY <2>1, <2>5 DEF SettingsOK
<1> QED
  BY <1>4, <1>7, <1>8 DEF PoolInv

\* An exit gives the context back: at the end of the list, with what it leaves
\* armed, and known to be spoiled if that is something.
LEMMA ReleaseKeeps ==
    ASSUME PoolInv, NEW r \in Calls, Holds(r), NEW left, NEW cleaned \in BOOLEAN,
           NEW s \in {"final", "error", "cancelled"},
           Release(r, left, cleaned), Go(r, s),
           cleaned /\ lease[r] \notin spoiled => left = {}
    PROVE  PoolInv'
<1> DEFINE c == lease[r]
<1>1. /\ free' = Append(free, c)
      /\ lease' = [lease EXCEPT ![r] = NoContext]
      /\ armed' = [armed EXCEPT ![c] = left]
      /\ spoiled' = IF left = {} THEN spoiled \ {c}
                    ELSE IF cleaned THEN spoiled ELSE spoiled \cup {c}
  BY DEF Release
<1>2. c \in Contexts /\ c # NoContext
  BY DEF PoolInv, PoolOK, EngineShapes
<1>3. /\ free' \in Seq(Contexts) /\ Len(free) \in Nat /\ Len(free') = Len(free) + 1
      /\ \A i \in 1..Len(free) : free'[i] = free[i] /\ free[i] \in Contexts
      /\ free'[Len(free) + 1] = c
  BY <1>1, <1>2 DEF PoolInv, EngineShapes
<1>4. /\ handler' = [q \in Calls |-> handler'[q]]
      /\ handler'[r] = [at |-> s, kind |-> handler[r].kind,
                        wants |-> handler[r].wants, stream |-> handler[r].stream]
      /\ \A q \in Calls : q # r => handler'[q] = handler[q]
  BY GoMoves DEF PoolInv
<1>5. EngineShapes'
  <2>1. armed' = [d \in Contexts |-> armed'[d]] /\ lease' \in [Calls -> Contexts \cup {NoContext}]
    BY <1>1, <1>2 DEF PoolInv, EngineShapes
  <2>2. \A q \in Calls : handler'[q] = [at |-> handler'[q].at, kind |-> handler'[q].kind,
                                        wants |-> handler'[q].wants,
                                        stream |-> handler'[q].stream]
    BY <1>4 DEF PoolInv, EngineShapes
  <2> QED
    BY <1>3, <1>4, <2>1, <2>2 DEF EngineShapes
<1>6. /\ lease'[r] = NoContext
      /\ \A q \in Calls : q # r => lease'[q] = lease[q] /\ lease[q] # c
      /\ armed'[c] = left
      /\ \A d \in Contexts : d # c => armed'[d] = armed[d]
      /\ \A d \in Contexts : d # c => (d \in spoiled' <=> d \in spoiled)
      /\ c \notin spoiled' => left = {}
      /\ \A i \in 1..Len(free) : free[i] # c
  BY <1>1, <1>2 DEF PoolInv, EngineShapes, PoolOK
<1>7. ~Holds(r)' /\ \A q \in Calls : q # r => (Holds(q)' <=> Holds(q))
  BY <1>4 DEF Holds
<1> HIDE DEF c
<1>8. \A i \in 1..Len(free') : i \in 1..Len(free) \/ i = Len(free) + 1
  BY <1>3
<1>9. PoolOK'
  <2>1. ASSUME NEW i \in 1..Len(free'), NEW j \in 1..Len(free'), free'[i] = free'[j]
        PROVE  i = j
    BY <1>3, <1>6, <1>8, <2>1 DEF PoolInv, PoolOK
  <2>2. \A q \in Calls : lease'[q] # NoContext <=> Holds(q)'
    BY <1>6, <1>7 DEF PoolInv, PoolOK
  <2>3. \A q, t \in Calls : lease'[q] = lease'[t] /\ lease'[q] # NoContext => q = t
    BY <1>6 DEF PoolInv, PoolOK
  <2>4. \A q \in Calls, i \in 1..Len(free') : free'[i] # lease'[q]
    <3> SUFFICES ASSUME NEW q \in Calls, NEW i \in 1..Len(free') PROVE free'[i] # lease'[q]
      OBVIOUS
    <3>1. free'[i] \in Contexts
      BY <1>2, <1>3, <1>8
    <3>2. CASE q = r
      BY <3>1, <3>2, <1>6, EngineAssumption DEF EngineAssumption
    <3>3. CASE q # r
      BY <3>3, <1>3, <1>6, <1>8 DEF PoolInv, PoolOK
    <3> QED
      BY <3>2, <3>3
  <2> QED
    BY <2>1, <2>2, <2>3, <2>4 DEF PoolOK
<1>10. SettingsOK'
  <2>1. ASSUME NEW i \in 1..Len(free'), free'[i] \notin spoiled' PROVE armed'[free'[i]] = {}
    <3>1. CASE i \in 1..Len(free)
      BY <3>1, <2>1, <1>3, <1>6, ZenonT(30) DEF PoolInv, SettingsOK
    <3>2. CASE i = Len(free) + 1
      BY <3>2, <2>1, <1>3, <1>6
    <3> QED
      BY <3>1, <3>2, <1>8
  <2>2. ASSUME NEW q \in Calls, Generating(q)', lease'[q] \notin spoiled'
        PROVE  armed'[lease'[q]] = handler'[q].wants
    <3>1. q # r /\ Holds(q)
      BY <2>2, <1>7 DEF Generating, Holds
    <3>2. lease'[q] = lease[q] /\ lease[q] \in Contexts /\ lease[q] # c
      BY <3>1, <1>6 DEF PoolInv, PoolOK, EngineShapes
    <3>3. armed[lease[q]] = handler[q].wants
      BY <3>1, <3>2, <2>2, <1>6 DEF PoolInv, SettingsOK, RegimeIsOwn, Generating, Holds
    <3> QED
      BY <3>1, <3>2, <3>3, <1>4, <1>6
  <2> QED
    BY <2>1, <2>2 DEF SettingsOK, RegimeIsOwn
<1> QED
  BY <1>5, <1>9, <1>10 DEF PoolInv

\* A step that moves no context and changes the settings nobody generates under.
LEMMA QuietKeeps ==
    ASSUME PoolInv, UNCHANGED <<free, armed, spoiled, lease>>,
           handler' = [q \in Calls |-> handler'[q]],
           \A q \in Calls :
              /\ handler'[q] = [at |-> handler'[q].at, kind |-> handler'[q].kind,
                                wants |-> handler'[q].wants,
                                stream |-> handler'[q].stream]
              /\ Holds(q)' <=> Holds(q)
              /\ Holds(q) => handler'[q].wants = handler[q].wants
    PROVE  PoolInv'
<1>1. EngineShapes'
  BY DEF PoolInv, EngineShapes
<1>2. PoolOK'
  BY DEF PoolInv, PoolOK
<1>3. SettingsOK'
  <2>1. RegimeIsOwn'
    BY DEF PoolInv, SettingsOK, RegimeIsOwn, Generating, Holds
  <2>2. \A i \in 1..Len(free') : free'[i] \notin spoiled' => armed'[free'[i]] = {}
    BY DEF PoolInv, SettingsOK
  <2> QED
    BY <2>1, <2>2 DEF SettingsOK
<1> QED
  BY <1>1, <1>2, <1>3 DEF PoolInv

\* What cleanup() takes away is what the request armed.
LEMMA CleanedIsClean ==
    ASSUME PoolInv, NEW r \in Calls, Holds(r), lease[r] \notin spoiled
    PROVE  Cleaned(r) = {}
BY DEF PoolInv, SettingsOK, RegimeIsOwn, Generating, Holds, Cleaned

LEMMA PoolStep ==
    ASSUME PoolInv, [EngineNext]_engineVars
    PROVE  PoolInv'
<1>1. ASSUME NEW r \in Calls, Receive(r) PROVE PoolInv'
  <2>1. PICK kind \in Kinds, wants \in Asks, stream \in BOOLEAN :
            handler' = [handler EXCEPT ![r] = [at |-> "acquire", kind |-> kind,
                                               wants |-> wants, stream |-> stream]]
    BY <1>1 DEF Receive
  <2>2. UNCHANGED <<free, armed, spoiled, lease>> /\ ~Holds(r)
    BY <1>1 DEF Receive, At, Holds
  <2>3. /\ handler' = [q \in Calls |-> handler'[q]]
        /\ handler'[r] = [at |-> "acquire", kind |-> kind, wants |-> wants, stream |-> stream]
        /\ \A q \in Calls : q # r => handler'[q] = handler[q]
    BY <2>1 DEF PoolInv, EngineShapes
  <2>4. ~Holds(r)'
    BY <2>3 DEF Holds
  <2> QED
    BY <2>2, <2>3, <2>4, QuietKeeps DEF PoolInv, EngineShapes, Holds
<1>2. ASSUME NEW r \in Calls, Acquire(r) PROVE PoolInv'
  BY <1>2, AcquireKeeps
<1>3. ASSUME NEW r \in Calls, WriteRejected(r) PROVE PoolInv'
  BY <1>3, ReleaseKeeps DEF WriteRejected, At, Holds
<1>4. ASSUME NEW r \in Calls, Event(r) \/ Send(r) PROVE PoolInv'
  <2>1. PICK s \in {"frame", "generate"} : Go(r, s)
    BY <1>4 DEF Event, Send
  <2>2. UNCHANGED <<free, armed, spoiled, lease>> /\ Holds(r)
    BY <1>4 DEF Event, Send, At, Holds
  <2>3. /\ handler' = [q \in Calls |-> handler'[q]]
        /\ handler'[r] = [at |-> s, kind |-> handler[r].kind,
                          wants |-> handler[r].wants, stream |-> handler[r].stream]
        /\ \A q \in Calls : q # r => handler'[q] = handler[q]
    BY <2>1, GoMoves DEF PoolInv
  <2>4. Holds(r)' /\ handler'[r].wants = handler[r].wants
    BY <2>3 DEF Holds
  <2>5. ASSUME NEW q \in Calls
        PROVE  /\ handler'[q] = [at |-> handler'[q].at, kind |-> handler'[q].kind,
                                 wants |-> handler'[q].wants,
                                 stream |-> handler'[q].stream]
               /\ Holds(q)' <=> Holds(q)
               /\ handler'[q].wants = handler[q].wants
    <3>1. CASE q = r
      BY <3>1, <2>2, <2>3, <2>4
    <3>2. CASE q # r
      BY <3>2, <2>3 DEF PoolInv, EngineShapes, Holds
    <3> QED
      BY <3>1, <3>2
  <2> QED
    BY <2>2, <2>3, <2>5, QuietKeeps
<1>5. ASSUME NEW r \in Calls, Cancelled(r) PROVE PoolInv'
  BY <1>5, ReleaseKeeps, CleanedIsClean DEF Cancelled, At, Holds
<1>6. ASSUME NEW r \in Calls, Finished(r) PROVE PoolInv'
  BY <1>6, ReleaseKeeps, CleanedIsClean DEF Finished, At, Holds
<1>7. ASSUME NEW r \in Calls, DecodeFails(r) PROVE PoolInv'
  <2>1. Holds(r) /\ Go(r, "error")
    BY <1>7 DEF DecodeFails, At, Holds
  <2>2. CASE Release(r, armed[lease[r]], FALSE)
    BY <2>1, <2>2, ReleaseKeeps
  <2>3. CASE Release(r, Cleaned(r), TRUE)
    BY <2>1, <2>3, ReleaseKeeps, CleanedIsClean
  <2> QED
    BY <1>7, <2>2, <2>3 DEF DecodeFails
<1>8. ASSUME NEW r \in Calls, Close(r) PROVE PoolInv'
  <2>1. /\ UNCHANGED <<free, armed, spoiled, lease>> /\ ~Holds(r)
        /\ handler' = [handler EXCEPT ![r] = [NoHandler EXCEPT !.at = "ended"]]
    BY <1>8 DEF Close, Holds
  <2>2. /\ handler' = [q \in Calls |-> handler'[q]]
        /\ handler'[r] = [at |-> "ended", kind |-> "none", wants |-> {}, stream |-> FALSE]
        /\ \A q \in Calls : q # r => handler'[q] = handler[q]
    BY <2>1 DEF PoolInv, EngineShapes, NoHandler
  <2>3. ~Holds(r)'
    BY <2>2 DEF Holds
  <2> QED
    BY <2>1, <2>2, <2>3, QuietKeeps DEF PoolInv, EngineShapes, Holds
<1>9. ASSUME NEW r \in Calls, Cancel(r) \/ Disconnect(r) PROVE PoolInv'
  <2>1. UNCHANGED <<free, armed, spoiled, lease, handler>>
    BY <1>9 DEF Cancel, Disconnect
  <2> QED
    BY <2>1, QuietKeeps DEF PoolInv, EngineShapes, Holds
<1>10. CASE UNCHANGED engineVars
  <2>1. UNCHANGED <<free, armed, spoiled, lease, handler>>
    BY <1>10 DEF engineVars
  <2> QED
    BY <2>1, QuietKeeps DEF PoolInv, EngineShapes, Holds
<1> QED
  BY <1>1, <1>2, <1>3, <1>4, <1>5, <1>6, <1>7, <1>8, <1>9, <1>10 DEF EngineNext, Work

\* However many requests share the pool and however they end, a generation on a
\* context that came back clean runs under exactly the settings asked for.
THEOREM RegimeKept == EngineSpec => []RegimeIsOwn
<1>1. PoolInv => RegimeIsOwn
  BY DEF PoolInv, SettingsOK
<1> QED
  BY <1>1, PoolStarts, PoolStep, PTL DEF EngineSpec

-----------------------------------------------------------------------------
(* Cancellation *)

\* A frame that is late sets its flag, and after the flag no frame begins.
CancelInv ==
    /\ handler = [r \in Calls |-> handler[r]] /\ late \in [Calls -> 0..1]
    /\ \A r \in Calls :
          /\ handler[r] = [at |-> handler[r].at, kind |-> handler[r].kind,
                           wants |-> handler[r].wants, stream |-> handler[r].stream]
          /\ late[r] = 1 => r \in flagged /\ handler[r].at # "frame"
          /\ At(r, "frame") => handler[r].stream
          /\ /\ handler[r].stream /\ Cancellable(handler[r].kind)
             /\ handler[r].at \in {"acquire", "generate", "frame"}
             => r \in registered

LEMMA CancelStarts == EngineInit => CancelInv
BY DEF EngineInit, CancelInv, NoHandler, At

\* A step that sends nothing, keeps the flags and the registry, and begins no
\* frame of a flagged stream.
LEMMA CancelQuiet ==
    ASSUME CancelInv, NEW r \in Calls, NEW s, Go(r, s),
           UNCHANGED <<registered, flagged, late>>,
           s = "frame" => handler[r].stream /\ r \notin flagged,
           s # "acquire" /\ handler[r].at \in {"acquire", "generate", "frame"}
    PROVE  CancelInv'
<1>1. handler[r] = [at |-> handler[r].at, kind |-> handler[r].kind,
                    wants |-> handler[r].wants, stream |-> handler[r].stream]
  BY DEF CancelInv
<1>2. handler' = [handler EXCEPT ![r].at = s] /\ handler = [q \in Calls |-> handler[q]]
  BY DEF CancelInv, Go
<1>3. /\ handler' = [q \in Calls |-> handler'[q]]
      /\ handler'[r] = [at |-> s, kind |-> handler[r].kind,
                        wants |-> handler[r].wants, stream |-> handler[r].stream]
      /\ \A q \in Calls : q # r => handler'[q] = handler[q]
  <2>1. handler'[r] = [handler[r] EXCEPT !.at = s]
    BY <1>2
  <2> QED
    BY <1>1, <1>2, <2>1
<1> QED
  BY <1>3 DEF CancelInv, At

LEMMA CancelStep ==
    ASSUME CancelInv, [EngineNext]_engineVars
    PROVE  CancelInv'
<1>1. ASSUME NEW r \in Calls, Receive(r) PROVE CancelInv'
  <2>1. PICK kind \in Kinds, wants \in Asks, stream \in BOOLEAN :
            /\ handler' = [handler EXCEPT ![r] = [at |-> "acquire", kind |-> kind,
                                                  wants |-> wants, stream |-> stream]]
            /\ registered' = IF stream /\ Cancellable(kind)
                             THEN registered \cup {r} ELSE registered
    BY <1>1 DEF Receive
  <2>2. UNCHANGED <<flagged, late>>
    BY <1>1 DEF Receive
  <2>3. /\ handler' = [q \in Calls |-> handler'[q]]
        /\ handler'[r] = [at |-> "acquire", kind |-> kind, wants |-> wants, stream |-> stream]
        /\ \A q \in Calls : q # r => handler'[q] = handler[q]
    BY <2>1 DEF CancelInv
  <2> QED
    BY <2>1, <2>2, <2>3 DEF CancelInv, At
<1>2. ASSUME NEW r \in Calls, Acquire(r) PROVE CancelInv'
  BY <1>2, CancelQuiet DEF Acquire, At
<1>3. ASSUME NEW r \in Calls,
             \/ WriteRejected(r) \/ Event(r) \/ Cancelled(r) \/ Finished(r)
             \/ DecodeFails(r)
      PROVE  CancelInv'
  <2>1. CASE Event(r)
    BY <2>1, CancelQuiet DEF Event, At
  <2>2. CASE ~Event(r)
    <3>1. UNCHANGED <<registered, flagged, late>> /\ handler[r].at = "generate"
      BY <1>3, <2>2 DEF WriteRejected, Cancelled, Finished, DecodeFails, Release, At
    <3>2. PICK s \in {"error", "cancelled", "final"} : Go(r, s)
      BY <1>3, <2>2 DEF WriteRejected, Cancelled, Finished, DecodeFails
    <3> QED
      BY <3>1, <3>2, CancelQuiet
  <2> QED
    BY <2>1, <2>2
<1>4. ASSUME NEW r \in Calls, Send(r) PROVE CancelInv'
  <2>1. /\ handler[r].at = "frame" /\ handler[r].stream /\ late[r] = 0
        /\ handler[r] = [at |-> handler[r].at, kind |-> handler[r].kind,
                         wants |-> handler[r].wants, stream |-> handler[r].stream]
        /\ Cancellable(handler[r].kind) => r \in registered
    BY <1>4 DEF CancelInv, Send, At
  <2>2. /\ handler' = [handler EXCEPT ![r].at = "generate"]
        /\ flagged' = IF r \in hungUp /\ r \in registered THEN flagged \cup {r} ELSE flagged
        /\ late' = IF r \in flagged \/ (r \in hungUp /\ Cancellable(handler[r].kind))
                   THEN [late EXCEPT ![r] = @ + 1] ELSE late
        /\ registered' = registered
    BY <1>4 DEF Send, Go
  <2>3. handler = [q \in Calls |-> handler[q]] /\ late \in [Calls -> 0..1]
    BY DEF CancelInv
  <2>4. handler'[r] = [handler[r] EXCEPT !.at = "generate"]
    BY <2>2, <2>3
  <2>5. /\ handler' = [q \in Calls |-> handler'[q]]
        /\ handler'[r] = [at |-> "generate", kind |-> handler[r].kind,
                          wants |-> handler[r].wants, stream |-> handler[r].stream]
        /\ \A q \in Calls : q # r => handler'[q] = handler[q]
    BY <2>1, <2>2, <2>3, <2>4
  <2>6. /\ late' \in [Calls -> 0..1] /\ \A q \in Calls : q # r => late'[q] = late[q]
        /\ late'[r] = 1 => r \in flagged'
    <3>1. late[r] + 1 = 1
      BY <2>1
    <3>2. CASE r \in flagged \/ (r \in hungUp /\ Cancellable(handler[r].kind))
      <4>1. late' = [late EXCEPT ![r] = 1] /\ r \in flagged'
        BY <2>1, <2>2, <3>1, <3>2
      <4> QED
        BY <4>1, <2>3
    <3>3. CASE ~(r \in flagged \/ (r \in hungUp /\ Cancellable(handler[r].kind)))
      BY <2>1, <2>2, <2>3, <3>3
    <3> QED
      BY <3>2, <3>3
  <2>7. flagged \subseteq flagged'
    BY <2>2
  <2> QED
    BY <2>1, <2>2, <2>5, <2>6, <2>7 DEF CancelInv, At
<1>5. ASSUME NEW r \in Calls, Close(r) PROVE CancelInv'
  <2>1. /\ handler' = [handler EXCEPT ![r] = [NoHandler EXCEPT !.at = "ended"]]
        /\ registered' = registered \ {r} /\ flagged' = flagged \ {r}
        /\ late' = [late EXCEPT ![r] = 0]
    BY <1>5 DEF Close
  <2>2. /\ handler' = [q \in Calls |-> handler'[q]]
        /\ handler'[r] = [at |-> "ended", kind |-> "none", wants |-> {}, stream |-> FALSE]
        /\ \A q \in Calls : q # r => handler'[q] = handler[q]
    BY <2>1 DEF CancelInv, NoHandler
  <2>3. /\ late' \in [Calls -> 0..1] /\ late'[r] = 0
        /\ \A q \in Calls : q # r => late'[q] = late[q]
    BY <2>1 DEF CancelInv
  <2> QED
    BY <2>1, <2>2, <2>3 DEF CancelInv, At
<1>6. ASSUME NEW r \in Calls, Cancel(r) \/ Disconnect(r) PROVE CancelInv'
  <2>1. UNCHANGED <<handler, registered, late>> /\ flagged \subseteq flagged'
    BY <1>6 DEF Cancel, Disconnect
  <2> QED
    BY <2>1 DEF CancelInv, At
<1>7. CASE UNCHANGED engineVars
  BY <1>7 DEF engineVars, CancelInv, At
<1> QED
  BY <1>1, <1>2, <1>3, <1>4, <1>5, <1>6, <1>7 DEF EngineNext, Work

\* At most one event of a stream goes out after its cancel or the loss of its
\* client, of generations of any length.
THEOREM CancelStops == EngineSpec => []CancelStopsInOne
<1>1. CancelInv => CancelStopsInOne
  BY DEF CancelInv, CancelStopsInOne
<1> QED
  BY <1>1, CancelStarts, CancelStep, PTL DEF EngineSpec

-----------------------------------------------------------------------------
(* ReadoutPlane *)

\* Frames on their way, from the client back to the decode thread.
Way == streamed \o ready \o batch \o queue

\* Ascending numbers of frames that have been made.
Ascending(s, n) ==
    /\ s \in Seq(Nat)
    /\ \A i \in 1..Len(s) : s[i] < n
    /\ \A i, j \in 1..Len(s) : i < j => s[i] < s[j]

\* PlaneTypeOK in three parts: the truth values, the bounds, everything else.
Flags == includePrompt \in BOOLEAN /\ flushing \in BOOLEAN /\ stopping \in BOOLEAN
Shapes ==
    /\ made \in Nat
    /\ queue \in Seq(Nat) /\ batch \in Seq(Nat)
    /\ ready \in Seq(Nat) /\ streamed \in Seq(Nat)
    /\ observedCount \in Nat /\ dropped \in Nat
    /\ skippedEvery \in Nat /\ skippedPrompt \in Nat
    /\ workerAt \in {"wait", "gather", "observe", "gone"}
    /\ decoderAt \in {"decode", "flush", "join", "ended", "unwind"}

Bounds == Len(queue) <= QueueCap /\ Len(batch) <= BatchMax

PlaneInv ==
    /\ Flags
    /\ Shapes
    /\ Bounds
    /\ EveryFrameCounted
    /\ WorkerLeavesNothing
    /\ Ascending(Way, made)

LEMMA TypesAreFlagsAndShapes == PlaneTypeOK <=> Flags /\ Shapes /\ Bounds
BY Zenon DEF PlaneTypeOK, Flags, Shapes, Bounds

-----------------------------------------------------------------------------
(* Lemmas about the way of a frame *)

\* A frame that joins at the end is newer than all others.
LEMMA AscendingAppend ==
    ASSUME NEW n \in Nat, NEW s, Ascending(s, n)
    PROVE  Ascending(Append(s, n), n + 1)
<1>1. s \in Seq(Nat)
  BY DEF Ascending
<1>2. /\ Append(s, n) \in Seq(Nat)
      /\ Len(Append(s, n)) = Len(s) + 1
      /\ \A i \in 1..Len(s) : Append(s, n)[i] = s[i]
      /\ Append(s, n)[Len(s) + 1] = n
  BY <1>1, AppendProperties
<1>3. Len(s) \in Nat
  BY <1>1, LenProperties
<1>4. \A i \in 1..(Len(s) + 1) : i \in 1..Len(s) \/ i = Len(s) + 1
  BY <1>3
<1>5. \A i \in 1..Len(s) : s[i] \in Nat
  BY <1>1, ElementOfSeq
<1> QED
  BY <1>2, <1>3, <1>4, <1>5 DEF Ascending

\* Time passes for the frames that are already on their way.
LEMMA AscendingLater ==
    ASSUME NEW n \in Nat, NEW s, Ascending(s, n)
    PROVE  Ascending(s, n + 1)
BY ElementOfSeq DEF Ascending

\* A batch and what stays in the queue are the queue.
LEMMA SplitQueue ==
    ASSUME NEW S, NEW s \in Seq(S), NEW n \in 0..Len(s)
    PROVE  /\ SubSeq(s, 1, n) \in Seq(S)
           /\ SubSeq(s, n + 1, Len(s)) \in Seq(S)
           /\ Len(SubSeq(s, 1, n)) = n
           /\ Len(SubSeq(s, n + 1, Len(s))) = Len(s) - n
           /\ SubSeq(s, 1, n) \o SubSeq(s, n + 1, Len(s)) = s
<1> DEFINE head == SubSeq(s, 1, n)
           rest == SubSeq(s, n + 1, Len(s))
<1>1. Len(s) \in Nat /\ n \in Nat /\ n <= Len(s)
  OBVIOUS
<1>2. head \in Seq(S) /\ Len(head) = n /\ \A i \in 1..n : head[i] = s[i]
  BY <1>1
<1>3. /\ rest \in Seq(S) /\ Len(rest) = Len(s) - n
      /\ \A i \in (n + 1)..Len(s) : rest[i - n] = s[i]
  BY <1>1
<1> HIDE DEF head, rest
<1>4. head \o rest \in Seq(S) /\ Len(head \o rest) = Len(s)
  BY <1>1, <1>2, <1>3
<1>5. ASSUME NEW i \in 1..Len(s) PROVE (head \o rest)[i] = s[i]
  <2>1. CASE i <= n
    <3>1. i \in 1..Len(head)
      BY <1>1, <1>2, <2>1
    <3>2. (head \o rest)[i] = head[i]
      BY <1>2, <1>3, <3>1
    <3> QED
      BY <1>2, <3>1, <3>2
  <2>2. CASE i > n
    <3>1. i - n \in 1..Len(rest) /\ i \in 1..(Len(head) + Len(rest)) /\ i > Len(head)
      BY <1>1, <1>2, <1>3, <2>2
    <3>2. (head \o rest)[i] = rest[i - n]
      BY <1>2, <1>3, <3>1
    <3> QED
      BY <1>1, <1>3, <2>2, <3>2
  <2>3. i <= n \/ i > n
    BY <1>1
  <2> QED
    BY <2>1, <2>2, <2>3
<1>6. head \o rest = s
  BY <1>4, <1>5, SeqEqual
<1> QED
  BY ONLY <1>2, <1>3, <1>6 DEF head, rest

\* What TakeBatch takes is the front of the queue, at most all of it.
LEMMA TakesFront ==
    ASSUME Shapes, TakeBatch
    PROVE  \E n \in 0..Len(queue) : /\ batch' = SubSeq(queue, 1, n)
                                    /\ queue' = SubSeq(queue, n + 1, Len(queue))
<1> DEFINE n == IF Len(queue) < BatchMax THEN Len(queue) ELSE BatchMax
<1>1. n \in 0..Len(queue)
  BY PlaneAssumption DEF Shapes, PlaneAssumption
<1>2. batch' = SubSeq(queue, 1, n) /\ queue' = SubSeq(queue, n + 1, Len(queue))
  BY DEF TakeBatch
<1> HIDE DEF n
<1> QED
  BY <1>1, <1>2

LEMMA TakeBatchSplits ==
    ASSUME Shapes, TakeBatch
    PROVE  /\ batch' \in Seq(Nat) /\ queue' \in Seq(Nat)
           /\ batch' \o queue' = queue
           /\ Len(batch') + Len(queue') = Len(queue)
<1>1. PICK n \in 0..Len(queue) : /\ batch' = SubSeq(queue, 1, n)
                                 /\ queue' = SubSeq(queue, n + 1, Len(queue))
  BY TakesFront
<1>2. queue \in Seq(Nat)
  BY DEF Shapes
<1>3. /\ batch' \in Seq(Nat) /\ queue' \in Seq(Nat) /\ batch' \o queue' = queue
      /\ Len(batch') = n /\ Len(queue') = Len(queue) - n
  BY <1>1, <1>2, SplitQueue
<1>4. Len(queue) \in Nat /\ n \in Nat
  BY <1>2
<1> QED
  BY <1>3, <1>4

-----------------------------------------------------------------------------
(* The invariant *)

LEMMA InitPlane == PlaneInit => PlaneInv
<1> SUFFICES ASSUME PlaneInit PROVE PlaneInv
  OBVIOUS
<1>1. Ascending(Way, made)
  <2>1. Way = <<>>
    BY DEF PlaneInit, Way
  <2> QED
    BY <2>1 DEF Ascending, PlaneInit
<1>2. Flags
  BY DEF PlaneInit, Flags
<1>3. Shapes
  BY DEF PlaneInit, Shapes
<1>4. EveryFrameCounted
  BY DEF PlaneInit, EveryFrameCounted
<1>5. WorkerLeavesNothing
  BY DEF PlaneInit, WorkerLeavesNothing
<1>6. Bounds
  BY PlaneAssumption DEF PlaneInit, PlaneAssumption, Bounds
<1> QED
  BY <1>1, <1>2, <1>3, <1>4, <1>5, <1>6 DEF PlaneInv

\* What every step keeps, part by part.  First the types.
LEMMA StepFlags == Flags /\ PlaneNext => Flags'
BY DEF Flags, PlaneNext, Decoder, Worker, Push, Drain, Finish, Flushed, Joined, Unwind,
       Destroyed, Wake, TakeBatch, Observe, WorkerExits

LEMMA StepShapes == Shapes /\ PlaneNext => Shapes'
<1> SUFFICES ASSUME Shapes, PlaneNext PROVE Shapes'
  OBVIOUS
<1>1. CASE Push
  <2>1. CASE queue' = queue
    BY <1>1, <2>1 DEF Push, Shapes
  <2>2. CASE queue' = Append(queue, made) /\ UNCHANGED <<dropped, skippedPrompt, skippedEvery>>
    BY <1>1, <2>2 DEF Push, Shapes
  <2> QED
    BY <1>1, <2>1, <2>2 DEF Push
<1>2. CASE Drain \/ Joined
  <2>1. CASE Drain
    BY <2>1 DEF Drain, Shapes
  <2>2. CASE Joined
    BY <2>2 DEF Joined, Shapes
  <2> QED
    BY <1>2, <2>1, <2>2
<1>3. CASE Finish \/ Flushed \/ Unwind \/ Destroyed
  BY <1>3 DEF Finish, Flushed, Unwind, Destroyed, Shapes
<1>4. CASE TakeBatch
  BY <1>4, TakeBatchSplits DEF TakeBatch, Shapes
<1>5. CASE Wake \/ WorkerExits
  BY <1>5 DEF Wake, WorkerExits, Shapes
<1>6. CASE Observe
  BY <1>6 DEF Observe, Shapes
<1> QED
  BY <1>1, <1>2, <1>3, <1>4, <1>5, <1>6 DEF PlaneNext, Decoder, Worker

\* Then the bounds: push() looks before it queues, and a batch is cut.
LEMMA StepBounds == Shapes /\ Bounds /\ PlaneNext => Bounds'
<1> SUFFICES ASSUME Shapes, Bounds, PlaneNext PROVE Bounds'
  OBVIOUS
<1>1. QueueCap \in Nat /\ BatchMax \in Nat
  BY PlaneAssumption DEF PlaneAssumption
<1>2. CASE Push
  BY <1>1, <1>2 DEF Push, Shapes, Bounds
<1>3. CASE TakeBatch
  <2> DEFINE n == IF Len(queue) < BatchMax THEN Len(queue) ELSE BatchMax
  <2>1. n \in 0..Len(queue) /\ n <= BatchMax
    BY <1>1 DEF Shapes
  <2>2. batch' = SubSeq(queue, 1, n) /\ queue' = SubSeq(queue, n + 1, Len(queue))
    BY <1>3 DEF TakeBatch
  <2> HIDE DEF n
  <2>3. queue \in Seq(Nat)
    BY DEF Shapes
  <2>4. Len(batch') = n /\ Len(queue') = Len(queue) - n
    BY <2>1, <2>2, <2>3, SplitQueue
  <2>5. Len(queue) \in Nat /\ n \in Nat
    BY <2>1, <2>3
  <2> QED
    BY <1>1, <2>1, <2>4, <2>5 DEF Bounds
<1>4. CASE Observe
  BY <1>1, <1>4, PlaneAssumption DEF Observe, Bounds, PlaneAssumption
<1>5. CASE UNCHANGED <<queue, batch>>
  BY <1>5 DEF Bounds
<1>6. Push \/ TakeBatch \/ Observe \/ UNCHANGED <<queue, batch>>
  BY DEF PlaneNext, Decoder, Worker, Drain, Finish, Flushed, Joined, Unwind, Destroyed,
         Wake, WorkerExits
<1> QED
  BY <1>2, <1>3, <1>4, <1>5, <1>6

\* Who waits for whom.
LEMMA StepJoins == PlaneInv /\ PlaneNext => WorkerLeavesNothing'
<1> SUFFICES ASSUME Flags, Shapes, WorkerLeavesNothing, PlaneNext
             PROVE  WorkerLeavesNothing'
  BY DEF PlaneInv
<1>1. CASE Push
  <2>1. decoderAt = "decode" /\ UNCHANGED <<batch, flushing, stopping, workerAt, decoderAt>>
    BY <1>1 DEF Push
  <2> QED
    BY <2>1 DEF Shapes, Flags, WorkerLeavesNothing
<1>2. CASE Drain \/ Joined
  <2>1. CASE Drain
    BY <2>1 DEF Drain, Shapes, Flags, WorkerLeavesNothing
  <2>2. CASE Joined
    BY <2>2 DEF Joined, Shapes, Flags, WorkerLeavesNothing
  <2> QED
    BY <1>2, <2>1, <2>2
<1>3. CASE Finish \/ Flushed \/ Unwind \/ Destroyed
  <2>1. CASE Finish \/ Unwind
    BY <2>1 DEF Finish, Unwind, Shapes, Flags, WorkerLeavesNothing
  <2>2. CASE Flushed \/ Destroyed
    BY <2>2 DEF Flushed, Destroyed, Shapes, Flags, WorkerLeavesNothing
  <2> QED
    BY <1>3, <2>1, <2>2
<1>4. CASE TakeBatch
  \* With the queue flushed, a worker that still gathers takes nothing.
  <2>1. queue = <<>> => queue' = <<>> /\ batch' = <<>>
    BY <1>4, TakeBatchSplits
  <2>2. /\ workerAt = "gather" /\ workerAt' = "observe"
        /\ UNCHANGED <<ready, flushing, stopping, decoderAt>>
    BY <1>4 DEF TakeBatch
  <2> QED
    BY <2>1, <2>2 DEF Shapes, Flags, WorkerLeavesNothing
<1>5. CASE Wake \/ Observe \/ WorkerExits
  BY <1>5, SMTT(30) DEF Wake, Observe, WorkerExits, Shapes, Flags, WorkerLeavesNothing
<1> QED
  BY <1>1, <1>2, <1>3, <1>4, <1>5 DEF PlaneNext, Decoder, Worker

\* The counts.
LEMMA StepCounted == PlaneInv /\ PlaneNext => EveryFrameCounted'
<1> SUFFICES ASSUME Shapes, EveryFrameCounted, WorkerLeavesNothing, PlaneNext
             PROVE  EveryFrameCounted'
  BY DEF PlaneInv
<1>1. CASE Push
  <2>1. CASE queue' = queue
    BY <1>1, <2>1, SMTT(30) DEF Push, Shapes, EveryFrameCounted
  <2>2. CASE queue' = Append(queue, made) /\ UNCHANGED <<dropped, skippedPrompt, skippedEvery>>
    BY <1>1, <2>2 DEF Push, Shapes, EveryFrameCounted
  <2> QED
    BY <1>1, <2>1, <2>2 DEF Push
<1>2. CASE Drain \/ Joined
  <2>1. CASE Drain
    BY <2>1 DEF Drain, Shapes, EveryFrameCounted
  <2>2. CASE Joined
    BY <2>2 DEF Joined, Shapes, EveryFrameCounted
  <2> QED
    BY <1>2, <2>1, <2>2
<1>3. CASE Finish \/ Flushed \/ Unwind \/ Destroyed
  BY <1>3 DEF Finish, Flushed, Unwind, Destroyed, EveryFrameCounted
<1>4. CASE TakeBatch
  <2>1. batch = <<>>
    BY <1>4 DEF TakeBatch, WorkerLeavesNothing
  <2>2. Len(batch') + Len(queue') = Len(queue) + Len(batch)
    BY <1>4, <2>1, TakeBatchSplits DEF Shapes
  <2>3. Len(batch) \in Nat /\ Len(queue) \in Nat /\ Len(batch') \in Nat /\ Len(queue') \in Nat
    BY <1>4, TakeBatchSplits DEF Shapes
  <2>4. /\ made' = made /\ ready' = ready /\ streamed' = streamed
        /\ observedCount' = observedCount /\ dropped' = dropped
        /\ skippedEvery' = skippedEvery /\ skippedPrompt' = skippedPrompt
    BY <1>4 DEF TakeBatch
  <2>5. /\ made \in Nat /\ observedCount \in Nat /\ dropped \in Nat
        /\ skippedEvery \in Nat /\ skippedPrompt \in Nat
    BY DEF Shapes
  <2>6. made' = Len(queue') + Len(batch') + observedCount' + dropped' + skippedEvery'
                  + skippedPrompt'
    BY ONLY <2>2, <2>3, <2>4, <2>5, EveryFrameCounted DEF EveryFrameCounted
  <2>7. observedCount' = Len(ready') + Len(streamed')
    BY <2>4 DEF EveryFrameCounted
  <2> QED
    BY <2>6, <2>7 DEF EveryFrameCounted
<1>5. CASE Wake \/ WorkerExits
  BY <1>5 DEF Wake, WorkerExits, EveryFrameCounted
<1>6. CASE Observe
  BY <1>6 DEF Observe, Shapes, EveryFrameCounted
<1> QED
  BY <1>1, <1>2, <1>3, <1>4, <1>5, <1>6 DEF PlaneNext, Decoder, Worker

\* The order: frames join the queue in the order they are made, and leave it at
\* its head.
LEMMA StepAscending == PlaneInv /\ PlaneNext => Ascending(Way, made)'
<1> SUFFICES ASSUME PlaneInv, PlaneNext PROVE Ascending(Way', made')
  OBVIOUS
<1>1. /\ made \in Nat
      /\ streamed \in Seq(Nat) /\ ready \in Seq(Nat)
      /\ batch \in Seq(Nat) /\ queue \in Seq(Nat)
      /\ Shapes /\ Ascending(Way, made)
      /\ workerAt = "gather" => batch = <<>>
  BY DEF PlaneInv, Shapes, WorkerLeavesNothing
<1>a. /\ streamed \in Seq(Nat) /\ ready \in Seq(Nat)
      /\ batch \in Seq(Nat) /\ queue \in Seq(Nat)
  BY <1>1
<1>2. CASE Push
  <2>1. CASE queue' = Append(queue, made)
    <3>1. Way' = Append(Way, made) /\ made' = made + 1
      BY <1>1, <1>2, <2>1, SMTT(30) DEF Way, Push
    <3> QED
      BY <1>1, <3>1, AscendingAppend
  <2>2. CASE queue' = queue
    <3>1. Way' = Way /\ made' = made + 1
      BY <1>2, <2>2 DEF Way, Push
    <3> QED
      BY <1>1, <3>1, AscendingLater
  <2> QED
    BY <1>2, <2>1, <2>2 DEF Push
<1>3. CASE Drain \/ Joined
  <2>1. /\ streamed' = streamed \o ready /\ ready' = <<>>
        /\ UNCHANGED <<batch, queue, made>>
    BY <1>3 DEF Drain, Joined
  <2>2. ((streamed \o ready) \o <<>> \o batch) \o queue = Way
    BY ONLY <1>a, SMTT(30) DEF Way
  <2>3. Way' = Way /\ made' = made
    BY <2>1, <2>2 DEF Way
  <2> QED
    BY <1>1, <2>3
<1>4. CASE TakeBatch
  <2>1. batch' \in Seq(Nat) /\ queue' \in Seq(Nat) /\ batch' \o queue' = queue
    BY <1>1, <1>4, TakeBatchSplits
  <2>2. (streamed \o ready) \o <<>> \o (batch' \o queue')
          = (streamed \o ready \o batch') \o queue'
    <3>1. batch' \in Seq(Nat) /\ queue' \in Seq(Nat)
      BY <2>1
    <3> QED
      BY ONLY <1>a, <3>1, SMTT(30)
  <2>3. Way' = Way /\ made' = made
    BY <1>1, <1>4, <2>1, <2>2 DEF Way, TakeBatch
  <2> QED
    BY <1>1, <2>3
<1>5. CASE Observe
  <2>1. (streamed \o (ready \o batch)) \o <<>> \o queue = Way
    BY ONLY <1>a, SMTT(30) DEF Way
  <2>2. Way' = Way /\ made' = made
    BY <1>5, <2>1 DEF Way, Observe
  <2> QED
    BY <1>1, <2>2
<1>6. CASE Finish \/ Flushed \/ Unwind \/ Destroyed \/ Wake \/ WorkerExits
  <2>1. Way' = Way /\ made' = made
    BY <1>6 DEF Way, Finish, Flushed, Unwind, Destroyed, Wake, WorkerExits
  <2> QED
    BY <1>1, <2>1
<1> QED
  BY <1>2, <1>3, <1>4, <1>5, <1>6 DEF PlaneNext, Decoder, Worker

LEMMA PlaneInvariant == PlaneSpec => []PlaneInv
<1>1. PlaneInv /\ UNCHANGED planeVars => PlaneInv'
  <2> SUFFICES ASSUME PlaneInv, UNCHANGED planeVars PROVE PlaneInv'
    OBVIOUS
  <2>1. Flags' /\ WorkerLeavesNothing'
    BY DEF planeVars, PlaneInv, Flags, WorkerLeavesNothing
  <2>2. Shapes'
    BY DEF planeVars, PlaneInv, Shapes
  <2>3. EveryFrameCounted'
    BY DEF planeVars, PlaneInv, EveryFrameCounted
  <2>4. Ascending(Way, made)'
    BY DEF planeVars, PlaneInv, Ascending, Way
  <2>5. Bounds'
    BY DEF planeVars, PlaneInv, Bounds
  <2> QED
    BY <2>1, <2>2, <2>3, <2>4, <2>5 DEF PlaneInv
<1>2. PlaneInv /\ [PlaneNext]_planeVars => PlaneInv'
  BY <1>1, StepFlags, StepShapes, StepBounds, StepJoins, StepCounted, StepAscending DEF PlaneInv
<1> QED
  BY <1>2, InitPlane, PTL DEF PlaneSpec

-----------------------------------------------------------------------------
(* Theorems *)

\* Every variable of the plane keeps to its type; however fast the decode makes
\* frames and however long the worker gathers, no more than kQueueCap frames
\* are queued and no more than kBatchMax are in a batch.
THEOREM PlaneTyped == PlaneSpec => []PlaneTypeOK
<1>1. PlaneInv => PlaneTypeOK
  BY TypesAreFlagsAndShapes DEF PlaneInv
<1> QED
  BY <1>1, PlaneInvariant, PTL

\* finish() and the destructor join a worker that leaves nothing behind, and
\* neither of them stops a worker the other one has stopped.
THEOREM PlaneJoins == PlaneSpec => []WorkerLeavesNothing
<1>1. PlaneInv => WorkerLeavesNothing
  BY DEF PlaneInv
<1> QED
  BY <1>1, PlaneInvariant, PTL

\* Every captured frame is queued, being read, parked, streamed or counted; the
\* client gets the readouts in the order of the tokens, each once; and the stats
\* frame adds up to the tokens of the stream.
THEOREM PlaneHonest == PlaneSpec => []ReadoutsHonest
<1>1. PlaneInv => ReadoutsHonest
  <2> SUFFICES ASSUME PlaneInv PROVE ReadoutsHonest
    OBVIOUS
  <2>1. ReadoutsInOrder
    BY DEF PlaneInv, Ascending, Way, ReadoutsInOrder
  <2>2. StatsHonest
    <3> SUFFICES ASSUME decoderAt = "ended", flushing
                 PROVE  /\ observedCount = Len(streamed)
                        /\ made = Len(streamed) + dropped + skippedEvery + skippedPrompt
      BY DEF StatsHonest
    <3>1. ready = <<>> /\ queue = <<>> /\ batch = <<>>
      BY DEF PlaneInv, WorkerLeavesNothing
    <3>2. Len(ready) = 0 /\ Len(queue) = 0 /\ Len(batch) = 0 /\ Len(streamed) \in Nat
      BY <3>1, EmptySeq, LenProperties DEF PlaneInv, Shapes
    <3> QED
      BY <3>2 DEF PlaneInv, EveryFrameCounted, Shapes
  <2> QED
    BY <2>1, <2>2 DEF PlaneInv, ReadoutsHonest
<1> QED
  BY <1>1, PlaneInvariant, PTL

-----------------------------------------------------------------------------
(* CheckpointStore *)

\* Some id that was answered is in the map, and none that was answered is newer;
\* numbers are given once, so what comes next is newer than all of them.
CheckpointInv ==
    /\ counter \in Nat
    /\ \A n \in returned : n \in Nat /\ n < counter
    /\ returned # {} => \E n \in returned : n \in stored /\ \A k \in returned : n >= k

LEMMA CheckpointStep == CheckpointInv /\ [StoreNext]_storeVars => CheckpointInv'
<1> SUFFICES ASSUME CheckpointInv, [StoreNext]_storeVars PROVE CheckpointInv'
  OBVIOUS
<1>1. CASE Save
  <2>1. counter' \in Nat /\ \A n \in returned' : n \in Nat /\ n < counter'
    BY <1>1 DEF Save, CheckpointInv
  <2>2. counter \in returned' /\ counter \in stored'
    BY <1>1 DEF Save, Evict
  <2>3. \A k \in returned' : counter >= k
    BY <1>1 DEF Save, CheckpointInv
  <2>4. QED BY <2>1, <2>2, <2>3 DEF CheckpointInv
<1>2. CASE OtherRequest
  BY <1>2 DEF OtherRequest, CheckpointInv
<1>3. CASE UNCHANGED storeVars
  BY <1>3 DEF storeVars, CheckpointInv
<1>4. QED BY <1>1, <1>2, <1>3 DEF StoreNext

\* What std::map evicts, in the order of the ids as strings, is never the
\* checkpoint that was answered last: for any size of the store, wherever the
\* counter begins and however many requests take a number from it.
THEOREM NewestKept == StoreSpec => []NewestSurvives
<1>1. StoreInit => CheckpointInv
  BY StoreAssumption DEF StoreInit, CheckpointInv
<1>2. CheckpointInv => NewestSurvives
  <2> SUFFICES ASSUME CheckpointInv, returned # {} PROVE Max(returned) \in stored
    BY DEF NewestSurvives
  <2>1. PICK n \in returned : n \in stored /\ \A k \in returned : n >= k
    BY DEF CheckpointInv
  <2>2. Max(returned) \in returned /\ \A k \in returned : Max(returned) >= k
    BY <2>1 DEF Max
  <2>3. Max(returned) = n
    BY <2>1, <2>2 DEF CheckpointInv
  <2>4. QED BY <2>1, <2>3
<1>3. QED BY <1>1, <1>2, CheckpointStep, PTL DEF StoreSpec

-----------------------------------------------------------------------------
(* ArDecode *)

Steerings == BOOLEAN
Rows == Tokens \cup {Soft}
CellSet == [tok : Rows, how : {"batch", "single"}, steer : Steerings]

\* The soft prefix, the prompt and the reply so far.
RunText == (SoftRows(run.base) \o run.prompt) \o reply[1]

\* The last token of a reply that is broken off is not decoded any more.
BrokenOff == at \in {"stop", "diverged"}
Decoding == at \in {"sample"} \cup Ended

\* What there is of a request while it samples.
SamplingOK ==
    Decoding =>
        /\ run.kind \in {"completion", "restore"}
        /\ run.prompt \in Seq(Tokens) /\ run.prompt # <<>>
        /\ run.base \in Nat /\ run.steer \in Steerings
        /\ reply = << reply[1] >> /\ reply[1] \in Seq(Tokens)
        /\ cells = << cells[1] >> /\ cells[1] \in Seq(CellSet)
        /\ nPast \in Nat /\ Len(cells[1]) = nPast /\ nPast <= WindowSize
        /\ BrokenOff => nPast < WindowSize
        /\ BrokenOff \/ at = "eos" => reply[1] # <<>>
        /\ drawsMade \in Nat

\* A completion decodes its prompt in one batch and then token by token.
CompletionOK ==
    Decoding /\ run.kind = "completion" =>
        /\ ~run.resumes
        /\ run.sampled => drawsMade = Len(reply[1])
        /\ ~BrokenOff => cells[1] = Uninterrupted(RunText, run.base + Len(run.prompt), run.steer)
        /\ BrokenOff => cells[1] = Uninterrupted(SubSeq(RunText, 1, Len(RunText) - 1),
                                                 run.base + Len(run.prompt), run.steer)

\* A run that is resumed goes on from the checkpoint.
RestoreOK ==
    Decoding /\ run.kind = "restore" =>
        /\ saved # NoSaved /\ run.prompt = saved.tokens
        /\ run.base = 0 /\ run.steer = saved.steer
        /\ run.resumes => /\ run.sampled /\ saved.hasSampler
                          /\ drawsMade = saved.draws + Len(reply[1])
        /\ at = "sample" /\ saved.base = 0 /\ saved.nPast = Len(saved.tokens)
           => TokensOf(cells[1]) = RunText
        /\ at = "sample" /\ run.fast /\ reply[1] = <<>> /\ saved.onFinish /\ saved.base = 0
           /\ Len(saved.tokens) > saved.prompt
           => cells[1] = Uninterrupted(saved.tokens, saved.prompt, saved.steer)

\* A checkpoint holds a cell for each of its tokens.
SavedOK ==
    saved # NoSaved =>
        /\ saved.tokens \in Seq(Tokens) /\ saved.tokens # <<>>
        /\ Len(saved.tokens) <= WindowSize
        /\ saved.kv \in Seq(CellSet) /\ Len(saved.kv) = Len(saved.tokens)
        /\ saved.nPast \in 0..Len(saved.tokens)
        /\ saved.steer \in Steerings /\ saved.draws \in Nat
        /\ saved.base = 0 => TokensOf(saved.kv) = saved.tokens
        /\ saved.onFinish => saved.nPast = Len(saved.tokens)
        /\ saved.onFinish /\ saved.base = 0 /\ Len(saved.tokens) > saved.prompt
           => /\ saved.prompt \in Nat
              /\ saved.kv = Uninterrupted(saved.tokens, saved.prompt, saved.steer)
        /\ saved.hasSampler /\ saved.reason # "eos" => saved.draws = saved.truly

\* While a round is decoded, the live branches are all as long as n_past.
BranchOK ==
    at \in {"branch", "joining"} =>
        /\ run.prompt \in Seq(Tokens)
        /\ run.steer \in Steerings
        /\ nPast \in Nat /\ nPast <= WindowSize
        /\ at = "branch" => nPast < WindowSize
        /\ reply = [i \in 1..Branches |-> reply[i]]
        /\ cells = [i \in 1..Branches |-> cells[i]]
        /\ \A i \in 1..Branches :
              /\ reply[i] \in Seq(Tokens) /\ cells[i] \in Seq(CellSet)
              /\ Len(cells[i]) <= nPast
              /\ IsPrefix(TokensOf(cells[i]), run.prompt \o reply[i])
              /\ at = "branch" /\ Live(i) => TokensOf(cells[i]) = run.prompt \o reply[i]

CellsFit ==
    /\ at # "overflow"
    /\ DOMAIN cells = 1..Len(cells) /\ Len(cells) >= 1 /\ Len(cells) \in Nat
    /\ \A i \in DOMAIN cells : Len(cells[i]) <= WindowSize

DecodeInv == SamplingOK /\ CompletionOK /\ RestoreOK /\ SavedOK /\ BranchOK /\ CellsFit

-----------------------------------------------------------------------------
(* Cells and their tokens *)

LEMMA TextTyped ==
    ASSUME NEW p \in Seq(Tokens), NEW r \in Seq(Tokens), NEW b \in Nat
    PROVE  /\ SoftRows(b) \o p \in Seq(Rows) /\ (SoftRows(b) \o p) \o r \in Seq(Rows)
           /\ Len(SoftRows(b) \o p) = b + Len(p)
           /\ Len((SoftRows(b) \o p) \o r) = b + Len(p) + Len(r)
           /\ b = 0 => (SoftRows(b) \o p) \o r = p \o r
<1>1. SoftRows(b) \in Seq(Rows) /\ Len(SoftRows(b)) = b
  BY DEF SoftRows, Rows
<1>2. p \in Seq(Rows) /\ r \in Seq(Rows)
  BY SeqMonotonic DEF Rows
<1>3. /\ SoftRows(b) \o p \in Seq(Rows) /\ Len(SoftRows(b) \o p) = b + Len(p)
  BY <1>1, <1>2, ConcatProperties
<1>4. /\ (SoftRows(b) \o p) \o r \in Seq(Rows)
      /\ Len((SoftRows(b) \o p) \o r) = b + Len(p) + Len(r)
  BY <1>2, <1>3, ConcatProperties
<1>5. ASSUME b = 0 PROVE SoftRows(b) \o p = p
  <2>1. SoftRows(b) = <<>>
    BY <1>1, <1>5, EmptySeq
  <2> QED
    BY <1>2, <2>1, ConcatEmptySeq
<1> QED
  BY <1>3, <1>4, <1>5

\* A text that grows by a token.
LEMMA TextGrows ==
    ASSUME NEW T, NEW s \in Seq(T), NEW r \in Seq(T), NEW x \in T
    PROVE  /\ s \o Append(r, x) = Append(s \o r, x)
           /\ s \o r = SubSeq(Append(s \o r, x), 1, Len(Append(s \o r, x)) - 1)
<1>1. s \o r \in Seq(T) /\ Append(r, x) \in Seq(T) /\ Append(s \o r, x) \in Seq(T)
  BY ConcatProperties, AppendProperties
<1>2. /\ Len(Append(s \o r, x)) = Len(s \o r) + 1 /\ Len(s \o r) = Len(s) + Len(r)
      /\ Len(s \o Append(r, x)) = Len(s) + Len(r) + 1 /\ Len(s) \in Nat /\ Len(r) \in Nat
  BY <1>1, ConcatProperties, AppendProperties, LenProperties
<1>3. s \o Append(r, x) \in Seq(T)
  BY <1>1, ConcatProperties
<1>4. \A i \in 1..Len(s) + Len(r) + 1 : (s \o Append(r, x))[i] = Append(s \o r, x)[i]
  BY <1>1, <1>2
<1>5. s \o Append(r, x) = Append(s \o r, x)
  BY <1>1, <1>2, <1>3, <1>4, SeqEqual
<1> DEFINE u == Append(s \o r, x)
           k == Len(s) + Len(r)
<1>6. SubSeq(u, 1, k) \in Seq(T) /\ Len(SubSeq(u, 1, k)) = k
      /\ \A i \in 1..k : SubSeq(u, 1, k)[i] = u[i]
  BY <1>1, <1>2, SubSeqProperties, ElementOfSeq
<1>7. \A i \in 1..k : u[i] = (s \o r)[i]
  BY <1>1, <1>2, AppendProperties
<1>8. s \o r = SubSeq(u, 1, k)
  BY <1>1, <1>2, <1>6, <1>7, SeqEqual
<1> QED
  BY <1>2, <1>5, <1>8

\* The cells of a text.
LEMMA CellsOfText ==
    ASSUME NEW t \in Seq(Rows), NEW p \in Nat, NEW s \in Steerings
    PROVE  /\ Uninterrupted(t, p, s) \in Seq(CellSet)
           /\ Len(Uninterrupted(t, p, s)) = Len(t)
           /\ TokensOf(Uninterrupted(t, p, s)) = t
           /\ \A i \in 1..Len(t) : Uninterrupted(t, p, s)[i] =
                 [tok |-> t[i], how |-> IF i <= p THEN "batch" ELSE "single", steer |-> s]
<1> DEFINE u == Uninterrupted(t, p, s)
<1>1. Len(t) \in Nat /\ DOMAIN t = 1..Len(t) /\ t \in [1..Len(t) -> Rows]
  BY LenProperties
<1>2. /\ DOMAIN u = 1..Len(t)
      /\ \A i \in 1..Len(t) : u[i] = [tok |-> t[i],
                                      how |-> IF i <= p THEN "batch" ELSE "single", steer |-> s]
      /\ u = [i \in 1..Len(t) |-> u[i]]
  BY <1>1 DEF Uninterrupted
<1> HIDE DEF u
<1>3. \A i \in 1..Len(t) : u[i] \in CellSet /\ u[i].tok = t[i]
  BY <1>1, <1>2 DEF CellSet
<1>4. u \in [1..Len(t) -> CellSet]
  BY <1>2, <1>3
<1>5. u \in Seq(CellSet) /\ Len(u) = Len(t)
  BY <1>1, <1>4, SeqDef, LenProperties
<1>6. TokensOf(u) = t
  BY <1>1, <1>2, <1>3 DEF TokensOf
<1> QED
  BY <1>2, <1>5, <1>6 DEF u

LEMMA CellAt ==
    ASSUME NEW t \in Seq(Rows), NEW p \in Nat, NEW s \in Steerings, NEW i \in 1..Len(t)
    PROVE  Uninterrupted(t, p, s)[i] =
              [tok |-> t[i], how |-> IF i <= p THEN "batch" ELSE "single", steer |-> s]
BY CellsOfText

LEMMA BatchIsCells ==
    ASSUME NEW t \in Seq(Rows), NEW p \in Nat, NEW s \in Steerings, Len(t) <= p
    PROVE  Batch(t, s) = Uninterrupted(t, p, s)
<1>1. Len(t) \in Nat /\ DOMAIN t = 1..Len(t)
  BY LenProperties
<1>2. \A i \in DOMAIN t : i <= p
  BY <1>1
<1> QED
  BY <1>2 DEF Batch, Uninterrupted

LEMMA CellsGrow ==
    ASSUME NEW t \in Seq(Rows), NEW p \in Nat, NEW s \in Steerings, NEW x \in Rows, p <= Len(t)
    PROVE  Append(Uninterrupted(t, p, s), [tok |-> x, how |-> "single", steer |-> s])
             = Uninterrupted(Append(t, x), p, s)
<1> DEFINE c == [tok |-> x, how |-> "single", steer |-> s]
           u == Uninterrupted(t, p, s)
           w == Append(t, x)
           v == Uninterrupted(w, p, s)
           n == Len(t)
<1>1. /\ w \in Seq(Rows) /\ Len(w) = n + 1 /\ n \in Nat
      /\ w[n + 1] = x /\ \A i \in 1..n : w[i] = t[i]
  BY AppendProperties, LenProperties
<1> HIDE DEF w
<1>2. c \in CellSet
  BY DEF CellSet
<1>3. u \in Seq(CellSet) /\ Len(u) = n /\ v \in Seq(CellSet) /\ Len(v) = n + 1
  BY <1>1, CellsOfText, ZenonT(30)
<1>4. Append(u, c) \in Seq(CellSet) /\ Len(Append(u, c)) = n + 1 /\ Append(u, c)[n + 1] = c
      /\ \A i \in 1..n : Append(u, c)[i] = u[i]
  BY <1>2, <1>3, AppendProperties
<1>5. ASSUME NEW i \in 1..n PROVE u[i] = v[i]
  <2>1. i \in 1..Len(t) /\ i \in 1..Len(w) /\ w[i] = t[i]
    BY <1>1
  <2>2. u[i] = [tok |-> t[i], how |-> IF i <= p THEN "batch" ELSE "single", steer |-> s]
    BY <2>1, CellAt, SMTT(30)
  <2>3. v[i] = [tok |-> w[i], how |-> IF i <= p THEN "batch" ELSE "single", steer |-> s]
    BY <1>1, <2>1, CellAt
  <2> QED
    BY <2>1, <2>2, <2>3
<1>6. v[n + 1] = c
  <2>1. n + 1 \in 1..Len(w) /\ ~(n + 1 <= p)
    BY <1>1
  <2>2. v[n + 1] = [tok |-> w[n + 1],
                    how |-> IF n + 1 <= p THEN "batch" ELSE "single", steer |-> s]
    BY <1>1, <2>1, CellAt
  <2> QED
    BY <1>1, <2>1, <2>2
<1> HIDE DEF u, v, c, n
<1>7. \A i \in 1..n + 1 : Append(u, c)[i] = v[i]
  BY <1>1, <1>4, <1>5, <1>6
<1>8. Append(u, c) = v
  BY <1>3, <1>4, <1>7, SeqEqual
<1> QED
  BY <1>8 DEF u, v, c, w

\* The first cells of a text are the cells of its first tokens.
LEMMA CellsShrink ==
    ASSUME NEW t \in Seq(Rows), NEW p \in Nat, NEW s \in Steerings, NEW k \in 0..Len(t)
    PROVE  SubSeq(Uninterrupted(t, p, s), 1, k) = Uninterrupted(SubSeq(t, 1, k), p, s)
<1> DEFINE u == Uninterrupted(t, p, s)
           v == Uninterrupted(SubSeq(t, 1, k), p, s)
<1>1. u \in Seq(CellSet) /\ Len(u) = Len(t) /\ Len(t) \in Nat
  BY CellsOfText, LenProperties
<1>2. \A i \in 1..k : u[i] \in CellSet /\ t[i] \in Rows
  BY <1>1, ElementOfSeq
<1>3. /\ SubSeq(t, 1, k) \in Seq(Rows) /\ Len(SubSeq(t, 1, k)) = k
      /\ \A i \in 1..k : SubSeq(t, 1, k)[i] = t[i]
  BY <1>1, <1>2, SubSeqProperties
<1>4. /\ SubSeq(u, 1, k) \in Seq(CellSet) /\ Len(SubSeq(u, 1, k)) = k
      /\ \A i \in 1..k : SubSeq(u, 1, k)[i] = u[i]
  BY <1>1, <1>2, SubSeqProperties
<1>5. v \in Seq(CellSet) /\ Len(v) = k
  BY <1>3, CellsOfText
<1>6. ASSUME NEW i \in 1..k PROVE u[i] = v[i]
  <2>1. i \in 1..Len(t) /\ i \in 1..Len(SubSeq(t, 1, k)) /\ SubSeq(t, 1, k)[i] = t[i]
    BY <1>1, <1>3
  <2>2. u[i] = [tok |-> t[i], how |-> IF i <= p THEN "batch" ELSE "single", steer |-> s]
    BY <2>1, CellAt
  <2>3. v[i] = [tok |-> SubSeq(t, 1, k)[i], how |-> IF i <= p THEN "batch" ELSE "single",
                steer |-> s]
    BY <1>3, <2>1, CellAt
  <2> QED
    BY <2>1, <2>2, <2>3
<1> HIDE DEF u, v
<1>7. SubSeq(u, 1, k) = v
  BY <1>4, <1>5, <1>6, SeqEqual
<1> QED
  BY <1>7 DEF u, v

LEMMA FirstOf ==
    ASSUME NEW T, NEW t \in Seq(T), NEW k \in 0..Len(t)
    PROVE  /\ SubSeq(t, 1, k) \in Seq(T) /\ Len(SubSeq(t, 1, k)) = k
           /\ \A i \in 1..k : SubSeq(t, 1, k)[i] = t[i] /\ t[i] \in T
<1>1. Len(t) \in Nat /\ \A i \in 1..k : t[i] \in T
  BY LenProperties
<1> QED
  BY <1>1, SubSeqProperties

\* A text is its first tokens and its last.
LEMMA LastAgain ==
    ASSUME NEW T, NEW t \in Seq(T), t # <<>>
    PROVE  /\ Append(SubSeq(t, 1, Len(t) - 1), t[Len(t)]) = t
           /\ SubSeq(t, 1, Len(t) - 1) \in Seq(T) /\ Len(SubSeq(t, 1, Len(t) - 1)) = Len(t) - 1
           /\ t[Len(t)] \in T /\ Len(t) \in Nat \ {0}
<1> DEFINE n == Len(t)
           f == SubSeq(t, 1, n - 1)
<1>1. n \in Nat \ {0} /\ \A i \in 1..n : t[i] \in T
  BY EmptySeq, LenProperties
<1>2. f \in Seq(T) /\ Len(f) = n - 1 /\ \A i \in 1..n - 1 : f[i] = t[i]
  <2>1. n - 1 \in 0..Len(t)
    BY <1>1
  <2> QED
    BY <2>1, FirstOf
<1>3. Append(f, t[n]) \in Seq(T) /\ Len(Append(f, t[n])) = n
      /\ \A i \in 1..n : Append(f, t[n])[i] = t[i]
  BY <1>1, <1>2, AppendProperties
<1> HIDE DEF n, f
<1>4. Append(f, t[n]) = t
  BY <1>3, SeqEqual DEF n
<1> QED
  BY <1>1, <1>2, <1>4 DEF n, f

\* The tokens of cells that grow by one, and of the first of them.
LEMMA TokensOfCells ==
    ASSUME NEW c \in Seq(CellSet)
    PROVE  /\ TokensOf(c) \in Seq(Rows) /\ Len(TokensOf(c)) = Len(c)
           /\ \A i \in 1..Len(c) : TokensOf(c)[i] = c[i].tok
<1>1. Len(c) \in Nat /\ DOMAIN c = 1..Len(c) /\ \A i \in 1..Len(c) : c[i] \in CellSet
  BY LenProperties
<1>2. \A i \in 1..Len(c) : c[i].tok \in Rows
  BY <1>1 DEF CellSet
<1>3. TokensOf(c) = [i \in 1..Len(c) |-> c[i].tok]
  BY <1>1 DEF TokensOf
<1>4. TokensOf(c) \in [1..Len(c) -> Rows]
  BY <1>3, <1>2
<1> QED
  BY <1>1, <1>3, <1>4, SeqDef, LenProperties

LEMMA TokensGrow ==
    ASSUME NEW c \in Seq(CellSet), NEW d \in CellSet
    PROVE  TokensOf(Append(c, d)) = Append(TokensOf(c), d.tok)
<1>1. Append(c, d) \in Seq(CellSet) /\ Len(Append(c, d)) = Len(c) + 1 /\ Len(c) \in Nat
      /\ Append(c, d)[Len(c) + 1] = d /\ \A i \in 1..Len(c) : Append(c, d)[i] = c[i]
  BY AppendProperties, LenProperties
<1>2. /\ TokensOf(c) \in Seq(Rows) /\ Len(TokensOf(c)) = Len(c)
      /\ \A i \in 1..Len(c) : TokensOf(c)[i] = c[i].tok
  BY TokensOfCells
<1>3. /\ TokensOf(Append(c, d)) \in Seq(Rows) /\ Len(TokensOf(Append(c, d))) = Len(c) + 1
      /\ \A i \in 1..Len(c) + 1 : TokensOf(Append(c, d))[i] = Append(c, d)[i].tok
  BY <1>1, TokensOfCells
<1>4. d.tok \in Rows
  BY DEF CellSet
<1>5. /\ Append(TokensOf(c), d.tok) \in Seq(Rows)
      /\ Len(Append(TokensOf(c), d.tok)) = Len(c) + 1
      /\ Append(TokensOf(c), d.tok)[Len(c) + 1] = d.tok
      /\ \A i \in 1..Len(c) : Append(TokensOf(c), d.tok)[i] = TokensOf(c)[i]
  BY <1>2, <1>4, AppendProperties
<1>6. \A i \in 1..Len(c) + 1 : TokensOf(Append(c, d))[i] = Append(TokensOf(c), d.tok)[i]
  BY <1>1, <1>2, <1>3, <1>5
<1> QED
  BY <1>3, <1>5, <1>6, SeqEqual

LEMMA TokensShrink ==
    ASSUME NEW c \in Seq(CellSet), NEW k \in 0..Len(c)
    PROVE  /\ SubSeq(c, 1, k) \in Seq(CellSet) /\ Len(SubSeq(c, 1, k)) = k
           /\ TokensOf(SubSeq(c, 1, k)) = SubSeq(TokensOf(c), 1, k)
<1>1. Len(c) \in Nat /\ \A i \in 1..k : c[i] \in CellSet
  BY LenProperties, ElementOfSeq
<1>2. /\ SubSeq(c, 1, k) \in Seq(CellSet) /\ Len(SubSeq(c, 1, k)) = k
      /\ \A i \in 1..k : SubSeq(c, 1, k)[i] = c[i]
  BY <1>1, SubSeqProperties
<1>3. /\ TokensOf(c) \in Seq(Rows) /\ Len(TokensOf(c)) = Len(c)
      /\ \A i \in 1..Len(c) : TokensOf(c)[i] = c[i].tok
  BY TokensOfCells
<1>4. /\ TokensOf(SubSeq(c, 1, k)) \in Seq(Rows) /\ Len(TokensOf(SubSeq(c, 1, k))) = k
      /\ \A i \in 1..k : TokensOf(SubSeq(c, 1, k))[i] = SubSeq(c, 1, k)[i].tok
  BY <1>2, TokensOfCells
<1>5. \A i \in 1..k : TokensOf(c)[i] \in Rows
  BY <1>1, <1>3, ElementOfSeq
<1>6. /\ SubSeq(TokensOf(c), 1, k) \in Seq(Rows) /\ Len(SubSeq(TokensOf(c), 1, k)) = k
      /\ \A i \in 1..k : SubSeq(TokensOf(c), 1, k)[i] = TokensOf(c)[i]
  BY <1>1, <1>5, SubSeqProperties
<1>7. \A i \in 1..k : TokensOf(SubSeq(c, 1, k))[i] = SubSeq(TokensOf(c), 1, k)[i]
  BY <1>1, <1>2, <1>3, <1>4, <1>6
<1> QED
  BY <1>2, <1>4, <1>6, <1>7, SeqEqual

-----------------------------------------------------------------------------
(* Every step keeps DecodeInv *)

LEMMA DecodeStarts == ArInit => DecodeInv
<1> SUFFICES ASSUME ArInit PROVE DecodeInv
  OBVIOUS
<1>1. /\ at = "idle" /\ saved = NoSaved /\ cells = << <<>> >>
  BY DEF ArInit
<1>2. CellsFit
  BY <1>1, ArAssumption DEF CellsFit, ArAssumption
<1>3. ~Decoding
  BY <1>1 DEF Decoding, Ended
<1> QED
  BY <1>1, <1>2, <1>3
     DEF DecodeInv, SamplingOK, CompletionOK, RestoreOK, SavedOK, BranchOK

LEMMA BeginKeeps ==
    ASSUME DecodeInv, Begin
    PROVE  DecodeInv'
<1>1. PICK prompt \in Prompts, base \in PrefixRows, steer, sampled, keep \in BOOLEAN :
          /\ run' = [NoRun EXCEPT !.kind = "completion", !.prompt = prompt, !.base = base,
                                  !.steer = steer, !.sampled = sampled, !.keep = keep]
          /\ LET rows == [i \in 1..base |-> Soft] IN
             IF base + Len(prompt) > WindowSize
             THEN /\ at' = "refused" /\ nPast' = 0
                  /\ cells' = << IF base > WindowSize THEN <<>> ELSE Batch(rows, steer) >>
             ELSE /\ at' = "sample" /\ nPast' = base + Len(prompt)
                  /\ cells' = << Batch(rows \o prompt, steer) >>
  BY DEF Begin
<1>2. reply' = << <<>> >> /\ drawsMade' = 0 /\ saved' = saved
  BY DEF Begin
<1>3. /\ prompt \in Seq(Tokens) /\ prompt # <<>> /\ base \in Nat /\ steer \in Steerings
      /\ Len(prompt) \in Nat /\ WindowSize \in Nat
  BY ArAssumption, LenProperties DEF ArAssumption, Tokens, Steerings
<1>4. SavedOK'
  BY <1>2 DEF DecodeInv, SavedOK
<1>5. CASE base + Len(prompt) > WindowSize
  <2>1. at' = "refused" /\ cells' = << IF base > WindowSize THEN <<>>
                                       ELSE Batch(SoftRows(base), steer) >>
    BY <1>1, <1>5 DEF SoftRows
  <2>2. SoftRows(base) \in Seq(Rows) /\ Len(SoftRows(base)) = base
    BY <1>3 DEF SoftRows, Rows
  <2>3. Batch(SoftRows(base), steer) = Uninterrupted(SoftRows(base), base, steer)
    BY <1>3, <2>2, BatchIsCells
  <2>4. Len(Batch(SoftRows(base), steer)) = base
    BY <1>3, <2>2, <2>3, CellsOfText
  <2>5. Len(cells'[1]) <= WindowSize /\ Len(cells') = 1 /\ DOMAIN cells' = 1..1
    BY <1>3, <2>1, <2>4
  <2>6. CellsFit'
    BY <2>1, <2>5 DEF CellsFit
  <2>7. ~Decoding'
    BY <2>1 DEF Decoding, Ended
  <2> QED
    BY <1>4, <2>1, <2>6, <2>7 DEF DecodeInv, SamplingOK, CompletionOK, RestoreOK, BranchOK
<1>6. CASE ~(base + Len(prompt) > WindowSize)
  <2> DEFINE t == SoftRows(base) \o prompt
  <2>1. at' = "sample" /\ nPast' = base + Len(prompt) /\ cells' = << Batch(t, steer) >>
    BY <1>1, <1>6 DEF SoftRows
  <2>2. t \in Seq(Rows) /\ Len(t) = base + Len(prompt) /\ t \o <<>> = t
    BY <1>3, TextTyped, ConcatEmptySeq
  <2>3. /\ run'.kind = "completion" /\ run'.prompt = prompt /\ run'.base = base
        /\ run'.steer = steer /\ ~run'.resumes
    BY <1>1 DEF NoRun
  <2> HIDE DEF t
  <2>4. Batch(t, steer) = Uninterrupted(t, base + Len(prompt), steer)
    BY <1>3, <2>2, BatchIsCells
  <2>5. Batch(t, steer) \in Seq(CellSet) /\ Len(Batch(t, steer)) = base + Len(prompt)
    BY <1>3, <2>2, <2>4, CellsOfText
  <2>6. RunText' = t
    BY <1>2, <2>2, <2>3 DEF RunText, t
  <2>7. cells'[1] = Batch(t, steer) /\ reply'[1] = <<>> /\ Len(<<>>) = 0 /\ <<>> \in Seq(Tokens)
    BY <1>2, <2>1
  <2>8. ~BrokenOff' /\ ~(at = "eos")'
    BY <2>1 DEF BrokenOff
  <2>9. SamplingOK'
    BY <1>2, <1>3, <1>6, <2>1, <2>3, <2>5, <2>7, <2>8 DEF SamplingOK
  <2>10. CompletionOK'
    BY <1>2, <2>3, <2>4, <2>6, <2>7, <2>8 DEF CompletionOK
  <2>11. CellsFit'
    BY <1>3, <1>6, <2>1, <2>5 DEF CellsFit
  <2> QED
    BY <1>4, <2>1, <2>3, <2>9, <2>10, <2>11 DEF DecodeInv, RestoreOK, BranchOK
<1> QED
  BY <1>5, <1>6

\* A token is drawn.
LEMMA SampleKeeps ==
    ASSUME DecodeInv, Sample
    PROVE  DecodeInv'
<1>1. at = "sample" /\ nPast < WindowSize /\ run' = run /\ saved' = saved
  BY DEF Sample, Room
<1>2. Decoding /\ ~BrokenOff /\ at # "eos"
  BY <1>1 DEF Decoding, BrokenOff
<1>3. nPast \in Nat /\ WindowSize \in Nat
  BY <1>2, ArAssumption DEF DecodeInv, SamplingOK, ArAssumption
<1>4. PICK tok \in Tokens :
          /\ reply' = << Append(reply[1], tok) >>
          /\ drawsMade' = IF run.sampled THEN drawsMade + 1 ELSE drawsMade
          /\ \/ /\ at' \in {"stop", "diverged"}
                /\ UNCHANGED <<cells, nPast>>
             \/ /\ cells' = << Append(cells[1], Cell(tok, "single")) >>
                /\ nPast' = nPast + 1
                /\ at' = IF tok = Stop THEN "eos" ELSE "sample"
  BY <1>1, <1>3 DEF Sample
<1> DEFINE p == run.prompt
           r == reply[1]
           c == cells[1]
           d == Cell(tok, "single")
           b == run.base + Len(p)
<1>5. /\ run.kind \in {"completion", "restore"}
      /\ p \in Seq(Tokens) /\ p # <<>> /\ run.base \in Nat /\ run.steer \in Steerings
      /\ r \in Seq(Tokens) /\ cells = << c >> /\ c \in Seq(CellSet)
      /\ nPast \in Nat /\ Len(c) = nPast /\ WindowSize \in Nat /\ drawsMade \in Nat
  BY <1>2, ArAssumption DEF DecodeInv, SamplingOK, ArAssumption
<1>6. /\ RunText \in Seq(Rows) /\ Len(RunText) = run.base + Len(p) + Len(r)
      /\ SoftRows(run.base) \o p \in Seq(Rows) /\ Len(p) \in Nat /\ Len(r) \in Nat
      /\ r \in Seq(Rows) /\ tok \in Rows
  BY <1>5, TextTyped, LenProperties, SeqMonotonic DEF RunText, Rows
<1>7. /\ reply' = << Append(r, tok) >> /\ reply'[1] = Append(r, tok)
      /\ Append(r, tok) \in Seq(Tokens) /\ Append(r, tok) # <<>>
      /\ Len(Append(r, tok)) = Len(r) + 1
  BY <1>4, <1>5, AppendProperties, SMTT(30)
<1>8. /\ RunText' = Append(RunText, tok)
      /\ RunText = SubSeq(RunText', 1, Len(RunText') - 1)
  <2> DEFINE f == SoftRows(run.base) \o p
  <2>1. RunText' = f \o Append(r, tok) /\ RunText = f \o r /\ f \in Seq(Rows)
    BY <1>1, <1>6, <1>7 DEF RunText
  <2> HIDE DEF f
  <2>2. f \o Append(r, tok) = Append(f \o r, tok)
    BY <1>6, <2>1, TextGrows, SMTT(30)
  <2>3. f \o r = SubSeq(Append(f \o r, tok), 1, Len(Append(f \o r, tok)) - 1)
    BY <1>6, <2>1, TextGrows
  <2> QED
    BY <2>1, <2>2, <2>3
<1>9. /\ d \in CellSet /\ d.tok = tok
      /\ d = [tok |-> tok, how |-> "single", steer |-> run.steer]
      /\ Append(c, d) \in Seq(CellSet) /\ Len(Append(c, d)) = nPast + 1
  BY <1>5, <1>6, AppendProperties DEF Cell, CellSet
<1>10. drawsMade' \in Nat /\ (run.sampled => drawsMade' = drawsMade + 1)
  BY <1>4, <1>5
<1>11. SavedOK'
  BY <1>1 DEF DecodeInv, SavedOK
<1>12. CASE at' \in {"stop", "diverged"} /\ UNCHANGED <<cells, nPast>>
  <2>1. BrokenOff' /\ Decoding' /\ at' \notin {"sample", "eos", "branch", "joining", "overflow"}
    BY <1>12 DEF BrokenOff, Decoding, Ended
  <2>2. SamplingOK'
    BY <1>1, <1>5, <1>7, <1>10, <1>12 DEF SamplingOK
  <2>3. CompletionOK'
    BY <1>1, <1>2, <1>7, <1>8, <1>10, <1>12, <2>1, <1>5, <1>6 DEF DecodeInv, CompletionOK
  <2>4. RestoreOK'
    BY <1>1, <1>2, <1>5, <1>6, <1>7, <1>10, <2>1, <1>11, SMTT(30)
       DEF DecodeInv, RestoreOK, SavedOK
  <2>5. CellsFit'
    BY <1>12, <2>1 DEF DecodeInv, CellsFit
  <2> QED
    BY <1>11, <2>1, <2>2, <2>3, <2>4, <2>5 DEF DecodeInv, BranchOK
<1>13. CASE /\ cells' = << Append(c, d) >> /\ nPast' = nPast + 1
            /\ at' = IF tok = Stop THEN "eos" ELSE "sample"
  <2>1. ~BrokenOff' /\ at' \in {"eos", "sample"} /\ Decoding'
    BY <1>13 DEF BrokenOff, Decoding, Ended
  <2>2. SamplingOK'
    BY <1>1, <1>5, <1>7, <1>9, <1>10, <1>13, <2>1, SMTT(30) DEF SamplingOK
  <2>3. ASSUME run.kind = "completion"
        PROVE  Append(c, d) = Uninterrupted(RunText', b, run.steer)
    <3>1. c = Uninterrupted(RunText, b, run.steer)
      BY <1>2, <2>3 DEF DecodeInv, CompletionOK
    <3>2. b \in Nat /\ b <= Len(RunText)
      BY <1>5, <1>6
    <3>3. Append(Uninterrupted(RunText, b, run.steer),
                 [tok |-> tok, how |-> "single", steer |-> run.steer])
            = Uninterrupted(Append(RunText, tok), b, run.steer)
      BY <1>5, <1>6, <3>2, CellsGrow
    <3>4. Append(c, d) = Append(Uninterrupted(RunText, b, run.steer),
                                [tok |-> tok, how |-> "single", steer |-> run.steer])
      BY <1>9, <3>1
    <3> HIDE DEF b, c, d
    <3> QED
      BY <1>8, <3>3, <3>4
  <2>4. CompletionOK'
    BY <1>1, <1>2, <1>5, <1>6, <1>7, <1>10, <1>13, <2>1, <2>3 DEF DecodeInv, CompletionOK
  <2>5. ASSUME TokensOf(c) = RunText PROVE TokensOf(Append(c, d)) = RunText'
    BY <1>5, <1>8, <1>9, <2>5, TokensGrow
  <2>6. TokensOf(cells'[1]) = TokensOf(Append(c, d))
    BY <1>13
  <2>7. RestoreOK'
    BY <1>1, <1>2, <1>5, <1>6, <1>7, <1>10, <1>11, <2>1, <2>5, <2>6, SMTT(30)
       DEF DecodeInv, RestoreOK, SavedOK
  <2>8. CellsFit'
    BY <1>1, <1>5, <1>9, <1>13, <2>1 DEF CellsFit
  <2> QED
    BY <1>11, <2>1, <2>2, <2>4, <2>7, <2>8 DEF DecodeInv, BranchOK
<1> QED
  BY <1>4, <1>12, <1>13

LEMMA LengthStopKeeps ==
    ASSUME DecodeInv, LengthStop
    PROVE  DecodeInv'
<1>1. /\ at = "sample" /\ at' = "length"
      /\ UNCHANGED <<run, reply, cells, nPast, saved, drawsMade>>
  BY DEF LengthStop
<1>2. Decoding /\ Decoding' /\ ~BrokenOff /\ ~BrokenOff' /\ RunText' = RunText
  BY <1>1 DEF Decoding, BrokenOff, Ended, RunText
<1>3. SamplingOK'
  BY <1>1, <1>2 DEF DecodeInv, SamplingOK
<1>4. CompletionOK'
  BY <1>1, <1>2 DEF DecodeInv, CompletionOK
<1>5. RestoreOK'
  BY <1>1, <1>2 DEF DecodeInv, RestoreOK
<1>6. SavedOK' /\ CellsFit'
  BY <1>1 DEF DecodeInv, SavedOK, CellsFit
<1> QED
  BY <1>1, <1>3, <1>4, <1>5, <1>6 DEF DecodeInv, BranchOK

LEMMA ReturnKeeps ==
    ASSUME DecodeInv, Return
    PROVE  DecodeInv'
<1>1. at' = "idle" /\ UNCHANGED <<cells, saved>>
  BY DEF Return
<1>2. ~Decoding'
  BY <1>1 DEF Decoding, Ended
<1>3. SavedOK' /\ CellsFit'
  BY <1>1 DEF DecodeInv, SavedOK, CellsFit
<1> QED
  BY <1>1, <1>2, <1>3 DEF DecodeInv, SamplingOK, CompletionOK, RestoreOK, BranchOK

\* Cells whose last one is decoded anew.
LEMMA TopCells ==
    ASSUME NEW c \in Seq(CellSet), NEW t \in Seq(Tokens), t # <<>>, Len(t) - 1 <= Len(c),
           NEW s \in Steerings
    PROVE  LET f == SubSeq(c, 1, Len(t) - 1)
               k == Append(f, [tok |-> t[Len(t)], how |-> "single", steer |-> s])
           IN  /\ k \in Seq(CellSet) /\ Len(k) = Len(t)
               /\ TokensOf(f) = SubSeq(t, 1, Len(t) - 1) => TokensOf(k) = t
<1> DEFINE n == Len(t)
           d == [tok |-> t[n], how |-> "single", steer |-> s]
           f == SubSeq(c, 1, n - 1)
           g == SubSeq(t, 1, n - 1)
           k == Append(f, d)
<1>1. t \in Seq(Rows)
  BY SeqMonotonic DEF Rows
<1>2. /\ n \in Nat \ {0} /\ t[n] \in Rows
      /\ Append(g, t[n]) = t /\ g \in Seq(Rows) /\ Len(g) = n - 1
  BY <1>1, LastAgain
<1>3. n - 1 \in 0..Len(c) /\ Len(c) \in Nat
  BY <1>2, LenProperties
<1>4. f \in Seq(CellSet) /\ Len(f) = n - 1
  BY <1>3, FirstOf
<1>5. d \in CellSet /\ d.tok = t[n]
  BY <1>2 DEF CellSet
<1> HIDE DEF d, f, g, n
<1>6. k \in Seq(CellSet) /\ Len(k) = n
  BY <1>2, <1>4, <1>5, AppendProperties
<1>7. TokensOf(f) = g => TokensOf(k) = t
  BY <1>2, <1>4, <1>5, TokensGrow
<1> QED
  BY <1>6, <1>7 DEF d, f, g, n

LEMMA TopOfUninterrupted ==
    ASSUME NEW t \in Seq(Tokens), t # <<>>, NEW s \in Steerings,
           NEW p \in Nat, p <= Len(t) - 1
    PROVE  Append(Uninterrupted(SubSeq(t, 1, Len(t) - 1), p, s),
                  [tok |-> t[Len(t)], how |-> "single", steer |-> s])
             = Uninterrupted(t, p, s)
<1> DEFINE n == Len(t)
           g == SubSeq(t, 1, n - 1)
<1>1. t \in Seq(Rows)
  BY SeqMonotonic DEF Rows
<1>2. /\ n \in Nat \ {0} /\ t[n] \in Rows
      /\ Append(g, t[n]) = t /\ g \in Seq(Rows) /\ Len(g) = n - 1
  BY <1>1, LastAgain
<1> HIDE DEF g, n
<1>3. p <= Len(g)
  BY <1>2 DEF n
<1>4. Append(Uninterrupted(g, p, s), [tok |-> t[n], how |-> "single", steer |-> s])
        = Uninterrupted(Append(g, t[n]), p, s)
  BY <1>2, <1>3, CellsGrow
<1> QED
  BY <1>2, <1>4 DEF g, n

\* What a completion leaves when it ends.
LEMMA SaveKeeps ==
    ASSUME DecodeInv, SaveOnFinish
    PROVE  DecodeInv'
<1> DEFINE p == run.prompt
           r == reply[1]
           c == cells[1]
           t == p \o r
           n == Len(t)
           f == SubSeq(c, 1, n - 1)
           g == SubSeq(t, 1, n - 1)
           k == Append(f, [tok |-> t[n], how |-> "single", steer |-> run.steer])
<1>1. /\ at \in Ended /\ run.kind = "completion" /\ at' = "answered"
      /\ cells' = << k >>
      /\ saved' = [tokens |-> t, nPast |-> n, kv |-> k,
                   steer |-> run.steer, hasSampler |-> run.sampled,
                   draws |-> IF run.sampled THEN NewTokens ELSE 0,
                   onFinish |-> TRUE, prompt |-> Len(p), base |-> run.base,
                   reason |-> at, truly |-> drawsMade]
  BY DEF SaveOnFinish, TopUp, Cell, Last
<1>2. Decoding /\ ~Decoding'
  BY <1>1 DEF Decoding, Ended
<1>3. /\ p \in Seq(Tokens) /\ p # <<>> /\ run.base \in Nat /\ run.steer \in Steerings
      /\ r \in Seq(Tokens) /\ c \in Seq(CellSet)
      /\ nPast \in Nat /\ Len(c) = nPast /\ nPast <= WindowSize
      /\ BrokenOff => nPast < WindowSize
      /\ at = "eos" => r # <<>>
      /\ WindowSize \in Nat /\ drawsMade \in Nat
  BY <1>2, ArAssumption DEF DecodeInv, SamplingOK, ArAssumption
<1>4. /\ run.sampled => drawsMade = Len(r)
      /\ ~BrokenOff => c = Uninterrupted(RunText, run.base + Len(p), run.steer)
      /\ BrokenOff => c = Uninterrupted(SubSeq(RunText, 1, Len(RunText) - 1),
                                        run.base + Len(p), run.steer)
  BY <1>1, <1>2 DEF DecodeInv, CompletionOK
<1>5. /\ t \in Seq(Tokens) /\ n = Len(p) + Len(r) /\ Len(p) \in Nat \ {0} /\ Len(r) \in Nat
      /\ t # <<>> /\ (r # <<>> => Len(r) > 0)
  BY <1>3, ConcatProperties, EmptySeq, LenProperties
<1> DEFINE x == RunText
           w == SubSeq(x, 1, Len(x) - 1)
           b == run.base
<1>6. /\ x \in Seq(Rows) /\ Len(x) = b + n /\ b \in Nat
      /\ b = 0 => x = t
  <2>1. x = (SoftRows(b) \o p) \o r
    BY DEF RunText
  <2>2. b \in Nat /\ p \in Seq(Tokens) /\ r \in Seq(Tokens)
    BY <1>3
  <2> HIDE DEF x, p, r, n, b
  <2>3. /\ (SoftRows(b) \o p) \o r \in Seq(Rows)
        /\ Len((SoftRows(b) \o p) \o r) = b + Len(p) + Len(r)
        /\ b = 0 => (SoftRows(b) \o p) \o r = p \o r
    BY <2>2, TextTyped
  <2>4. b + Len(p) + Len(r) = b + n
    BY <1>5, <2>2
  <2> QED
    BY <2>1, <2>2, <2>3, <2>4 DEF t
<1> HIDE DEF n, f, g, k, t, x, w, b, p, r, c
<1>7. x # <<>>
  BY <1>5, <1>6, EmptySeq
<1>8. Len(c) = IF BrokenOff THEN b + n - 1 ELSE b + n
  <2>1. w \in Seq(Rows) /\ Len(w) = b + n - 1
    <3>1. w \in Seq(Rows) /\ Len(w) = Len(x) - 1
      BY <1>6, <1>7, LastAgain DEF w
    <3> QED
      BY <1>5, <1>6, <3>1
  <2>2. b + Len(p) \in Nat
    BY <1>5, <1>6
  <2>3. CASE BrokenOff
    <3>1. c = Uninterrupted(w, b + Len(p), run.steer)
      BY <1>4, <2>3 DEF x, w, b
    <3> QED
      BY <1>3, <2>1, <2>2, <2>3, <3>1, CellsOfText
  <2>4. CASE ~BrokenOff
    <3>1. c = Uninterrupted(x, b + Len(p), run.steer)
      BY <1>4, <2>4 DEF x, b
    <3> QED
      BY <1>3, <1>6, <2>2, <2>4, <3>1, CellsOfText
  <2> QED
    BY <2>3, <2>4
<1>9. n - 1 <= Len(c) /\ n - 1 \in 0..Len(c) /\ n <= WindowSize
  <2>1. n \in Nat \ {0} /\ b \in Nat /\ WindowSize \in Nat
    BY <1>3, <1>5, <1>6
  <2>2. CASE BrokenOff
    <3>1. Len(c) = b + n - 1 /\ Len(c) < WindowSize
      BY <1>3, <1>8, <2>2
    <3> QED
      BY <2>1, <3>1
  <2>3. CASE ~BrokenOff
    <3>1. Len(c) = b + n /\ Len(c) <= WindowSize
      BY <1>3, <1>8, <2>3
    <3> QED
      BY <2>1, <3>1
  <2> QED
    BY <2>2, <2>3
<1>10. /\ k \in Seq(CellSet) /\ Len(k) = n
       /\ TokensOf(f) = g => TokensOf(k) = t
  <2>1. /\ t \in Seq(Tokens) /\ t # <<>> /\ Len(t) - 1 <= Len(c)
        /\ c \in Seq(CellSet) /\ run.steer \in Steerings
    BY <1>3, <1>5, <1>9 DEF n
  <2> QED
    BY <2>1, TopCells DEF f, g, k, n
<1>11. ASSUME b = 0 PROVE f = Uninterrupted(g, Len(p), run.steer)
  <2>1. x = t /\ b + Len(p) = Len(p) /\ t \in Seq(Rows) /\ Len(t) = n
    BY <1>5, <1>6, <1>11 DEF n
  <2>2. CASE BrokenOff
    <3>1. c = Uninterrupted(w, Len(p), run.steer) /\ w = g /\ Len(c) = n - 1
      BY <1>4, <1>5, <1>8, <1>11, <2>1, <2>2 DEF g, w, b, x
    <3>2. f = c
      BY <1>3, <3>1, SubSeqFull DEF f
    <3> QED
      BY <3>1, <3>2
  <2>3. CASE ~BrokenOff
    <3>1. c = Uninterrupted(t, Len(p), run.steer)
      BY <1>4, <2>1, <2>3 DEF x, b
    <3>2. n - 1 \in 0..Len(t)
      BY <1>5, <2>1
    <3>3. SubSeq(Uninterrupted(t, Len(p), run.steer), 1, n - 1)
            = Uninterrupted(SubSeq(t, 1, n - 1), Len(p), run.steer)
      BY <1>3, <1>5, <2>1, <3>2, CellsShrink
    <3> QED
      BY <3>1, <3>3 DEF f, g
  <2> QED
    BY <2>2, <2>3
<1>12. ASSUME b = 0 PROVE TokensOf(f) = g
  <2>1. g \in Seq(Rows)
    <3>1. g \in Seq(Tokens)
      BY <1>5, LastAgain DEF g, n
    <3> QED
      BY <3>1, SeqMonotonic DEF Rows
  <2> QED
    BY <1>3, <1>5, <1>11, <1>12, <2>1, CellsOfText
<1>13. ASSUME b = 0, n > Len(p) PROVE k = Uninterrupted(t, Len(p), run.steer)
  <2>1. Len(p) <= Len(t) - 1 /\ Len(p) \in Nat
    BY <1>5, <1>13 DEF n
  <2>2. Append(Uninterrupted(SubSeq(t, 1, Len(t) - 1), Len(p), run.steer),
               [tok |-> t[Len(t)], how |-> "single", steer |-> run.steer])
          = Uninterrupted(t, Len(p), run.steer)
    BY <1>3, <1>5, <2>1, TopOfUninterrupted
  <2>3. f = Uninterrupted(g, Len(p), run.steer)
    BY <1>11, <1>13
  <2>4. k = Append(f, [tok |-> t[Len(t)], how |-> "single", steer |-> run.steer])
    BY DEF k, n
  <2>5. g = SubSeq(t, 1, Len(t) - 1)
    BY DEF g, n
  <2> QED
    BY <2>2, <2>3, <2>4, <2>5
<1>14. NewTokens \in Nat /\ (at # "eos" => NewTokens = Len(r))
  BY <1>3, <1>5 DEF NewTokens, r
<1>15. SavedOK'
  <2>1. n \in 0..n /\ n = Len(t)
    BY <1>5 DEF n
  <2> QED
    BY <1>1, <1>3, <1>4, <1>5, <1>9, <1>10, <1>12, <1>13, <1>14, <2>1 DEF SavedOK, b
<1>16. CellsFit'
  BY <1>1, <1>9, <1>10 DEF CellsFit
<1> QED
  BY <1>1, <1>2, <1>15, <1>16 DEF DecodeInv, SamplingOK, CompletionOK, RestoreOK, BranchOK

LEMMA CheckpointKeeps ==
    ASSUME DecodeInv, Checkpoint
    PROVE  DecodeInv'
<1>1. PICK tokens \in Prompts, steer \in BOOLEAN : \E prefill \in 1..Len(tokens) :
          /\ Len(tokens) <= WindowSize
          /\ cells' = << [i \in DOMAIN tokens |->
                            [tok |-> tokens[i], how |-> IF i <= prefill THEN "batch" ELSE "single",
                             steer |-> steer]] >>
          /\ \E past \in 0..Len(tokens) :
                saved' = [NoSaved EXCEPT !.tokens = tokens, !.nPast = past,
                                         !.kv = cells'[1], !.steer = steer, !.prompt = prefill]
  BY DEF Checkpoint
<1>2. PICK prefill \in 1..Len(tokens) :
          /\ Len(tokens) <= WindowSize
          /\ cells' = << [i \in DOMAIN tokens |->
                            [tok |-> tokens[i], how |-> IF i <= prefill THEN "batch" ELSE "single",
                             steer |-> steer]] >>
          /\ \E past \in 0..Len(tokens) :
                saved' = [NoSaved EXCEPT !.tokens = tokens, !.nPast = past,
                                         !.kv = cells'[1], !.steer = steer, !.prompt = prefill]
  BY <1>1
<1>3. PICK past \in 0..Len(tokens) :
          saved' = [NoSaved EXCEPT !.tokens = tokens, !.nPast = past,
                                   !.kv = cells'[1], !.steer = steer, !.prompt = prefill]
  BY <1>2
<1>4. at = "idle" /\ at' = "idle"
  BY DEF Checkpoint
<1>5. /\ tokens \in Seq(Tokens) /\ tokens # <<>> /\ tokens \in Seq(Rows)
      /\ Len(tokens) \in Nat /\ WindowSize \in Nat /\ steer \in Steerings /\ prefill \in Nat
  <2>1. tokens \in Seq(Tokens) /\ tokens # <<>>
    BY ArAssumption DEF ArAssumption, Tokens
  <2> QED
    BY <2>1, ArAssumption, SeqMonotonic, LenProperties DEF ArAssumption, Rows, Steerings
<1> DEFINE u == Uninterrupted(tokens, prefill, steer)
<1>6. cells' = << u >> /\ Len(tokens) <= WindowSize
  BY <1>2 DEF Uninterrupted
<1>7. u \in Seq(CellSet) /\ Len(u) = Len(tokens) /\ TokensOf(u) = tokens
  BY <1>5, CellsOfText
<1> HIDE DEF u
<1>8. /\ saved'.tokens = tokens /\ saved'.nPast = past /\ saved'.kv = u
      /\ saved'.steer = steer /\ saved'.draws = 0 /\ ~saved'.onFinish /\ ~saved'.hasSampler
  BY <1>3, <1>6 DEF NoSaved
<1>9. SavedOK'
  BY <1>5, <1>6, <1>7, <1>8 DEF SavedOK
<1>10. CellsFit'
  BY <1>4, <1>5, <1>6, <1>7 DEF CellsFit
<1>11. ~Decoding'
  BY <1>4 DEF Decoding, Ended
<1> QED
  BY <1>4, <1>9, <1>10, <1>11 DEF DecodeInv, SamplingOK, CompletionOK, RestoreOK, BranchOK

LEMMA RestoreKeeps ==
    ASSUME DecodeInv, Restore
    PROVE  DecodeInv'
<1> DEFINE t == saved.tokens
           k == saved.nPast
           n == Len(t)
<1>1. saved # NoSaved /\ at = "idle" /\ reply' = << <<>> >> /\ saved' = saved
  BY DEF Restore
<1>2. PICK fast \in BOOLEAN, own \in BOOLEAN :
          /\ run' = [NoRun EXCEPT !.kind = "restore", !.prompt = saved.tokens,
                                  !.steer = saved.steer, !.fast = fast,
                                  !.sampled = saved.hasSampler \/ own,
                                  !.resumes = saved.hasSampler /\ ~own]
          /\ drawsMade' = IF saved.hasSampler /\ ~own THEN saved.draws ELSE 0
          /\ \/ /\ fast /\ saved.nPast >= 1
                /\ cells' = << Bridge >> /\ nPast' = saved.nPast /\ at' = "sample"
             \/ /\ fast /\ saved.nPast < 1
                /\ at' = "refused" /\ UNCHANGED <<cells, nPast>>
             \/ /\ ~fast
                /\ cells' = << Batch(saved.tokens, saved.steer) >>
                /\ nPast' = Len(saved.tokens) /\ at' = "sample"
  BY DEF Restore
<1>3. /\ t \in Seq(Tokens) /\ t # <<>> /\ n <= WindowSize
      /\ saved.kv \in Seq(CellSet) /\ Len(saved.kv) = n
      /\ k \in 0..n /\ saved.steer \in Steerings /\ saved.draws \in Nat
      /\ saved.base = 0 => TokensOf(saved.kv) = t
      /\ saved.onFinish => k = n
      /\ saved.onFinish /\ saved.base = 0 /\ n > saved.prompt
         => /\ saved.prompt \in Nat
            /\ saved.kv = Uninterrupted(t, saved.prompt, saved.steer)
  BY <1>1 DEF DecodeInv, SavedOK
<1>4. t \in Seq(Rows) /\ n \in Nat /\ WindowSize \in Nat
  BY <1>3, ArAssumption, SeqMonotonic, LenProperties DEF Rows, ArAssumption
<1>5. SavedOK'
  BY <1>1 DEF DecodeInv, SavedOK
<1>6. /\ run'.kind = "restore" /\ run'.prompt = t /\ run'.base = 0 /\ run'.steer = saved.steer
      /\ run'.fast = fast /\ run'.sampled = (saved.hasSampler \/ own)
      /\ run'.resumes = (saved.hasSampler /\ ~own)
  BY <1>2 DEF NoRun
<1>7. /\ reply'[1] = <<>> /\ reply' = << reply'[1] >> /\ <<>> \in Seq(Tokens) /\ Len(<<>>) = 0
      /\ drawsMade' \in Nat
      /\ run'.resumes => /\ run'.sampled /\ saved.hasSampler
                         /\ drawsMade' = saved.draws + Len(reply'[1])
  <2>1. reply'[1] = <<>> /\ reply' = << reply'[1] >> /\ <<>> \in Seq(Tokens) /\ Len(<<>>) = 0
    BY <1>1
  <2>2. drawsMade' \in Nat
    BY <1>2, <1>3
  <2>3. ASSUME run'.resumes
        PROVE  run'.sampled /\ saved.hasSampler /\ drawsMade' = saved.draws
    BY <1>2, <1>6, <2>3
  <2> QED
    BY <1>3, <2>1, <2>2, <2>3
<1>8. RunText' = t
  <2>1. RunText' = (SoftRows(0) \o t) \o <<>>
    BY <1>6, <1>7 DEF RunText
  <2> HIDE DEF t
  <2>2. (SoftRows(0) \o t) \o <<>> = t \o <<>>
    <3>1. t \in Seq(Tokens) /\ <<>> \in Seq(Tokens) /\ 0 \in Nat
      BY <1>3, <1>7
    <3> QED
      BY <3>1, TextTyped, Zenon
  <2>3. t \o <<>> = t
    BY <1>3, ConcatEmptySeq
  <2> QED
    BY <2>1, <2>2, <2>3
<1> HIDE DEF t, k, n
<1>9. CASE at' = "refused" /\ UNCHANGED <<cells, nPast>>
  <2>1. ~Decoding' /\ CellsFit'
    BY <1>9 DEF Decoding, Ended, DecodeInv, CellsFit
  <2> QED
    BY <1>5, <1>9, <2>1 DEF DecodeInv, SamplingOK, CompletionOK, RestoreOK, BranchOK
\* What is left to show is what is in the cache.
<1>10. ASSUME NEW c, c \in Seq(CellSet), Len(c) = nPast', nPast' \in Nat, nPast' <= WindowSize,
              cells' = << c >>, at' = "sample",
              saved.base = 0 /\ k = n => TokensOf(c) = t,
              fast /\ saved.onFinish /\ saved.base = 0 /\ n > saved.prompt
                => c = Uninterrupted(t, saved.prompt, saved.steer)
       PROVE  DecodeInv'
  <2>1. ~BrokenOff' /\ cells'[1] = c
    BY <1>10 DEF BrokenOff
  <2>2. SamplingOK'
    BY <1>3, <1>6, <1>7, <1>10, <2>1 DEF SamplingOK
  <2>3. RestoreOK'
    BY <1>1, <1>6, <1>7, <1>8, <1>10, <2>1 DEF RestoreOK, t, k, n
  <2>4. CellsFit'
    BY <1>10 DEF CellsFit
  <2> QED
    BY <1>5, <1>6, <1>10, <2>2, <2>3, <2>4 DEF DecodeInv, CompletionOK, BranchOK
<1>11. CASE /\ fast /\ k >= 1
            /\ cells' = << Bridge >> /\ nPast' = k /\ at' = "sample"
  <2> DEFINE e == SubSeq(t, 1, k)
             f == SubSeq(saved.kv, 1, k - 1)
             g == SubSeq(t, 1, k - 1)
  <2>1. /\ e \in Seq(Tokens) /\ Len(e) = k /\ e # <<>>
        /\ \A i \in 1..k : e[i] = t[i]
    <3>1. k \in 0..Len(t)
      BY <1>3 DEF n
    <3>2. /\ e \in Seq(Tokens) /\ Len(e) = k /\ \A i \in 1..k : e[i] = t[i]
      BY <1>3, <3>1, FirstOf
    <3> HIDE DEF e
    <3> QED
      BY <1>11, <3>2, EmptySeq
  <2>2. k \in 1..n /\ e[k] = t[k] /\ k - 1 \in 0..n /\ k - 1 \in 0..Len(t)
    BY <1>3, <1>4, <1>11, <2>1 DEF n
  <2>3. SubSeq(e, 1, k - 1) = g
    <3>1. k - 1 \in 0..Len(e)
      BY <2>1, <2>2
    <3>2. /\ SubSeq(e, 1, k - 1) \in Seq(Tokens) /\ Len(SubSeq(e, 1, k - 1)) = k - 1
          /\ \A i \in 1..k - 1 : SubSeq(e, 1, k - 1)[i] = e[i]
      BY <2>1, <3>1, FirstOf
    <3>3. /\ g \in Seq(Tokens) /\ Len(g) = k - 1 /\ \A i \in 1..k - 1 : g[i] = t[i]
      BY <1>3, <2>2, FirstOf
    <3> HIDE DEF e, g
    <3>4. \A i \in 1..k - 1 : SubSeq(e, 1, k - 1)[i] = g[i]
      BY <2>1, <2>2, <3>2, <3>3
    <3> QED
      BY <3>2, <3>3, <3>4, SeqEqual
  <2>4. Bridge = Append(f, [tok |-> e[k], how |-> "single", steer |-> saved.steer])
    BY <2>2 DEF Bridge, t, k
  <2> HIDE DEF e, f, g
  <2>5. /\ Bridge \in Seq(CellSet) /\ Len(Bridge) = k
        /\ TokensOf(f) = g => TokensOf(Bridge) = e
    <3>1. Len(e) - 1 <= Len(saved.kv)
      BY <1>3, <1>4, <2>1, <2>2
    <3>2. LET h == SubSeq(saved.kv, 1, Len(e) - 1)
              m == Append(h, [tok |-> e[Len(e)], how |-> "single", steer |-> saved.steer])
          IN  /\ m \in Seq(CellSet) /\ Len(m) = Len(e)
              /\ TokensOf(h) = SubSeq(e, 1, Len(e) - 1) => TokensOf(m) = e
      BY <1>3, <2>1, <3>1, TopCells
    <3> QED
      BY <2>1, <2>3, <2>4, <3>2 DEF f
  <2>6. ASSUME saved.base = 0, k = n PROVE TokensOf(Bridge) = t
    <3>1. e = t
      BY <1>3, <2>6, SubSeqFull DEF e, n
    <3>2. k - 1 \in 0..Len(saved.kv)
      BY <1>3, <2>2
    <3>3. TokensOf(f) = SubSeq(TokensOf(saved.kv), 1, k - 1)
      BY <1>3, <3>2, TokensShrink DEF f
    <3> QED
      BY <1>3, <2>5, <2>6, <3>1, <3>3 DEF g
  <2>7. ASSUME saved.onFinish, saved.base = 0, n > saved.prompt
        PROVE  Bridge = Uninterrupted(t, saved.prompt, saved.steer)
    <3>1. /\ k = n /\ saved.prompt \in Nat /\ saved.prompt <= Len(t) - 1
          /\ saved.kv = Uninterrupted(t, saved.prompt, saved.steer)
      BY <1>3, <1>4, <2>7 DEF n
    <3>2. e = t
      BY <1>3, <3>1, SubSeqFull DEF e, n
    <3>3. f = Uninterrupted(SubSeq(t, 1, k - 1), saved.prompt, saved.steer)
      BY <1>3, <1>4, <2>2, <3>1, CellsShrink DEF f
    <3>4. Append(Uninterrupted(SubSeq(t, 1, Len(t) - 1), saved.prompt, saved.steer),
                 [tok |-> t[Len(t)], how |-> "single", steer |-> saved.steer])
            = Uninterrupted(t, saved.prompt, saved.steer)
      BY <1>3, <3>1, TopOfUninterrupted
    <3>5. k = Len(t)
      BY <3>1 DEF n
    <3> QED
      BY <2>4, <3>2, <3>3, <3>4, <3>5
  <2>8. nPast' = k /\ k \in Nat /\ k <= WindowSize
    BY <1>3, <1>4, <1>11, <2>2
  <2> QED
    BY <1>10, <1>11, <2>5, <2>6, <2>7, <2>8
<1>12. CASE /\ ~fast /\ cells' = << Batch(t, saved.steer) >>
            /\ nPast' = n /\ at' = "sample"
  <2>1. Batch(t, saved.steer) = Uninterrupted(t, n, saved.steer)
    BY <1>3, <1>4, BatchIsCells DEF n
  <2>2. /\ Batch(t, saved.steer) \in Seq(CellSet) /\ Len(Batch(t, saved.steer)) = n
        /\ TokensOf(Batch(t, saved.steer)) = t
    BY <1>3, <1>4, <2>1, CellsOfText DEF n
  <2> QED
    BY <1>3, <1>4, <1>10, <1>12, <2>2
<1> QED
  BY <1>2, <1>9, <1>11, <1>12 DEF t, k, n

\* Branches begin with the text of the checkpoint.
LEMMA BranchKeeps ==
    ASSUME DecodeInv, Branch
    PROVE  DecodeInv'
<1> DEFINE t == saved.tokens
           n == Len(t)
           off == FALSE
           c == Batch(t, off)
<1>1. /\ saved # NoSaved /\ saved' = saved /\ nPast' = n
      /\ run' = [NoRun EXCEPT !.kind = "branch", !.prompt = t, !.sampled = TRUE]
      /\ reply' = [i \in 1..Branches |-> <<>>]
      /\ IF n >= WindowSize
         THEN at' = "answered" /\ cells' = << c >>
         ELSE at' = "branch" /\ cells' = [i \in 1..Branches |-> c]
  BY DEF Branch
<1>2. t \in Seq(Tokens) /\ n <= WindowSize
  BY <1>1 DEF DecodeInv, SavedOK
<1>3. /\ t \in Seq(Rows) /\ n \in Nat /\ WindowSize \in Nat /\ Branches \in Nat \ {0}
      /\ off \in Steerings
  BY <1>2, ArAssumption, SeqMonotonic, LenProperties DEF Rows, ArAssumption, Steerings
<1>4. run'.prompt = t /\ run'.steer = off
  BY <1>1 DEF NoRun
<1> HIDE DEF t, n, off, c
<1>5. c \in Seq(CellSet) /\ Len(c) = n /\ TokensOf(c) = t
  <2>1. c = Uninterrupted(t, n, off)
    BY <1>3, BatchIsCells DEF c, n
  <2> QED
    BY <1>3, <2>1, CellsOfText DEF n
<1>6. SavedOK'
  BY <1>1 DEF DecodeInv, SavedOK
<1>7. ~Decoding'
  BY <1>1 DEF Decoding, Ended
<1>8. CASE n >= WindowSize
  <2>1. cells' = << c >> /\ at' = "answered"
    BY <1>1, <1>8
  <2>2. Len(cells') = 1 /\ DOMAIN cells' = 1..1 /\ cells'[1] = c
    BY <2>1
  <2>3. CellsFit'
    BY <1>2, <1>5, <2>1, <2>2 DEF CellsFit
  <2> QED
    BY <1>6, <1>7, <2>1, <2>3
       DEF DecodeInv, SamplingOK, CompletionOK, RestoreOK, BranchOK
<1>9. CASE ~(n >= WindowSize)
  <2>1. /\ at' = "branch" /\ cells' = [i \in 1..Branches |-> c]
        /\ \A i \in 1..Branches : cells'[i] = c /\ reply'[i] = <<>>
    BY <1>1, <1>9
  <2>2. Len(cells') = Branches /\ DOMAIN cells' = 1..Branches
    BY <1>3, <2>1
  <2>3. CellsFit'
    BY <1>2, <1>3, <1>5, <2>1, <2>2 DEF CellsFit
  <2>4. t \o <<>> = t /\ IsPrefix(t, t) /\ <<>> \in Seq(Tokens)
    BY <1>2, <1>3, ConcatEmptySeq DEF IsPrefix, n
  <2>5. \A i \in 1..Branches :
           /\ reply'[i] \in Seq(Tokens) /\ cells'[i] \in Seq(CellSet)
           /\ Len(cells'[i]) <= nPast'
           /\ TokensOf(cells'[i]) = t /\ run'.prompt \o reply'[i] = t
    BY <1>1, <1>3, <1>4, <1>5, <2>1, <2>4
  <2>6. /\ nPast' \in Nat /\ nPast' < WindowSize
        /\ reply' = [i \in 1..Branches |-> reply'[i]]
        /\ cells' = [i \in 1..Branches |-> cells'[i]]
    BY <1>1, <1>3, <1>9, <2>1
  <2>7. \A i \in 1..Branches :
           /\ IsPrefix(TokensOf(cells'[i]), run'.prompt \o reply'[i])
           /\ TokensOf(cells'[i]) = run'.prompt \o reply'[i]
    BY <2>4, <2>5
  <2>8. run'.prompt \in Seq(Tokens) /\ run'.steer \in Steerings
    BY <1>2, <1>3, <1>4
  <2>9. BranchOK'
    BY <1>3, <2>1, <2>5, <2>6, <2>7, <2>8 DEF BranchOK
  <2> QED
    BY <1>6, <1>7, <2>3, <2>9 DEF DecodeInv, SamplingOK, CompletionOK, RestoreOK
<1> QED
  BY <1>8, <1>9

LEMMA PrefixOfLonger ==
    ASSUME NEW T, NEW s \in Seq(T), NEW x \in T
    PROVE  IsPrefix(s, Append(s, x)) /\ IsPrefix(s, s)
<1> DEFINE u == Append(s, x)
           n == Len(s)
<1>1. u \in Seq(T) /\ Len(u) = n + 1 /\ n \in Nat /\ \A i \in 1..n : u[i] = s[i]
  BY AppendProperties, LenProperties
<1> HIDE DEF u
<1>2. n \in 0..Len(u) /\ n \in 0..Len(s)
  BY <1>1
<1>3. /\ SubSeq(u, 1, n) \in Seq(T) /\ Len(SubSeq(u, 1, n)) = n
      /\ \A i \in 1..n : SubSeq(u, 1, n)[i] = u[i]
  BY <1>1, <1>2, FirstOf
<1>4. SubSeq(u, 1, n) = s
  BY <1>1, <1>3, SeqEqual
<1>5. SubSeq(s, 1, n) = s
  BY SubSeqFull
<1> QED
  BY <1>1, <1>4, <1>5 DEF IsPrefix, u

\* A round extends what a branch has, and only that.
LEMMA RoundKeeps ==
    ASSUME DecodeInv, Round
    PROVE  DecodeInv'
<1>1. at = "branch" /\ run' = run /\ saved' = saved
  BY DEF Round
<1>2. PICK toks \in [1..Branches -> Tokens] :
          LET round == [i \in 1..Branches |->
                          IF Live(i) THEN Append(reply[i], toks[i]) ELSE reply[i]]
              going == \E i \in 1..Branches : Last(round[i]) # Stop
              last == \E i \in 1..Branches : Len(round[i]) >= MaxNew
          IN /\ reply' = round
             /\ IF going /\ ~last
                THEN /\ cells' = DecodeRound(round) /\ nPast' = nPast + 1
                     /\ at' = IF nPast' < WindowSize THEN "branch" ELSE "joining"
                ELSE at' = "joining" /\ UNCHANGED <<cells, nPast>>
  BY DEF Round
<1> DEFINE p == run.prompt
           round == [i \in 1..Branches |->
                       IF Live(i) THEN Append(reply[i], toks[i]) ELSE reply[i]]
<1>3. /\ p \in Seq(Tokens) /\ run.steer \in Steerings
      /\ nPast \in Nat /\ nPast < WindowSize /\ WindowSize \in Nat /\ Branches \in Nat \ {0}
      /\ cells = [i \in 1..Branches |-> cells[i]]
      /\ \A i \in 1..Branches :
            /\ reply[i] \in Seq(Tokens) /\ cells[i] \in Seq(CellSet)
            /\ Len(cells[i]) <= nPast
            /\ IsPrefix(TokensOf(cells[i]), p \o reply[i])
            /\ Live(i) => TokensOf(cells[i]) = p \o reply[i]
  BY <1>1, ArAssumption DEF DecodeInv, BranchOK, ArAssumption
<1>4. reply' = round
  BY <1>2
\* A live branch, when its token is not the last, and any other.
<1>5. ASSUME NEW i \in 1..Branches
      PROVE  /\ round[i] \in Seq(Tokens) /\ round[i] # <<>>
             /\ IsPrefix(TokensOf(cells[i]), p \o round[i])
             /\ Last(round[i]) # Stop =>
                   LET d == Append(cells[i], Cell(Last(round[i]), "single"))
                   IN  /\ d \in Seq(CellSet) /\ Len(d) <= nPast + 1
                       /\ TokensOf(d) = p \o round[i]
                       /\ IsPrefix(TokensOf(d), p \o round[i])
  <2>1. /\ reply[i] \in Seq(Tokens) /\ cells[i] \in Seq(CellSet) /\ Len(cells[i]) <= nPast
        /\ Len(cells[i]) \in Nat
        /\ IsPrefix(TokensOf(cells[i]), p \o reply[i])
        /\ Live(i) => TokensOf(cells[i]) = p \o reply[i]
    BY <1>3, LenProperties
  <2>2. CASE ~Live(i)
    <3>1. round[i] = reply[i] /\ reply[i] # <<>> /\ Last(round[i]) = Stop
      BY <2>2 DEF Live
    <3> QED
      BY <2>1, <3>1
  <2>3. CASE Live(i)
    <3> DEFINE r == reply[i]
               x == toks[i]
               a == Append(r, x)
               d == Append(cells[i], Cell(x, "single"))
    <3>1. round[i] = a /\ x \in Tokens /\ TokensOf(cells[i]) = p \o r
      BY <1>2, <2>1, <2>3
    <3>2. r \in Seq(Tokens) /\ p \in Seq(Tokens)
      BY <1>3, <2>1
    <3> HIDE DEF r, x, p, round
    <3>3. a \in Seq(Tokens) /\ a # <<>> /\ Last(a) = x
      BY <3>1, <3>2, AppendProperties DEF Last
    <3>4. /\ p \o r \in Seq(Tokens) /\ p \o a = Append(p \o r, x) /\ p \o a \in Seq(Tokens)
      <4>1. p \o r \in Seq(Tokens)
        BY <3>2, ConcatProperties
      <4>2. p \o a \in Seq(Tokens)
        BY <3>3, <3>2, ConcatProperties
      <4>3. p \o a = Append(p \o r, x)
        BY <3>1, <3>2, TextGrows
      <4> QED
        BY <4>1, <4>2, <4>3
    <3>5. IsPrefix(p \o r, p \o a) /\ IsPrefix(p \o a, p \o a)
      BY <3>1, <3>4, PrefixOfLonger
    <3>6. /\ Cell(x, "single") \in CellSet /\ Cell(x, "single").tok = x
      BY <1>3, <3>1 DEF Cell, CellSet, Rows
    <3>7. /\ d \in Seq(CellSet) /\ Len(d) = Len(cells[i]) + 1
          /\ TokensOf(d) = Append(TokensOf(cells[i]), x)
      BY <2>1, <3>6, AppendProperties, TokensGrow
    <3> HIDE DEF a
    <3>8. Len(d) <= nPast + 1
      BY <1>3, <2>1, <3>7
    <3> HIDE DEF d
    <3>9. /\ d = Append(cells[i], Cell(Last(round[i]), "single")) /\ TokensOf(d) = p \o a
          /\ round[i] = a
      BY <3>1, <3>3, <3>4, <3>7 DEF d
    <3> QED
      BY <3>1, <3>3, <3>5, <3>7, <3>8, <3>9
  <2> QED
    BY <2>2, <2>3
<1>6. SavedOK' /\ ~Decoding'
  BY <1>1, <1>2 DEF DecodeInv, SavedOK, Decoding, Ended
<1>7. CASE at' = "joining" /\ UNCHANGED <<cells, nPast>>
  <2>1. CellsFit'
    BY <1>7 DEF DecodeInv, CellsFit
  <2>2. reply' = [i \in 1..Branches |-> reply'[i]] /\ \A i \in 1..Branches : reply'[i] = round[i]
    BY <1>4
  <2> HIDE DEF round
  <2>3. \A i \in 1..Branches : reply'[i] \in Seq(Tokens)
                                /\ IsPrefix(TokensOf(cells[i]), p \o reply'[i])
    BY <1>5, <2>2
  <2>4. /\ cells' = [i \in 1..Branches |-> cells'[i]] /\ nPast' = nPast /\ run'.prompt = p
        /\ run'.steer = run.steer
        /\ \A i \in 1..Branches : cells'[i] = cells[i]
    BY <1>1, <1>3, <1>7
  <2> HIDE DEF p
  <2>5. BranchOK'
    BY <1>3, <1>7, <2>2, <2>3, <2>4 DEF BranchOK
  <2> QED
    BY <1>6, <2>1, <2>5 DEF DecodeInv, SamplingOK, CompletionOK, RestoreOK
<1>8. CASE /\ cells' = DecodeRound(round) /\ nPast' = nPast + 1
           /\ at' = IF nPast' < WindowSize THEN "branch" ELSE "joining"
  <2>1. reply' = [i \in 1..Branches |-> reply'[i]] /\ \A i \in 1..Branches : reply'[i] = round[i]
    BY <1>4
  <2> HIDE DEF round
  <2>2. /\ cells' = [i \in 1..Branches |-> cells'[i]]
        /\ \A i \in 1..Branches :
              cells'[i] = IF Last(round[i]) # Stop
                          THEN Append(cells[i], Cell(Last(round[i]), "single"))
                          ELSE cells[i]
    BY <1>8 DEF DecodeRound
  <2>3. /\ at' \in {"branch", "joining"} /\ nPast' \in Nat /\ nPast' <= WindowSize
        /\ at' = "branch" => nPast' < WindowSize
    BY <1>3, <1>8
  <2>4. ASSUME NEW i \in 1..Branches
        PROVE  /\ cells'[i] \in Seq(CellSet) /\ Len(cells'[i]) <= nPast'
               /\ IsPrefix(TokensOf(cells'[i]), p \o reply'[i])
               /\ reply'[i] = <<>> \/ Last(reply'[i]) # Stop
                  => TokensOf(cells'[i]) = p \o reply'[i]
    <3>1. Len(cells[i]) \in Nat /\ Len(cells[i]) <= nPast /\ cells[i] \in Seq(CellSet)
      BY <1>3, LenProperties
    <3>2. CASE Last(round[i]) # Stop
      <4> DEFINE d == Append(cells[i], Cell(Last(round[i]), "single"))
      <4>1. cells'[i] = d /\ reply'[i] = round[i] /\ nPast' = nPast + 1
        BY <1>8, <2>1, <2>2, <3>2
      <4>2. /\ d \in Seq(CellSet) /\ Len(d) <= nPast + 1
            /\ TokensOf(d) = p \o round[i] /\ IsPrefix(TokensOf(d), p \o round[i])
        BY <1>5, <3>2
      <4> HIDE DEF d, p
      <4> QED
        BY <4>1, <4>2
    <3>3. CASE Last(round[i]) = Stop
      <4>1. cells'[i] = cells[i] /\ reply'[i] = round[i] /\ nPast' = nPast + 1
        BY <1>8, <2>1, <2>2, <3>3
      <4>2. round[i] # <<>> /\ IsPrefix(TokensOf(cells[i]), p \o round[i])
        BY <1>5
      <4>3. Len(cells'[i]) <= nPast'
        BY <1>3, <3>1, <4>1
      <4> HIDE DEF p
      <4> QED
        BY <3>1, <3>3, <4>1, <4>2, <4>3
    <3> QED
      BY <3>2, <3>3
  <2>5. CellsFit'
    <3>1. DOMAIN cells' = 1..Branches /\ Len(cells') = Branches
      BY <1>3, <2>2
    <3>2. \A i \in 1..Branches : Len(cells'[i]) <= WindowSize
      <4>1. TAKE i \in 1..Branches
      <4>2. Len(cells'[i]) \in Nat /\ Len(cells'[i]) <= nPast'
        BY <2>4, LenProperties
      <4> QED
        BY <1>3, <2>3, <4>2
    <3> QED
      BY <1>3, <2>3, <3>1, <3>2 DEF CellsFit
  <2>6. BranchOK'
    BY <1>1, <1>3, <1>5, <2>1, <2>2, <2>3, <2>4 DEF BranchOK, Live
  <2> QED
    BY <1>6, <2>5, <2>6 DEF DecodeInv, SamplingOK, CompletionOK, RestoreOK
<1> QED
  BY <1>2, <1>7, <1>8

LEMMA BranchEnds ==
    ASSUME DecodeInv, Join \/ BranchFails
    PROVE  DecodeInv'
<1>1. /\ at' \in {"answered", "failed"} /\ saved' = saved
      /\ cells' = << cells[1] >> \/ cells' = cells
  BY DEF Join, BranchFails
<1>2. CellsFit'
  <2>1. /\ at' # "overflow" /\ DOMAIN cells = 1..Len(cells) /\ 1 \in DOMAIN cells
        /\ \A i \in DOMAIN cells : Len(cells[i]) <= WindowSize
    BY <1>1 DEF DecodeInv, CellsFit
  <2>2. CASE cells' = cells
    BY <2>1, <2>2 DEF DecodeInv, CellsFit
  <2>3. CASE cells' = << cells[1] >>
    <3>1. Len(cells') = 1 /\ DOMAIN cells' = 1..1 /\ cells'[1] = cells[1]
      BY <2>3
    <3> QED
      BY <2>1, <3>1 DEF CellsFit
  <2> QED
    BY <1>1, <2>2, <2>3
<1>3. ~Decoding' /\ SavedOK'
  BY <1>1 DEF Decoding, Ended, DecodeInv, SavedOK
<1> QED
  BY <1>1, <1>2, <1>3 DEF DecodeInv, SamplingOK, CompletionOK, RestoreOK, BranchOK

-----------------------------------------------------------------------------
(* The theorem *)

LEMMA DecodeInvSays == DecodeInv => DecodeSound
<1> SUFFICES ASSUME DecodeInv PROVE DecodeSound
  OBVIOUS
<1>1. CacheIsTheText
  <2> SUFFICES ASSUME at = "sample",
                      run.kind = "restore" => saved.base = 0 /\ saved.nPast = Len(saved.tokens)
               PROVE  /\ Len(cells) = 1 /\ Len(cells[1]) = nPast
                      /\ TokensOf(cells[1]) = RunText
    BY DEF CacheIsTheText, RunText
  <2>1. Decoding /\ ~BrokenOff
    BY DEF Decoding, BrokenOff
  <2>2. /\ run.kind \in {"completion", "restore"} /\ cells = << cells[1] >>
        /\ Len(cells[1]) = nPast
        /\ run.prompt \in Seq(Tokens) /\ run.base \in Nat /\ run.steer \in Steerings
        /\ reply[1] \in Seq(Tokens)
    BY <2>1 DEF DecodeInv, SamplingOK
  <2>3. RunText \in Seq(Rows) /\ run.base + Len(run.prompt) \in Nat
    <3>1. RunText \in Seq(Rows)
      BY <2>2, TextTyped DEF RunText
    <3> QED
      BY <2>2, <3>1, LenProperties
  <2>4. CASE run.kind = "completion"
    <3>1. cells[1] = Uninterrupted(RunText, run.base + Len(run.prompt), run.steer)
      BY <2>1, <2>4 DEF DecodeInv, CompletionOK
    <3>2. TokensOf(cells[1]) = RunText
      BY <2>2, <2>3, <3>1, CellsOfText
    <3> QED
      BY <2>2, <3>2
  <2>5. CASE run.kind = "restore"
    BY <2>1, <2>2, <2>5 DEF DecodeInv, RestoreOK
  <2> QED
    BY <2>2, <2>4, <2>5
<1>2. ResumeIsExact
  <2>1. at = "sample" => Decoding
    BY DEF Decoding
  <2> QED
    BY <2>1 DEF ResumeIsExact, DecodeInv, RestoreOK
<1>3. DrawsGoOn
  <2> SUFFICES ASSUME at = "sample", run.resumes, saved.reason # "eos"
               PROVE  drawsMade = saved.truly + Len(reply[1])
    BY DEF DrawsGoOn
  <2>1. Decoding
    BY DEF Decoding
  <2>2. run.kind = "restore"
    BY <2>1 DEF DecodeInv, SamplingOK, CompletionOK
  <2>3. saved # NoSaved /\ saved.hasSampler /\ drawsMade = saved.draws + Len(reply[1])
    BY <2>1, <2>2 DEF DecodeInv, RestoreOK
  <2>4. saved.draws = saved.truly
    BY <2>3 DEF DecodeInv, SavedOK
  <2> QED
    BY <2>3, <2>4
<1>4. NeverOverflows
  BY DEF NeverOverflows, DecodeInv, CellsFit
<1>5. BranchesAreIsolated
  <2> SUFFICES ASSUME at \in {"branch", "joining"}, NEW i \in DOMAIN cells
               PROVE  /\ IsPrefix(TokensOf(cells[i]), run.prompt \o reply[i])
                      /\ at = "branch" /\ Live(i)
                         => TokensOf(cells[i]) = run.prompt \o reply[i]
    BY DEF BranchesAreIsolated
  <2>1. i \in 1..Branches
    BY DEF DecodeInv, BranchOK
  <2> QED
    BY <2>1 DEF DecodeInv, BranchOK
<1> QED
  BY <1>1, <1>2, <1>3, <1>4, <1>5 DEF DecodeSound

\* DecodeSound, for any prompts, soft prefixes and window (generate_ar.cpp,
\* /v1/checkpoint, /v1/restore and /v1/branch): the window never overflows and
\* branches do not mix; and what is sampled is sampled from a cache that holds
\* the text and nothing else, if it is no restore of a checkpoint with a soft
\* prefix or with an n_past short of its tokens.  A checkpoint that a run without
\* a soft prefix left on finish, with a token in it, resumes from the cache of the
\* uninterrupted run; and a sampled run that did not end with EOS goes on with
\* the next draw.
THEOREM DecodeKept == ArSpec => []DecodeSound
<1>1. ArInit => DecodeInv
  BY DecodeStarts
<1>2. DecodeInv /\ [ArNext]_arVars => DecodeInv'
  <2> SUFFICES ASSUME DecodeInv, [ArNext]_arVars PROVE DecodeInv'
    OBVIOUS
  <2>1. CASE ArNext
    BY <2>1, BeginKeeps, SampleKeeps, LengthStopKeeps, SaveKeeps, ReturnKeeps,
       CheckpointKeeps, RestoreKeeps, BranchKeeps, RoundKeeps, BranchEnds DEF ArNext
  <2>2. CASE UNCHANGED arVars
    <3>1. /\ at' = at /\ run' = run /\ reply' = reply /\ cells' = cells
          /\ nPast' = nPast /\ saved' = saved /\ drawsMade' = drawsMade
      BY <2>2 DEF arVars
    <3>2. /\ (Decoding <=> Decoding') /\ (BrokenOff <=> BrokenOff')
          /\ RunText' = RunText
      BY <3>1 DEF Decoding, BrokenOff, Ended, RunText
    <3>3. SamplingOK'
      BY <3>1, <3>2 DEF DecodeInv, SamplingOK
    <3>4. CompletionOK'
      BY <3>1, <3>2 DEF DecodeInv, CompletionOK
    <3>5. RestoreOK'
      BY <3>1, <3>2 DEF DecodeInv, RestoreOK
    <3>6. SavedOK' /\ CellsFit'
      BY <3>1 DEF DecodeInv, SavedOK, CellsFit
    <3>7. BranchOK'
      BY <3>1 DEF DecodeInv, BranchOK, Live
    <3> QED
      BY <3>3, <3>4, <3>5, <3>6, <3>7 DEF DecodeInv
  <2> QED
    BY <2>1, <2>2
<1>3. DecodeInv => DecodeSound
  BY DecodeInvSays
<1> QED
  BY <1>1, <1>2, <1>3, PTL DEF ArSpec
-----------------------------------------------------------------------------
(* Denoise *)

\* The blocks of a job follow each other and cover every position to be filled;
\* what precedes the first is given.
BlocksFit(j) ==
  LET bs == Blocks(j)
      n == Len(j.board)
  IN  /\ Len(bs) \in Nat \ {0} /\ DOMAIN bs = 1..Len(bs)
      /\ \A i \in DOMAIN bs : /\ bs[i].first \in Nat /\ bs[i].end \in Nat
                              /\ bs[i].first < bs[i].end /\ bs[i].end <= n
      /\ \A i, k \in DOMAIN bs : i < k => bs[i].end <= bs[k].first
      /\ \A i \in DOMAIN bs : i + 1 \in DOMAIN bs => bs[i].end = bs[i + 1].first
      /\ ~Blocked(j) => Len(bs) = 1
      /\ j.kind = "generate" => bs[Len(bs)].end = n
      /\ Blocked(j) => bs[1].first = Start(j.board)
      /\ \A q \in 1..n : j.board[q] = Mask => bs[1].first < q /\ q <= bs[Len(bs)].end

Running == phase # "idle"

JobOK ==
  Running =>
    /\ job = [kind |-> job.kind, board |-> job.board, blockLen |-> job.blockLen,
              cache |-> job.cache, steps |-> job.steps, topk |-> job.topk,
              revise |-> job.revise]
    /\ Fillable(job)
    /\ job.blockLen \in Nat /\ (job.kind # "generate" => job.blockLen = 0 /\ job.cache = "off")
    /\ job.steps \in Nat \ {0} /\ job.topk \in Int
    /\ BlocksFit(job)
    /\ board \in Seq(Predictions) /\ Len(board) = Len(job.board)
    /\ blockNo \in DOMAIN Blocks(job) /\ pass \in Nat
    /\ phase \in {"plan", "select"} => pass < job.steps

\* Only what was to be filled is ever masked, and while nothing was taken back
\* no hole stays behind.
HolesOK ==
  Running =>
    /\ \A q \in 1..Len(board) : board[q] = Mask => job.board[q] = Mask
    /\ job.topk < 0 /\ ~excused =>
          \A q \in 1..Len(board) : board[q] = Mask => q > Block.first
    /\ job.topk < 0 /\ ~excused /\ phase \in {"closing", "done"} =>
          \A q \in 1..Len(board) : board[q] = Mask => q > Block.end

\* The frozen laid: each was computed from what the law lets its position see,
\* nothing of which can change any more.
CacheOK ==
  Running =>
    /\ DOMAIN cache.labels = 1..Len(board)
    /\ blockNo > 1 \/ phase \in {"select", "closing"} => cache.drawers
    /\ cache.drawers =>
         /\ cache.frozenUntil = frozen
         /\ \/ frozen = ActiveStart
            \/ /\ phase \in {"plan", "tooLong"} /\ Blocked(job) /\ blockNo > 1
               /\ frozen = Blocks(job)[blockNo - 1].first
         /\ job.cache = "delta" =>
              /\ frozen <= Len(kv)
              /\ \A q \in 1..frozen :
                    /\ LawEnd(q) \in q..frozen
                    /\ ~causal => kv[q] = SubSeq(board, 1, LawEnd(q))
                    /\ kv[q][q] = board[q] /\ cache.labels[q] = board[q]

PassOK ==
  phase = "select" =>
    /\ ~causal /\ (Blocked(job) => job.cache = "delta") => Exact
    /\ job.cache = "delta" => \A q \in 1..WorkingLen : cache.labels[q] = kv[q][q]

ResultOK ==
  phase = "done" =>
    /\ reason = "length" => \A q \in 1..Len(board) : board[q] # Mask
    /\ reason = "steps_exhausted" /\ job.topk < 0 => excused

DenoiseInv ==
  /\ phase \in {"idle", "plan", "select", "closing", "done", "tooLong"}
  /\ excused \in BOOLEAN /\ causal \in BOOLEAN /\ kv \in Seq(Seq(Predictions))
  /\ JobOK /\ HolesOK /\ CacheOK /\ PassOK /\ ResultOK

LEMMA StartIs ==
  ASSUME NEW b, NEW first \in 1..Len(b), Len(b) \in Nat, b[first] = Mask,
         \A q \in 1..Len(b) : b[q] = Mask => first <= q
  PROVE  Start(b) = first - 1
<1> DEFINE P(q) == b[q] = Mask /\ \A r \in 1..(q - 1) : b[r] # Mask
<1>1. P(first)
  OBVIOUS
<1>2. ASSUME NEW q \in 1..Len(b), P(q) PROVE q = first
  BY <1>2
<1>3. Start(b) = (CHOOSE q \in 1..Len(b) : P(q)) - 1
  BY DEF Start
<1> HIDE DEF P
<1> QED
  BY <1>1, <1>2, <1>3

LEMMA CeilDiv ==
  ASSUME NEW a \in Nat \ {0}, NEW b \in Nat \ {0}, NEW c, c = (a + b - 1) \div b
  PROVE  c \in Nat \ {0} /\ c * b >= a /\ (c - 1) * b < a
OBVIOUS

LEMMA TimesMono ==
  ASSUME NEW a \in Nat, NEW b \in Nat, NEW c \in Nat, a <= b
  PROVE  a * c <= b * c
OBVIOUS

LEMMA BlocksAlwaysFit ==
  ASSUME NEW j, Fillable(j), j.blockLen \in Nat,
         j.kind # "generate" => j.blockLen = 0
  PROVE  BlocksFit(j)
<1> DEFINE n == Len(j.board)
           p == Start(j.board)
           L == j.blockLen
           bs == Blocks(j)
<1>1. /\ j.board \in Seq({Word, Eos, Mask}) /\ n \in Nat /\ DOMAIN j.board = 1..n
      /\ j.kind \in {"generate", "infill", "denoise"}
  BY LenProperties DEF Fillable
<1>2. PICK first \in 1..n, last \in 1..n :
         /\ j.board[first] = Mask
         /\ \A q \in 1..n : j.board[q] = Mask => first <= q /\ q <= last
         /\ j.kind # "denoise" => \A q \in first..last : j.board[q] = Mask
         /\ j.kind = "generate" => last = n
  BY <1>1 DEF Fillable
<1>3. p = first - 1 /\ p \in Nat /\ p < n /\ first <= last
  BY <1>1, <1>2, StartIs
<1>4. CASE j.kind = "denoise"
  <2>1. bs = <<[first |-> 0, end |-> n]>> /\ ~Blocked(j)
    BY <1>4 DEF Blocks, Blocked
  <2> QED
    BY <1>1, <1>2, <1>3, <1>4, <2>1, SMTT(30) DEF BlocksFit
<1>5. CASE j.kind = "infill"
  <2>1. Masked(j.board, 0, n) = first..last
    BY <1>1, <1>2, <1>5 DEF Masked
  <2>2. Cardinality(first..last) = last - first + 1
    BY <1>1, <1>2, <1>3, FS_Interval
  <2>3. bs = <<[first |-> p, end |-> p + Cardinality(Masked(j.board, 0, n))]>> /\ ~Blocked(j)
    BY <1>5 DEF Blocks, Blocked
  <2>4. bs = <<[first |-> p, end |-> last]>>
    BY <1>1, <1>2, <1>3, <2>1, <2>2, <2>3
  <2> QED
    BY <1>1, <1>2, <1>3, <1>5, <2>3, <2>4 DEF BlocksFit
<1>6. CASE j.kind = "generate" /\ L = 0
  <2>1. bs = <<[first |-> p, end |-> n]>> /\ ~Blocked(j)
    BY <1>6 DEF Blocks, Blocked
  <2> QED
    BY <1>1, <1>2, <1>3, <1>6, <2>1, SMTT(30) DEF BlocksFit
<1>7. CASE j.kind = "generate" /\ L > 0
  <2> DEFINE a == n - p
             count == (a + L - 1) \div L
             End(i) == IF p + i * L < n THEN p + i * L ELSE n
  <2>1. a \in Nat \ {0} /\ L \in Nat \ {0} /\ Blocked(j)
    BY <1>1, <1>3, <1>7 DEF Blocked
  <2>2. bs = [i \in 1..count |-> [first |-> p + (i - 1) * L, end |-> End(i)]]
    BY <1>7 DEF Blocks
  <2>3. count \in Nat \ {0} /\ count * L >= a /\ (count - 1) * L < a
    BY <2>1, CeilDiv
  <2> HIDE DEF count, a
  <2>4. \A i \in 1..count : (i - 1) * L \in Nat /\ i * L = (i - 1) * L + L
    BY <2>1, <2>3, SMTT(30)
  <2>5. \A i \in 1..count : (i - 1) * L < a /\ End(i) \in Nat
    <3> SUFFICES ASSUME NEW i \in 1..count PROVE (i - 1) * L < a /\ End(i) \in Nat
      OBVIOUS
    <3>1. (i - 1) * L <= (count - 1) * L
      BY <2>1, <2>3, TimesMono
    <3>2. (count - 1) * L \in Nat /\ (i - 1) * L \in Nat /\ i * L \in Nat
      BY <2>1, <2>3, SMTT(30)
    <3> DEFINE x == (i - 1) * L
               y == i * L
               z == (count - 1) * L
    <3>3. x <= z /\ z < a /\ x \in Nat /\ y \in Nat /\ z \in Nat
      BY <2>3, <3>1, <3>2
    <3>4. End(i) = IF p + y < n THEN p + y ELSE n
      OBVIOUS
    <3> HIDE DEF x, y, z, End
    <3>5. x < a /\ End(i) \in Nat
      BY <1>1, <1>3, <2>1, <3>3, <3>4
    <3> QED
      BY <3>5 DEF x
  <2>6. bs \in Seq([first : Nat, end : Nat]) /\ Len(bs) = count /\ DOMAIN bs = 1..count
    <3>1. \A i \in 1..count : [first |-> p + (i - 1) * L, end |-> End(i)] \in [first : Nat, end : Nat]
      BY <1>3, <2>4, <2>5
    <3>2. bs \in [1..count -> [first : Nat, end : Nat]]
      BY <2>2, <3>1
    <3> HIDE DEF bs, End
    <3>3. bs \in Seq([first : Nat, end : Nat])
      BY <2>3, <3>2, SeqDef, ZenonT(30)
    <3>4. Len(bs) \in Nat /\ DOMAIN bs = 1..Len(bs) /\ DOMAIN bs = 1..count
      BY <3>2, <3>3, LenProperties
    <3>5. Len(bs) = count
      <4>1. \A len \in Nat : 1..len = 1..count => len = count
        <5> SUFFICES ASSUME NEW len \in Nat, 1..len = 1..count PROVE len = count
          OBVIOUS
        <5>1. count \in 1..len
          <6>1. count \in 1..count
            BY <2>3
          <6> QED
            BY <6>1, Zenon
        <5>2. len >= 1 => len \in 1..len
          OBVIOUS
        <5>3. len >= 1 => len \in 1..count
          BY <5>2, Zenon
        <5> QED
          BY <2>3, <5>1, <5>3
      <4> QED
        BY <3>4, <4>1
    <3> QED
      BY <3>3, <3>4, <3>5
  <2>7. \A i \in 1..count : /\ bs[i].first = p + (i - 1) * L /\ bs[i].end = End(i)
                            /\ bs[i].first \in Nat /\ bs[i].end \in Nat
    BY <1>3, <2>2, <2>4, <2>5, SMTT(30)
  <2>8. \A i \in 1..count : bs[i].first < bs[i].end /\ bs[i].end <= n
    <3> SUFFICES ASSUME NEW i \in 1..count
                 PROVE  bs[i].first < bs[i].end /\ bs[i].end <= n
      OBVIOUS
    <3> DEFINE x == (i - 1) * L
               y == i * L
    <3>1. x \in Nat /\ y = x + L /\ x < a
      BY <2>4, <2>5
    <3>2. bs[i].first = p + x /\ bs[i].end = IF p + y < n THEN p + y ELSE n
      BY <2>7
    <3> HIDE DEF x, y, bs
    <3> QED
      BY <1>1, <1>3, <2>1, <3>1, <3>2 DEF a
  <2>9. \A i, k \in 1..count : i < k => bs[i].end <= bs[k].first
    <3> SUFFICES ASSUME NEW i \in 1..count, NEW k \in 1..count, i < k
                 PROVE  bs[i].end <= bs[k].first
      OBVIOUS
    <3> DEFINE y == i * L
               z == (k - 1) * L
    <3>1. y <= z
      BY <2>1, <2>3, TimesMono, SMTT(30)
    <3>2. y \in Nat /\ z \in Nat
      BY <2>1, <2>3, SMTT(30)
    <3>3. z < a
      BY <2>5
    <3>4. bs[k].first = p + z /\ bs[i].end = IF p + y < n THEN p + y ELSE n
      BY <2>7
    <3> HIDE DEF y, z, bs
    <3> QED
      BY <1>1, <1>3, <3>1, <3>2, <3>4, <3>3 DEF a
  <2>10. \A i \in 1..count : i + 1 \in 1..count => bs[i].end = bs[i + 1].first
    <3> SUFFICES ASSUME NEW i \in 1..count, i + 1 \in 1..count
                 PROVE  bs[i].end = bs[i + 1].first
      OBVIOUS
    <3> DEFINE y == i * L
    <3>1. y \in Nat /\ y < a
      <4>1. (i + 1) - 1 = i
        BY <2>3
      <4>2. ((i + 1) - 1) * L < a
        BY <2>5
      <4>3. i * L \in Nat
        BY <2>1, <2>3
      <4> QED
        BY <4>1, <4>2, <4>3
    <3>2. bs[i + 1].first = p + y /\ bs[i].end = IF p + y < n THEN p + y ELSE n
      <4>1. (i + 1) - 1 = i
        BY <2>3
      <4> QED
        BY <2>7, <4>1
    <3> HIDE DEF y, bs
    <3> QED
      BY <1>1, <1>3, <3>1, <3>2 DEF a
  <2>11. bs[1].first = p
    <3>1. (1 - 1) * L = 0
      BY <2>1
    <3> QED
      BY <1>3, <2>3, <2>7, <3>1
  <2>12. bs[count].end = n
    <3> DEFINE y == count * L
    <3>1. y \in Nat /\ y >= a
      BY <2>1, <2>3
    <3>2. bs[count].end = IF p + y < n THEN p + y ELSE n
      BY <2>3, <2>7
    <3> HIDE DEF y, bs
    <3> QED
      BY <1>1, <1>3, <3>1, <3>2 DEF a
  <2>13. \A q \in 1..n : j.board[q] = Mask => bs[1].first < q /\ q <= bs[count].end
    BY <1>1, <1>2, <1>3, <2>11, <2>12
  <2> HIDE DEF bs, n, p, L
  <2> QED
    BY <1>7, <2>1, <2>3, <2>6, <2>7, <2>8, <2>9, <2>10, <2>11, <2>12, <2>13
    DEF BlocksFit, bs, n, p
<1> QED
  BY <1>1, <1>4, <1>5, <1>6, <1>7

LEMMA BlockAt ==
  ASSUME JobOK, Running, NEW k \in 1..Len(Blocks(job))
  PROVE  /\ Blocks(job)[k].first \in Nat /\ Blocks(job)[k].end \in Nat
         /\ Blocks(job)[k].first < Blocks(job)[k].end
         /\ Blocks(job)[k].end <= Len(job.board)
         /\ Len(Blocks(job)) \in Nat \ {0} /\ DOMAIN Blocks(job) = 1..Len(Blocks(job))
<1>1. BlocksFit(job)
  BY DEF JobOK
<1>2. Len(Blocks(job)) \in Nat \ {0} /\ DOMAIN Blocks(job) = 1..Len(Blocks(job))
  BY <1>1 DEF BlocksFit
<1>3. k \in DOMAIN Blocks(job)
  BY <1>2
<1>4. /\ Blocks(job)[k].first \in Nat /\ Blocks(job)[k].end \in Nat
      /\ Blocks(job)[k].first < Blocks(job)[k].end
      /\ Blocks(job)[k].end <= Len(job.board)
  BY <1>1, <1>3, Zenon DEF BlocksFit
<1> QED
  BY <1>2, <1>4

LEMMA BlocksFollow ==
  ASSUME JobOK, Running, NEW i \in 1..Len(Blocks(job)), NEW k \in 1..Len(Blocks(job)), i < k
  PROVE  Blocks(job)[i].end <= Blocks(job)[k].first
<1>1. BlocksFit(job)
  BY DEF JobOK
<1>2. i \in DOMAIN Blocks(job) /\ k \in DOMAIN Blocks(job)
  BY BlockAt
<1> QED
  BY <1>1, <1>2, Zenon DEF BlocksFit

\* Where the active block is on the board, and what a pass sees of it.
LEMMA Frame ==
  ASSUME JobOK, Running
  PROVE  /\ Len(board) \in Nat /\ DOMAIN board = 1..Len(board)
         /\ \A q \in 1..Len(board) : board[q] \in Predictions
         /\ blockNo \in 1..Len(Blocks(job)) /\ Len(Blocks(job)) \in Nat \ {0}
         /\ Block.first \in Nat /\ Block.end \in Nat /\ Block.first < Block.end
         /\ Block.end <= WorkingLen /\ WorkingLen \in Nat /\ WorkingLen <= Len(board)
         /\ ActiveStart \in Nat /\ ActiveStart < WorkingLen
         /\ IF Blocked(job) THEN WorkingLen = Block.end /\ ActiveStart = Block.first
            ELSE ActiveStart = 0 /\ blockNo = 1 /\ Len(Blocks(job)) = 1
                 /\ WorkingLen = Len(board)
         /\ Blocked(job) <=> job.kind = "generate" /\ job.blockLen > 0
<1>1. /\ BlocksFit(job) /\ board \in Seq(Predictions) /\ Len(board) = Len(job.board)
      /\ blockNo \in DOMAIN Blocks(job)
  BY DEF JobOK
<1>2. Len(board) \in Nat /\ DOMAIN board = 1..Len(board)
      /\ \A q \in 1..Len(board) : board[q] \in Predictions
  BY <1>1, LenProperties
<1>3. blockNo \in 1..Len(Blocks(job))
  BY <1>1 DEF BlocksFit
<1>4. /\ Len(Blocks(job)) \in Nat \ {0}
      /\ Block.first \in Nat /\ Block.end \in Nat /\ Block.first < Block.end
      /\ Block.end <= Len(board)
  BY <1>1, <1>3, BlockAt DEF Block
<1>5. ~Blocked(job) => Len(Blocks(job)) = 1
  BY <1>1 DEF BlocksFit
<1>6. job.kind = "generate" => Blocks(job)[Len(Blocks(job))].end = Len(board)
  BY <1>1, Zenon DEF BlocksFit
<1>7. ~Blocked(job) => blockNo = 1
  BY <1>3, <1>5, SMTT(30)
<1>8. ~Blocked(job) /\ job.kind = "generate" => Block.end = Len(board)
  BY <1>7, <1>5, <1>6 DEF Block
<1>9. WorkingLen = IF Blocked(job) THEN Block.end ELSE Len(board)
  BY <1>8 DEF WorkingLen, Blocked
<1>10. ActiveStart = IF Blocked(job) THEN Block.first ELSE 0
  BY DEF ActiveStart
<1> HIDE DEF Block, WorkingLen, ActiveStart, Blocked
<1>11. /\ Block.end <= WorkingLen /\ WorkingLen \in Nat /\ WorkingLen <= Len(board)
       /\ ActiveStart \in Nat /\ ActiveStart < WorkingLen
  BY <1>2, <1>4, <1>9, <1>10
<1> QED
  BY <1>2, <1>4, <1>7, <1>9, <1>10, <1>11, <1>3, <1>5 DEF Blocked

\* The attention law of a blocked job, for the prompt and for a block.
LEMMA LawOfPrompt ==
  ASSUME JobOK, Running, Blocked(job), NEW q \in 1..Blocks(job)[1].first
  PROVE  LawEnd(q) = Blocks(job)[1].first
<1>1. BlocksFit(job)
  BY DEF JobOK
<1>2. ASSUME NEW i \in DOMAIN Blocks(job) PROVE ~(Blocks(job)[i].first < q)
  <2>1. i \in 1..Len(Blocks(job)) /\ 1 \in 1..Len(Blocks(job)) /\ Len(Blocks(job)) \in Nat
    BY <1>1, <1>2 DEF BlocksFit
  <2>2. i = 1 \/ Blocks(job)[1].end <= Blocks(job)[i].first
    BY <2>1, BlocksFollow
  <2>3. /\ Blocks(job)[1].first \in Nat /\ Blocks(job)[1].end \in Nat
        /\ Blocks(job)[1].first < Blocks(job)[1].end /\ Blocks(job)[i].first \in Nat
    BY <2>1, BlockAt
  <2> QED
    BY <2>2, <2>3
<1>3. {i \in DOMAIN Blocks(job) :
         Blocks(job)[i].first < q /\ q <= Blocks(job)[i].end} = {}
  BY <1>2
<1>4. Blocks(job)[1].first = Start(job.board)
  BY <1>1 DEF BlocksFit
<1> QED
  BY <1>3, <1>4 DEF LawEnd

LEMMA LawOfBlock ==
  ASSUME JobOK, Running, Blocked(job), NEW k \in 1..Len(Blocks(job)),
         NEW q \in Nat, Blocks(job)[k].first < q, q <= Blocks(job)[k].end
  PROVE  LawEnd(q) = Blocks(job)[k].end
<1>1. DOMAIN Blocks(job) = 1..Len(Blocks(job)) /\ Len(Blocks(job)) \in Nat
  BY BlockAt
<1> DEFINE own == {i \in DOMAIN Blocks(job) :
                     Blocks(job)[i].first < q /\ q <= Blocks(job)[i].end}
<1>2. k \in own
  BY <1>1
<1>3. \A i \in own : i = k
  <2> SUFFICES ASSUME NEW i \in own PROVE i = k
    OBVIOUS
  <2>1. /\ i \in 1..Len(Blocks(job)) /\ Len(Blocks(job)) \in Nat
        /\ Blocks(job)[i].first < q /\ q <= Blocks(job)[i].end
        /\ Blocks(job)[i].first \in Nat /\ Blocks(job)[i].end \in Nat
        /\ Blocks(job)[k].first \in Nat /\ Blocks(job)[k].end \in Nat
        /\ i < k => Blocks(job)[i].end <= Blocks(job)[k].first
        /\ k < i => Blocks(job)[k].end <= Blocks(job)[i].first
    BY <1>1, BlockAt, BlocksFollow
  <2> HIDE DEF own
  <2> QED
    BY <2>1
<1>4. LawEnd(q) = IF own = {} THEN Start(job.board) ELSE Blocks(job)[CHOOSE i \in own : TRUE].end
  BY DEF LawEnd
<1> HIDE DEF own
<1>5. (CHOOSE i \in own : TRUE) \in own
  BY <1>2
<1> QED
  BY <1>2, <1>3, <1>4, <1>5

\* The laid of one batch.
LEMMA DecodedCells ==
  ASSUME JobOK, Running, NEW from \in Nat, NEW to \in Nat, from <= to, to <= Len(board)
  PROVE  /\ Decoded(from, to) \in Seq(Seq(Predictions)) /\ Len(Decoded(from, to)) = to - from
         /\ \A i \in 1..(to - from) :
               /\ ~causal => Decoded(from, to)[i] = SubSeq(board, 1, to)
               /\ Decoded(from, to)[i][from + i] = board[from + i]
<1>1. Len(board) \in Nat /\ \A q \in 1..Len(board) : board[q] \in Predictions
  BY Frame
<1>2. ASSUME NEW e \in Nat, e <= Len(board)
      PROVE  /\ SubSeq(board, 1, e) \in Seq(Predictions)
             /\ \A x \in 1..e : SubSeq(board, 1, e)[x] = board[x]
  <2>1. \A x \in 1..e : board[x] \in Predictions
    BY <1>1, <1>2
  <2>2. SubSeq(board, 1, e) \in Seq(Predictions)
        /\ \A x \in 1..(e - 1 + 1) : SubSeq(board, 1, e)[x] = board[1 + x - 1]
    BY <2>1, SubSeqProperties
  <2> QED
    BY <2>2
<1> DEFINE e(i) == IF causal THEN from + i ELSE to
<1>3. \A i \in 1..(to - from) : e(i) \in Nat /\ e(i) <= Len(board) /\ from + i \in 1..e(i)
  BY <1>1
<1>4. Decoded(from, to) = [i \in 1..(to - from) |-> SubSeq(board, 1, e(i))]
  BY DEF Decoded
<1>5. \A i \in 1..(to - from) : /\ SubSeq(board, 1, e(i)) \in Seq(Predictions)
                                /\ SubSeq(board, 1, e(i))[from + i] = board[from + i]
  BY <1>2, <1>3
<1>6. Decoded(from, to) \in [1..(to - from) -> Seq(Predictions)]
  BY <1>4, <1>5
<1>7. Decoded(from, to) \in Seq(Seq(Predictions))
  BY <1>6, SeqDef
<1>8. Len(Decoded(from, to)) = to - from
  BY <1>4
<1> QED
  BY <1>4, <1>5, <1>7, <1>8

\* What forward() leaves in the cache: when the laid of earlier blocks are
\* reused, and when there are no blocks, each position as the law wants it.
Lawful(laid, q) ==
  /\ LawEnd(q) \in q..(IF q <= ActiveStart THEN ActiveStart ELSE WorkingLen)
  /\ laid[q][q] = board[q]
  /\ ~causal => laid[q] = SubSeq(board, 1, LawEnd(q))

LEMMA PassIsLawful ==
  ASSUME JobOK, CacheOK, phase = "plan", kv \in Seq(Seq(Predictions))
  PROVE  /\ PassCells \in Seq(Seq(Predictions)) /\ Len(PassCells) = WorkingLen
         /\ job.cache = "delta" \/ ~Blocked(job) =>
               \A q \in 1..WorkingLen : Lawful(PassCells, q)
<1> DEFINE Cells == Seq(Seq(Predictions))
           from == IF Reuse /\ frozen <= ActiveStart THEN frozen ELSE 0
           kept == IF Reuse /\ frozen <= ActiveStart THEN kv ELSE <<>>
           prefix == IF from < ActiveStart THEN FreezeSegment(kept, from) ELSE kept
           before == Decoded(from, ActiveStart)
           block == Decoded(ActiveStart, WorkingLen)
<1>1. Running
  BY DEF Running
<1>2. /\ Len(board) \in Nat /\ WorkingLen \in Nat /\ WorkingLen <= Len(board)
      /\ ActiveStart \in Nat /\ ActiveStart < WorkingLen
      /\ blockNo \in 1..Len(Blocks(job)) /\ Len(Blocks(job)) \in Nat \ {0}
      /\ Blocked(job) => WorkingLen = Block.end /\ ActiveStart = Block.first
      /\ ~Blocked(job) => ActiveStart = 0
  BY <1>1, Frame
<1>3. PassCells = SubSeq(prefix, 1, ActiveStart) \o block
  BY DEF PassCells
<1>4. ASSUME Reuse
      PROVE  /\ frozen \in Nat /\ frozen <= ActiveStart /\ frozen <= Len(kv) /\ job.cache = "delta"
             /\ \/ frozen = ActiveStart
                \/ /\ Blocked(job) /\ blockNo > 1 /\ blockNo - 1 \in 1..Len(Blocks(job))
                   /\ frozen = Blocks(job)[blockNo - 1].first
                   /\ ActiveStart = Blocks(job)[blockNo - 1].end
             /\ \A q \in 1..frozen : Lawful(kv, q)
  <2>1. /\ cache.drawers /\ job.cache = "delta" /\ frozen <= Len(kv)
        /\ \/ frozen = ActiveStart
           \/ /\ Blocked(job) /\ blockNo > 1
              /\ frozen = Blocks(job)[blockNo - 1].first
    BY <1>1, <1>4 DEF CacheOK, Reuse
  <2>2. frozen \in Nat /\ frozen <= ActiveStart => \A q \in 1..frozen : Lawful(kv, q)
    <3> SUFFICES ASSUME frozen \in Nat, frozen <= ActiveStart, NEW q \in 1..frozen
                 PROVE  Lawful(kv, q)
      OBVIOUS
    <3>1. /\ LawEnd(q) \in q..frozen /\ kv[q][q] = board[q]
          /\ ~causal => kv[q] = SubSeq(board, 1, LawEnd(q))
      BY <1>1, <2>1 DEF CacheOK
    <3>2. LawEnd(q) \in q..ActiveStart /\ q <= ActiveStart
      BY <1>2, <3>1
    <3> QED
      BY <3>1, <3>2 DEF Lawful
  <2>3. CASE frozen = ActiveStart
    BY <1>2, <2>1, <2>2, <2>3
  <2>4. CASE Blocked(job) /\ blockNo > 1 /\ frozen = Blocks(job)[blockNo - 1].first
    <3>1. blockNo - 1 \in 1..Len(Blocks(job)) /\ (blockNo - 1) + 1 = blockNo
      BY <1>2, <2>4
    <3>2. /\ frozen \in Nat /\ Blocks(job)[blockNo - 1].end \in Nat
          /\ frozen < Blocks(job)[blockNo - 1].end
      BY <1>1, <2>4, <3>1, BlockAt
    <3>3. Blocks(job)[blockNo - 1].end = Blocks(job)[blockNo].first
      <4>1. BlocksFit(job) /\ blockNo \in DOMAIN Blocks(job) /\ blockNo - 1 \in DOMAIN Blocks(job)
        BY <1>1, <1>2, <3>1, BlockAt DEF JobOK
      <4> QED
        BY <3>1, <4>1, Zenon DEF BlocksFit
    <3>4. ActiveStart = Blocks(job)[blockNo - 1].end
      BY <1>2, <2>4, <3>3 DEF Block
    <3> QED
      BY <2>1, <2>2, <2>4, <3>1, <3>2, <3>4
  <2> QED
    BY <2>1, <2>3, <2>4
<1>5. ~Reuse => from = 0 /\ kept = <<>>
  OBVIOUS
<1>6. Reuse => from = frozen /\ kept = kv
  BY <1>4
<1>7. from \in Nat /\ from <= ActiveStart /\ kept \in Cells /\ from <= Len(kept)
  <2>1. <<>> \in Cells /\ Len(<<>>) = 0
    BY EmptySeq
  <2> HIDE DEF from, kept
  <2>2. CASE Reuse
    BY <1>4, <1>6, <2>2
  <2>3. CASE ~Reuse
    BY <1>2, <1>5, <2>1, <2>3
  <2> QED
    BY <2>2, <2>3
<1>8. before \in Cells /\ Len(before) = ActiveStart - from
      /\ \A i \in 1..(ActiveStart - from) :
            /\ ~causal => before[i] = SubSeq(board, 1, ActiveStart)
            /\ before[i][from + i] = board[from + i]
  <2>1. from \in Nat /\ ActiveStart \in Nat /\ from <= ActiveStart /\ ActiveStart <= Len(board)
    BY <1>2, <1>7
  <2> HIDE DEF from
  <2> QED
    BY <1>1, <2>1, DecodedCells, Zenon
<1>9. block \in Cells /\ Len(block) = WorkingLen - ActiveStart
      /\ \A i \in 1..(WorkingLen - ActiveStart) :
            /\ ~causal => block[i] = SubSeq(board, 1, WorkingLen)
            /\ block[i][ActiveStart + i] = board[ActiveStart + i]
  <2>1. /\ ActiveStart \in Nat /\ WorkingLen \in Nat /\ ActiveStart <= WorkingLen
        /\ WorkingLen <= Len(board)
    BY <1>2
  <2> QED
    BY <1>1, <2>1, DecodedCells, Zenon
<1>10. prefix = IF from < ActiveStart THEN SubSeq(kept, 1, from) \o before ELSE kept
  BY DEF FreezeSegment
<1> HIDE DEF from, kept, before, block, prefix
<1>11. Len(kept) \in Nat /\ \A q \in 1..Len(kept) : kept[q] \in Seq(Predictions)
  BY <1>7, LenProperties DEF Cells
<1>12. /\ SubSeq(kept, 1, from) \in Cells /\ Len(SubSeq(kept, 1, from)) = from
       /\ \A q \in 1..from : SubSeq(kept, 1, from)[q] = kept[q]
  <2>1. \A q \in 1..from : kept[q] \in Seq(Predictions)
    BY <1>7, <1>11
  <2>2. /\ SubSeq(kept, 1, from) \in Seq(Seq(Predictions))
        /\ Len(SubSeq(kept, 1, from)) = IF 1 <= from THEN from - 1 + 1 ELSE 0
        /\ \A q \in 1..(from - 1 + 1) : SubSeq(kept, 1, from)[q] = kept[1 + q - 1]
    BY <1>7, <2>1, SubSeqProperties
  <2> QED
    BY <1>7, <2>2 DEF Cells
<1>13. /\ prefix \in Cells /\ ActiveStart <= Len(prefix)
       /\ \A q \in 1..ActiveStart :
             prefix[q] = IF q <= from THEN kept[q] ELSE before[q - from]
  <2>1. CASE from < ActiveStart
    <3> DEFINE head == SubSeq(kept, 1, from)
    <3>1. prefix = head \o before /\ head \in Cells /\ before \in Cells
      BY <1>8, <1>10, <1>12, <2>1
    <3>2. Len(head) = from /\ Len(before) = ActiveStart - from
      BY <1>8, <1>12
    <3> HIDE DEF head
    <3>3. /\ prefix \in Cells /\ Len(prefix) = Len(head) + Len(before)
          /\ \A q \in 1..(Len(head) + Len(before)) : prefix[q] =
                IF q <= Len(head) THEN head[q] ELSE before[q - Len(head)]
      BY <3>1, ConcatProperties DEF Cells
    <3>4. Len(head) + Len(before) = ActiveStart
      BY <1>2, <1>7, <3>2
    <3>5. \A q \in 1..ActiveStart : prefix[q] =
                IF q <= from THEN head[q] ELSE before[q - from]
      BY <3>2, <3>3, <3>4
    <3>6. \A q \in 1..from : head[q] = kept[q]
      BY <1>12 DEF head
    <3>7. ASSUME NEW q \in 1..ActiveStart
          PROVE  prefix[q] = IF q <= from THEN kept[q] ELSE before[q - from]
      BY <1>2, <1>7, <3>5, <3>6
    <3> QED
      BY <1>2, <3>3, <3>4, <3>7
  <2>2. CASE from = ActiveStart
    BY <1>2, <1>7, <1>10, <2>2
  <2> QED
    BY <1>2, <1>7, <2>1, <2>2
<1>14. /\ SubSeq(prefix, 1, ActiveStart) \in Cells /\ Len(SubSeq(prefix, 1, ActiveStart)) = ActiveStart
       /\ \A q \in 1..ActiveStart : SubSeq(prefix, 1, ActiveStart)[q] = prefix[q]
  <2>1. \A q \in 1..ActiveStart : prefix[q] \in Seq(Predictions)
    <3>1. Len(prefix) \in Nat /\ \A q \in 1..Len(prefix) : prefix[q] \in Seq(Predictions)
      BY <1>13, LenProperties DEF Cells
    <3> QED
      BY <1>2, <1>13, <3>1
  <2>2. /\ SubSeq(prefix, 1, ActiveStart) \in Seq(Seq(Predictions))
        /\ Len(SubSeq(prefix, 1, ActiveStart)) = IF 1 <= ActiveStart THEN ActiveStart - 1 + 1 ELSE 0
        /\ \A q \in 1..(ActiveStart - 1 + 1) :
              SubSeq(prefix, 1, ActiveStart)[q] = prefix[1 + q - 1]
    BY <1>2, <2>1, SubSeqProperties
  <2> QED
    BY <1>2, <2>2 DEF Cells
<1>15. /\ PassCells \in Cells /\ Len(PassCells) = WorkingLen
       /\ \A q \in 1..WorkingLen : PassCells[q] =
             IF q <= ActiveStart THEN prefix[q] ELSE block[q - ActiveStart]
  <2> DEFINE head == SubSeq(prefix, 1, ActiveStart)
  <2>1. PassCells = head \o block /\ head \in Cells /\ block \in Cells
    BY <1>3, <1>9, <1>14
  <2>2. Len(head) = ActiveStart /\ Len(block) = WorkingLen - ActiveStart
    BY <1>9, <1>14
  <2> HIDE DEF head
  <2>3. /\ PassCells \in Cells /\ Len(PassCells) = Len(head) + Len(block)
        /\ \A q \in 1..(Len(head) + Len(block)) : PassCells[q] =
              IF q <= Len(head) THEN head[q] ELSE block[q - Len(head)]
    BY <2>1, ConcatProperties DEF Cells
  <2>4. Len(head) + Len(block) = WorkingLen
    BY <1>2, <2>2
  <2>5. \A q \in 1..WorkingLen : PassCells[q] =
           IF q <= ActiveStart THEN head[q] ELSE block[q - ActiveStart]
    BY <2>2, <2>3, <2>4
  <2>6. \A q \in 1..ActiveStart : head[q] = prefix[q]
    BY <1>14 DEF head
  <2>7. ASSUME NEW q \in 1..WorkingLen
        PROVE  PassCells[q] = IF q <= ActiveStart THEN prefix[q] ELSE block[q - ActiveStart]
    BY <1>2, <2>5, <2>6
  <2> QED
    BY <2>3, <2>4, <2>7
<1>16. ASSUME job.cache = "delta" \/ ~Blocked(job), NEW q \in 1..ActiveStart
       PROVE  Lawful(prefix, q)
  <2>1. job.cache = "delta" /\ Blocked(job)
    BY <1>2, <1>16
  <2>2. CASE q <= from
    <3>1. Reuse /\ q \in 1..frozen /\ prefix[q] = kv[q]
      BY <1>5, <1>6, <1>13, <2>2
    <3> QED
      BY <1>4, <3>1 DEF Lawful
  <2>3. CASE ~(q <= from)
    <3>1. /\ q - from \in 1..(ActiveStart - from) /\ from + (q - from) = q
          /\ prefix[q] = before[q - from]
      BY <1>2, <1>7, <1>13, <2>3
    <3>2. prefix[q][q] = board[q] /\ (~causal => prefix[q] = SubSeq(board, 1, ActiveStart))
      BY <1>8, <3>1
    <3>3. LawEnd(q) = ActiveStart
      <4>1. CASE Reuse
        <5>1. /\ blockNo - 1 \in 1..Len(Blocks(job)) /\ from = Blocks(job)[blockNo - 1].first
              /\ ActiveStart = Blocks(job)[blockNo - 1].end
          BY <1>2, <1>4, <1>6, <2>3, <4>1
        <5> QED
          BY <1>1, <1>2, <1>7, <2>1, <2>3, <5>1, LawOfBlock, SMTT(30)
      <4>2. CASE ~Reuse
        <5>1. ~cache.drawers
          BY <2>1, <4>2 DEF Reuse
        <5>2. blockNo = 1
          BY <1>1, <1>2, <5>1 DEF CacheOK
        <5>3. ActiveStart = Blocks(job)[1].first
          BY <1>2, <2>1, <5>2 DEF Block
        <5> QED
          BY <1>1, <2>1, <5>3, LawOfPrompt
      <4> QED
        BY <4>1, <4>2
    <3> QED
      BY <1>2, <3>2, <3>3 DEF Lawful
  <2> QED
    BY <2>2, <2>3
<1>17. ASSUME job.cache = "delta" \/ ~Blocked(job), NEW q \in 1..WorkingLen
       PROVE  Lawful(PassCells, q)
  <2>1. CASE q <= ActiveStart
    <3>1. PassCells[q] = prefix[q] /\ q \in 1..ActiveStart
      <4>1. PassCells[q] = prefix[q]
        BY <1>15, <2>1, Zenon
      <4>2. q \in 1..ActiveStart
        BY <1>2, <2>1
      <4> QED
        BY <4>1, <4>2
    <3> QED
      BY <1>16, <1>17, <3>1 DEF Lawful
  <2>2. CASE ~(q <= ActiveStart)
    <3>1. /\ q - ActiveStart \in 1..(WorkingLen - ActiveStart)
          /\ ActiveStart + (q - ActiveStart) = q /\ PassCells[q] = block[q - ActiveStart]
      BY <1>2, <1>15, <2>2
    <3>2. PassCells[q][q] = board[q] /\ (~causal => PassCells[q] = SubSeq(board, 1, WorkingLen))
      BY <1>9, <3>1
    <3>3. LawEnd(q) = WorkingLen
      <4>1. CASE Blocked(job)
        BY <1>1, <1>2, <2>2, <4>1, LawOfBlock DEF Block
      <4>2. CASE ~Blocked(job)
        BY <4>2 DEF LawEnd
      <4> QED
        BY <4>1, <4>2
    <3> QED
      BY <1>2, <2>2, <3>2, <3>3 DEF Lawful
  <2> QED
    BY <2>1, <2>2
<1> QED
  BY <1>15, <1>17 DEF Cells

LEMMA SameFrame ==
  ASSUME job' = job, blockNo' = blockNo, Len(board') = Len(board)
  PROVE  /\ Block' = Block /\ WorkingLen' = WorkingLen /\ ActiveStart' = ActiveStart
         /\ Blocked(job)' = Blocked(job)
         /\ \A q : LawEnd(q)' = LawEnd(q)
<1>1. Block' = Block /\ Blocked(job)' = Blocked(job)
  BY DEF Block
<1>2. WorkingLen' = WorkingLen /\ ActiveStart' = ActiveStart
  BY <1>1 DEF WorkingLen, ActiveStart
<1>3. \A q : LawEnd(q)' = LawEnd(q)
  BY <1>2 DEF LawEnd
<1> QED
  BY <1>1, <1>2, <1>3

LEMMA SameJob ==
  ASSUME JobOK, Running, Running', job' = job, blockNo' = blockNo, board' = board, pass' = pass,
         phase' \in {"plan", "select"} => phase \in {"plan", "select"}
  PROVE  JobOK'
BY DEF JobOK

\* Lawful laid are those that the pass could have computed from its own view.
LEMMA LawfulIsExact ==
  ASSUME JobOK, Running, NEW laid \in Seq(Seq(Predictions)), Len(laid) = WorkingLen,
         \A q \in 1..WorkingLen : Lawful(laid, q), ~causal
  PROVE  laid = [q \in 1..WorkingLen |-> SubSeq(View, 1, LawEnd(q))]
<1>1. /\ WorkingLen \in Nat /\ WorkingLen <= Len(board) /\ Len(board) \in Nat
      /\ \A q \in 1..Len(board) : board[q] \in Predictions
  BY Frame
<1>2. laid = [q \in 1..WorkingLen |-> laid[q]]
  BY LenProperties
<1>3. ASSUME NEW q \in 1..WorkingLen PROVE laid[q] = SubSeq(View, 1, LawEnd(q))
  <2>1. laid[q] = SubSeq(board, 1, LawEnd(q))
    BY DEF Lawful
  <2>2. LawEnd(q) \in 1..WorkingLen
    <3>1. ActiveStart \in Nat /\ ActiveStart < WorkingLen
      BY Frame
    <3> QED
      BY <1>1, <3>1 DEF Lawful
  <2>3. SubSeq(View, 1, LawEnd(q)) = SubSeq(board, 1, LawEnd(q))
    <3>1. board \in Seq(Predictions)
      BY DEF JobOK
    <3>2. 1 \in 1..Len(board) /\ WorkingLen \in 1..Len(board) /\ LawEnd(q) \in 1..(WorkingLen - 1 + 1)
          /\ 1 \in 1..(WorkingLen - 1 + 1) /\ 1 + 1 - 1 = 1 /\ 1 + LawEnd(q) - 1 = LawEnd(q)
      BY <1>1, <2>2
    <3>3. SubSeq(SubSeq(board, 1, WorkingLen), 1, LawEnd(q)) =
          SubSeq(board, 1 + 1 - 1, 1 + LawEnd(q) - 1)
      BY <3>1, <3>2, SubSeqOfSubSeq
    <3> QED
      BY <3>2, <3>3 DEF View
  <2> QED
    BY <2>1, <2>3
<1> QED
  BY <1>2, <1>3

\* With a full refresh in every pass (cache_from() asks for it) what is
\* recomputed is the board from the frozen boundary on.
LEMMA PlanOf ==
  ASSUME JobOK, CacheOK, phase = "plan", FullRefreshEvery = 1
  PROVE  /\ Recompute = (1..WorkingLen) \ Frozen
         /\ Reuse => Accepted(Recompute)
         /\ Reuse /\ Blocked(job) => Frozen = 1..frozen /\ frozen \in Nat /\ frozen <= ActiveStart
<1>1. Running
  BY DEF Running
<1>2. pass % 1 = 0
  BY <1>1 DEF JobOK
<1>3. Recompute = (1..WorkingLen) \ Frozen
  BY <1>2 DEF Recompute, FullRefresh
<1>4. ActiveStart \in Nat /\ WorkingLen \in Nat /\ ActiveStart < WorkingLen
  BY <1>1, Frame
<1>5. ASSUME Reuse PROVE frozen \in Nat /\ frozen <= ActiveStart /\ cache.frozenUntil = frozen
  <2>1. /\ cache.drawers /\ cache.frozenUntil = frozen
        /\ \/ frozen = ActiveStart
           \/ Blocked(job) /\ blockNo > 1 /\ frozen = Blocks(job)[blockNo - 1].first
    BY <1>1, <1>5 DEF Reuse, CacheOK
  <2>2. CASE Blocked(job) /\ blockNo > 1 /\ frozen = Blocks(job)[blockNo - 1].first
    <3>1. /\ blockNo \in 1..Len(Blocks(job)) /\ blockNo - 1 \in 1..Len(Blocks(job))
          /\ blockNo - 1 < blockNo /\ ActiveStart = Blocks(job)[blockNo].first
      BY <1>1, <2>2, Frame DEF Block
    <3>2. Blocks(job)[blockNo - 1].end <= ActiveStart
      BY <1>1, <3>1, BlocksFollow
    <3>3. /\ frozen \in Nat /\ Blocks(job)[blockNo - 1].end \in Nat
          /\ frozen < Blocks(job)[blockNo - 1].end
      BY <1>1, <2>2, <3>1, BlockAt
    <3> QED
      BY <1>4, <2>1, <3>2, <3>3
  <2> QED
    BY <1>4, <2>1, <2>2
<1>6. ASSUME Reuse PROVE Accepted(Recompute)
  <2>1. CASE Blocked(job)
    <3>1. Recompute = (frozen + 1)..WorkingLen /\ frozen + 1 \in 1..WorkingLen
      BY <1>3, <1>4, <1>5, <1>6, <2>1 DEF Frozen
    <3> QED
      BY <3>1 DEF Accepted
  <2>2. CASE ~Blocked(job)
    <3>1. Recompute = 1..WorkingLen /\ 1 \in 1..WorkingLen
      BY <1>3, <1>4, <2>2 DEF Frozen
    <3> QED
      BY <3>1 DEF Accepted
  <2> QED
    BY <2>1, <2>2
<1> QED
  BY <1>3, <1>5, <1>6 DEF Frozen

LEMMA ForwardKeeps ==
  ASSUME DenoiseInv, FullRefreshEvery = 1, Forward
  PROVE  DenoiseInv'
<1>1. /\ phase = "plan" /\ Running /\ JobOK /\ CacheOK /\ HolesOK
      /\ kv \in Seq(Seq(Predictions)) /\ excused \in BOOLEAN /\ causal \in BOOLEAN
  BY DEF DenoiseInv, Forward, Running
<1>2. /\ job' = job /\ board' = board /\ blockNo' = blockNo /\ pass' = pass
      /\ excused' = excused /\ reason' = reason /\ causal' = causal
  BY DEF Forward, jobVars
<1>3. /\ Block' = Block /\ WorkingLen' = WorkingLen /\ ActiveStart' = ActiveStart
      /\ Blocked(job)' = Blocked(job) /\ \A q : LawEnd(q)' = LawEnd(q)
  BY <1>2, SameFrame
<1>4. Reuse => Accepted(Recompute)
  BY <1>1, PlanOf
<1>5. CASE phase' = "tooLong" /\ UNCHANGED <<cache, kv, frozen>>
  <2>1. JobOK' /\ HolesOK' /\ PassOK' /\ ResultOK'
    BY <1>1, <1>2, <1>3, <1>5, SameJob DEF Running, HolesOK, PassOK, ResultOK
  <2>2. CacheOK'
    BY <1>1, <1>2, <1>3, <1>5 DEF Running, CacheOK
  <2> QED
    BY <1>1, <1>2, <1>5, <2>1, <2>2 DEF DenoiseInv
<1>6. CASE kv' = PassCells /\ frozen' = ActiveStart /\ cache' = ObserveCells /\ phase' = "select"
  <2>1. Running' /\ JobOK'
    BY <1>1, <1>2, <1>6, SameJob DEF Running
  <2>2. HolesOK' /\ ResultOK'
    BY <1>1, <1>2, <1>3, <1>6 DEF Running, HolesOK, ResultOK
  <2>3. /\ PassCells \in Seq(Seq(Predictions)) /\ Len(PassCells) = WorkingLen
        /\ job.cache = "delta" \/ ~Blocked(job) =>
               \A q \in 1..WorkingLen : Lawful(PassCells, q)
    BY <1>1, PassIsLawful
  <2>4. /\ WorkingLen \in Nat /\ WorkingLen <= Len(board) /\ Len(board) \in Nat
        /\ ActiveStart \in Nat /\ ActiveStart < WorkingLen
        /\ ~Blocked(job) => ActiveStart = 0
        /\ Blocked(job) => Block.first = ActiveStart
    BY <1>1, Frame
  <2>5. DOMAIN cache.labels = 1..Len(board)
    BY <1>1 DEF CacheOK
  <2>6. /\ cache'.drawers = TRUE /\ cache'.frozenUntil = ActiveStart
        /\ DOMAIN cache'.labels = 1..Len(board)
        /\ \A q \in 1..Len(board) : cache'.labels[q] =
              IF q \in (IF Reuse THEN Recompute ELSE 1..WorkingLen) THEN board[q]
              ELSE cache.labels[q]
    BY <1>6, <2>4, <2>5 DEF ObserveCells
  <2>7. job.cache = "delta" => \A q \in 1..WorkingLen : cache'.labels[q] = board[q]
    <3> SUFFICES ASSUME job.cache = "delta", NEW q \in 1..WorkingLen
                 PROVE  cache'.labels[q] = board[q]
      OBVIOUS
    <3>1. q \in 1..Len(board)
      BY <2>4
    <3>2. CASE ~Reuse
      BY <2>6, <3>1, <3>2
    <3>3. CASE Reuse /\ q \in Recompute
      BY <2>6, <3>1, <3>3
    <3>4. CASE Reuse /\ q \notin Recompute
      <4>1. q \in Frozen /\ Blocked(job)
        BY <1>1, <3>4, PlanOf DEF Frozen
      <4>2. q \in 1..frozen
        BY <1>1, <3>4, <4>1, PlanOf
      <4>3. cache.labels[q] = board[q]
        BY <1>1, <3>4, <4>2 DEF CacheOK, Reuse
      <4> QED
        BY <2>6, <3>1, <3>4, <4>3
    <3> QED
      BY <3>2, <3>3, <3>4
  <2>8. CacheOK'
    <3>1. job.cache = "delta" =>
             /\ ActiveStart <= Len(PassCells)
             /\ \A q \in 1..ActiveStart :
                   /\ LawEnd(q) \in q..ActiveStart
                   /\ ~causal => PassCells[q] = SubSeq(board, 1, LawEnd(q))
                   /\ PassCells[q][q] = board[q] /\ cache'.labels[q] = board[q]
      <4>1. ActiveStart <= Len(PassCells)
        BY <2>3, <2>4
      <4> SUFFICES ASSUME job.cache = "delta", NEW q \in 1..ActiveStart
                   PROVE  /\ LawEnd(q) \in q..ActiveStart
                          /\ ~causal => PassCells[q] = SubSeq(board, 1, LawEnd(q))
                          /\ PassCells[q][q] = board[q] /\ cache'.labels[q] = board[q]
        BY <4>1, Zenon
      <4>2. q \in 1..WorkingLen /\ q <= ActiveStart
        BY <2>4
      <4> QED
        BY <2>3, <2>7, <4>2 DEF Lawful
    <3>2. frozen' = ActiveStart' /\ cache'.frozenUntil = frozen' /\ DOMAIN cache'.labels = 1..Len(board')
      BY <1>2, <1>3, <1>6, <2>6
    <3>3. job'.cache = "delta" =>
             /\ frozen' <= Len(kv')
             /\ \A q \in 1..frozen' :
                   /\ LawEnd(q)' \in q..frozen'
                   /\ ~causal' => kv'[q] = SubSeq(board', 1, LawEnd(q)')
                   /\ kv'[q][q] = board'[q] /\ cache'.labels[q] = board'[q]
      BY <1>2, <1>3, <1>6, <3>1
    <3> QED
      BY <2>6, <3>2, <3>3 DEF CacheOK
  <2>9. PassOK'
    <3>1. ASSUME ~causal', Blocked(job)' => job'.cache = "delta"
          PROVE  Exact'
      <4>1. \A q \in 1..WorkingLen : Lawful(PassCells, q)
        BY <1>2, <1>3, <2>3, <3>1
      <4>2. PassCells = [q \in 1..WorkingLen |-> SubSeq(View, 1, LawEnd(q))]
        BY <1>1, <1>2, <2>3, <3>1, <4>1, LawfulIsExact
      <4>3. View' = View
        BY <1>2, <1>3 DEF View
      <4>4. [q \in 1..WorkingLen |-> SubSeq(View, 1, LawEnd(q))] =
            [q \in 1..WorkingLen' |-> SubSeq(View', 1, LawEnd(q)')]
        BY <1>3, <4>3
      <4> QED
        BY <1>6, <4>2, <4>4 DEF Exact
    <3>2. ASSUME job'.cache = "delta", NEW q \in 1..WorkingLen'
          PROVE  cache'.labels[q] = kv'[q][q]
      <4>1. job.cache = "delta" /\ q \in 1..WorkingLen
        BY <1>2, <1>3, <3>2
      <4>2. cache'.labels[q] = board[q] /\ PassCells[q][q] = board[q]
        BY <2>3, <2>7, <4>1 DEF Lawful
      <4> QED
        BY <1>6, <4>2
    <3> QED
      BY <3>1, <3>2 DEF PassOK
  <2> QED
    BY <1>1, <1>2, <1>6, <2>1, <2>2, <2>3, <2>8, <2>9 DEF DenoiseInv
<1> QED
  BY <1>4, <1>5, <1>6 DEF Forward

LEMMA PrefixStays ==
  ASSUME NEW b \in Seq(Predictions), NEW c \in Seq(Predictions), NEW e \in Nat,
         e <= Len(b), e <= Len(c), \A x \in 1..e : b[x] = c[x]
  PROVE  SubSeq(b, 1, e) = SubSeq(c, 1, e)
<1>1. \A x \in 1..e : b[x] \in Predictions /\ c[x] \in Predictions
  BY LenProperties
<1>2. /\ SubSeq(b, 1, e) \in Seq(Predictions)
      /\ Len(SubSeq(b, 1, e)) = IF 1 <= e THEN e - 1 + 1 ELSE 0
      /\ \A x \in 1..(e - 1 + 1) : SubSeq(b, 1, e)[x] = b[1 + x - 1]
  BY <1>1, SubSeqProperties
<1>3. /\ SubSeq(c, 1, e) \in Seq(Predictions)
      /\ Len(SubSeq(c, 1, e)) = IF 1 <= e THEN e - 1 + 1 ELSE 0
      /\ \A x \in 1..(e - 1 + 1) : SubSeq(c, 1, e)[x] = c[1 + x - 1]
  BY <1>1, SubSeqProperties
<1>4. Len(SubSeq(b, 1, e)) = e /\ Len(SubSeq(c, 1, e)) = e
  BY <1>2, <1>3
<1>5. \A x \in 1..e : SubSeq(b, 1, e)[x] = b[x] /\ SubSeq(c, 1, e)[x] = c[x]
  BY <1>2, <1>3
<1> QED
  BY <1>2, <1>3, <1>4, <1>5, SeqEqual

\* The share of a pass that is the last one is everything that is open.
LEMMA LastPassTakesAll ==
  ASSUME JobOK, Running, job.topk < 0, pass < job.steps, pass + 1 >= job.steps,
         NEW commit \in SUBSET Holes, Cardinality(commit) = Take(Cardinality(Holes))
  PROVE  commit = Holes
<1>1. job.steps - pass = 1
  BY DEF JobOK
<1>2. IsFiniteSet(Holes) /\ Cardinality(Holes) \in Nat
  <2>1. Block.first \in Nat /\ Block.end \in Nat
    BY Frame
  <2>2. IsFiniteSet((Block.first + 1)..Block.end)
    BY <2>1, FS_Interval, SMTT(30)
  <2>3. Holes \subseteq (Block.first + 1)..Block.end
    BY DEF Holes, Masked
  <2> QED
    BY <2>2, <2>3, FS_Subset, FS_CardinalityType
<1>3. Take(Cardinality(Holes)) = Cardinality(Holes)
  BY <1>1, <1>2 DEF Take
<1> QED
  BY <1>2, <1>3, FS_Subset

LEMMA SelectKeeps ==
  ASSUME DenoiseInv, Select
  PROVE  DenoiseInv'
<1>1. /\ phase = "select" /\ Running /\ JobOK /\ CacheOK /\ HolesOK
      /\ kv \in Seq(Seq(Predictions)) /\ excused \in BOOLEAN /\ causal \in BOOLEAN
      /\ pass \in Nat /\ pass < job.steps /\ job.steps \in Nat
  BY DEF DenoiseInv, Select, Running, JobOK
<1>2. /\ job' = job /\ blockNo' = blockNo /\ reason' = reason /\ cache' = cache
      /\ kv' = kv /\ frozen' = frozen /\ causal' = causal /\ pass' = pass + 1
      /\ phase' = IF Masked(board', Block.first, Block.end) # {} /\ pass' < job.steps
                  THEN "plan" ELSE "closing"
  BY DEF Select, adapterVars
<1> DEFINE Open == {q \in Filled : job.revise /\ remasked[q] < MaxRevisions}
           Outcome(c, w, d) ==
             /\ board' = [q \in DOMAIN board |-> CASE q \in c -> w[q]
                                                   [] q \in d -> Mask
                                                   [] OTHER -> board[q]]
             /\ excused' = (excused \/ d # {} \/ \E q \in c : w[q] = Mask)
<1>3a. PICK commit \in SUBSET Holes :
         /\ Cardinality(commit) = Take(Cardinality(Holes))
         /\ \E w \in [commit -> Predictions] : \E d \in SUBSET Open : Outcome(commit, w, d)
  BY DEF Select
<1>3b. PICK word \in [commit -> Predictions] :
         \E d \in SUBSET Open : Outcome(commit, word, d)
  BY <1>3a
<1>3c. PICK doubted \in SUBSET Open : Outcome(commit, word, doubted)
  BY <1>3b
<1>3. /\ Cardinality(commit) = Take(Cardinality(Holes))
      /\ board' = [q \in DOMAIN board |-> CASE q \in commit -> word[q]
                                            [] q \in doubted -> Mask
                                            [] OTHER -> board[q]]
      /\ excused' = (excused \/ doubted # {} \/ \E q \in commit : word[q] = Mask)
  BY <1>3a, <1>3c
<1>4. /\ Len(board) \in Nat /\ DOMAIN board = 1..Len(board)
      /\ \A q \in 1..Len(board) : board[q] \in Predictions
      /\ Block.first \in Nat /\ Block.end \in Nat /\ Block.end <= Len(board)
      /\ ActiveStart \in Nat /\ ActiveStart <= Block.first /\ ActiveStart <= Len(board)
  <2>1. ActiveStart <= Block.first /\ ActiveStart <= Len(board)
    BY <1>1, Frame
  <2> QED
    BY <1>1, <2>1, Frame
<1>5. /\ \A q \in commit : Block.first < q /\ q <= Block.end /\ board[q] = Mask
      /\ \A q \in doubted : Block.first < q /\ q <= Block.end /\ board[q] # Mask
                            /\ job.board[q] = Mask
  <2>1. ASSUME NEW q \in commit PROVE Block.first < q /\ q <= Block.end /\ board[q] = Mask
    <3>1. q \in (Block.first + 1)..Block.end /\ board[q] = Mask
      BY DEF Holes, Masked
    <3> QED
      BY <1>4, <3>1
  <2>2. ASSUME NEW q \in doubted
        PROVE  /\ Block.first < q /\ q <= Block.end
               /\ board[q] # Mask /\ job.board[q] = Mask
    <3>1. q \in Filled
      OBVIOUS
    <3>2. q \in (Block.first + 1)..Block.end /\ board[q] # Mask /\ job.board[q] = Mask
      BY <3>1 DEF Filled
    <3> QED
      BY <1>4, <3>2
  <2> QED
    BY <2>1, <2>2
<1>6. \A q \in 1..Len(board) : board'[q] =
         IF q \in commit THEN word[q] ELSE IF q \in doubted THEN Mask ELSE board[q]
  <2> SUFFICES ASSUME NEW q \in 1..Len(board)
               PROVE  board'[q] = IF q \in commit THEN word[q]
                                  ELSE IF q \in doubted THEN Mask ELSE board[q]
    OBVIOUS
  <2>1. board'[q] = CASE q \in commit -> word[q]
                      [] q \in doubted -> Mask
                      [] OTHER -> board[q]
    BY <1>3, <1>4
  <2>2. ~(q \in commit /\ q \in doubted)
    BY <1>5
  <2> HIDE DEF Open, Outcome
  <2> QED
    BY <2>1, <2>2
<1>7. /\ board' \in Seq(Predictions) /\ Len(board') = Len(board)
  <2>1. \A q \in 1..Len(board) : board'[q] \in Predictions
    BY <1>3, <1>4, <1>6 DEF Predictions
  <2>2. board' = [q \in 1..Len(board) |-> board'[q]]
    BY <1>3, <1>4
  <2>3. board' \in [1..Len(board) -> Predictions]
    BY <2>1, <2>2
  <2>4. board' \in Seq(Predictions)
    BY <1>4, <2>3, SeqDef
  <2>5. Len(board') = Len(board)
    BY <1>4, <2>2
  <2> QED
    BY <2>4, <2>5
<1>8. /\ Block' = Block /\ WorkingLen' = WorkingLen /\ ActiveStart' = ActiveStart
      /\ Blocked(job)' = Blocked(job) /\ \A q : LawEnd(q)' = LawEnd(q)
  BY <1>2, <1>7, SameFrame
<1>9. /\ phase' \in {"plan", "closing"} /\ Running'
      /\ phase' = "plan" => pass' < job.steps
  BY <1>2 DEF Running
<1>10. JobOK'
  BY <1>1, <1>2, <1>7, <1>9 DEF JobOK
<1>11. \A q \in 1..Len(board) : board'[q] = Mask => job.board[q] = Mask
  BY <1>1, <1>5, <1>6 DEF HolesOK
<1>12. excused' \in BOOLEAN /\ (~excused' => /\ ~excused /\ doubted = {}
                                             /\ \A q \in commit : word[q] # Mask)
  BY <1>1, <1>3
<1>13. ASSUME job.topk < 0, ~excused', NEW q \in 1..Len(board), board'[q] = Mask
       PROVE  q > Block.first /\ q \notin commit /\ q \notin doubted /\ board[q] = Mask
  <2>1. q \notin commit /\ q \notin doubted /\ board[q] = Mask
    BY <1>6, <1>12, <1>13
  <2> QED
    BY <1>1, <1>12, <1>13, <2>1 DEF HolesOK
<1>14. ASSUME job.topk < 0, ~excused', phase' = "closing", NEW q \in 1..Len(board), board'[q] = Mask
       PROVE  q > Block.end
  <2> SUFFICES ASSUME ~(q > Block.end) PROVE FALSE
    OBVIOUS
  <2>1. q > Block.first /\ q \notin commit /\ board[q] = Mask
    BY <1>13, <1>14
  <2>2. q \in (Block.first + 1)..Block.end
    BY <1>4, <2>1
  <2>3. q \in Holes /\ q \in Masked(board', Block.first, Block.end)
    BY <1>14, <2>1, <2>2 DEF Holes, Masked
  <2>4. pass + 1 >= job.steps
    BY <1>1, <1>2, <1>14, <2>3
  <2>5. commit = Holes
    BY <1>1, <1>3, <1>14, <2>4, LastPassTakesAll
  <2> QED
    BY <2>1, <2>3, <2>5
<1>15. HolesOK'
  BY <1>2, <1>7, <1>8, <1>9, <1>11, <1>13, <1>14 DEF HolesOK
<1>16. CacheOK'
  <2>1. /\ cache.drawers /\ cache.frozenUntil = frozen /\ frozen = ActiveStart
        /\ DOMAIN cache.labels = 1..Len(board)
    BY <1>1 DEF CacheOK
  <2>2. ASSUME job.cache = "delta"
        PROVE  /\ frozen <= Len(kv)
               /\ \A q \in 1..frozen :
                    /\ LawEnd(q) \in q..frozen
                    /\ ~causal => kv[q] = SubSeq(board, 1, LawEnd(q))
                    /\ kv[q][q] = board[q] /\ cache.labels[q] = board[q]
    BY <1>1, <2>1, <2>2, Zenon DEF CacheOK
  <2>3. \A x \in 1..frozen : x \in 1..Len(board) /\ board'[x] = board[x]
    <3> SUFFICES ASSUME NEW x \in 1..frozen PROVE x \in 1..Len(board) /\ board'[x] = board[x]
      OBVIOUS
    <3>1. x \in 1..Len(board) /\ x <= Block.first
      BY <1>4, <2>1
    <3>2. x \notin commit /\ x \notin doubted
      BY <1>4, <1>5, <3>1
    <3> QED
      BY <1>6, <3>1, <3>2
  <2>4. ASSUME job.cache = "delta", NEW q \in 1..frozen
        PROVE  /\ LawEnd(q) \in q..frozen
               /\ ~causal => kv[q] = SubSeq(board', 1, LawEnd(q))
               /\ kv[q][q] = board'[q] /\ cache.labels[q] = board'[q]
    <3>1. LawEnd(q) \in Nat /\ LawEnd(q) <= frozen /\ LawEnd(q) <= Len(board)
      <4>1. LawEnd(q) \in q..frozen
        BY <2>2, <2>4
      <4>2. frozen \in Nat /\ frozen <= Len(board) /\ q \in Nat
        BY <1>4, <2>1
      <4> QED
        BY <1>4, <4>1, <4>2
    <3>2. \A x \in 1..LawEnd(q) : board[x] = board'[x]
      BY <1>4, <2>1, <2>3, <3>1
    <3>3. SubSeq(board, 1, LawEnd(q)) = SubSeq(board', 1, LawEnd(q))
      BY <1>1, <1>7, <3>1, <3>2, PrefixStays DEF JobOK
    <3> QED
      BY <2>2, <2>3, <2>4, <3>3
  <2> QED
    BY <1>2, <1>7, <1>8, <2>1, <2>2, <2>4 DEF CacheOK
<1>17. PassOK' /\ ResultOK'
  BY <1>9 DEF PassOK, ResultOK
<1> QED
  BY <1>1, <1>2, <1>9, <1>10, <1>12, <1>15, <1>16, <1>17 DEF DenoiseInv


\* The next block starts where this one ended: what the cache holds lies before
\* both, and the law of a position does not depend on the block being denoised.
LEMMA CloseKeeps ==
  ASSUME DenoiseInv, CloseBlock
  PROVE  DenoiseInv'
<1>1. /\ phase = "closing" /\ Running /\ JobOK /\ CacheOK /\ HolesOK
      /\ kv \in Seq(Seq(Predictions)) /\ excused \in BOOLEAN /\ causal \in BOOLEAN
  BY DEF DenoiseInv, CloseBlock, Running
<1>2. /\ job' = job /\ board' = board /\ excused' = excused /\ cache' = cache
      /\ kv' = kv /\ frozen' = frozen /\ causal' = causal
  BY DEF CloseBlock, adapterVars
<1>3. /\ Len(board) \in Nat /\ DOMAIN board = 1..Len(board)
      /\ blockNo \in 1..Len(Blocks(job)) /\ Len(Blocks(job)) \in Nat \ {0}
      /\ Block.first \in Nat /\ Block.end \in Nat /\ Block.first < Block.end
      /\ Blocked(job) => ActiveStart = Block.first
      /\ ~Blocked(job) => blockNo = 1 /\ Len(Blocks(job)) = 1
      /\ Blocked(job) <=> job.kind = "generate" /\ job.blockLen > 0
  BY <1>1, Frame
<1>4. /\ cache.drawers /\ cache.frozenUntil = frozen /\ frozen = ActiveStart
      /\ DOMAIN cache.labels = 1..Len(board)
  BY <1>1 DEF CacheOK
<1>4a. blockNo < Len(Blocks(job)) => Blocked(job)
  <2>1. ASSUME ~Blocked(job) PROVE blockNo = 1 /\ Len(Blocks(job)) = 1
    BY <1>3, <2>1, Zenon
  <2>2. blockNo = 1 /\ Len(Blocks(job)) = 1 => ~(blockNo < Len(Blocks(job)))
    OBVIOUS
  <2> QED
    BY <2>1, <2>2, Zenon
<1>5. CASE blockNo < Len(Blocks(job)) /\ ~HasEos
  <2>1. blockNo' = blockNo + 1 /\ pass' = 0 /\ phase' = "plan"
    BY <1>5 DEF CloseBlock
  <2>2. Blocked(job)
    BY <1>4a, <1>5, Zenon
  <2>3. Running' /\ blockNo' \in 1..Len(Blocks(job)) /\ blockNo' > 1 /\ blockNo' - 1 = blockNo
    BY <1>3, <1>5, <2>1 DEF Running
  <2>4. Block'.first = Block.end
    <3>1. blockNo \in DOMAIN Blocks(job) /\ blockNo + 1 \in DOMAIN Blocks(job)
      BY <1>1, <2>1, <2>3, BlockAt
    <3>2. BlocksFit(job)
      BY <1>1 DEF JobOK
    <3>3. Blocks(job)[blockNo].end = Blocks(job)[blockNo + 1].first
      BY <3>1, <3>2, Zenon DEF BlocksFit
    <3> QED
      BY <1>2, <2>1, <3>3 DEF Block
  <2>5. Blocked(job)' /\ \A q : LawEnd(q)' = LawEnd(q)
    <3>1. Blocked(job)' = Blocked(job) /\ Blocks(job)' = Blocks(job)
          /\ Start(job.board)' = Start(job.board)
      BY <1>2
    <3> QED
      BY <2>2, <3>1 DEF LawEnd
  <2>6. JobOK'
    <3>1. blockNo' \in DOMAIN Blocks(job)
      BY <1>1, <2>3, BlockAt
    <3>2. pass' \in Nat /\ pass' < job.steps
      BY <1>1, <2>1 DEF JobOK
    <3> QED
      BY <1>1, <1>2, <3>1, <3>2 DEF JobOK
  <2>7. HolesOK'
    BY <1>1, <1>2, <2>1, <2>4 DEF HolesOK
  <2>8. CacheOK'
    <3>1. frozen = Blocks(job)[blockNo' - 1].first
      BY <1>3, <1>4, <2>2, <2>3 DEF Block
    <3>2. job.cache = "delta" =>
            /\ frozen <= Len(kv)
            /\ \A q \in 1..frozen : /\ LawEnd(q) \in q..frozen
                                    /\ ~causal => kv[q] = SubSeq(board, 1, LawEnd(q))
                                    /\ kv[q][q] = board[q] /\ cache.labels[q] = board[q]
      BY <1>1, <1>4, Zenon DEF CacheOK
    <3> QED
      BY <1>2, <1>4, <2>1, <2>3, <2>5, <3>1, <3>2 DEF CacheOK
  <2>9. PassOK' /\ ResultOK'
    BY <2>1 DEF PassOK, ResultOK
  <2> QED
    BY <1>1, <1>2, <2>1, <2>6, <2>7, <2>8, <2>9 DEF DenoiseInv
<1>6. CASE ~(blockNo < Len(Blocks(job)) /\ ~HasEos)
  <2>1. /\ phase' = "done" /\ blockNo' = blockNo /\ pass' = pass
        /\ reason' = IF job.kind = "generate" /\ HasEos THEN "eos"
                     ELSE IF Masked(board, 0, Block.end) # {} THEN "steps_exhausted"
                     ELSE "length"
    BY <1>6 DEF CloseBlock
  <2>2. /\ Block' = Block /\ ActiveStart' = ActiveStart
        /\ Blocked(job)' = Blocked(job) /\ \A q : LawEnd(q)' = LawEnd(q)
    BY <1>2, <2>1, SameFrame
  <2>3. Running' /\ JobOK'
    BY <1>1, <1>2, <2>1, SameJob DEF Running
  <2>4. HolesOK'
    BY <1>1, <1>2, <2>1, <2>2 DEF HolesOK
  <2>5. CacheOK'
    <3>1. job.cache = "delta" =>
            /\ frozen <= Len(kv)
            /\ \A q \in 1..frozen : /\ LawEnd(q) \in q..frozen
                                    /\ ~causal => kv[q] = SubSeq(board, 1, LawEnd(q))
                                    /\ kv[q][q] = board[q] /\ cache.labels[q] = board[q]
      BY <1>1, <1>4, Zenon DEF CacheOK
    <3> QED
      BY <1>2, <1>4, <2>1, <2>2, <3>1 DEF CacheOK
  <2>6. ASSUME reason' = "length", NEW q \in 1..Len(board) PROVE board[q] # Mask
    <3> SUFFICES ASSUME board[q] = Mask PROVE FALSE
      OBVIOUS
    <3>1. ~(job.kind = "generate" /\ HasEos) /\ Masked(board, 0, Block.end) = {}
      BY <2>1, <2>6
    <3>2. blockNo = Len(Blocks(job))
      <4>1. ~(blockNo < Len(Blocks(job)))
        BY <1>3, <1>4a, <1>6, <3>1, Zenon
      <4> QED
        BY <1>3, <4>1
    <3>3. job.board[q] = Mask /\ q \in 1..Len(job.board)
      BY <1>1, <2>6 DEF HolesOK, JobOK
    <3>4. BlocksFit(job)
      BY <1>1 DEF JobOK
    <3>5. q <= Blocks(job)[Len(Blocks(job))].end
      BY <3>3, <3>4, Zenon DEF BlocksFit
    <3>6. q \in (0 + 1)..Block.end
      BY <1>3, <3>2, <3>5 DEF Block
    <3> QED
      BY <3>1, <3>6 DEF Masked
  <2>7. ASSUME reason' = "steps_exhausted", job.topk < 0 PROVE excused
    <3> SUFFICES ASSUME ~excused PROVE FALSE
      OBVIOUS
    <3>1. PICK q \in Masked(board, 0, Block.end) : TRUE
      BY <2>1, <2>7
    <3>2. q \in 1..Len(board) /\ q <= Block.end /\ board[q] = Mask
      <4>1. q \in (0 + 1)..Block.end /\ board[q] = Mask
        BY <3>1 DEF Masked
      <4>2. Block.end <= Len(board)
        BY <1>1, <1>3, Frame
      <4> QED
        BY <1>3, <4>1, <4>2
    <3>3. q > Block.end
      BY <1>1, <2>7, <3>2 DEF HolesOK
    <3> QED
      BY <1>3, <3>2, <3>3
  <2>8. PassOK' /\ ResultOK'
    BY <1>2, <2>1, <2>6, <2>7 DEF PassOK, ResultOK
  <2> QED
    BY <1>1, <1>2, <2>1, <2>3, <2>4, <2>5, <2>8 DEF DenoiseInv
<1> QED
  BY <1>5, <1>6

\* A generation starts without drawers, whatever the adapter still holds.
LEMMA GenerationKeeps ==
  ASSUME DenoiseInv, NEW ask \in Boards, NEW len \in BlockLens \cup {0}, NEW mode \in Caches \cup {"off"},
         NEW s \in StepBudgets, NEW k \in TopKs, NEW revise \in BOOLEAN,
         ask.kind # "generate" => len = 0 /\ mode = "off",
         Begun(ask, len, mode, s, k, revise)
  PROVE  DenoiseInv'
<1> DEFINE J == [kind |-> ask.kind, board |-> ask.board, blockLen |-> len,
                 cache |-> mode, steps |-> s, topk |-> k, revise |-> revise]
           n == Len(ask.board)
<1>1. /\ job' = J /\ board' = ask.board /\ blockNo' = 1 /\ pass' = 0
      /\ excused' = FALSE /\ reason' = "none" /\ phase' = "plan"
      /\ cache' = [NoCache EXCEPT !.labels = [q \in 1..n |-> Unlabelled]]
      /\ kv' = kv /\ frozen' = frozen /\ causal' = causal
  BY DEF Begun, adapterVars
<1>2. len \in Nat /\ s \in Nat \ {0} /\ k \in Int /\ Fillable(ask)
  BY DenoiseAssumption
<1>3. Fillable(J) /\ J.blockLen \in Nat /\ (J.kind # "generate" => J.blockLen = 0)
  <2>1. J.kind = ask.kind /\ J.board = ask.board /\ J.blockLen = len
    OBVIOUS
  <2> HIDE DEF J
  <2> QED
    BY <1>2, <2>1 DEF Fillable
<1>4. BlocksFit(J)
  <2> HIDE DEF J
  <2> QED
    BY <1>3, BlocksAlwaysFit
<1>5. ask.board \in Seq(Predictions) /\ n \in Nat /\ DOMAIN ask.board = 1..n
  BY <1>2, LenProperties DEF Fillable, Predictions
<1>6. 1 \in DOMAIN Blocks(J) /\ \A q \in 1..n : ask.board[q] = Mask => Blocks(J)[1].first < q
  <2>1. J.board = ask.board
    OBVIOUS
  <2> HIDE DEF J
  <2>2. Len(Blocks(J)) \in Nat \ {0} /\ DOMAIN Blocks(J) = 1..Len(Blocks(J))
    BY <1>4 DEF BlocksFit
  <2>3. \A q \in 1..n : ask.board[q] = Mask => Blocks(J)[1].first < q
    BY <1>4, <2>1 DEF BlocksFit
  <2> QED
    BY <2>2, <2>3
<1>7. Running'
  BY <1>1 DEF Running
<1>8. JobOK'
  <2>1. /\ J = [kind |-> J.kind, board |-> J.board, blockLen |-> J.blockLen,
                cache |-> J.cache, steps |-> J.steps, topk |-> J.topk, revise |-> J.revise]
        /\ J.kind = ask.kind /\ J.board = ask.board /\ J.blockLen = len /\ J.cache = mode
        /\ J.steps = s /\ J.topk = k
    OBVIOUS
  <2>2. 0 < s
    BY <1>2
  <2> HIDE DEF J
  <2> QED
    BY <1>1, <1>2, <1>3, <1>4, <1>5, <1>6, <2>1, <2>2 DEF JobOK
<1>9. Block'.first = Blocks(J)[1].first
  <2> HIDE DEF J
  <2> QED
    BY <1>1 DEF Block
<1>10. HolesOK'
  <2>1. J.board = ask.board
    OBVIOUS
  <2> HIDE DEF J
  <2>2. \A q \in 1..n : ask.board[q] = Mask => q > Block'.first
    <3>1. Blocks(J)[1].first \in Nat
      BY <1>4, <1>6 DEF BlocksFit
    <3> QED
      BY <1>6, <1>9, <3>1
  <2> QED
    BY <1>1, <1>5, <2>1, <2>2 DEF HolesOK
<1>11. CacheOK'
  <2>1. ~cache'.drawers /\ cache'.labels = [q \in 1..n |-> Unlabelled]
    BY <1>1 DEF NoCache
  <2> QED
    BY <1>1, <2>1 DEF CacheOK
<1>12. PassOK' /\ ResultOK'
  BY <1>1 DEF PassOK, ResultOK
<1> QED
  BY <1>1, <1>8, <1>10, <1>11, <1>12 DEF DenoiseInv

\* With nothing running, only the adapter's laid have to be well formed.
LEMMA IdleKeeps ==
  ASSUME DenoiseInv, phase' = "idle", excused' \in BOOLEAN, causal' \in BOOLEAN,
         kv' \in Seq(Seq(Predictions))
  PROVE  DenoiseInv'
BY DEF DenoiseInv, JobOK, HolesOK, CacheOK, PassOK, ResultOK, Running

LEMMA DenoiseInitially ==
  DenoiseInit => DenoiseInv
<1> SUFFICES ASSUME DenoiseInit PROVE DenoiseInv
  OBVIOUS
<1>1. phase = "idle" /\ excused = FALSE /\ causal = FALSE /\ kv = <<>>
  BY DEF DenoiseInit
<1>2. kv \in Seq(Seq(Predictions))
  BY <1>1, EmptySeq
<1> QED
  BY <1>1, <1>2 DEF DenoiseInv, JobOK, HolesOK, CacheOK, PassOK, ResultOK, Running

\* While the cache is refreshed at every pass, each step keeps the invariant.
LEMMA DenoiseStep ==
  ASSUME DenoiseInv, FullRefreshEvery = 1, [DenoiseNext]_denoiseVars
  PROVE  DenoiseInv'
<1>1. CASE StartGenerate
  BY <1>1, GenerationKeeps DEF StartGenerate
<1>2. CASE StartInfill
  BY <1>2, GenerationKeeps DEF StartInfill
<1>3. CASE StartDenoise
  BY <1>3, GenerationKeeps DEF StartDenoise
<1>4. CASE Forward
  BY <1>4, ForwardKeeps
<1>5. CASE Select
  BY <1>5, SelectKeeps
<1>6. CASE CloseBlock
  BY <1>6, CloseKeeps
<1>7. CASE Leave
  <2>1. /\ phase' = "idle" /\ excused' \in BOOLEAN /\ causal' = causal /\ kv' = kv
    BY <1>7 DEF Leave, adapterVars
  <2> QED
    BY <2>1, IdleKeeps DEF DenoiseInv
<1>8. CASE CausalRoute
  <2>1. /\ phase' = "idle" /\ excused' = excused /\ causal' \in BOOLEAN
        /\ kv' \in Seq(Seq(Predictions))
    BY <1>8 DEF CausalRoute, jobVars
  <2> QED
    BY <2>1, IdleKeeps DEF DenoiseInv
<1>9. CASE UNCHANGED denoiseVars
  <2>1. /\ job' = job /\ board' = board /\ blockNo' = blockNo /\ pass' = pass
        /\ excused' = excused /\ reason' = reason /\ phase' = phase /\ cache' = cache
        /\ kv' = kv /\ frozen' = frozen /\ causal' = causal
    BY <1>9 DEF denoiseVars, jobVars, adapterVars
  <2>2. /\ Block' = Block /\ WorkingLen' = WorkingLen /\ ActiveStart' = ActiveStart
        /\ Blocked(job)' = Blocked(job) /\ \A q : LawEnd(q)' = LawEnd(q)
    BY <2>1, SameFrame
  <2>3. Running' = Running /\ Exact' = Exact
    BY <2>1, <2>2 DEF Running, Exact, View
  <2>4. JobOK' /\ HolesOK'
    BY <2>1, <2>2, <2>3 DEF DenoiseInv, JobOK, HolesOK
  <2>5. CacheOK'
    BY <2>1, <2>2, <2>3 DEF DenoiseInv, CacheOK
  <2>6. PassOK' /\ ResultOK'
    BY <2>1, <2>2, <2>3 DEF DenoiseInv, PassOK, ResultOK
  <2> QED
    BY <2>1, <2>4, <2>5, <2>6 DEF DenoiseInv
<1> QED
  BY <1>1, <1>2, <1>3, <1>4, <1>5, <1>6, <1>7, <1>8, <1>9 DEF DenoiseNext

LEMMA DenoiseImplies ==
  DenoiseInv => DenoiseSound
<1> SUFFICES ASSUME DenoiseInv PROVE DenoiseSound
  OBVIOUS
<1>1. ReuseIsExact /\ LabelsMatchDrawers
  BY DEF DenoiseInv, PassOK, ReuseIsExact, LabelsMatchDrawers
<1>2. PlanIsAccepted
  BY DEF DenoiseInv, PlanIsAccepted
<1>3. QuotaFills
  BY DEF DenoiseInv, ResultOK, QuotaFills
<1>4. LengthIsComplete
  <2> SUFFICES ASSUME phase = "done", reason = "length", NEW q \in DOMAIN board
               PROVE  board[q] # Mask
    BY DEF LengthIsComplete
  <2>1. DOMAIN board = 1..Len(board)
    BY Frame DEF DenoiseInv, Running
  <2> QED
    BY <2>1 DEF DenoiseInv, ResultOK
<1> QED
  BY <1>1, <1>2, <1>3, <1>4 DEF DenoiseSound

\* With the cache refreshed at every pass, which is what cache_from() sets, for
\* all boards, block lengths, step budgets and top-k values, over any sequence of
\* generations that may break off anywhere on the same context: a reused cell is
\* the one a pass from nothing would compute, its label is its token, the adapter
\* never refuses a plan, and what a result claims of its board is so.
THEOREM DenoiseKept == FullRefreshEvery = 1 => (DenoiseSpec => []DenoiseSound)
<1> SUFFICES ASSUME FullRefreshEvery = 1 PROVE DenoiseSpec => []DenoiseSound
  OBVIOUS
<1>1. DenoiseInit => DenoiseInv
  BY DenoiseInitially
<1>2. DenoiseInv /\ [DenoiseNext]_denoiseVars => DenoiseInv'
  BY DenoiseStep
<1>3. DenoiseInv => DenoiseSound
  BY DenoiseImplies
<1> QED
  BY <1>1, <1>2, <1>3, PTL DEF DenoiseSpec

=============================================================================
