---------------------------- MODULE EngineServer ----------------------------
(***************************************************************************)
(* The native worker (engine/core/serve): request threads that share a     *)
(* pool of model contexts, arm white-box settings on the context they      *)
(* lease, generate, and disarm them again (server_main.cpp,                *)
(* routes_state.cpp, routes_whitebox.cpp, routes_jlens.cpp); streams that  *)
(* a client may leave and that POST /cancel may stop (server_shared.hpp).  *)
(*                                                                         *)
(* A context is known by the settings armed on it.  What is generated is   *)
(* left out; a decode fails at any point.                                  *)
(***************************************************************************)
EXTENDS Naturals, Sequences, FiniteSets, SequencesExt

CONSTANTS
    Contexts,   \* adapters of the pool
    Calls,      \* 1..n: requests in the order they arrive, one handler thread each
    Kinds,      \* routes that are called, a subset of AllKinds
    MaxEvents,  \* bound of the model: events of one generation
    Asks,       \* bound of the model: the combinations of settings asked for
    NoContext   \* a request that holds none

\* Routes by how they treat the context: "completion" is /v1/completions,
\* /v1/infill, /v1/revise and /v1/board; "probe" is /score, /state and
\* /v1/restore; "harvest" is /harvest and /jlens.
AllKinds == {"completion", "intervene", "checkpoint", "probe", "harvest"}

ASSUME EngineAssumption ==
    /\ Calls \subseteq Nat /\ Kinds \subseteq AllKinds
    /\ MaxEvents \in Nat
    /\ NoContext \notin Contexts /\ IsFiniteSet(Contexts)

VARIABLES
    free,       \* free_: contexts in the order they were released
    armed,      \* settings armed on each context
    spoiled,    \* history: contexts that one of the three exits that do not clean
                \* up has left dirty
    handler,    \* each request: [at, kind, wants, stream]
    lease,      \* the context each request holds
    registered, \* ids in the cancel registry
    flagged,    \* requests whose cancel flag is set
    hungUp,     \* requests whose socket refuses writes
    events,     \* events each generation has committed
    late        \* history: event frames sent after the flag was set

engineVars == <<free, armed, spoiled, handler, lease, registered,
                flagged, hungUp, events, late>>

\* Settings a route can arm: `emit` the activation tap and its layer, `capture`
\* the readout plane's sink and layers, `write` activation patches, `steer` a
\* control vector.
Settings(kind) ==
    CASE kind = "completion" -> {"emit", "capture", "write", "steer"}
      [] kind = "intervene"  -> {"emit", "steer"}
      [] kind = "checkpoint" -> {"steer"}
      [] kind = "probe"      -> {"write", "capture", "steer"}
      [] kind = "harvest"    -> {"emit"}

\* What the route always arms.
Always(kind) ==
    CASE kind = "intervene" -> {"steer"}
      [] kind = "harvest"   -> {"emit"}
      [] OTHER -> {}

Streams(kind) == kind \in {"completion", "intervene"}
Cancellable(kind) == kind = "completion"

\* Routes that assign the emission flag on entry and reset it on exit; the
\* others leave it as they find it.
OwnsEmit(kind) == kind \in {"completion", "intervene", "harvest"}

At(r, s) == handler[r].at = s
Go(r, s) == handler' = [handler EXCEPT ![r].at = s]

NoHandler == [at |-> "new", kind |-> "none", wants |-> {}, stream |-> FALSE]

EngineInit ==
    /\ free = SetToSeq(Contexts)
    /\ armed = [c \in Contexts |-> {}]
    /\ spoiled = {}
    /\ handler = [r \in Calls |-> NoHandler]
    /\ lease = [r \in Calls |-> NoContext]
    /\ registered = {} /\ flagged = {} /\ hungUp = {}
    /\ events = [r \in Calls |-> 0]
    /\ late = [r \in Calls |-> 0]

-----------------------------------------------------------------------------
(* A request *)

\* A valid body; a refused one ends here with 400 and changes nothing.  A
\* stream's provider is called once its handler has returned, and registers
\* the request before it generates.
Receive(r) ==
    /\ At(r, "new") /\ \A q \in Calls : q < r => ~At(q, "new")
    /\ \E kind \in Kinds : \E wants \in Asks, stream \in BOOLEAN :
          /\ Always(kind) \subseteq wants /\ wants \subseteq Settings(kind)
          /\ stream => Streams(kind)
          /\ kind = "completion" /\ "capture" \in wants => stream
          /\ handler' = [handler EXCEPT ![r] = [at |-> "acquire", kind |-> kind,
                                                wants |-> wants, stream |-> stream]]
          /\ registered' = IF stream /\ Cancellable(kind)
                           THEN registered \cup {r} ELSE registered
    /\ UNCHANGED <<free, armed, spoiled, lease, flagged, hungUp, events,
                   late>>

\* pool.acquire() waits for a context, first released first; then the settings
\* are armed on it.
Armed(old, h) == (IF OwnsEmit(h.kind) THEN old \ {"emit"} ELSE old) \cup h.wants

Acquire(r) ==
    /\ At(r, "acquire") /\ free # <<>>
    /\ LET c == Head(free) IN
          /\ free' = Tail(free)
          /\ lease' = [lease EXCEPT ![r] = c]
          /\ armed' = [armed EXCEPT ![c] = Armed(@, handler[r])]
    /\ Go(r, "generate")
    /\ UNCHANGED <<spoiled, registered, flagged, hungUp, events, late>>

\* The Lease's destructor; `left` stays armed, and `cleaned` tells whether the
\* exit is one that cleans up.
Release(r, left, cleaned) ==
    LET c == lease[r] IN
    /\ armed' = [armed EXCEPT ![c] = left]
    /\ spoiled' = IF left = {} THEN spoiled \ {c}
                  ELSE IF cleaned THEN spoiled
                  ELSE spoiled \cup {c}
    /\ free' = Append(free, c)
    /\ lease' = [lease EXCEPT ![r] = NoContext]
    /\ UNCHANGED <<registered, flagged, hungUp>>

\* Mutant: the control vector is not cleared.
CleanedNotSteer(r) ==
    armed[lease[r]] \ ((handler[r].wants \ {"steer"})
                        \cup (IF OwnsEmit(handler[r].kind) THEN {"emit"} ELSE {}))

\* cleanup(): what the request armed is disarmed.
Cleaned(r) ==
    armed[lease[r]] \ (handler[r].wants
                        \cup (IF OwnsEmit(handler[r].kind) THEN {"emit"} ELSE {}))

\* A completion's patch is refused: clear_write(), and the exception leaves
\* run() before its try block is reached.  In order of arming only the emission
\* flag and the readout plane come before it.
WriteRejected(r) ==
    /\ At(r, "generate") /\ events[r] = 0
    /\ handler[r].kind = "completion" /\ "write" \in handler[r].wants
    /\ Release(r, armed[lease[r]] \ (handler[r].wants \ {"emit", "capture"}), FALSE)
    /\ Go(r, "error")
    /\ UNCHANGED <<events, late>>

\* The generator commits an event; a stream's on_event looks at the flag first.
Event(r) ==
    /\ At(r, "generate") /\ events[r] < MaxEvents
    /\ handler[r].stream /\ r \notin flagged
    /\ Go(r, "frame")
    /\ UNCHANGED <<free, armed, spoiled, lease, registered, flagged,
                   hungUp, events, late>>

\* Mutant: a write to a closed socket goes unnoticed.
SendBlind(r) ==
    /\ At(r, "frame")
    /\ events' = [events EXCEPT ![r] = @ + 1]
    /\ late' = IF r \in flagged \/ (r \in hungUp /\ Cancellable(handler[r].kind))
               THEN [late EXCEPT ![r] = @ + 1] ELSE late
    /\ Go(r, "generate")
    /\ UNCHANGED <<free, armed, spoiled, lease, registered, flagged,
                   hungUp>>

\* The frame is written; a failed write sets the flag.  A frame is late if the
\* flag was set, or its client had hung up, before it.
Send(r) ==
    /\ At(r, "frame")
    /\ events' = [events EXCEPT ![r] = @ + 1]
    /\ flagged' = IF r \in hungUp /\ r \in registered THEN flagged \cup {r} ELSE flagged
    /\ late' = IF r \in flagged \/ (r \in hungUp /\ Cancellable(handler[r].kind))
               THEN [late EXCEPT ![r] = @ + 1] ELSE late
    /\ Go(r, "generate")
    /\ UNCHANGED <<free, armed, spoiled, lease, registered, hungUp>>

\* The flag is seen: GenerationCancelled through run()'s catch.
Cancelled(r) ==
    /\ At(r, "generate") /\ events[r] < MaxEvents
    /\ handler[r].stream /\ r \in flagged
    /\ Release(r, Cleaned(r), TRUE)
    /\ Go(r, "cancelled")
    /\ UNCHANGED <<events, late>>

\* The generator returns.
Finished(r) ==
    /\ At(r, "generate")
    /\ Release(r, Cleaned(r), TRUE)
    /\ Go(r, "final")
    /\ UNCHANGED <<events, late>>

\* The decode throws.  /intervene and /v1/checkpoint have no handler between
\* the decode and the Lease: nothing is disarmed.
DecodeFails(r) ==
    /\ At(r, "generate")
    /\ IF handler[r].kind \in {"intervene", "checkpoint"}
       THEN Release(r, armed[lease[r]], FALSE)
       ELSE Release(r, Cleaned(r), TRUE)
    /\ Go(r, "error")
    /\ UNCHANGED <<events, late>>

\* The closing frame and [DONE], or the JSON answer; the guard unregisters, and
\* the handler's locals are gone.
Close(r) ==
    /\ handler[r].at \in {"final", "error", "cancelled"}
    /\ handler' = [handler EXCEPT ![r] = [NoHandler EXCEPT !.at = "ended"]]
    /\ registered' = registered \ {r}
    /\ flagged' = flagged \ {r} /\ hungUp' = hungUp \ {r}
    /\ events' = [events EXCEPT ![r] = 0]
    /\ late' = [late EXCEPT ![r] = 0]
    /\ UNCHANGED <<free, armed, spoiled, lease>>

-----------------------------------------------------------------------------
(* The clients *)

\* POST /cancel finds the id.
Cancel(r) ==
    /\ r \in registered /\ r \notin flagged
    /\ flagged' = flagged \cup {r}
    /\ UNCHANGED <<free, armed, spoiled, handler, lease, registered,
                   hungUp, events, late>>

Disconnect(r) ==
    /\ handler[r].stream /\ r \notin hungUp
    /\ hungUp' = hungUp \cup {r}
    /\ UNCHANGED <<free, armed, spoiled, handler, lease, registered,
                   flagged, events, late>>

Work(r) ==
    \/ Acquire(r) \/ WriteRejected(r) \/ Event(r) \/ Send(r) \/ Cancelled(r)
    \/ Finished(r) \/ DecodeFails(r) \/ Close(r)

EngineNext == \E r \in Calls : Receive(r) \/ Work(r) \/ Cancel(r) \/ Disconnect(r)

\* Every handler thread runs, a generation ends (max_tokens), and a waiter of
\* the condition variable is not passed over for ever.
EngineFairness == \A r \in Calls : WF_engineVars(Work(r)) /\ SF_engineVars(Acquire(r))

EngineSpec == EngineInit /\ [][EngineNext]_engineVars /\ EngineFairness

-----------------------------------------------------------------------------
(* Properties *)

Generating(r) == handler[r].at \in {"generate", "frame"}

\* A request on a context that came back clean generates under exactly the
\* settings it asked for, whatever ran on that context before or runs beside
\* it, and however those runs ended.
RegimeIsOwn ==
    \A r \in Calls :
        Generating(r) /\ lease[r] \notin spoiled
        => armed[lease[r]] = handler[r].wants

\* A cancel, or the loss of the client, stops the stream "within one token":
\* at most one more event goes out, of a generation of any length.
CancelStopsInOne == \A r \in Calls : late[r] <= 1

\* No request waits for ever for a context: the pool gets every one of them
\* back, also from generations that fail or are cancelled.
RequestsEnd == \A r \in Calls : At(r, "acquire") ~> At(r, "ended")

\* "Either way the pooled context goes back clean, never dirty."
ContextsClean == \A i \in 1..Len(free) : armed[free[i]] = {}

=============================================================================
