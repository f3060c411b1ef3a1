----------------------------- MODULE ChatStream -----------------------------
(***************************************************************************)
(* One streamed reply, end to end: the gateway's two wire serialisers      *)
(* (clozn/server/sse.py and ndjson.py), the generator that feeds them      *)
(* (EngineSubstrate.chat_stream in clozn/server/substrates.py with its     *)
(* RequestContext), POST /cancel (clozn/server/routes/engine.py), and the  *)
(* C++ worker's streaming handler and CancelRegistry (engine/core/serve).  *)
(*                                                                         *)
(* The POST gate lets one request into the gateway at a time; the worker   *)
(* of an earlier one may still be generating, and /cancel is exempt.       *)
(***************************************************************************)
EXTENDS Naturals, Sequences

CONSTANTS
    OpenAI,     \* streaming POSTs served by sse_chat
    Ollama,     \* streaming POSTs served by ndjson_stream
    MaxPieces,  \* max_tokens: pieces one generation may emit
    None        \* no value

Requests == OpenAI \cup Ollama

ASSUME StreamAssumption ==
    /\ OpenAI \cap Ollama = {}
    /\ MaxPieces \in Nat \ {0}
    /\ None \notin Requests \cup {"stop", "length"}

VARIABLES
    streamPc,       \* where each handler is
    client,     \* its TCP peer is still there
    current,    \* whose RequestContext is published as sub._request
    cancelled,  \* RequestContext.cancelled
    engineReq,  \* RequestContext.engine_req is known
    frames,     \* stop causes parsed so far: RequestContext.finish_reason
    conn,       \* the gateway's connection to the worker for this request
    chan,       \* frames the worker has sent and the gateway not yet read
    workerState, \* what the worker is doing for this request
    flag,       \* the worker's cancel flag for it
    pieces,     \* pieces generated
    runLog,        \* the runs _log_run has recorded for it
    told,       \* how the client was told that the reply ended
    asked,      \* somebody has POSTed /cancel for it
    proxied     \* a /cancel that is about to call ENGINE.cancel

handlerVars == <<streamPc, current, frames, runLog, told>>
streamVars == <<streamPc, client, current, cancelled, engineReq, frames, conn, chan,
          workerState, flag, pieces, runLog, told, asked, proxied>>

Reasons == {"stop", "length"}
WorkerStates == {"none", "running", "stop", "length", "cancelled", "failed", "died"}
Frame == {"piece", "stop", "length", "cancelled", "error", "DONE"}
Entry == [tag : {"ok", "client", "worker"}, finish : Reasons \cup {None},
          meta : Requests \cup {None}]

StreamInit ==
    /\ streamPc = [r \in Requests |-> "idle"]
    /\ client = [r \in Requests |-> TRUE]
    /\ current = None
    /\ cancelled = [r \in Requests |-> FALSE]
    /\ engineReq = [r \in Requests |-> FALSE]
    /\ frames = [r \in Requests |-> None]
    /\ conn = [r \in Requests |-> "none"]
    /\ chan = [r \in Requests |-> << >>]
    /\ workerState = [r \in Requests |-> "none"]
    /\ flag = [r \in Requests |-> FALSE]
    /\ pieces = [r \in Requests |-> 0]
    /\ runLog = [r \in Requests |-> << >>]
    /\ told = [r \in Requests |-> None]
    /\ asked = [r \in Requests |-> FALSE]
    /\ proxied = {}

Is(r, here) == streamPc[r] = here
Goes(r, there) == streamPc' = [streamPc EXCEPT ![r] = there]
Log(r, tag, finish) ==
    runLog' = [runLog EXCEPT ![r] = Append(@, [tag |-> tag, finish |-> finish, meta |-> current])]
Tell(r, how) == told' = [told EXCEPT ![r] = how]

\* A write to the client: it may fail once the peer is gone, and may still
\* succeed into the kernel's buffer.
WriteFails(r) == ~client[r]

-----------------------------------------------------------------------------
(* The handler: sse_chat and ndjson_stream *)

\* Headers go out and the generator object is made.  Nothing of chat_stream
\* runs before it is first iterated.
Open(r) ==
    /\ Is(r, "idle")
    /\ \A q \in Requests : streamPc[q] \in {"idle", "ended"}
    /\ Goes(r, IF r \in OpenAI THEN "role" ELSE "begin")
    /\ UNCHANGED <<client, current, cancelled, engineReq, frames, conn, chan,
                   workerState, flag, pieces, runLog, told, asked, proxied>>

\* _write({"role": "assistant"}), sse only.
WriteRole(r) ==
    /\ Is(r, "role")
    /\ Goes(r, "begin") \/ (WriteFails(r) /\ Goes(r, "disconnect"))
    /\ UNCHANGED <<client, current, cancelled, engineReq, frames, conn,
                   chan, workerState, flag, pieces, runLog, told, asked, proxied>>

\* Mutant: the context is kept by the call and never published.
BeginUnpublished(r) ==
    /\ Is(r, "begin")
    /\ workerState' = [workerState EXCEPT ![r] = "running"]
    /\ conn' = [conn EXCEPT ![r] = "open"]
    /\ Goes(r, "pull")
    /\ UNCHANGED <<client, current, cancelled, engineReq, frames, chan,
                   flag, pieces, runLog, told, asked, proxied>>

\* The first iteration: _new_request publishes this call's context, the prompt
\* is rendered and urlopen starts the worker's stream.
Begin(r) ==
    /\ Is(r, "begin")
    /\ current' = r
    /\ workerState' = [workerState EXCEPT ![r] = "running"]
    /\ conn' = [conn EXCEPT ![r] = "open"]
    /\ Goes(r, "pull")
    /\ UNCHANGED <<client, cancelled, engineReq, frames, chan, flag,
                   pieces, runLog, told, asked, proxied>>

\* The engine is down or answers with an HTTP error.
BeginRaises(r) ==
    /\ Is(r, "begin")
    /\ current' = r
    /\ Goes(r, "except")
    /\ UNCHANGED <<client, cancelled, engineReq, frames, conn, chan,
                   workerState, flag, pieces, runLog, told, asked, proxied>>

Readable(r) == Is(r, "pull") /\ chan[r] # << >>
Consume(r) == chan' = [chan EXCEPT ![r] = Tail(@)]
\* chat_stream's finally block, resp.close(): what was not read is gone.
ReleaseWorker(r) ==
    /\ conn' = [conn EXCEPT ![r] = "closed"]
    /\ chan' = [chan EXCEPT ![r] = << >>]

\* A raw line arrives and is_cancelled() is looked at before it is parsed: the
\* generator returns as it does after [DONE].
PullCancelled(r) ==
    /\ Readable(r) /\ cancelled[r]
    /\ ReleaseWorker(r)
    /\ Goes(r, "flush")
    /\ UNCHANGED <<client, current, cancelled, engineReq, frames, workerState,
                   flag, pieces, runLog, told, asked, proxied>>

\* tokens_committed: the piece is yielded and, unless the think-tag parser
\* withholds it, written.
PullPiece(r) ==
    /\ Readable(r) /\ ~cancelled[r] /\ Head(chan[r]) = "piece"
    /\ Consume(r)
    /\ engineReq' = [engineReq EXCEPT ![r] = TRUE]
    /\ Goes(r, "pull") \/ (WriteFails(r) /\ Goes(r, "disconnect"))
    /\ UNCHANGED <<client, current, cancelled, frames, conn, workerState, flag,
                   pieces, runLog, told, asked, proxied>>

\* Any other frame is kept for the trace; only a final frame carries a stop
\* cause.  An error or a cancelled frame changes nothing.
PullFrame(r) ==
    /\ Readable(r) /\ ~cancelled[r] /\ Head(chan[r]) \notin {"piece", "DONE"}
    /\ Consume(r)
    /\ engineReq' = [engineReq EXCEPT ![r] = TRUE]
    /\ frames' = [frames EXCEPT ![r] = IF Head(chan[r]) \in Reasons THEN Head(chan[r]) ELSE @]
    /\ UNCHANGED <<streamPc, client, current, cancelled, conn, workerState, flag,
                   pieces, runLog, told, asked, proxied>>

PullDone(r) ==
    /\ Readable(r) /\ ~cancelled[r] /\ Head(chan[r]) = "DONE"
    /\ ReleaseWorker(r)
    /\ Goes(r, "flush")
    /\ UNCHANGED <<client, current, cancelled, engineReq, frames, workerState,
                   flag, pieces, runLog, told, asked, proxied>>

\* Mutant: urlopen without a timeout waits for a silent worker for ever.
PullHangs(r) ==
    /\ Is(r, "pull") /\ chan[r] = << >> /\ workerState[r] = "died" /\ conn[r] = "closed"
    /\ Goes(r, "except")
    /\ UNCHANGED <<client, current, cancelled, engineReq, frames, conn, chan,
                   workerState, flag, pieces, runLog, told, asked, proxied>>

\* The connection breaks (or the read times out) in the middle of the stream.
PullRaises(r) ==
    /\ Is(r, "pull") /\ chan[r] = << >> /\ workerState[r] = "died"
    /\ ReleaseWorker(r)
    /\ Goes(r, "except")
    /\ UNCHANGED <<client, current, cancelled, engineReq, frames, workerState,
                   flag, pieces, runLog, told, asked, proxied>>

\* What the think-tag parser held back, if anything.
Flush(r) ==
    /\ Is(r, "flush")
    /\ Goes(r, "complete") \/ (WriteFails(r) /\ Goes(r, "disconnect"))
    /\ UNCHANGED <<client, current, cancelled, engineReq, frames, conn,
                   chan, workerState, flag, pieces, runLog, told, asked, proxied>>

\* CLIENT DISCONNECT: cancel sub._request, runLog the partial reply, return.
Disconnect(r) ==
    /\ Is(r, "disconnect")
    /\ cancelled' = [q \in Requests |-> cancelled[q] \/ q = current]
    /\ Log(r, "client", None)
    /\ Goes(r, "close")
    /\ UNCHANGED <<client, current, engineReq, frames, conn, chan, workerState,
                   flag, pieces, told, asked, proxied>>

\* The run is logged before the terminal frame, which carries its id.
Complete(r) ==
    /\ Is(r, "complete")
    /\ Log(r, "ok", frames[r])
    /\ Goes(r, IF r \in OpenAI THEN "policy" ELSE "terminal")
    /\ UNCHANGED <<client, current, cancelled, engineReq, frames, conn,
                   chan, workerState, flag, pieces, told, asked, proxied>>

\* The receipt footer (its failure is swallowed) and the policy side-frame,
\* sse only; either may be absent.
Policy(r) ==
    /\ Is(r, "policy")
    /\ Goes(r, "terminal") \/ (WriteFails(r) /\ Goes(r, "except"))
    /\ UNCHANGED <<client, current, cancelled, engineReq, frames, conn,
                   chan, workerState, flag, pieces, runLog, told, asked, proxied>>

\* _openai_finish_reason: a missing stop cause is reported as "stop" ...
OpenAIFinish(f) == IF f = None THEN "stop" ELSE f

\* ... in the finish chunk, followed by [DONE]; either write may raise.
TerminalSSE(r) ==
    /\ Is(r, "terminal") /\ r \in OpenAI
    /\ \/ Goes(r, "close") /\ Tell(r, OpenAIFinish(frames[r]))
       \/ WriteFails(r) /\ Goes(r, "except") /\ UNCHANGED told
    /\ UNCHANGED <<client, current, cancelled, engineReq, frames, conn,
                   chan, workerState, flag, pieces, runLog, asked, proxied>>

\* Mutant: the Ollama shim borrows _openai_finish_reason.
TerminalAlwaysStop(r) ==
    /\ Is(r, "terminal") /\ r \in Ollama
    /\ Goes(r, "close") /\ Tell(r, OpenAIFinish(frames[r]))
    /\ UNCHANGED <<client, current, cancelled, engineReq, frames, conn,
                   chan, workerState, flag, pieces, runLog, asked, proxied>>

\* The done line; without a stop cause it carries no done_reason, and a failed
\* write is ignored.
TerminalNDJSON(r) ==
    /\ Is(r, "terminal") /\ r \in Ollama
    /\ Goes(r, "close")
    /\ Tell(r, IF frames[r] = None THEN "done" ELSE frames[r])
    /\ UNCHANGED <<client, current, cancelled, engineReq, frames, conn,
                   chan, workerState, flag, pieces, runLog, asked, proxied>>

\* except Exception: runLog the run as worker_disconnected and try to say so.
Except(r) ==
    /\ Is(r, "except")
    /\ Log(r, "worker", None)
    /\ Tell(r, "error")
    /\ Goes(r, "close")
    /\ UNCHANGED <<client, current, cancelled, engineReq, frames, conn,
                   chan, workerState, flag, pieces, asked, proxied>>

\* finally: gen.close(), which runs chat_stream's finally block unless the
\* generator has not begun or has ended.
Close(r) ==
    /\ Is(r, "close")
    /\ IF conn[r] = "open" THEN ReleaseWorker(r) ELSE UNCHANGED <<conn, chan>>
    /\ Goes(r, "ended")
    /\ UNCHANGED <<client, current, cancelled, engineReq, frames, workerState,
                   flag, pieces, runLog, told, asked, proxied>>

-----------------------------------------------------------------------------
(* The worker *)

Send(r, fs) == chan' = [chan EXCEPT ![r] = IF conn[r] = "open" THEN @ \o fs ELSE @]
WorkerEnds(r, how) == workerState' = [workerState EXCEPT ![r] = how]

\* on_event: one committed token, one frame.  A write to a connection the
\* gateway has closed raises the request's own cancel flag, though the first
\* such write may still succeed.
WorkerEmit(r) ==
    /\ workerState[r] = "running" /\ ~flag[r]
    /\ pieces[r] < MaxPieces
    /\ pieces' = [pieces EXCEPT ![r] = @ + 1]
    /\ Send(r, <<"piece">>)
    /\ \/ flag' = [flag EXCEPT ![r] = conn[r] # "open"]
       \/ conn[r] # "open" /\ UNCHANGED flag
    /\ UNCHANGED <<handlerVars, client, cancelled, engineReq, conn, workerState, asked,
                   proxied>>

\* check_cancelled throws at the next event.
WorkerCancelled(r) ==
    /\ workerState[r] = "running" /\ flag[r]
    /\ Send(r, <<"cancelled", "DONE">>)
    /\ WorkerEnds(r, "cancelled")
    /\ UNCHANGED <<handlerVars, client, cancelled, engineReq, conn, flag, pieces,
                   asked, proxied>>

\* run() returns: the final frame carries finish_reason.
WorkerFinishes(r, reason) ==
    /\ workerState[r] = "running"
    /\ reason = "length" => pieces[r] = MaxPieces
    /\ Send(r, <<reason, "DONE">>)
    /\ WorkerEnds(r, reason)
    /\ UNCHANGED <<handlerVars, client, cancelled, engineReq, conn, flag, pieces,
                   asked, proxied>>

\* The generator throws (n_ctx exceeded, decode failure): an error frame, then
\* [DONE], so the stream itself ends cleanly.
WorkerFails(r) ==
    /\ workerState[r] = "running"
    /\ Send(r, <<"error", "DONE">>)
    /\ WorkerEnds(r, "failed")
    /\ UNCHANGED <<handlerVars, client, cancelled, engineReq, conn, flag, pieces,
                   asked, proxied>>

\* The process dies or hangs past the gateway's read timeout.
WorkerDies(r) ==
    /\ workerState[r] = "running"
    /\ WorkerEnds(r, "died")
    /\ UNCHANGED <<handlerVars, client, cancelled, engineReq, conn, chan, flag,
                   pieces, asked, proxied>>

-----------------------------------------------------------------------------
(* POST /cancel, and the client.  A cancel after both the reply and its    *)
(* generation have ended has nothing left to change and is left out.       *)

InFlight(r) == streamPc[r] # "ended" \/ workerState[r] = "running"

\* With req_id: only the published context can match.  It is cancelled here,
\* and its engine_req, if known, is passed on to the worker.
CancelById(r) ==
    /\ ~asked[r] /\ current = r /\ InFlight(r)
    /\ asked' = [asked EXCEPT ![r] = TRUE]
    /\ cancelled' = [cancelled EXCEPT ![r] = TRUE]
    /\ proxied' = IF engineReq[r] THEN proxied \cup {r} ELSE proxied
    /\ UNCHANGED <<handlerVars, client, engineReq, conn, chan, workerState, flag, pieces>>

\* With req, the worker's own id, which every frame shows: straight through.
CancelByReq(r) ==
    /\ ~asked[r] /\ engineReq[r] /\ InFlight(r)
    /\ asked' = [asked EXCEPT ![r] = TRUE]
    /\ proxied' = proxied \cup {r}
    /\ UNCHANGED <<handlerVars, client, cancelled, engineReq, conn, chan, workerState,
                   flag, pieces>>

\* CancelRegistry::cancel: a request that is no longer registered is moot.
WorkerCancel(r) ==
    /\ r \in proxied
    /\ proxied' = proxied \ {r}
    /\ flag' = [flag EXCEPT ![r] = @ \/ workerState[r] = "running"]
    /\ UNCHANGED <<handlerVars, client, cancelled, engineReq, conn, chan, workerState,
                   pieces, asked>>

ClientLeaves(r) ==
    /\ client[r] /\ streamPc[r] \notin {"idle", "ended"}
    /\ client' = [client EXCEPT ![r] = FALSE]
    /\ UNCHANGED <<handlerVars, cancelled, engineReq, conn, chan, workerState, flag,
                   pieces, asked, proxied>>

-----------------------------------------------------------------------------
Handler(r) ==
    \/ WriteRole(r) \/ Begin(r) \/ BeginRaises(r)
    \/ PullCancelled(r) \/ PullPiece(r) \/ PullFrame(r) \/ PullDone(r) \/ PullRaises(r)
    \/ Flush(r) \/ Disconnect(r) \/ Complete(r) \/ Policy(r)
    \/ TerminalSSE(r) \/ TerminalNDJSON(r) \/ Except(r) \/ Close(r)

Worker(r) ==
    \/ WorkerEmit(r) \/ WorkerCancelled(r)
    \/ \E reason \in Reasons : WorkerFinishes(r, reason)
    \/ WorkerFails(r) \/ WorkerDies(r)

Others(r) ==
    \/ Open(r)
    \/ CancelById(r) \/ CancelByReq(r) \/ WorkerCancel(r) \/ ClientLeaves(r)

StreamNext == \E r \in Requests : Handler(r) \/ Worker(r) \/ Others(r)

\* A handler thread that can run does; a generation commits a token, stops or
\* dies (a hung worker is a dead one after the read timeout).
StreamFairness == \A r \in Requests : WF_streamVars(Handler(r)) /\ WF_streamVars(Worker(r))

StreamSpec == StreamInit /\ [][StreamNext]_streamVars
StreamFairSpec == StreamSpec /\ StreamFairness

-----------------------------------------------------------------------------
(* Properties *)

LogsOnce(served) == \A r \in served : streamPc[r] = "ended" => Len(runLog[r]) = 1

\* The two promises of ndjson.py, for every moment at which the client leaves
\* and whatever the worker does: "Exactly ONE _log_run call per request, on
\* every exit path", and a done_reason "stop" only of a generation that was not
\* cancelled, did not fail and was not cut off.
NdjsonHonest ==
    /\ LogsOnce(Ollama)
    /\ \A r \in Ollama : told[r] = "stop" => workerState[r] = "stop"

\* "A generation that did not finish normally must never claim it did": on
\* either wire, "stop" means that the worker stopped by itself.
StopIsTrue == \A r \in Requests : told[r] = "stop" => workerState[r] = "stop"

\* What the journal says of a reply is true: a run tagged client_disconnected
\* lost its client, one with a finish_reason was finished by the worker for
\* that reason, and the context it is logged with (id, sampling, prompt tokens)
\* is its own, although that is whatever the substrate published last; only a
\* reply given up before the generator was first iterated has none of its own.
JournalTruthful ==
    \A r \in Requests : \A i \in DOMAIN runLog[r] :
        LET entry == runLog[r][i] IN
        /\ entry.tag = "client" => ~client[r]
        /\ entry.finish # None => workerState[r] = entry.finish
        /\ entry.meta = r \/ (entry.tag = "client" /\ conn[r] = "none")

\* Every reply ends and the worker's connection is released, on every exit
\* path: a dead worker or a vanished client never leaves the handler (and with
\* it the POST gate's turn) waiting.
StreamEnds ==
    \A r \in Requests :
        streamPc[r] # "idle" ~> streamPc[r] = "ended" /\ conn[r] # "open"

=============================================================================
