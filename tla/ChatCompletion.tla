--------------------------- MODULE ChatCompletion ---------------------------
(***************************************************************************)
(* POST /v1/chat/completions without streaming, from the request to the    *)
(* reply and its run record: clozn/server/routes/openai.py,                *)
(* generation_gateway.instrumented_chat, EngineSubstrate.chat and          *)
(* _complete_chat_native (clozn/server/substrates.py), the anchored-memory *)
(* loop guard (clozn/server/memory_assembly.py) and the qualification of   *)
(* structured output (clozn/server/structured_io.py).                      *)
(*                                                                         *)
(* A request runs alone, but the worker behind it may be restarted with    *)
(* another model file or another build between any two of its steps, the   *)
(* engine's stream may break off, and the run store may refuse the record. *)
(***************************************************************************)
EXTENDS Naturals, Sequences, FiniteSets

CONSTANTS
    Models,     \* model_sha256 of the files a worker may have loaded
    Pipelines,  \* native chat pipelines: executor, renderer, grammar, parser
    Registry,   \* qualified [sha, pipe] pairs, for the mode of the requests
    MaxTurns,   \* bound of the model: requests in a behaviour
    Nothing     \* no value

ASSUME ChatAssumption ==
    /\ Registry \subseteq [sha : Models, pipe : Pipelines]
    /\ MaxTurns \in Nat

VARIABLES
    worker,     \* [sha, pipe] of the worker that answers now
    identity,   \* _identity_meta_val: model_sha256 of the first /health
    chatTurn,   \* requests so far
    mode,       \* "prose" or "structured"
    stage,      \* where the request is
    qualified,  \* the registry entry the request was admitted under
    rode,       \* an anchored bag was injected: comp is not None
    attempt,    \* the last generation: [n, sha, pipe, strength, traced, loops,
                \*  cut, valid]
    kept,       \* what chat() keeps: attempt numbers of reply, steps, finish
                \*  and timing, and the strength it records
    rows,       \* run records of this request
    answer      \* the HTTP answer, or Nothing

chatVars == <<worker, identity, chatTurn, mode, stage, qualified, rode, attempt,
              kept, rows, answer>>

NoAttempt == [n |-> 0]
Blank == [reply |-> 0, steps |-> 0, finish |-> 0, timing |-> 0,
          strength |-> "none"]

ChatInit ==
    /\ worker \in [sha : Models, pipe : Pipelines]
    /\ identity = Nothing
    /\ chatTurn = 0 /\ mode = "prose" /\ stage = "idle"
    /\ qualified = Nothing /\ rode = FALSE
    /\ attempt = NoAttempt /\ kept = Blank
    /\ rows = <<>> /\ answer = Nothing

-----------------------------------------------------------------------------
(* Admission *)

Answered(a) == answer' = a /\ stage' = "idle"
Refusal(status) == [status |-> status, of |-> 0, structured |-> FALSE]

\* try_post up to the policies.  A bad request, a guard it does not support or
\* a prose policy that a structured request meets is refused at once.
Arrive(m) ==
    /\ stage = "idle" /\ chatTurn < MaxTurns
    /\ chatTurn' = chatTurn + 1 /\ mode' = m
    /\ qualified' = Nothing /\ rode' = FALSE
    /\ attempt' = NoAttempt /\ kept' = Blank /\ rows' = <<>>
    /\ \/ stage' = (IF m = "structured" THEN "qualify" ELSE "assemble")
          /\ answer' = Nothing
       \/ m = "structured" /\ Answered(Refusal(409))
    /\ UNCHANGED <<worker, identity>>

\* identity_meta: the first /health of the process, kept for ever.
IdentityMeta == IF identity = Nothing THEN worker.sha ELSE identity

\* require_qualification(identity, runtime_pipeline of the health just read).
Qualifies(sha, pipe) == [sha |-> sha, pipe |-> pipe] \in Registry

Qualify ==
    /\ stage = "qualify"
    /\ identity' = IdentityMeta
    /\ \/ /\ Qualifies(IdentityMeta, worker.pipe)
          /\ qualified' = [sha |-> IdentityMeta, pipe |-> worker.pipe]
          /\ stage' = "native" /\ UNCHANGED answer
       \/ /\ ~Qualifies(IdentityMeta, worker.pipe)
          /\ Answered(Refusal(400)) /\ UNCHANGED qualified
    /\ UNCHANGED <<worker, chatTurn, mode, rode, attempt, kept, rows>>

-----------------------------------------------------------------------------
(* Generation *)

Attempt(strength, traced, loops, cut, valid) ==
    [n |-> attempt.n + 1, sha |-> worker.sha, pipe |-> worker.pipe,
     strength |-> strength, traced |-> traced, loops |-> loops, cut |-> cut,
     valid |-> valid]

\* Prompt cards are injected, the tone dials take the raw-steer slot if one is
\* set, and anchored memory takes it if it is free and a bag of an eligible
\* card compiles to something.
Assemble ==
    /\ stage = "assemble"
    /\ \E free, compiles \in BOOLEAN : rode' = (free /\ compiles)
    /\ stage' = "generate"
    /\ kept' = [Blank EXCEPT !.strength = IF rode' THEN "full" ELSE "none"]
    /\ UNCHANGED <<worker, identity, chatTurn, mode, qualified, attempt, rows,
                   answer>>

\* _engine_complete_traced: the reply with its steps, or, when the stream broke
\* off or carried nothing, a second completion without any.
TracedAttempt(strength) ==
    \E traced, loops, cut \in BOOLEAN :
        attempt' = Attempt(strength, traced, loops, cut, TRUE)

\* detect_loop reads the steps: a reply without steps never looks like a loop.
LooksLooped(a) == a.traced /\ a.loops

Keep(a, strength, timed) ==
    kept' = [reply |-> a.n, finish |-> a.n,
             steps |-> IF a.traced THEN a.n ELSE 0,
             timing |-> IF a.traced /\ timed THEN a.n ELSE 0,
             strength |-> strength]

\* chat(): the first completion, and its steps to the loop guard.
Generate ==
    /\ stage = "generate"
    /\ TracedAttempt(kept.strength)
    /\ Keep(attempt', kept.strength, TRUE)
    /\ stage' = IF rode /\ LooksLooped(attempt') THEN "half" ELSE "sanitize"
    /\ UNCHANGED <<worker, identity, chatTurn, mode, qualified, rode, rows, answer>>

\* Mutant: the retry's reply is returned and the rest of the first one kept.
RetryReplyOnly ==
    /\ stage = "half"
    /\ TracedAttempt("half")
    /\ IF LooksLooped(attempt')
       THEN stage' = "zero" /\ UNCHANGED kept
       ELSE stage' = "sanitize" /\ kept' = [kept EXCEPT !.reply = attempt'.n]
    /\ UNCHANGED <<worker, identity, chatTurn, mode, qualified, rode, rows, answer>>

\* The loop guard's retry at half strength replaces reply, steps and finish;
\* the timing of the discarded attempt is cleared.
RetryHalf ==
    /\ stage = "half"
    /\ TracedAttempt("half")
    /\ IF LooksLooped(attempt')
       THEN stage' = "zero" /\ UNCHANGED kept
       ELSE stage' = "sanitize" /\ Keep(attempt', "half", FALSE)
    /\ UNCHANGED <<worker, identity, chatTurn, mode, qualified, rode, rows, answer>>

\* Still a loop: one last completion without the steer, loop or not.
RetryZero ==
    /\ stage = "zero"
    /\ TracedAttempt("none")
    /\ Keep(attempt', "none", FALSE)
    /\ stage' = "sanitize"
    /\ UNCHANGED <<worker, identity, chatTurn, mode, qualified, rode, rows, answer>>

\* _complete_chat_native: one call renders, generates and parses; anchored
\* memory is off.  `valid` is what the parser and validate_native_message say.
GenerateNative ==
    /\ stage = "native"
    /\ \E cut, valid \in BOOLEAN :
          attempt' = Attempt("none", TRUE, FALSE, cut, valid)
    /\ Keep(attempt', "none", TRUE)
    /\ stage' = "process"
    /\ UNCHANGED <<worker, identity, chatTurn, mode, qualified, rode, rows, answer>>

\* think_tags.sanitize_reply; the raw reply is what the record keeps.
Sanitize ==
    /\ stage = "sanitize"
    /\ stage' = "log"
    /\ UNCHANGED <<worker, identity, chatTurn, mode, qualified, rode, attempt, kept,
                   rows, answer>>

\* The engine call raised, in the first attempt or in a retry: a record without
\* a reply, and 502.
GenerationFails ==
    /\ stage \in {"generate", "half", "zero", "native"}
    /\ \/ rows' = Append(rows, [of |-> 0, ok |-> FALSE, kept |-> Blank])
       \/ rows' = rows
    /\ Answered(Refusal(502))
    /\ UNCHANGED <<worker, identity, chatTurn, mode, qualified, rode, attempt, kept>>

-----------------------------------------------------------------------------
(* Validation, the record and the answer *)

\* Mutant: the answer is not compared with what was qualified.
ProcessUnchecked ==
    /\ stage = "process"
    /\ stage' = IF attempt.cut \/ ~attempt.valid THEN "logError" ELSE "log"
    /\ UNCHANGED <<worker, identity, chatTurn, mode, qualified, rode, attempt, kept,
                   rows, answer>>

\* _native_structured_processor.process: not cut off, generated by the model and
\* the pipeline that were qualified, parsed and valid.
Process ==
    /\ stage = "process"
    /\ stage' = IF \/ attempt.cut
                   \/ attempt.sha # qualified.sha
                   \/ attempt.pipe # qualified.pipe
                   \/ ~attempt.valid
                THEN "logError" ELSE "log"
    /\ UNCHANGED <<worker, identity, chatTurn, mode, qualified, rode, attempt, kept,
                   rows, answer>>

\* The rejected output is journaled, or journal_persistence_failed is raised
\* instead: 502 either way.
LogError ==
    /\ stage = "logError"
    /\ \/ rows' = Append(rows, [of |-> attempt.n, ok |-> FALSE, kept |-> kept])
       \/ rows' = rows
    /\ Answered(Refusal(502))
    /\ UNCHANGED <<worker, identity, chatTurn, mode, qualified, rode, attempt, kept>>

Delivered == [status |-> 200, of |-> attempt.n, structured |-> mode = "structured"]

\* Prose is delivered even when the store refused the record; a structured
\* reply is not.
Log ==
    /\ stage = "log"
    /\ \/ /\ rows' = Append(rows, [of |-> attempt.n, ok |-> TRUE, kept |-> kept])
          /\ Answered(Delivered)
       \/ /\ rows' = rows
          /\ Answered(IF mode = "structured" THEN Refusal(502) ELSE Delivered)
    /\ identity' = IdentityMeta
    /\ UNCHANGED <<worker, chatTurn, mode, qualified, rode, attempt, kept>>

-----------------------------------------------------------------------------
(* The environment *)

\* The worker is restarted on another file or build.
SwapWorker ==
    /\ worker' \in [sha : Models, pipe : Pipelines] \ {worker}
    /\ UNCHANGED <<identity, chatTurn, mode, stage, qualified, rode, attempt, kept,
                   rows, answer>>

ChatNext ==
    \/ \E m \in {"prose", "structured"} : Arrive(m)
    \/ Qualify \/ Assemble \/ Generate \/ RetryHalf \/ RetryZero
    \/ GenerateNative \/ Sanitize \/ GenerationFails
    \/ Process \/ LogError \/ Log \/ SwapWorker

ChatSpec == ChatInit /\ [][ChatNext]_chatVars

-----------------------------------------------------------------------------
(* Properties *)

\* A structured reply that is delivered was generated by a model and pipeline
\* that the registry lists, whatever the worker was swapped for between the
\* preflight and the generation and however old the cached identity is; it was
\* not cut off and it is valid.
StructuredReplyQualified ==
    answer # Nothing /\ answer.status = 200 /\ answer.structured
    => /\ [sha |-> attempt.sha, pipe |-> attempt.pipe] \in Registry
       /\ ~attempt.cut /\ attempt.valid

\* A structured reply is delivered only with a record of that very output, and
\* no request leaves two records.
StructuredReplyJournaled ==
    /\ Len(rows) <= 1
    /\ answer # Nothing /\ answer.status = 200 /\ answer.structured
       => Len(rows) = 1 /\ rows[1].ok /\ rows[1].of = answer.of

\* The record describes the reply that was delivered: its stop cause, its
\* strength of injection, its steps and its timing are those of the attempt
\* whose text was returned, or absent, also after a stream that broke off and
\* after one or two retries of the loop guard.
EvidenceIsOfTheReply ==
    \A i \in 1..Len(rows) :
        rows[i].of # 0 =>
            /\ rows[i].kept.reply = rows[i].of
            /\ rows[i].kept.finish = rows[i].of
            /\ rows[i].kept.steps \in {0, rows[i].of}
            /\ rows[i].kept.timing \in {0, rows[i].of}
            /\ rows[i].of = attempt.n
               => rows[i].kept.strength = attempt.strength

\* The two demands on a structured reply together.
StructuredReplySound == StructuredReplyQualified /\ StructuredReplyJournaled

=============================================================================
