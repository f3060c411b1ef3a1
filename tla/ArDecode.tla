------------------------------ MODULE ArDecode ------------------------------
(***************************************************************************)
(* Left-to-right decoding in the worker and what can be kept of it:        *)
(* generate_ar() and generate_ar_branched() (engine/core/src/              *)
(* generate_ar.cpp) on the KV cache of a pooled context (model_ggml.cpp),  *)
(* the checkpoint a completion leaves when it finishes, /v1/checkpoint,    *)
(* /v1/restore and /v1/branch (serve/server_main.cpp).                     *)
(*                                                                         *)
(* A KV cell is its token, whether it was decoded in the prompt's batch or *)
(* on its own (the two differ in floating point), and the steering it was  *)
(* decoded under.  What is sampled is any token.                           *)
(***************************************************************************)
EXTENDS Integers, Sequences, FiniteSets, SequencesExt

CONSTANTS
    Letter, Stop, \* tokens: an ordinary one, and the model's EOS
    Soft,         \* a row of a soft prefix, in place of a token
    Prompts,      \* prompts, sequences of tokens
    PrefixRows,   \* lengths of the soft prefix, 0 for none
    MaxNew,       \* bound of the model: max_tokens
    WindowSize,   \* n_ctx
    Branches,     \* n of /v1/branch
    MaxRuns       \* bound of the model: requests on this context

ASSUME ArAssumption ==
    /\ MaxNew \in Nat \ {0} /\ WindowSize \in Nat \ {0} /\ MaxRuns \in Nat
    /\ PrefixRows \subseteq Nat /\ Branches \in Nat \ {0}
    /\ \A p \in Prompts : p \in Seq({Letter, Stop}) /\ p # <<>>

VARIABLES
    at,     \* where the request stands
    run,    \* the request: see NoRun
    reply,  \* generated: the tokens committed so far, for each branch
    cells,  \* the KV cache: one sequence of cells for each branch, the first is
            \* the only one outside /v1/branch
    nPast,  \* n_past
    saved,  \* the checkpoint in the store, or NoSaved
    drawsMade,  \* draws of the sampler, counted from the seed
    runs    \* requests so far

arVars == <<at, run, reply, cells, nPast, saved, drawsMade, runs>>

NoRun == [kind |-> "none", prompt |-> <<>>, base |-> 0, steer |-> FALSE,
          sampled |-> FALSE, keep |-> FALSE, fast |-> FALSE, resumes |-> FALSE]

\* The checkpoint: its tokens, n_past, KV and sampler, and, as history, whether
\* a run saved it on finishing, that run's prompt, soft prefix and end, and the
\* draws it had really made.
NoSaved == [tokens |-> <<>>, nPast |-> 0, kv |-> <<>>, steer |-> FALSE,
            hasSampler |-> FALSE, draws |-> 0,
            onFinish |-> FALSE, prompt |-> 0, base |-> 0, reason |-> "none", truly |-> 0]

Tokens == {Letter, Stop}

Cell(tok, how) == [tok |-> tok, how |-> how, steer |-> run.steer]
Batch(toks, steer) == [i \in DOMAIN toks |-> [tok |-> toks[i], how |-> "batch", steer |-> steer]]
TokensOf(kv) == [i \in DOMAIN kv |-> kv[i].tok]

ArInit ==
    /\ at = "idle" /\ run = NoRun /\ reply = << <<>> >>
    /\ cells = << <<>> >>
    /\ nPast = 0 /\ saved = NoSaved /\ drawsMade = 0 /\ runs = 0

-----------------------------------------------------------------------------
(* A completion *)

\* set_causal(true) empties the cache, the soft prefix and then the prompt are
\* decoded, one batch each.  What the window does not hold is refused.
Begin ==
    /\ at = "idle" /\ runs < MaxRuns /\ runs' = runs + 1
    /\ \E prompt \in Prompts, base \in PrefixRows, steer, sampled, keep \in BOOLEAN :
          /\ run' = [NoRun EXCEPT !.kind = "completion", !.prompt = prompt, !.base = base,
                                  !.steer = steer, !.sampled = sampled, !.keep = keep]
          /\ LET rows == [i \in 1..base |-> Soft] IN
             IF base + Len(prompt) > WindowSize
             THEN /\ at' = "refused" /\ nPast' = 0
                  /\ cells' = << IF base > WindowSize THEN <<>> ELSE Batch(rows, steer) >>
             ELSE /\ at' = "sample" /\ nPast' = base + Len(prompt)
                  /\ cells' = << Batch(rows \o prompt, steer) >>
    /\ reply' = << <<>> >> /\ drawsMade' = 0
    /\ UNCHANGED saved

Room == nPast < WindowSize

\* A token is committed; a reply that leaves its reference, or whose text ends
\* with a stop string, ends before the token is decoded.
Sample ==
    /\ at = "sample" /\ Room /\ Len(reply[1]) < MaxNew
    /\ \E tok \in Tokens :
          /\ reply' = << Append(reply[1], tok) >>
          /\ drawsMade' = IF run.sampled THEN drawsMade + 1 ELSE drawsMade
          /\ \/ /\ at' \in {"stop", "diverged"}
                /\ UNCHANGED <<cells, nPast>>
             \/ /\ nPast < WindowSize
                /\ cells' = << Append(cells[1], Cell(tok, "single")) >>
                /\ nPast' = nPast + 1
                /\ at' = IF tok = Stop THEN "eos" ELSE "sample"
             \/ /\ nPast >= WindowSize
                /\ at' = "overflow"
                /\ UNCHANGED <<cells, nPast>>
    /\ UNCHANGED <<run, saved, runs>>

\* The budget is used up, or the window is full.
LengthStop ==
    /\ at = "sample" /\ (Len(reply[1]) = MaxNew \/ ~Room)
    /\ at' = "length"
    /\ UNCHANGED <<run, reply, cells, nPast, saved, drawsMade, runs>>

Ended == {"stop", "diverged", "eos", "length"}

\* new_tokens: the reply without a trailing EOS.
NewTokens == IF at = "eos" THEN Len(reply[1]) - 1 ELSE Len(reply[1])

\* The last token of the board is decoded anew, at its place in the board.
TopUp(board) == Append(SubSeq(cells[1], 1, Len(board) - 1), Cell(Last(board), "single"))

\* checkpoint_on_finish: under the run's own regime, before it is cleaned up.
SaveOnFinish ==
    /\ at \in Ended /\ run.kind = "completion" /\ run.keep
    /\ LET board == run.prompt \o reply[1] IN
          /\ cells' = << TopUp(board) >>
          /\ saved' = [tokens |-> board, nPast |-> Len(board), kv |-> TopUp(board),
                       steer |-> run.steer, hasSampler |-> run.sampled,
                       draws |-> IF run.sampled THEN NewTokens ELSE 0,
                       onFinish |-> TRUE, prompt |-> Len(run.prompt), base |-> run.base,
                       reason |-> at, truly |-> drawsMade]
    /\ at' = "answered"
    /\ UNCHANGED <<run, reply, nPast, drawsMade, runs>>

\* The answer, a failed decode or a refusal: the context goes back as it is.
Return ==
    /\ at \notin {"idle", "branch"}
    /\ ~(at \in Ended /\ run.kind = "completion" /\ run.keep)
    /\ at' = "idle" /\ run' = NoRun /\ reply' = << <<>> >> /\ nPast' = 0 /\ drawsMade' = 0
    /\ UNCHANGED <<cells, saved, runs>>

-----------------------------------------------------------------------------
(* Checkpoints *)

\* /v1/checkpoint rebuilds the state of `tokens`: the first prefill_to in one
\* batch, the rest one by one, under the steering the request declares.  Its
\* n_past is the client's.
Checkpoint ==
    /\ at = "idle" /\ runs < MaxRuns /\ runs' = runs + 1
    /\ \E tokens \in Prompts, steer \in BOOLEAN : \E prefill \in 1..Len(tokens) :
          /\ Len(tokens) <= WindowSize
          /\ cells' = << [i \in DOMAIN tokens |->
                            [tok |-> tokens[i], how |-> IF i <= prefill THEN "batch" ELSE "single",
                             steer |-> steer]] >>
          /\ \E past \in 0..Len(tokens) :
                saved' = [NoSaved EXCEPT !.tokens = tokens, !.nPast = past,
                                         !.kv = cells'[1], !.steer = steer, !.prompt = prefill]
    /\ UNCHANGED <<at, run, reply, nPast, drawsMade>>

\* Mutant: the steering is applied after the bridge.
BridgeUnsteered ==
    Append(SubSeq(saved.kv, 1, saved.nPast - 1),
           [tok |-> saved.tokens[saved.nPast], how |-> "single", steer |-> FALSE])

\* load_checkpoint(), evict_from(n_past - 1), and the bridge: the last token is
\* decoded again for its logits.
Bridge ==
    Append(SubSeq(saved.kv, 1, saved.nPast - 1),
           [tok |-> saved.tokens[saved.nPast], how |-> "single", steer |-> saved.steer])

\* /v1/restore, from the KV or by decoding the tokens again, with the sampler
\* the checkpoint carries unless the request has its own.
Restore ==
    /\ at = "idle" /\ saved # NoSaved /\ runs < MaxRuns /\ runs' = runs + 1
    /\ \E fast, own \in BOOLEAN :
          /\ run' = [NoRun EXCEPT !.kind = "restore", !.prompt = saved.tokens,
                                  !.steer = saved.steer, !.fast = fast,
                                  !.sampled = saved.hasSampler \/ own,
                                  !.resumes = saved.hasSampler /\ ~own]
          /\ drawsMade' = IF saved.hasSampler /\ ~own THEN saved.draws ELSE 0
          /\ \/ /\ fast /\ saved.nPast >= 1
                /\ cells' = << Bridge >> /\ nPast' = saved.nPast /\ at' = "sample"
             \/ /\ fast /\ saved.nPast < 1
                /\ at' = "refused" /\ UNCHANGED <<cells, nPast>>
             \/ /\ ~fast
                /\ cells' = << Batch(saved.tokens, saved.steer) >>
                /\ nPast' = Len(saved.tokens) /\ at' = "sample"
    /\ reply' = << <<>> >>
    /\ UNCHANGED saved

-----------------------------------------------------------------------------
(* /v1/branch *)

\* The saved tokens are decoded once, without the checkpoint's steering, and the
\* cache is copied for every branch.
Branch ==
    /\ at = "idle" /\ saved # NoSaved /\ runs < MaxRuns /\ runs' = runs + 1
    /\ run' = [NoRun EXCEPT !.kind = "branch", !.prompt = saved.tokens, !.sampled = TRUE]
    /\ nPast' = Len(saved.tokens)
    /\ reply' = [i \in 1..Branches |-> <<>>]
    /\ IF Len(saved.tokens) >= WindowSize
       THEN at' = "answered" /\ cells' = << Batch(saved.tokens, FALSE) >>
       ELSE at' = "branch" /\ cells' = [i \in 1..Branches |-> Batch(saved.tokens, FALSE)]
    /\ UNCHANGED <<saved, drawsMade>>

Live(i) == reply[i] = <<>> \/ Last(reply[i]) # Stop

\* ar_forward_batch(): the live branches' tokens, each into its own sequence.
DecodeRound(round) ==
    [i \in 1..Branches |->
       IF Last(round[i]) # Stop THEN Append(cells[i], Cell(Last(round[i]), "single"))
       ELSE cells[i]]

\* One round: every live branch commits a token; unless that was the last
\* round, those still live are decoded.
Round ==
    /\ at = "branch"
    /\ \E toks \in [1..Branches -> Tokens] :
          LET round == [i \in 1..Branches |->
                          IF Live(i) THEN Append(reply[i], toks[i]) ELSE reply[i]]
              going == \E i \in 1..Branches : Last(round[i]) # Stop
              last == \E i \in 1..Branches : Len(round[i]) >= MaxNew
          IN /\ reply' = round
             /\ IF going /\ ~last
                THEN /\ cells' = DecodeRound(round) /\ nPast' = nPast + 1
                     /\ at' = IF nPast' < WindowSize THEN "branch" ELSE "joining"
                ELSE at' = "joining" /\ UNCHANGED <<cells, nPast>>
    /\ UNCHANGED <<run, saved, drawsMade, runs>>

\* cleanup_seqs(); a failed decode skips it.
Join ==
    /\ at = "joining"
    /\ cells' = << cells[1] >> /\ at' = "answered"
    /\ UNCHANGED <<run, reply, nPast, saved, drawsMade, runs>>

BranchFails ==
    /\ at = "branch" /\ at' = "failed"
    /\ UNCHANGED <<run, reply, cells, nPast, saved, drawsMade, runs>>

ArNext ==
    \/ Begin \/ Sample \/ LengthStop \/ SaveOnFinish \/ Return
    \/ Checkpoint \/ Restore \/ Branch \/ Round \/ Join \/ BranchFails

ArSpec == ArInit /\ [][ArNext]_arVars

-----------------------------------------------------------------------------
(* Properties *)

SoftRows(n) == [i \in 1..n |-> Soft]

\* Whatever the request and whatever ran before it, the next token is sampled
\* from a cache that holds the soft prefix, the prompt and the reply so far,
\* each once and in order: n_past is the length of the cache.  (Left aside: what
\* is restored from a checkpoint that had a soft prefix, or whose n_past the
\* client set short of its tokens.)
CacheIsTheText ==
    at = "sample" /\ (run.kind = "restore" =>
                        saved.base = 0 /\ saved.nPast = Len(saved.tokens)) =>
        /\ Len(cells) = 1 /\ Len(cells[1]) = nPast
        /\ TokensOf(cells[1]) = SoftRows(run.base) \o run.prompt \o reply[1]

\* The cache an uninterrupted run has after its prompt and n tokens: the prompt
\* in one batch, every other token on its own.
Uninterrupted(tokens, prompt, steer) ==
    [i \in DOMAIN tokens |->
       [tok |-> tokens[i], how |-> IF i <= prompt THEN "batch" ELSE "single", steer |-> steer]]

\* A checkpoint that a run without a soft prefix leaves after at least one token
\* resumes from the very cache the run would have gone on with, however the run
\* ended and whatever it was steered by.
ResumeIsExact ==
    at = "sample" /\ run.kind = "restore" /\ run.fast /\ reply[1] = <<>>
    /\ saved.onFinish /\ saved.base = 0 /\ Len(saved.tokens) > saved.prompt
    => cells[1] = Uninterrupted(saved.tokens, saved.prompt, saved.steer)

\* A sampled run that did not end with EOS is resumed at the draw where it left
\* off: the next draw is the one the uninterrupted run would have made.
DrawsGoOn ==
    at = "sample" /\ run.resumes /\ saved.reason # "eos"
    => drawsMade = saved.truly + Len(reply[1])

\* "a generation that reaches the context window stops, it never overflows."
NeverOverflows == at # "overflow" /\ \A i \in DOMAIN cells : Len(cells[i]) <= WindowSize

\* Each branch decodes the checkpoint's text and its own reply, never a sister's
\* token and never past its own EOS.
BranchesAreIsolated ==
    at \in {"branch", "joining"} =>
        \A i \in DOMAIN cells :
            /\ IsPrefix(TokensOf(cells[i]), run.prompt \o reply[i])
            /\ at = "branch" /\ Live(i) => TokensOf(cells[i]) = run.prompt \o reply[i]

\* What a caller of the autoregressive decoder may rely on.
DecodeSound ==
    CacheIsTheText /\ ResumeIsExact /\ DrawsGoOn /\ NeverOverflows /\ BranchesAreIsolated

=============================================================================
