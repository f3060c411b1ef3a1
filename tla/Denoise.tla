------------------------------ MODULE Denoise ------------------------------
(***************************************************************************)
(* Masked-diffusion decoding in the worker (engine/core/src): generate(),  *)
(* infill() and denoise() of generate.cpp fill the masked positions of a   *)
(* board block by block, the CacheManager of cache.cpp decides what each   *)
(* pass may reuse, and the GgmlAdapter of model_ggml.cpp lays the board    *)
(* into the one KV cache of its context.  Contexts are pooled: the         *)
(* CacheManager lives as long as a generation, the adapter as long as the  *)
(* worker.                                                                 *)
(*                                                                         *)
(* What the model predicts, and how sure it is, is any value.  A KV cell   *)
(* is known by the tokens its position could attend to when it was         *)
(* computed.                                                               *)
(***************************************************************************)
EXTENDS Integers, Sequences, FiniteSets, SequencesExt

CONSTANTS
    Word, Eos, Mask,  \* an ordinary token, the model's EOS and its mask token
    Boards,           \* boards asked for: [kind, board], masked where text is wanted
    BlockLens,        \* block_len of generate(); 0 is the whole sequence
    Caches,           \* CacheConfig.mode
    StepBudgets,      \* GenerateConfig.steps
    TopKs,            \* GenerateConfig.topk; below 0 is the quota
    MaxRevisions,     \* ReviseConfig.max_revisions
    FullRefreshEvery, \* CacheConfig.full_refresh_every; cache_from() sets 1
    CtxSize,          \* n_ctx
    MaxJobs,          \* bound of the model: generations on this context
    CausalRoutes      \* whether /harvest and its like run on this context too

\* A board has a position to fill; generate() and infill() fill one stretch,
\* generate() to the end of the board.
Fillable(ask) ==
    /\ ask.kind \in {"generate", "infill", "denoise"}
    /\ ask.board \in Seq({Word, Eos, Mask})
    /\ \E first, last \in DOMAIN ask.board :
          /\ ask.board[first] = Mask
          /\ \A q \in DOMAIN ask.board : ask.board[q] = Mask => first <= q /\ q <= last
          /\ ask.kind # "denoise" => \A q \in first..last : ask.board[q] = Mask
          /\ ask.kind = "generate" => last = Len(ask.board)

ASSUME DenoiseAssumption ==
    /\ \A ask \in Boards : Fillable(ask)
    /\ BlockLens \subseteq Nat /\ StepBudgets \subseteq Nat \ {0}
    /\ Caches \subseteq {"off", "delta"}
    /\ TopKs \subseteq Int /\ MaxRevisions \in Nat
    /\ FullRefreshEvery \in Nat \ {0} /\ CtxSize \in Nat
    /\ CausalRoutes \in BOOLEAN

VARIABLES
    job,      \* the generation running: what was asked for
    phase,    \* "idle", "plan", "select", "closing", "done", "refused", "tooLong"
    board,    \* the board, positions 1..Len(board)
    blockNo,  \* the block being denoised, from 1
    pass,     \* step: passes of this block so far
    remasked, \* revision_counts
    excused,  \* history: the model re-masked a position or predicted the mask itself
    reason,   \* GenerateResult.reason
    cache,    \* CacheManager: [drawers, labels, frozenUntil]
    kv,       \* the adapter's KV cells
    frozen,   \* frozen_end_
    causal,   \* the context's attention mode
    jobs      \* generations started

jobVars == <<job, board, blockNo, pass, remasked, excused, reason>>
adapterVars == <<kv, frozen, causal>>
denoiseVars == <<jobVars, phase, cache, adapterVars, jobs>>

Predictions == {Word, Eos, Mask}
Unlabelled == "unlabelled"

Masked(b, lo, hi) == {q \in (lo + 1)..hi : b[q] = Mask}

\* The first position that is to be filled, counted from 0: the length of the
\* prompt or of the prefix.
Start(b) == (CHOOSE q \in 1..Len(b) : b[q] = Mask /\ \A r \in 1..(q - 1) : b[r] # Mask) - 1

\* BlockPlan::blocks(); infill and denoise are one block.
Blocks(j) ==
    LET p == Start(j.board)
        n == Len(j.board)
        count == (n - p + j.blockLen - 1) \div j.blockLen
    IN CASE j.kind = "denoise" -> <<[first |-> 0, end |-> n]>>
         [] j.kind = "infill"  ->
              <<[first |-> p, end |-> p + Cardinality(Masked(j.board, 0, n))]>>
         [] j.kind = "generate" /\ j.blockLen = 0 -> <<[first |-> p, end |-> n]>>
         [] OTHER -> [i \in 1..count |->
                        [first |-> p + (i - 1) * j.blockLen,
                         end |-> IF p + i * j.blockLen < n THEN p + i * j.blockLen ELSE n]]

Block == Blocks(job)[blockNo]

\* attention_mask() is block-causal in a blocked generate() and all ones else.
Blocked(j) == j.kind = "generate" /\ j.blockLen > 0

\* The part of the board this pass sees.
WorkingLen == IF job.kind = "generate" THEN Block.end ELSE Len(board)
View == SubSeq(board, 1, WorkingLen)

\* What a position may attend to under attention_mask(): everything up to the
\* end of its own block, and for the prompt the prompt.
LawEnd(q) ==
    IF ~Blocked(job) THEN WorkingLen
    ELSE LET own == {i \in DOMAIN Blocks(job) :
                       Blocks(job)[i].first < q /\ q <= Blocks(job)[i].end}
         IN IF own = {} THEN Start(job.board)
            ELSE Blocks(job)[CHOOSE i \in own : TRUE].end

NoCache == [drawers |-> FALSE, labels |-> <<>>, frozenUntil |-> 0]

DenoiseInit ==
    /\ phase = "idle" /\ job = <<>> /\ board = <<>>
    /\ blockNo = 0 /\ pass = 0 /\ remasked = <<>> /\ excused = FALSE /\ reason = "none"
    /\ cache = NoCache
    /\ kv = <<>> /\ frozen = 0 /\ causal = FALSE
    /\ jobs = 0

-----------------------------------------------------------------------------
(* A generation begins: on whatever the last one left in the context *)

Begun(ask, len, mode, s, k, revise) ==
    /\ phase = "idle" /\ jobs < MaxJobs
    /\ job' = [kind |-> ask.kind, board |-> ask.board, blockLen |-> len,
               cache |-> mode, steps |-> s, topk |-> k, revise |-> revise]
    /\ board' = ask.board
    /\ remasked' = [q \in 1..Len(ask.board) |-> 0]
    /\ cache' = [NoCache EXCEPT !.labels = [q \in 1..Len(ask.board) |-> Unlabelled]]
    /\ blockNo' = 1 /\ pass' = 0 /\ excused' = FALSE /\ reason' = "none"
    /\ phase' = "plan" /\ jobs' = jobs + 1
    /\ UNCHANGED adapterVars

StartGenerate ==
    \E ask \in Boards, len \in BlockLens, mode \in Caches, s \in StepBudgets,
       k \in TopKs, revise \in BOOLEAN :
       ask.kind = "generate" /\ Begun(ask, len, mode, s, k, revise)

\* The masked span between a prefix and a suffix: one block, never cached.
StartInfill ==
    \E ask \in Boards, s \in StepBudgets, k \in TopKs, revise \in BOOLEAN :
       ask.kind = "infill" /\ Begun(ask, 0, "off", s, k, revise)

\* A board with masked positions anywhere: one block too.
StartDenoise ==
    \E ask \in Boards, s \in StepBudgets, k \in TopKs, revise \in BOOLEAN :
       ask.kind = "denoise" /\ Begun(ask, 0, "off", s, k, revise)

-----------------------------------------------------------------------------
(* One pass: plan and forward *)

\* plan(): the positions to recompute, when there are drawers to reuse.  A
\* frozen position is never among them.
Frozen == IF Blocked(job) THEN 1..cache.frozenUntil ELSE {}

Changed == {q \in 1..WorkingLen : cache.labels[q] \notin {Unlabelled, board[q]}} \ Frozen
New == {q \in 1..WorkingLen : cache.labels[q] = Unlabelled} \ Frozen

\* refresh_fraction is 0.5.
FullRefresh ==
    \/ pass % FullRefreshEvery = 0
    \/ 2 * Cardinality(Changed \cap ((Block.first + 1)..Block.end)) > Block.end - Block.first

Recompute == IF FullRefresh THEN (1..WorkingLen) \ Frozen ELSE New \cup Changed

Reuse == job.cache = "delta" /\ cache.drawers

\* forward() takes only a contiguous suffix of the board.
Accepted(r) == r = {} \/ \E s \in 1..WorkingLen : r = s..WorkingLen

ActiveStart == IF Blocked(job) THEN Block.first ELSE 0

\* The cells of [from, to) when they are decoded in one batch.
Decoded(from, to) ==
    [i \in 1..(to - from) |-> SubSeq(board, 1, IF causal THEN from + i ELSE to)]

\* Mutant: the finished block keeps the cells of its last pass.
FreezeInPlace(cells, from) ==
    IF Len(cells) >= ActiveStart THEN cells
    ELSE SubSeq(cells, 1, from) \o Decoded(from, ActiveStart)

\* freeze_segment(): the cells from `from` up to the active block are laid down
\* anew.
FreezeSegment(cells, from) == SubSeq(cells, 1, from) \o Decoded(from, ActiveStart)

\* forward(): a cold start or an active block that moved backwards clears the
\* cache, whatever precedes the active block is frozen in one segment, and the
\* active block is decoded.
PassCells ==
    LET from == IF Reuse /\ frozen <= ActiveStart THEN frozen ELSE 0
        kept == IF Reuse /\ frozen <= ActiveStart THEN kv ELSE <<>>
        prefix == IF from < ActiveStart THEN FreezeSegment(kept, from) ELSE kept
    IN SubSeq(prefix, 1, ActiveStart) \o Decoded(ActiveStart, WorkingLen)

\* observe(): the labels of what was recomputed, and the frozen boundary.
ObserveCells ==
    [drawers |-> TRUE,
     labels |-> [q \in DOMAIN cache.labels |->
        IF q \in (IF Reuse THEN Recompute ELSE 1..WorkingLen) THEN board[q]
        ELSE cache.labels[q]],
     frozenUntil |-> IF Blocked(job) THEN Block.first ELSE 0]

Forward ==
    /\ phase = "plan"
    /\ \/ /\ WorkingLen > CtxSize
          /\ phase' = "tooLong"
          /\ UNCHANGED <<cache, kv, frozen>>
       \/ /\ WorkingLen <= CtxSize /\ Reuse /\ ~Accepted(Recompute)
          /\ phase' = "refused"
          /\ UNCHANGED <<cache, kv, frozen>>
       \/ /\ WorkingLen <= CtxSize /\ (Reuse => Accepted(Recompute))
          /\ kv' = PassCells /\ frozen' = ActiveStart
          /\ cache' = ObserveCells
          /\ phase' = "select"
    /\ UNCHANGED <<jobVars, causal, jobs>>

-----------------------------------------------------------------------------
(* ... and commit_and_revise(), and the end of the pass *)

Holes == Masked(board, Block.first, Block.end)

\* Positions the reviser may look at: filled ones of the active block, in
\* denoise() only those that were masked to begin with.
Filled == {q \in (Block.first + 1)..Block.end : board[q] # Mask /\ job.board[q] = Mask}

\* confidence_topk(): its share of what is open, or k of them.
Take(n) ==
    LET rem == job.steps - pass IN
    IF job.topk < 0 THEN (n + rem - 1) \div rem ELSE IF job.topk < n THEN job.topk ELSE n

\* The most confident are committed, whatever was predicted; the filled ones
\* the model now doubts are masked again, each at most MaxRevisions times.
Select ==
    /\ phase = "select"
    /\ \E commit \in SUBSET Holes :
          /\ Cardinality(commit) = Take(Cardinality(Holes))
          /\ \E word \in [commit -> Predictions] :
             \E doubted \in SUBSET {q \in Filled : job.revise /\ remasked[q] < MaxRevisions} :
                /\ board' = [q \in DOMAIN board |->
                               CASE q \in commit -> word[q]
                                 [] q \in doubted -> Mask
                                 [] OTHER -> board[q]]
                /\ remasked' = [q \in DOMAIN remasked |->
                                  IF q \in doubted THEN remasked[q] + 1 ELSE remasked[q]]
                /\ excused' = (excused \/ doubted # {} \/ \E q \in commit : word[q] = Mask)
    /\ pass' = pass + 1
    /\ phase' = IF Masked(board', Block.first, Block.end) # {} /\ pass' < job.steps
                THEN "plan" ELSE "closing"
    /\ UNCHANGED <<job, blockNo, reason, cache, adapterVars, jobs>>

HasEos == \E q \in (Start(job.board) + 1)..Block.end : board[q] = Eos

\* The block is finalized; an EOS in generate() ends the run, and so does the
\* last block.
CloseBlock ==
    /\ phase = "closing"
    /\ IF blockNo < Len(Blocks(job)) /\ ~HasEos
       THEN blockNo' = blockNo + 1 /\ pass' = 0 /\ phase' = "plan" /\ reason' = reason
       ELSE /\ reason' = IF job.kind = "generate" /\ HasEos THEN "eos"
                         ELSE IF Masked(board, 0, Block.end) # {} THEN "steps_exhausted"
                         ELSE "length"
            /\ phase' = "done" /\ UNCHANGED <<blockNo, pass>>
    /\ UNCHANGED <<job, board, remasked, excused, cache, adapterVars, jobs>>

\* The result is returned, the exception leaves, or a streamed event finds the
\* client gone: the generation's own state is dropped, the adapter's is not.
Leave ==
    /\ phase # "idle"
    /\ phase' = "idle" /\ job' = <<>> /\ board' = <<>>
    /\ blockNo' = 0 /\ pass' = 0 /\ remasked' = <<>> /\ excused' = FALSE
    /\ reason' = "none" /\ cache' = NoCache
    /\ UNCHANGED <<adapterVars, jobs>>

\* /harvest, /harvest_layers, /state and /v1/checkpoint: set_causal(true) empties
\* the cache, and nothing switches back.
CausalRoute ==
    /\ CausalRoutes /\ phase = "idle"
    /\ causal' = TRUE /\ kv' = <<>> /\ frozen' = 0
    /\ UNCHANGED <<jobVars, phase, cache, jobs>>

DenoiseNext ==
    \/ StartGenerate \/ StartInfill \/ StartDenoise
    \/ Forward \/ Select \/ CloseBlock \/ Leave \/ CausalRoute

DenoiseSpec == DenoiseInit /\ [][DenoiseNext]_denoiseVars

-----------------------------------------------------------------------------
(* Properties *)

Exact == kv = [q \in 1..WorkingLen |-> SubSeq(View, 1, LawEnd(q))]

\* Under reuse, and when there are no blocks, every pass reads a cache in which
\* each position was computed from exactly the tokens the board has now and the
\* attention law lets it see: nothing stale from the block's last pass, from a
\* position masked again, or from a generation that broke off on this context
\* before.  Left aside is a context that /harvest, /harvest_layers, /state or
\* /v1/checkpoint made causal (CausalRoute): nobody sets it back.
ReuseIsExact ==
    phase = "select" /\ ~causal /\ (Blocked(job) => job.cache = "delta") => Exact

\* "The picks are identical to cache off; only the work differs": with the
\* cache off, too, a pass obeys the attention law.
OffIsExact == phase = "select" /\ ~causal => Exact

\* The labels the CacheManager keeps say which token each cell of the cache was
\* computed with.
LabelsMatchDrawers ==
    phase = "select" /\ job.cache = "delta" =>
        \A q \in 1..WorkingLen : cache.labels[q] = kv[q][q]

\* The adapter never refuses a plan: what is to be recomputed is always the
\* board from some position on.
PlanIsAccepted == phase # "refused"

\* In quota mode the step budget of a block is enough: holes are left only if
\* the model took something back, or predicted the mask itself.
QuotaFills ==
    phase = "done" /\ reason = "steps_exhausted" /\ job.topk < 0 => excused

\* "length" means that every position asked for holds a token.
LengthIsComplete ==
    phase = "done" /\ reason = "length" => \A q \in DOMAIN board : board[q] # Mask

\* What a caller of the block decoder may rely on, but for OffIsExact.
DenoiseSound ==
    ReuseIsExact /\ LabelsMatchDrawers /\ PlanIsAccepted /\ QuotaFills /\ LengthIsComplete

=============================================================================
