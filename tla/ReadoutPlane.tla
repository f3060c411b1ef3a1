---------------------------- MODULE ReadoutPlane ----------------------------
(***************************************************************************)
(* The readout plane of a streamed completion                              *)
(* (engine/core/serve/readout_plane.hpp): the decode thread pushes capture *)
(* frames into a bounded queue and never waits; a worker thread takes them *)
(* in batches and parks what it read; the decode thread streams what is    *)
(* parked between two events, and at the end waits for the worker and      *)
(* reports what was dropped.                                               *)
(*                                                                         *)
(* Both condition variables are waited on with a predicate, under the      *)
(* mutex: a wait is a guard.                                               *)
(***************************************************************************)
EXTENDS Naturals, Sequences

CONSTANTS
    Frames,         \* generated tokens: frames with one row
    QueueCap,       \* kQueueCap
    BatchMax,       \* kBatchMax
    Every           \* cfg.every

ASSUME PlaneAssumption ==
    /\ Frames \in Nat /\ QueueCap \in Nat \ {0}
    /\ BatchMax \in Nat \ {0} /\ Every \in Nat \ {0}

VARIABLES
    includePrompt,  \* cfg.include_prompt
    made,           \* frames captured so far; the first is the prompt's
    queue,          \* queue_: numbers of frames
    batch,          \* what the worker is reading
    ready,          \* ready_
    streamed,       \* readout frames sent to the client
    observedCount, dropped, skippedEvery, skippedPrompt,
    flushing, stopping,
    workerAt,       \* "wait", "gather", "observe", "gone"
    decoderAt       \* "decode", "flush", "join", "ended", "unwind"

planeVars == <<includePrompt, made, queue, batch, ready, streamed, observedCount,
               dropped, skippedEvery, skippedPrompt, flushing, stopping,
               workerAt, decoderAt>>

PlaneInit ==
    /\ includePrompt \in BOOLEAN /\ made = 0
    /\ queue = <<>> /\ batch = <<>> /\ ready = <<>> /\ streamed = <<>>
    /\ observedCount = 0 /\ dropped = 0 /\ skippedEvery = 0 /\ skippedPrompt = 0
    /\ flushing = FALSE /\ stopping = FALSE
    /\ workerAt = "wait" /\ decoderAt = "decode"

-----------------------------------------------------------------------------
(* The decode thread *)

\* push(): the prompt's frame unless asked for, all but every n-th token, and
\* what finds the queue full are counted and not queued.
Push ==
    /\ decoderAt = "decode" /\ made <= Frames
    /\ made' = made + 1
    /\ \/ /\ made = 0 /\ ~includePrompt
          /\ skippedPrompt' = skippedPrompt + 1
          /\ UNCHANGED <<queue, skippedEvery, dropped>>
       \/ /\ made > 0 /\ (made - 1) % Every # 0
          /\ skippedEvery' = skippedEvery + 1
          /\ UNCHANGED <<queue, skippedPrompt, dropped>>
       \/ /\ made = 0 => includePrompt
          /\ made > 0 => (made - 1) % Every = 0
          /\ \/ Len(queue) >= QueueCap /\ dropped' = dropped + 1 /\ UNCHANGED queue
             \/ Len(queue) < QueueCap /\ queue' = Append(queue, made) /\ UNCHANGED dropped
          /\ UNCHANGED <<skippedPrompt, skippedEvery>>
    /\ UNCHANGED <<batch, ready, streamed, observedCount, flushing, stopping,
                   workerAt, decoderAt>>

\* drain(), between two events.
Drain ==
    /\ decoderAt = "decode" /\ ready # <<>>
    /\ streamed' = streamed \o ready
    /\ ready' = <<>>
    /\ UNCHANGED <<made, queue, batch, observedCount, dropped, skippedEvery,
                   skippedPrompt, flushing, stopping, workerAt, decoderAt>>

\* finish(): the worker is told not to gather any longer ...
Finish ==
    /\ decoderAt = "decode" /\ made = Frames + 1
    /\ flushing' = TRUE
    /\ decoderAt' = "flush"
    /\ UNCHANGED <<made, queue, batch, ready, streamed, observedCount, dropped,
                   skippedEvery, skippedPrompt, stopping, workerAt>>

\* ... the queue is empty and the worker not busy: stop() ...
Flushed ==
    /\ decoderAt = "flush" /\ queue = <<>> /\ batch = <<>>
    /\ stopping' = TRUE /\ decoderAt' = "join"
    /\ UNCHANGED <<made, queue, batch, ready, streamed, observedCount, dropped,
                   skippedEvery, skippedPrompt, flushing, workerAt>>

\* Mutant: what the worker parked since the last event is not sent.
JoinedNoTail ==
    /\ decoderAt = "join" /\ workerAt = "gone"
    /\ decoderAt' = "ended"
    /\ UNCHANGED <<made, queue, batch, ready, streamed, observedCount, dropped,
                   skippedEvery, skippedPrompt, flushing, stopping, workerAt>>

\* ... and with the worker joined, the rest is sent and the stats frame.
Joined ==
    /\ decoderAt = "join" /\ workerAt = "gone"
    /\ streamed' = streamed \o ready /\ ready' = <<>>
    /\ decoderAt' = "ended"
    /\ UNCHANGED <<made, queue, batch, observedCount, dropped, skippedEvery,
                   skippedPrompt, flushing, stopping, workerAt>>

\* The generation is cancelled or fails: the destructor stops the worker.
Unwind ==
    /\ decoderAt = "decode"
    /\ stopping' = TRUE /\ decoderAt' = "unwind"
    /\ UNCHANGED <<made, queue, batch, ready, streamed, observedCount, dropped,
                   skippedEvery, skippedPrompt, flushing, workerAt>>

Destroyed ==
    /\ decoderAt = "unwind" /\ workerAt = "gone"
    /\ decoderAt' = "ended"
    /\ UNCHANGED <<made, queue, batch, ready, streamed, observedCount, dropped,
                   skippedEvery, skippedPrompt, flushing, stopping, workerAt>>

-----------------------------------------------------------------------------
(* The worker thread *)

\* Woken by a frame: it waits a little for more, unless told not to.
Wake ==
    /\ workerAt = "wait" /\ queue # <<>>
    /\ workerAt' = "gather"
    /\ UNCHANGED <<made, queue, batch, ready, streamed, observedCount, dropped,
                   skippedEvery, skippedPrompt, flushing, stopping, decoderAt>>

\* Mutant: the worker gathers until the batch is full.
TakeFullBatch ==
    /\ workerAt = "gather" /\ Len(queue) >= BatchMax
    /\ batch' = SubSeq(queue, 1, BatchMax)
    /\ queue' = SubSeq(queue, BatchMax + 1, Len(queue))
    /\ workerAt' = "observe"
    /\ UNCHANGED <<made, ready, streamed, observedCount, dropped, skippedEvery,
                   skippedPrompt, flushing, stopping, decoderAt>>

\* At the latest after kBatchWaitMs it takes what is there, up to a batch.
TakeBatch ==
    LET n == IF Len(queue) < BatchMax THEN Len(queue) ELSE BatchMax
    IN  /\ workerAt = "gather"
        /\ batch' = SubSeq(queue, 1, n)
        /\ queue' = SubSeq(queue, n + 1, Len(queue))
        /\ workerAt' = "observe"
        /\ UNCHANGED <<made, ready, streamed, observedCount, dropped, skippedEvery,
                       skippedPrompt, flushing, stopping, decoderAt>>

\* observe_batch: one readout for each frame, in their order.
Observe ==
    /\ workerAt = "observe"
    /\ ready' = ready \o batch
    /\ observedCount' = observedCount + Len(batch)
    /\ batch' = <<>>
    /\ workerAt' = "wait"
    /\ UNCHANGED <<made, queue, streamed, dropped, skippedEvery, skippedPrompt,
                   flushing, stopping, decoderAt>>

WorkerExits ==
    /\ workerAt = "wait" /\ queue = <<>> /\ stopping
    /\ workerAt' = "gone"
    /\ UNCHANGED <<made, queue, batch, ready, streamed, observedCount, dropped,
                   skippedEvery, skippedPrompt, flushing, stopping, decoderAt>>

Decoder ==
    /\ Push \/ Drain \/ Finish \/ Flushed \/ Joined \/ Unwind \/ Destroyed
    /\ UNCHANGED includePrompt

Worker ==
    /\ Wake \/ TakeBatch \/ Observe \/ WorkerExits
    /\ UNCHANGED includePrompt

PlaneNext == Decoder \/ Worker

\* Both threads run; a decode ends.
PlaneFairness == WF_planeVars(Decoder) /\ WF_planeVars(Worker)

PlaneSpec == PlaneInit /\ [][PlaneNext]_planeVars
PlaneFairSpec == PlaneSpec /\ PlaneFairness

-----------------------------------------------------------------------------
(* Properties *)

PlaneTypeOK ==
    /\ includePrompt \in BOOLEAN /\ made \in Nat
    /\ queue \in Seq(Nat) /\ Len(queue) <= QueueCap
    /\ batch \in Seq(Nat) /\ Len(batch) <= BatchMax
    /\ ready \in Seq(Nat) /\ streamed \in Seq(Nat)
    /\ observedCount \in Nat /\ dropped \in Nat
    /\ skippedEvery \in Nat /\ skippedPrompt \in Nat
    /\ flushing \in BOOLEAN /\ stopping \in BOOLEAN
    /\ workerAt \in {"wait", "gather", "observe", "gone"}
    /\ decoderAt \in {"decode", "flush", "join", "ended", "unwind"}

\* "every dropped or skipped frame is COUNTED": at every moment each captured
\* frame is queued, being read, or in exactly one count, and what was read is
\* parked or streamed.
EveryFrameCounted ==
    /\ made = Len(queue) + Len(batch) + observedCount + dropped + skippedEvery
              + skippedPrompt
    /\ observedCount = Len(ready) + Len(streamed)

\* When the worker is joined nothing is left behind in the queue or the batch.
WorkerLeavesNothing ==
    /\ workerAt # "observe" => batch = <<>>
    /\ workerAt = "gone" => stopping /\ queue = <<>>
    /\ decoderAt = "decode" => ~stopping /\ ~flushing
    /\ decoderAt = "flush" => ~stopping /\ flushing
    /\ decoderAt = "join" => flushing /\ queue = <<>> /\ batch = <<>>
    /\ decoderAt = "ended" => workerAt = "gone" /\ (flushing => ready = <<>>)
    /\ decoderAt = "unwind" => ~flushing

\* The stats frame that ends a stream adds up to the tokens of the stream, and
\* its `observed` is the number of readout frames the client got.
StatsHonest ==
    decoderAt = "ended" /\ flushing
    => /\ observedCount = Len(streamed)
       /\ made = Len(streamed) + dropped + skippedEvery + skippedPrompt

\* The client gets the readouts in the order of the tokens, each of them once.
ReadoutsInOrder ==
    LET all == streamed \o ready \o batch \o queue
    IN  \A i, j \in 1..Len(all) : i < j => all[i] < all[j]

\* The three together: the client gets every readout that was made in its
\* order, and the stats frame accounts for the rest.
ReadoutsHonest == EveryFrameCounted /\ StatsHonest /\ ReadoutsInOrder

\* finish() and the destructor return: the decode thread never waits for a
\* worker that waits for it.
PlaneEnds == (decoderAt \in {"flush", "unwind"}) ~> (decoderAt = "ended")

=============================================================================
