---------------------------- MODULE MCContention ----------------------------
(* Threads that wait for one another, each protocol on its own; `subject`    *)
(* says which one a behaviour is of.  Three POST threads at a gate of two    *)
(* slots, so that the queue is full for the third and a waiter can time out, *)
(* be cancelled or be served; in the worker, two requests on one context,    *)
(* and a stream of five tokens with a readout queue of two and batches of    *)
(* two.                                                                      *)
EXTENDS RequestGate, EngineServer, ReadoutPlane

VARIABLE subject

MCVars == <<vars, engineVars, planeVars, subject>>

\* Whether the prompt is read out varies only where readouts are made.
MCInit ==
    /\ Init /\ EngineInit /\ PlaneInit
    /\ subject \in {"gate", "requests", "plane"}
    /\ subject # "plane" => includePrompt

MCNext ==
    /\ subject' = subject
    /\ \/ subject = "gate" /\ Next /\ UNCHANGED <<engineVars, planeVars>>
       \/ subject = "requests" /\ EngineNext /\ UNCHANGED <<vars, planeVars>>
       \/ subject = "plane" /\ PlaneNext /\ UNCHANGED <<vars, engineVars>>

MCSpec ==
    /\ MCInit /\ [][MCNext]_MCVars
    /\ \/ subject = "gate" /\ Fairness
       \/ subject = "requests" /\ EngineFairness
       \/ subject = "plane" /\ PlaneFairness

-----------------------------------------------------------------------------
(* Properties *)

\* Nobody waits for ever for a turn, for a context or for the worker that makes
\* the readouts.
NobodyWaitsForEver == QueuedIsAnswered /\ RequestsEnd /\ PlaneEnds

=============================================================================
