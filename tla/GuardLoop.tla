----------------------------- MODULE GuardLoop -----------------------------
(***************************************************************************)
(* Guarded generation (clozn/server/generation_guard.py): the gateway      *)
(* generates a reply chunk by chunk, reads the disposition towards every   *)
(* guarded concept after each, and generates a chunk again with a counter- *)
(* direction when a calibrated concept crosses its threshold, at most      *)
(* MaxFires times.                                                         *)
(*                                                                         *)
(* One request is modelled, from the choice of the poll layer to the run   *)
(* record; what the engine generates and reads is nondeterministic, and an *)
(* engine call fails at any point.                                         *)
(***************************************************************************)
EXTENDS Naturals, Integers, Sequences, FiniteSets, FiniteSetsExt, SequencesExt

CONSTANTS
    Concepts,     \* spec["concepts"], in the order of the request
    Layers,       \* layer numbers
    DefaultLayer, \* DEFAULT_LAYER
    MaxTokens,    \* max_tokens of the request
    ChunkTokens,  \* spec["chunk_tokens"]
    MaxFires,     \* spec["max_fires"]
    Levels,       \* activations the lens can report: natural numbers
    Threshold,    \* the same for every concept in the model
    Unset         \* no layer, no reading

ASSUME GuardAssumption ==
    /\ Layers \subseteq Nat /\ DefaultLayer \in Nat
    /\ MaxTokens \in Nat \ {0} /\ ChunkTokens \in Nat \ {0}
    /\ MaxFires \in Nat \ {0} /\ Levels \subseteq Nat /\ Threshold \in Nat
    /\ Unset \notin Layers \cup Levels

VARIABLES
    guardAt,      \* "open", "chunk", "steer", "rest", "done", "refused", "failed"
    fitted,       \* layers the engine's J-lens has been fitted for
    calibration,  \* [default : layer or Unset, at : layer each concept was
                  \*  calibrated at, or Unset]
    layer,        \* the poll layer of the request
    correctable,  \* concepts calibrated at that layer
    remaining,    \* tokens still to generate
    emitted,      \* accepted chunks: [tokens, seen (reading per concept), how]
    piece,        \* the reading of the chunk that crossed, before its fate
    fires,        \* concepts corrected so far, in order
    capReached,   \* cap_reached
    observed,     \* max_observed_activation
    journaled     \* the run record was written

guardVars == <<guardAt, fitted, calibration, layer, correctable, remaining,
               emitted, piece, fires, capReached, observed, journaled>>

Reading == [ToSet(Concepts) -> Levels \cup {Unset}]
Silent == [c \in ToSet(Concepts) |-> Unset]

\* _nearest_layer: the smaller of two equally near ones.
Distance(a, b) == IF a > b THEN a - b ELSE b - a
NearestLayer(preferred, available) ==
    CHOOSE l \in available :
        \A m \in available :
            \/ Distance(l, preferred) < Distance(m, preferred)
            \/ Distance(l, preferred) = Distance(m, preferred) /\ l <= m

\* resolve_guard_layer: the request's own layer, whether fitted or not, then the
\* calibration's if the engine has it, then the nearest the engine has.
ResolveLayer(explicit) ==
    CASE explicit # Unset -> explicit
      [] explicit = Unset /\ calibration.default \in fitted
            -> calibration.default
      [] explicit = Unset /\ calibration.default \notin fitted /\ fitted # {}
            -> NearestLayer(DefaultLayer, fitted)
      [] OTHER -> Unset

\* resolve_concept_signal: a calibration counts at the layer it was measured at.
CalibratedAt(l) == {c \in ToSet(Concepts) : calibration.at[c] = l}

GuardInit ==
    /\ guardAt = "open"
    /\ fitted \in SUBSET Layers
    /\ calibration \in [default : Layers \cup {Unset},
                        at : [ToSet(Concepts) -> Layers \cup {Unset}]]
    /\ layer = Unset /\ correctable = {}
    /\ remaining = MaxTokens
    /\ emitted = <<>> /\ piece = Silent /\ fires = <<>>
    /\ capReached = FALSE /\ observed = Silent /\ journaled = FALSE

\* guarded_chat_completion up to the loop.  The direction of a calibrated
\* concept is computed first, which an unfitted layer or the engine refuses.
Open(explicit) ==
    LET l == ResolveLayer(explicit)
    IN  /\ guardAt = "open"
        /\ layer' = l
        /\ \E works \in BOOLEAN :
             LET ok == /\ l # Unset
                       /\ CalibratedAt(l) = {} \/ (works /\ l \in fitted)
             IN  /\ guardAt' = IF ok THEN "chunk" ELSE "refused"
                 /\ correctable' = IF ok THEN CalibratedAt(l) ELSE {}
        /\ UNCHANGED <<fitted, calibration, remaining, emitted, piece, fires,
                       capReached, observed, journaled>>

-----------------------------------------------------------------------------
(* run_guarded_generation *)

\* The first concept of the request that may fire and has crossed.
Crossed(seen) == {c \in correctable : seen[c] # Unset /\ seen[c] >= Threshold}

\* _note_observed.
Observed(old, seen) ==
    [c \in ToSet(Concepts) |->
        CASE seen[c] = Unset -> old[c]
          [] old[c] = Unset -> seen[c]
          [] OTHER -> IF seen[c] > old[c] THEN seen[c] ELSE old[c]]

ChunkSize == IF ChunkTokens < remaining THEN ChunkTokens ELSE remaining

Accept(chunk) ==
    /\ emitted' = Append(emitted, chunk)
    /\ remaining' = remaining - chunk.tokens
    /\ guardAt' = IF remaining' <= 0 THEN "done"
                  ELSE IF capReached' THEN "rest" ELSE "chunk"

\* Mutant: the chunk that finds the cap spent is accepted without a word.
SilentCap(seen) ==
    /\ guardAt = "chunk"
    /\ observed' = Observed(observed, seen)
    /\ IF Crossed(seen) # {} /\ Len(fires) < MaxFires
       THEN /\ guardAt' = "steer" /\ piece' = seen
            /\ UNCHANGED <<emitted, remaining, capReached>>
       ELSE /\ UNCHANGED <<piece, capReached>>
            /\ Accept([tokens |-> ChunkSize, seen |-> seen, how |-> "plain"])
    /\ UNCHANGED <<fitted, calibration, layer, correctable, fires, journaled>>

\* A chunk is generated without steering and polled.  Crossing with the cap
\* spent ends the watch; this chunk is accepted as it is.
Chunk(seen) ==
    /\ guardAt = "chunk"
    /\ observed' = Observed(observed, seen)
    /\ IF Crossed(seen) # {} /\ Len(fires) < MaxFires
       THEN /\ guardAt' = "steer" /\ piece' = seen
            /\ UNCHANGED <<emitted, remaining, capReached>>
       ELSE /\ capReached' = (Crossed(seen) # {})
            /\ Accept([tokens |-> ChunkSize, seen |-> seen, how |-> "plain"])
            /\ UNCHANGED piece
    /\ UNCHANGED <<fitted, calibration, layer, correctable, fires, journaled>>

\* The chunk is discarded and generated again with the counter-direction of the
\* first crossing concept; what it reads then is noted, not judged.
Steer(seen) ==
    /\ guardAt = "steer"
    /\ \E i \in 1..Len(Concepts) :
          /\ Concepts[i] \in Crossed(piece)
          /\ \A j \in 1..(i - 1) : Concepts[j] \notin Crossed(piece)
          /\ fires' = Append(fires, Concepts[i])
    /\ observed' = Observed(observed, seen)
    /\ piece' = Silent
    /\ UNCHANGED capReached
    /\ Accept([tokens |-> ChunkSize, seen |-> seen, how |-> "steered"])
    /\ UNCHANGED <<fitted, calibration, layer, correctable, journaled>>

\* The remainder in one call, neither polled nor corrected.
Rest ==
    /\ guardAt = "rest"
    /\ UNCHANGED capReached
    /\ Accept([tokens |-> remaining, seen |-> Silent, how |-> "unpolled"])
    /\ UNCHANGED <<fitted, calibration, layer, correctable, piece, fires,
                   observed, journaled>>

\* complete, intervene, jlens or the counter-direction raises: the exception
\* leaves the handler, and nothing is journaled.
EngineFails ==
    /\ guardAt \in {"chunk", "steer", "rest"}
    /\ guardAt' = "failed"
    /\ UNCHANGED <<fitted, calibration, layer, correctable, remaining, emitted,
                   piece, fires, capReached, observed, journaled>>

\* build_receipt and _log_run, then the reply.
Journal ==
    /\ guardAt = "done" /\ ~journaled
    /\ journaled' = TRUE
    /\ UNCHANGED <<guardAt, fitted, calibration, layer, correctable, remaining,
                   emitted, piece, fires, capReached, observed>>

GuardNext ==
    \/ \E explicit \in Layers \cup {Unset} : Open(explicit)
    \/ \E seen \in Reading : Chunk(seen) \/ Steer(seen)
    \/ Rest \/ EngineFails \/ Journal

GuardSpec == GuardInit /\ [][GuardNext]_guardVars

-----------------------------------------------------------------------------
(* Properties *)

\* "never a silent claim that the rest of the output was checked when it
\* wasn't": text that was accepted although a calibrated concept crossed, or
\* without a poll at all, is admitted by cap_reached, and only after MaxFires
\* corrections.
CapIsAdmitted ==
    (\E i \in 1..Len(emitted) :
        \/ emitted[i].how = "unpolled"
        \/ emitted[i].how = "plain" /\ Crossed(emitted[i].seen) # {})
    => capReached /\ Len(fires) = MaxFires

\* A correction is never decided by a threshold measured at another layer: a
\* concept that fired was calibrated at the layer the reply was polled at,
\* which the engine has fitted.
FiresAreCalibrated ==
    \A i \in 1..Len(fires) :
        calibration.at[fires[i]] = layer /\ layer \in fitted

\* The receipt's max_observed_activation is the highest reading of all text of
\* the reply, also of chunks that were generated again.
ObservedCoversReply ==
    \A i \in 1..Len(emitted), c \in ToSet(Concepts) :
        emitted[i].seen[c] # Unset
        => observed[c] # Unset /\ observed[c] >= emitted[i].seen[c]

\* The receipt of a guarded reply is honest: it admits what was not checked,
\* fires by thresholds that apply, and shows the highest reading.
GuardHonest == CapIsAdmitted /\ FiresAreCalibrated /\ ObservedCoversReply

=============================================================================
