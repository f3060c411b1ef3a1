----------------------------- MODULE CardStore -----------------------------
(***************************************************************************)
(* What the memory-card store promises to the processes that share it      *)
(* (clozn/memory/cards.py): one collection of cards that every operation   *)
(* reads and rewrites as a single step.  `cards` is the collection, and    *)
(* `readable` says whether the file that holds it can be read and parsed.  *)
(*                                                                         *)
(* The one operation that may discard cards it was not asked to remove is  *)
(* create() on a file that cannot be read: _load answers with an empty     *)
(* list, and the list with the new card alone replaces the file.           *)
(***************************************************************************)
EXTENDS Naturals

CONSTANTS Ids, Texts

VARIABLES cards, readable

Statuses == {"pending", "active", "disabled", "rejected"}

\* The fields of a card the properties tell apart: `claims` is a
\* source_run_id, `quoted` a non-empty quoted_span.
Card == [text : Texts, status : Statuses, scope : {"global", "overlay"},
         claims : BOOLEAN, quoted : BOOLEAN]

\* What a card keeps for ever: the writers only ever patch text, status and
\* scope.
Provenance(c) == <<c.claims, c.quoted>>

\* The cards `f` with the card c under the id.
With(f, id, c) == [i \in DOMAIN f \cup {id} |-> IF i = id THEN c ELSE f[i]]

Created(id, c) ==
    /\ readable /\ id \notin DOMAIN cards
    /\ cards' = With(cards, id, c)

\* _load() failed open inside create().
StartedOver(id, c) == ~readable /\ cards' = [i \in {id} |-> c]

Changed(id, c) ==
    /\ readable /\ id \in DOMAIN cards
    /\ Provenance(c) = Provenance(cards[id])
    /\ cards' = [cards EXCEPT ![id] = c]

Removed(id) ==
    /\ readable /\ id \in DOMAIN cards
    /\ cards' = [i \in DOMAIN cards \ {id} |-> cards[i]]

\* An import adds cards and never touches the ones already there.
Imported ==
    /\ readable
    /\ DOMAIN cards \subseteq DOMAIN cards'
    /\ \A id \in DOMAIN cards : cards'[id] = cards[id]

Write ==
    /\ \/ \E id \in Ids, c \in Card : Created(id, c) \/ StartedOver(id, c)
       \/ \E id \in Ids, c \in Card : Changed(id, c)
       \/ \E id \in Ids : Removed(id)
       \/ Imported
    /\ readable' = TRUE

\* The file is damaged, or becomes readable again: its cards are still there.
Flip == readable' = ~readable /\ cards' = cards

StoreInit == cards = <<>> /\ readable = TRUE
StoreNext == Write \/ Flip
StoreSpec == StoreInit /\ [][StoreNext]_<<cards, readable>>

=============================================================================
