--------------------------- MODULE PrefixRetrain ---------------------------
(***************************************************************************)
(* The lab's internalized memory: a soft prefix trained on the texts of    *)
(* the active cards, retrained in the background when the cards change     *)
(* (clozn/lab/substrates/__init__.py _InternalizedRetrain, with            *)
(* _mem_sync_rules of clozn/server/memory_assembly.py and POST             *)
(* /memory/mode).  Three threads meet: the POST handler that changed a     *)
(* card, the retrain thread, and a chat on the shared model.               *)
(***************************************************************************)
EXTENDS Naturals

CONSTANTS
    Traits,     \* card texts
    Untrained   \* no prefix, or the remains of a training that raised

VARIABLES
    wanted,     \* memory_cards.active_texts()
    rules,      \* m.rules
    prefix,     \* the set the prefix was trained on, or Untrained
    memMode,    \* the persisted memory mode
    banner,     \* _retrain["active"]
    forced,     \* `force` of the retrain being launched or run
    poster,     \* where the POST handler is
    trainer,    \* where the retrain thread is
    trainLock   \* holder of _train_lock

retrainVars == <<wanted, rules, prefix, memMode, banner, forced, poster,
                 trainer, trainLock>>

RetrainInit ==
    /\ wanted = {} /\ rules = {} /\ prefix = Untrained
    /\ memMode = "internalized"
    /\ banner = FALSE /\ forced = FALSE
    /\ poster = "idle" /\ trainer = "none" /\ trainLock = "free"

-----------------------------------------------------------------------------
(* The POST handler: one at a time, behind the request gate *)

\* A card is approved, disabled, edited or removed, in the store, then
\* _start_retrain is called.
ChangeCards(set) ==
    /\ poster = "idle" /\ set # wanted
    /\ wanted' = set /\ poster' = "resync"
    /\ UNCHANGED <<rules, prefix, memMode, banner, forced, trainer, trainLock>>

\* POST /memory/mode.  Back to internalized, a prefix that is not the active
\* set is retrained with force, if there is anything to train or to drop.
SetMode(mode) ==
    /\ poster = "idle" /\ mode # memMode
    /\ memMode' = mode
    /\ poster' = IF /\ mode = "internalized" /\ wanted # prefix
                    /\ wanted # {} \/ prefix # Untrained
                 THEN "force" ELSE "idle"
    /\ UNCHANGED <<wanted, rules, prefix, banner, forced, trainer, trainLock>>

\* _start_retrain in prompt mode: bookkeeping only.
SyncOnly ==
    /\ poster \in {"resync", "force"} /\ memMode = "prompt"
    /\ rules' = wanted /\ poster' = "idle"
    /\ UNCHANGED <<wanted, prefix, memMode, banner, forced, trainer, trainLock>>

\* The pre-check reads m.rules and the store without any lock.
PreCheck ==
    /\ poster \in {"resync", "force"} /\ memMode = "internalized"
    /\ poster' = IF poster = "resync" /\ rules = wanted THEN "idle"
                 ELSE IF poster = "force" THEN "launchForced" ELSE "launch"
    /\ UNCHANGED <<wanted, rules, prefix, memMode, banner, forced, trainer,
                   trainLock>>

\* "a retrain is already running -> don't stack a second"
Busy ==
    /\ poster \in {"launch", "launchForced"} /\ banner
    /\ poster' = "idle"
    /\ UNCHANGED <<wanted, rules, prefix, memMode, banner, forced, trainer,
                   trainLock>>

Launch ==
    /\ poster \in {"launch", "launchForced"} /\ ~banner
    /\ banner' = TRUE /\ forced' = (poster = "launchForced")
    /\ trainer' = "started" /\ poster' = "idle"
    /\ UNCHANGED <<wanted, rules, prefix, memMode, trainLock>>

-----------------------------------------------------------------------------
(* The retrain thread *)

\* Mutant: the retrain does not wait for the chats.
TrainAtOnce ==
    /\ trainer = "started"
    /\ trainer' = "sync"
    /\ UNCHANGED <<wanted, rules, prefix, memMode, banner, forced, poster,
                   trainLock>>

TakeTrainLock ==
    /\ trainer = "started" /\ trainLock = "free"
    /\ trainer' = "sync" /\ trainLock' = "trainer"
    /\ UNCHANGED <<wanted, rules, prefix, memMode, banner, forced, poster>>

\* _mem_sync_rules: m.rules is the active set from here on; the training uses
\* the set read here, whatever the cards become meanwhile.
SyncRules ==
    /\ trainer = "sync"
    /\ rules' = wanted
    /\ trainer' = IF rules # wanted \/ forced THEN "train" ELSE "ended"
    /\ UNCHANGED <<wanted, prefix, memMode, banner, forced, poster, trainLock>>

\* consolidate(rules), or reset() when nothing is active any more.
Train ==
    /\ trainer = "train"
    /\ prefix' = IF rules = {} THEN Untrained ELSE rules
    /\ trainer' = "ended"
    /\ UNCHANGED <<wanted, rules, memMode, banner, forced, poster, trainLock>>

\* consolidate raises after it dropped the old prefix: m.rules stays.
TrainFails ==
    /\ trainer = "train"
    /\ prefix' = Untrained /\ trainer' = "ended"
    /\ UNCHANGED <<wanted, rules, memMode, banner, forced, poster, trainLock>>

FreeTrainLock ==
    /\ trainer = "ended"
    /\ trainLock' = "free" /\ trainer' = "unlocked"
    /\ UNCHANGED <<wanted, rules, prefix, memMode, banner, forced, poster>>

\* The finally block, on success and on error.
ClearBanner ==
    /\ trainer = "unlocked"
    /\ banner' = FALSE /\ trainer' = "none"
    /\ UNCHANGED <<wanted, rules, prefix, memMode, forced, poster, trainLock>>

-----------------------------------------------------------------------------
(* A chat, /check or /reset on the shared model *)

StartChat ==
    /\ trainLock = "free" /\ trainLock' = "chat"
    /\ UNCHANGED <<wanted, rules, prefix, memMode, banner, forced, poster,
                   trainer>>

EndChat ==
    /\ trainLock = "chat" /\ trainLock' = "free"
    /\ UNCHANGED <<wanted, rules, prefix, memMode, banner, forced, poster,
                   trainer>>

Poster == SyncOnly \/ PreCheck \/ Busy \/ Launch
Trainer == SyncRules \/ Train \/ TrainFails \/ FreeTrainLock \/ ClearBanner

RetrainNext ==
    \/ \E set \in SUBSET Traits : ChangeCards(set)
    \/ \E mode \in {"prompt", "internalized"} : SetMode(mode)
    \/ Poster \/ TakeTrainLock \/ Trainer \/ StartChat \/ EndChat

\* Threads run; a reply ends; a lock that is free again and again is won.
RetrainFairness ==
    /\ WF_retrainVars(Poster) /\ WF_retrainVars(Trainer)
    /\ WF_retrainVars(EndChat) /\ SF_retrainVars(TakeTrainLock)

RetrainSpec == RetrainInit /\ [][RetrainNext]_retrainVars /\ RetrainFairness

-----------------------------------------------------------------------------
(* Properties *)

\* A reply is generated under one prefix: the prefix never changes between the
\* start and the end of a chat, although retrains start at any time.
PrefixFixedDuringChat ==
    [][trainLock = "chat" => prefix' = prefix]_retrainVars

\* The retrain banner that the studio polls always goes away, also when the
\* training raises and when chats keep taking the model.
BannerClears == banner ~> ~banner

=============================================================================
