# clozn: a TLA+ verification project

clozn runs a local language model and keeps, for every answer, a journal entry
that can be explained, replayed, compared, redacted and deleted. `clozn serve`
starts two processes, a public HTTP *gateway* in Python and a private C++
*worker* that holds the model, and supervises both. A browser tab, the *studio*,
and a command line talk to the gateway; several of the commands also write to its
files directly.

The project models the parts of that system in which threads, processes,
messages, failures or long sequences of calls meet, and the algorithms whose edge
cases decide whether a result can be believed. What the model computes (logits,
activations, scores) is an input, chosen nondeterministically. Every module is
translated from the source files its header names; `map` in `PROJECT.json` gives
the lines behind every definition.

Contents: [1 Inventory](#1-inventory) · [2 Modules](#2-modules) ·
[3 Runs](#3-runs) · [4 Findings](#4-findings) · [5 Proofs](#5-proofs) ·
[6 Only model-checked](#6-only-model-checked) · [7 Not modelled](#7-not-modelled) ·
[8 Observations](#8-observations) · [9 What could come next](#9-what-could-come-next)

## 1. Inventory

### The gateway

| part | state it keeps | operations | what is hard | what makes it correct |
|---|---|---|---|---|
| **request gate** `server/request_gate.py`, `do_POST` | a semaphore of slots, the turn lock, `_active`, `_waiting` | acquire (poll with deadline and cancel probe), release | handler threads interleave at four locks; five ways out of `acquire` | one dispatch at a time, no slot lost, true counters, waiters answered |
| **chat streaming** `server/sse.py`, `ndjson.py`, `substrates.py` `chat_stream`, `request_context.py`, `/cancel` | the handler's place in the reply, the published context, frames in flight, cancel flags on both sides | open, write, pull, finish, fail, disconnect, close, cancel | four parties that may each stop at any moment | one true journal entry, an honest last chunk, the connection released, an end |
| **completions** `routes/openai.py`, `generation_gateway.py`, `memory_assembly.py` | the cached identity of the worker, the last attempt's evidence | admit, contract, generate, retry, validate, record | the worker may be replaced, and a retry made, between any two steps | the record describes the reply delivered; a qualified reply came from a qualified worker |
| **dialogues with tools** `structured_io.py`, `openai_compat.py` | none: the client sends the history back | check a history, validate a message, serialise a reply | nothing remembers what was offered or minted | accepted exactly when calls and results pair up |
| **guard** `generation_guard.py` | one request's polls, fires, cap | plan, poll, fire, retry, report | calibrated and uncalibrated concepts, chunk limits, a cap | the report admits what it did not check |
| **memory cards** `memory/cards.py`, routes, `clozn memory` | a JSON file under a file lock | create, edit, approve, import, seed, delete, profile switch | a fail-open load inside a transaction, checks outside it, another process | each change is one atomic operation; no card is approved unchecked or seeded twice |
| **corrective policies** `behavior/corrective_retries.py` | policies of sessions and profiles, a transaction log, two files | activate, undo, expire | undo links kept by clients, two files written one after the other | an undo takes back its own activation |
| **replays** `clozn/replay/` | borrowed live dials, memory strength, exclusions | replay, counterfactual, sweep, retry, branch, fork | failures while the live settings are borrowed | the studio is left as it was; arms differ only in the intervention |
| **receipts** `clozn/receipts/` | generated arms, coalition values, spans | leave one out, coalitions, pairs, batches, refine | early stops, failed and batched arms, text offsets | verdicts, credit and maps are those of the full computation |
| **think tags** `runs/think_tags.py` | pending text, depth | feed, finish | tags split over pieces | the same result as on the whole text |
| **retrain of the lab's prefix** `lab/substrates/__init__.py` | the prefix, two locks, a dirty flag | mark, retrain, chat | three threads | one prefix per chat, and the banner clears |

### The journal and its readers

| part | state it keeps | operations | what is hard | what makes it correct |
|---|---|---|---|---|
| **run journal** `runs/store.py`, `mutations.py`, `gc.py`, `attachments.py` | SQLite rows; content-addressed blob files beside the database | record, import, attach, redact, scrub, delete, retain, clean up, collect | the database is transactional, the blob directory is not; crashes | evidence exists or is marked lost; redaction and deletion are final |
| **migrations** `runs/migrations.py` | the ledger of applied steps | pending, apply | concurrent openers, crashes, failures of a step | every step once, in order |
| **run watch** `runs_after`, `clozn watch` | a cursor `(recorded_ts, id)` | page, filter, resume | stamp order is not commit order; pruning | nothing skipped, nothing repeated |

### The worker

| part | state it keeps | operations | what is hard | what makes it correct |
|---|---|---|---|---|
| **request threads** `engine/core/serve` | a pool of contexts with what is armed on them, the cancel registry | lease, arm, generate, disarm, cancel | exceptions on every path, cancels and lost clients | a request runs under its own settings; a cancel stops it |
| **readout plane** `readout_plane.hpp` | a bounded queue, a batch, statistics | push, read, drain, finish | a full queue, a thread that is joined | every frame counted, readouts in order, no deadlock |
| **checkpoints** `server_main.cpp` | a map by string id | save, restore, branch | ids sort as strings | the newest can be restored |
| **block decoding** `generate.cpp`, `cache.cpp`, `model_ggml.cpp` | a board, the KV cells and who computed them | prefill, pass, freeze, revise, cancel | reuse of cells computed with other text in sight | a pass sees what the attention law says |
| **autoregressive decoding** `generate_ar.cpp` | KV cells, position, random draws | prefill, step, checkpoint, restore, branch | a context used by others in between | going on is as if never interrupted |

### Around them

| part | state it keeps | operations | what is hard | what makes it correct |
|---|---|---|---|---|
| **supervisor** `cli/runtime_process.py`, `cmd_serve` | both children, restart times, its registry row | boot, monitor, restart, register, stop | signals between any two statements | children never outlive it; shutdown ends |
| **registry** `daemons.json` | one JSON file | register, unregister, `ps`, `run`, `stop` | read-modify-write without a lock | rows of dead runtimes disappear |
| **connect** `cli/commands/connect.py` | somebody else's config file, backups, a transaction record | connect, undo | failures, kills and edits between steps | the user's text survives |
| **experiments** `experiments/suite.py`, `ci_check.py` | the dials of a shared gateway | run a matrix, check it | failures and other users in between | cells ran under their dials; dials are put back |
| **studio** `studio/heavn` | a tab's store | load, send, prove, open panels | answers in any order | panels are of the run on the tape |

**How they interact.** The supervisor starts the gateway and the worker and
registers them; a POST takes the gate's turn, assembles memory, asks the worker
for a reply that may be guarded or structured, and records a run. The worker
leases a context, arms it, decodes, and streams tokens and readouts. The studio
shows the run and asks for receipts, maps and replays of it, which are POSTs
again. `clozn watch` follows the journal; `clozn test`, the influence-map route,
`clozn redact`, `delete` and `gc` change it afterwards, from other processes, as
`clozn memory` changes the card file; `clozn ps`, `run` and `stop` find the
runtime through the registry. Shared state that more than one process writes:
the journal and its blobs, the card file, the registry.

`PROJECT.json` lists every component with its status, also those that are not
modelled, and under `hazards` what is hard to test in this code, at its line.

## 2. Modules

A component's module declares its state, one action per step and its
properties; an `MC` module composes several components for TLC; a `Proofs`
module holds theorems.

| module | a step is | what stands for the data | checked in |
|---|---|---|---|
| `RequestGate` | one section under a lock or one semaphore call; time is the number of failed polls | a request is its thread | `contention` |
| `EngineServer` | arming or disarming one setting, one event, one registry operation | a context is the settings armed on it | `contention` |
| `ReadoutPlane` | one section under the queue's mutex | a frame is its index | `contention` |
| `ChatStream` | one frame, write or close of the handler; one token or end of the worker | a reply is a number of pieces | `conversation` |
| `ToolDialogue` | one request with the history a client sends | names, arguments and ids | `conversation` |
| `StudioSession` | a handler up to its next `await` | a run is its id | `conversation` |
| `RunJournal` | one SQLite transaction or one file operation | a blob's name is its content; `text` is full, scrubbed or none | `conversation`, `evidence` |
| `RunWatch` | stamping, committing, pruning or polling | a run is its key | `background` |
| `RunMigrations` | one DDL or DML statement, one look at the ledger | a version has `Parts` effects | `background` |
| `RuntimeSupervisor` | one boot, wait, restart or clean-up step; a signal at each | a child is absent, booting, serving, dead | `background` |
| `DaemonRegistry` | one read or one write of the file | a runtime is its port | `background` |
| `PrefixRetrain` | one section under a lock | a prefix is the texts it was trained on | `background` |
| `CorrectivePolicy` | one POST, its two writes separately | a policy is a sequence of presets | `background` |
| `MemoryCards` | an unlocked read; lock and load; save and unlock | text, scope, status, provenance of a card | `serving` |
| `CardStore` | one operation on the whole collection (abstract) | as `MemoryCards` | `serving` |
| `ChatCompletion` | one call of the worker or one decision between two calls | evidence is the number of its attempt | `serving` |
| `GuardLoop` | one call of the worker, one poll, one decision | a reading is a level | `serving` |
| `CheckpointStore` | one map operation under its lock | an id is its number, ordered as a string | `serving` |
| `Denoise` | one forward pass, one selection of cells | a cell is its token and what was in sight when it was computed | `serving` |
| `ArDecode` | one decode or one route's preparation | a cell is its token, batch kind and steering | `serving` |
| `ThinkTags` | one piece fed | sequences of characters | `serving` |
| `Experiment` | one HTTP request and its outcome | dials and an identity | `conversation` |
| `AppConnect` | one file operation | the version of the user's text and the setting of the keys | `background` |
| `Replay` | one read or write of the live state, one generation | a reply is what the model was given | `serving` |
| `Receipts` | one generation or one round of them | tokens, and the words they spell | `evidence` |
| `ContextInfluence` | one measurement or one planning step | characters of four kinds | `evidence` |

`MCContention`, `MCConversation`, `MCBackground`, `MCServing` and `MCEvidence`
each hold several components. A variable `subject`, fixed by the initial state,
says which component a behaviour is of; the others keep their initial state. So
a run checks each component exhaustively, with one start of TLC. Where two
components do share state they are one module (journal and collector, gateway
handler and worker stream, cards and their commands, supervisor and its row).
`MCChatStream` and `MCRunJournal` are for single counterexamples.

The theorems are in eight modules, by what runs together. `ServingProofs` is about
what answers a request in the gateway (`RequestGate`, `ChatCompletion`,
`GuardLoop`, `Replay`, `ThinkTags`), `ConversationProofs` about its users (`ChatStream`,
`StudioSession`, `Experiment`, `ToolDialogue`), `EngineProofs` about the worker
(`EngineServer`, `ReadoutPlane`, `CheckpointStore`, `ArDecode`, `Denoise`),
`EvidenceProofs` about what a run is kept as and what is proved from it
(`RunJournal`, `Receipts`), `ContextInfluenceProofs` and `MemoryCardsProofs` about the
modules they are named for, `BackgroundProofs` about everything that runs beside
the requests (`RunWatch`, `RunMigrations`, `RuntimeSupervisor`, `PrefixRetrain`,
`CorrectivePolicy`, `AppConnect`). `DataLemmas` holds what they share: induction over
numbers, recursive functions, and what lists, orders, quotients, parts of sequences and
flattened sequences are.

Notes on the translation:

- **RunJournal.** `recorded` is a history variable. Which operations run
  together is the constant `Ops`. `_descendant_ids`, a worklist in the code, is
  the least set closed under parent links. An import is of a new id: the id is
  not that of a run some thread is about to insert. A literal redaction may hit
  the hash by which a row refers to its map, which `_NO_SCRUB_KEYS` does not
  protect: the reference then names nothing (`Broken`).
- **RunWatch.** `record()` reads `recorded_ts` (`Stamp`) before its INSERT
  (`Commit`), and prunes in a transaction of its own after it (`Prune`); several
  writers may be anywhere between. The clock is any set of readings, of which a
  stamp is one: equal and backward readings occur, and the id breaks the tie.
  `overtaken` is a history variable: runs committed after one with a later key.
- **RunMigrations.** `MIGRATIONS` is a set of version numbers: an opener takes the
  least one on its list, which is the order the list has in the code.
- **ChatStream.** The worker, its cancel flag and the frames on their connection
  are separate from the handler, so that a worker can outlive its reply.
  `current` is `sub._request`, the context that the generator's first iteration
  publishes. A write to a client that has left may fail or may still vanish into
  the kernel's buffer.
- **RuntimeSupervisor.** A signal in the few statements between a fork and the
  `try` block that guards the child is not modelled.
- **EngineServer.** A decode may throw at any point. `spoiled` marks contexts
  that came back dirty on one of the paths of finding `engine_dirty`; the other
  properties are about the rest, so that this one defect does not hide others.
- **Denoise.** Each KV cell remembers the board it was computed from, so
  "reuse is exact" is a comparison with what a full pass would see.
- **Receipts.** Every arm is decoded greedily, so an arm has one reply; the
  instances contain token sequences that differ and spell the same text.
- **Think tags.** A letter is its own lower case, except for the characters in
  `Wide`, whose lower case is `WideLower`: the filter finds tags in the lowered
  text and cuts the text it was given, as the code does.
- **StudioSession.** `Bare` stands for the panels that keep no request counter,
  the influence map for those that do. A call is marked `stale` when the tape
  changes under it.
- **Replay.** `disabled_memory_ids` may be something that cannot be iterated
  (`NotAList`): `_apply_changes` then raises after it has set the memory strength
  (`ApplyRaises`).
- **Experiment.** A ^C may come at every step, those of the `finally` block that
  restores the dials included (`InterruptRestore`).
- **MemoryCards** starts every request with an unlocked read and turns what it
  saw into a list of transactions, as the code does; `CardStore` knows nothing of
  locks, files, or processes.

## 3. Runs

| run | subjects and bounds | why they suffice |
|---|---|---|
| `contention` | gate: 3 threads, 2 slots, 2 polls; requests: 2 requests of 5 kinds, 1 context, 2 events, 4 sets of settings; plane: 5 frames, queue 2, batch 2 | one holder, one waiter, one that finds the queue full; a request that meets what the last one left; a queue that overflows twice |
| `conversation` | stream: one reply per wire, either order, 1 piece; dialogue: 2 tools, 2 arguments, 6 messages, 2 minted ids, 1 stray message; studio: 2 runs, 2 panels without a counter and one with, 3 requests in flight, or 2 sends of 2 deltas and 1 record asked for; journal: 2 runs, one process with all operations, a second that prunes at any time, 1 map, keep 1, 1 fault; experiment: 2 dials, 2 variants, 2 cases, 2 identities | the second reply meets the first one's context and worker; two calls answered in one turn, in either order; a pair of answers that cross; a second run that shares the first one's blob or is its child |
| `background` | supervisor: restart limit 3; registry: 2 ports, 1 command; watch: 3 runs of which 2 match, 2 writers, a clock of 3 readings, pages of 1, keep 2; migrations: 2 openers, 2 versions of 2 parts, 2 failures; retrain: 2 traits; policies: 2 presets, 1 session, 1 profile, 4 transactions of which 3 are kept; connect: 2 edits, 2 backups | the budget is used up and refilled; three writers of one file; a page cut off, an unmatched row passed, a row pruned unread, two rows with one stamp; an opener stale by two steps; a log that has dropped an entry a link still names |
| `serving` | cards: 3 ids, 2 texts, 2 legacy rules, 1 command beside the gateway, 2 requests; completion: 2 models, 2 pipelines, 2 turns; guard: 2 concepts, 5 tokens in chunks of 2, 1 fire; checkpoints: 3 kept of ids 6–14; block decoding: boards of 3–5 cells, block lengths 0–2, caches off and delta, context of 4, 2 jobs; autoregressive: prompts up to 3, soft prefixes of 0, 2 and 5 rows, window 4, 2 branches, 3 requests; think tags: up to 4 pieces, 1 character with a longer lower case; replays: 2 names of which 1 is known, 2 cards, 2 runs, 1 malformed request | the ids cross from 9 to 10; a board that spans two blocks and one that does not fit; a tag cut at every character; a cap reached with more than a chunk of the reply to go; a seeding that stops half-way; a command that writes between any two steps of the gateway's |
| `evidence` | journal: 2 runs, 2 processes, 1 trace, record/attach/redact/collect, one failing blob write at a time; receipts: 1–4 influences, replies of up to 3 tokens, 1 failed generation; context: 4 prompts of up to 5 messages, texts of up to 6 characters | a collector or a redaction against a writer that shares the blob; exact coalitions (3) and sampled ones (4); every text around the target length |

Bounds that are guards in the modules: `MaxPolls`, `MaxEvents`, `MaxPieces`,
`MaxMinted`, `MaxLength`, `MaxStrays`, `MaxSends`, `MaxDeltas`, `MaxCalls`,
`MaxRequests`, `MaxTurns`, `MaxFires`, `MaxJobs`, `MaxRuns`, `MaxFails`,
`MaxFailures`, `MaxTx`, `MaxRevision`, `MostEdits`, `MostBackups`, `MostRuns`,
`MostSettings`, `MostPieces`, `MaxOthers`, and in the MC modules `MaxFaults` (kills and failed
writes of the journal) and `OneOutage`.

**Deadlock** is not checked: requests, replies, runs and commands may all have
ended, which is where these systems stop. That nobody waits for ever is stated
as liveness where processes wait for one another.

**Fairness**, each as weak as the code justifies:

- gate: a thread that can take a step takes it (the scheduler's promise; the
  poll's timeout is the code's own), but nothing is assumed of the request that
  holds the turn. Engine: threads run, and a `Lease` waiting on the condition
  variable gets a context if one becomes free again and again (strong, for
  another request may take it first). Plane: both threads run.
- stream: a handler that can run does, and a generation that runs commits a
  token, stops or dies; a worker that hangs counts as dead once the gateway's
  read timeout has passed.
- supervisor: its own loop, in which every wait has a timeout. Registry: somebody
  keeps running `clozn ps` or `run` (strong: other commands come between), and a
  command once begun is finished. Watch: the watcher keeps polling, nothing is
  assumed of the writers. Migrations: an opener that can run does, and SQLite's
  busy timeout gives it the writer lock if that is free again and again.
  Retrain: each thread runs, and a waiting trainer gets its lock if chats keep
  ending.
- policies, connect, studio, dialogue, journal, experiments and everything in `serving` and `evidence`:
  none, safety only.

### What the passing runs show

`contention`
: at most one POST is dispatched (`OneAtATime`); slots, turn and the counters of
  `/health` agree in every interleaving and on every exit path (`Balanced`); a
  generation runs under exactly the settings its request asked for
  (`RegimeIsOwn`); a cancel or a lost client stops it within one event
  (`CancelStopsInOne`); every captured frame is delivered, counted as dropped or
  under way, the statistics say so and readouts come in order
  (`ReadoutsHonest`); a queued POST is answered although the holder of the turn
  may never finish, and every engine request and the plane end
  (`NobodyWaitsForEver`).

`conversation`
: the Ollama wire logs once and never reports a false stop (`NdjsonHonest`); the
  journal's tag and finish reason are true, and the context logged is the reply's
  own (`JournalTruthful`), but for a client that is gone before the generator is
  first iterated: that one is logged with whatever context was published last
  (`sse.py:144-149`), which the property allows; every
  reply ends and releases the worker (`StreamEnds`); a history is accepted
  exactly when every call has its result and no id is reused (`DialogueSound`);
  a studio panel with a request counter is of the run on the tape, the receipts
  and the panels without one are so too unless their answer came after the tape
  had changed, and the monitor is of the send under way (`StudioHonest`); with one journal process and pruning by
  another, no row loses its evidence unmarked (`NoLostEvidence`), redaction is
  final (`RedactionSticks`), deletion takes the replays below it along
  (`DeleteLeavesNoOrphanChild`); an experiment's cells ran under their dials,
  which are put back unless putting them back fails or is interrupted, and a green
  gate is about one model (`ExperimentSound`).

`background`
: no child survives the supervisor unless a second signal cut its clean-up short
  (`NoOrphan`), and shutdown ends (`ShutdownEnds`); rows of dead runtimes
  disappear (`StaleHeals`); nothing is printed twice and whatever the watcher
  skips had been overtaken (`WatchedExactly`); every schema step is applied once
  and the ledger is true, also after failures and crashes (`LedgerSound`); what
  can be printed is, every opener gets the store and the retrain banner clears
  (`EveryoneGetsThrough`); the prefix never changes during a chat
  (`PrefixFixedDuringChat`); as long as it is whole, the transaction log accounts
  for the policies in force, torn writes apart, and an undo takes back its own
  activation while the session keeps its entry (`PolicySound`); a connected
  configuration is restored and edits survive (`ConnectSafe`).

`serving`
: the card processes implement the atomic store (`CardsAreAtomic`), and no card
  is approved without its provenance or seeded twice (`NoSideDoor`); a qualified
  structured reply came from a qualified model and is journalled as such
  (`StructuredReplySound`); steps, timing, strength and finish reason of a record
  are those of the attempt whose text was delivered (`EvidenceIsOfTheReply`); a
  guard's report admits an exhausted cap and what it did not check
  (`GuardHonest`); the newest checkpoint can be restored (`NewestSurvives`);
  with reuse, a block pass sees what a full pass would see on a context that no
  route has left causal, labels are those of
  the drawer, quotas fill and lengths are right (`DenoiseSound`);
  autoregressive decoding resumes exactly, draws go on where they stopped, the
  window is kept, branches do not see one another (`DecodeSound`); think tags
  are found whatever the split, and the steps spell the answer, in replies without
  a character whose lower case is longer (`AnswerIsExact`); a replay that fails at
  any point leaves the studio as it was, but for the memory strength where the
  request itself cannot be applied (`StudioUnchanged`); what the arms of a
  comparison were given differs in the intervention only, if no card was edited
  while they ran, and a dial that has a direction and is called verified was
  applied as asked (`ComparisonsHonest`).

`evidence`
: a lost trace reads as unavailable, never as another one or as none
  (`NeverSilentlyEmpty`); stopping an arm early changes no verdict, cut replies
  are marked, pairs called redundant are, no unchecked batch reaches a value and a
  run whose replays all came back gets its report (`VerdictsAreSound`); exact
  Shapley values are the mean over all orders, each with its coalitions
  (`ShapleyIsTheMean`); every visible character of a measured source is in exactly
  one span, no word is cut, policy and latest source are measured, calls are
  counted (`MapIsSound`); the strongest spans are refined (`StrongestAreRefined`).

Several properties are conjunctions of named parts, each stated and commented in
its module (`DenoiseSound` has five). Each property of a passing run has a mutant:
a plausible slip in one definition that TLC must catch with that property.

## 4. Findings

Seven runs expect a violation. Each is a disagreement of the code with its own
comment, quoted under `findings` in `PROJECT.json`.

- `journal_collect`: `gc.collect` scans once and unlinks afterwards; a run that
  found the orphan blob on disk and commits in between loses it. The clean-up
  after a deletion holds the writer lock, but a writer decides to skip an
  existing blob outside any transaction, so `Ops = {"record", "delete"}` gives the
  same result.
- `journal_replace`: `replace_run` writes a whole document read earlier, over a
  redaction, a deletion or another attachment.
- `stream_stop`: the worker's in-band error, and likewise a cancelled frame, has
  no finish reason, which the OpenAI wire reports as `stop`.
- `studio_sends`: after an error frame the studio takes a second message while
  the first still settles, and the end of the first clears the second's state.
- `engine_dirty`: a refused activation patch throws between arming and the `try`
  that would disarm; the pooled context goes back with its tap and sink armed.
- `denoise_off`: with the KV cache off, the default, a blocked diffusion reply lets
  the prompt attend to the finished part of the reply from the second block on.
  The reuse path does not do so, so the two modes compute different things.
- `replay_neutral`: a replay that drops every dial is generated under the
  persisted dials, because an empty set reads as none having been set.

Five more disagreements stand inside properties of passing runs, as the one
exception each makes. The property without its exception is defined beside it,
quotes the sentence the code does not keep, and is violated by the model:

| property | its sentence | the exception |
|---|---|---|
| `StudioSession!ReceiptsAreCurrent` | `state.mjs:36`: "last prove-all result for current run" | `doProve` (`replay.mjs:708`) stores an answer for whatever run is on the tape when it comes; `SpanForensics`, `LieDetector` and `LineageTree` do the same |
| `Experiment!AlwaysRestored` | `suite.py:307`: "always restore the gateway's prior state" | a ^C inside the `finally` block leaves the dials it had not come to (`suite.py:324-329` catches `Exception`) |
| `Replay!LiveIsUntouched` | `replay.py:7`: the live studio is never left mutated | `_apply_changes` raises after `memory_strength = 0.0` (`replay.py:90`, `:97`), outside the `try` |
| `Replay!VerifiedIsCausal` | `counterfactual.py:142-145`: an override that did not take is not verified | a dial without a direction is recorded and given to no model |
| `ThinkTags!SplitsDoNotMatter` | `think_tags.py:85-86`: tag fragments may be split across any number of chunks | a character whose lower case is longer, as in `İ</think>`, moves the cut |

## 5. Proofs

TLAPS checks the following for every value of the constants that satisfies the
named assumptions of the modules (`GateAssumption`, `DenoiseAssumption`, …),
which TLC evaluates in every run; what they ask is given below where it is more
than "bounds are naturals and a sentinel is not a value". None of the properties
is inductive: each is the consequence of an invariant that says more, and that
invariant was checked by TLC on the instances above before it was proved.

| theorem | states | rests on |
|---|---|---|
| `ServingProofs!Serialised`, `GateBalanced`, `GateSafe` | `OneAtATime`, `Balanced` | `GateInv` |
| `EngineProofs!RegimeKept`, `CancelStops` | `RegimeIsOwn`, `CancelStopsInOne` | `PoolInv`, `CancelInv` |
| `EngineProofs!PlaneTyped`, `PlaneJoins`, `PlaneHonest` | `ReadoutsHonest` | `PlaneInv` |
| `EngineProofs!NewestKept` | `NewestSurvives` | `CheckpointInv` |
| `EngineProofs!DecodeKept` | `DecodeSound` | `DecodeInv` |
| `EngineProofs!DenoiseKept` | `DenoiseSound` | `DenoiseInv` |
| `MemoryCardsProofs!CardsImplementStore` | `CardsAreAtomic` (refinement) | `CardInv` |
| `MemoryCardsProofs!DoorsStayShut` | `NoSideDoor` | `CardInv`, `DoorInv` |
| `EvidenceProofs!CascadeComplete`, `RedactionIsFinal`, `TraceOrLost` | `DeleteLeavesNoOrphanChild`, `RedactionSticks`, `NeverSilentlyEmpty` | `JournalInv`, `TraceInv` |
| `EvidenceProofs!EvidenceStays` | `NoLostEvidence` | `BlobInv` |
| `EvidenceProofs!VerdictsSound` | `VerdictsAreSound` | `ReceiptsInv` |
| `ContextInfluenceProofs!MapSound`, `StrongestFirst` | `MapIsSound`, `StrongestAreRefined` | `MapInv` |
| `BackgroundProofs!WatchExact`, `MigrationsSound` | `WatchedExactly`, `LedgerSound` | `WatchInv`, `MigInv` |
| `ConversationProofs!StudioIsHonest` | `StudioHonest` | `TapeInv`, `MonitorInv` |
| `ConversationProofs!NdjsonKept`, `JournalKept` | `NdjsonHonest`, `JournalTruthful` | `StreamInv` |
| `ConversationProofs!ExperimentKept` | `ExperimentSound` | `ExperimentInv` |
| `ConversationProofs!DialoguesMakeSense` | `DialogueSound` | `DialogueInv` |
| `BackgroundProofs!SupervisorTyped`, `ServeOwnsChildren` | `NoOrphan` | `OwnershipInv` |
| `BackgroundProofs!PrefixFixed`, `PolicyKept`, `ConnectKeeps` | `PrefixFixedDuringChat`, `PolicySound`, `ConnectSafe` | `RetrainInv`, `PolicyInv`, `ConnectInv` |
| `ServingProofs!RepliesQualified`, `EvidenceKept` | `StructuredReplySound`, `EvidenceIsOfTheReply` | `ChatInv` |
| `ServingProofs!GuardAdmits` | `GuardHonest` | `GuardInv` |
| `ServingProofs!StudioLeftAlone`, `ComparisonsKept` | `StudioUnchanged`, `ComparisonsHonest` | `ReplayInv` |
| `ServingProofs!AnswerKept` | `AnswerIsExact` | `ThinkInv` |

The arguments, component by component:

- **Gate.** `GateInv` links the holder of the turn to the threads' locations, and
  slots and counters to how many threads are in a group of locations. Counters
  are cardinalities, so the proof rests on lemmas about what one thread's change
  of location does to such a group. Assumed: finitely many threads, at least one
  slot and one poll.
- **Requests and plane.** `PoolInv`: a context is in the free list once or held by
  one lease, and a free context that no bad exit spoiled has nothing armed.
  `CancelInv`: a stream that can be cancelled stays registered until it has ended,
  and one event after the cancel sets the flag the decoder obeys. `PlaneInv`: the
  frames queued, being read, parked, streamed and dropped add up to those made, in
  one increasing sequence; a stopped worker has nothing left. Assumed: a finite
  pool, a positive queue and batch.
- **Checkpoints.** `CheckpointInv`: the newest id that a client was given is in the
  map, and numbers are given once. Which of the others eviction takes goes by
  the ids as strings, whatever their length; it runs before the new one is stored.
- **Autoregressive decoding.** `DecodeInv` says at every location which text the
  context's cells are of and that they are the cells an uninterrupted decode of
  that text would have made: while sampling, after a forced prefix, between the
  two halves of a restore, in each branch. Lemmas say how those cells grow by a
  token, shrink to a prefix and fit the window. Assumed: prompts are not empty.
- **Block decoding.** `DenoiseInv` names the cells that are frozen, says that each
  was computed from exactly what the attention law lets its position see, and
  that nothing it saw can change any more: no hole lies there. A pass keeps this
  because blocks follow each other without a gap (`BlocksAlwaysFit`, for every
  board and block length), and the share of the last pass is whatever is open
  (`LastPassTakesAll`), from which the claims about the result follow. Assumed:
  boards have something to fill (`Fillable`, the guards of `generate()`,
  `infill()` and `denoise()`). The theorem's hypothesis `FullRefreshEvery = 1` is
  what `cache_from()`, the command line and the benchmark set whenever cells are
  reused (`server_shared.hpp:88`); under `CacheConfig`'s own default of 4 TLC
  finds a plan that the adapter refuses.
- **Cards.** The refinement `CardsSpec => CardStore!StoreSpec` is under the identity
  on the file. `CardInv`: only the holder of the lock has a loaded copy, and the
  copy is what the file still says. Each save is then one abstract operation and
  every other step a stutter. `DoorInv` adds what the
  transactions still to be made may do: activate only a card that is backed by a
  quote, create only pending ones, and seed each rule once that is not seeded.
  Assumed: finitely many ids and texts; recorded imports have unique ids, as the
  parser of documents guarantees.
- **Journal.** The descendants of a run, a least closed set, are closed under
  parent links, so a deletion's targets are; for any depth and even for cyclic
  links. `JournalInv`: the id a thread is about to insert is nobody else's, so an
  insert never replaces a redacted row; hence redaction is final if attachments
  are not among the operations. `TraceInv`: a row, and every copy of one that an
  amendment holds, still has the evidence of the trace recorded under its id or
  is marked; for traces the hypothesis is only that attachments and imports are
  not both there. Both hypotheses are needed, for one reason: an attachment puts
  back a whole document it read before (finding `journal_replace`), over a
  redaction in the first case, over a deleted run whose id was imported again in
  the second. `BlobInv`: whatever a row refers to is on disk, and so is what a
  document under way has packed, because whoever removes blobs is alone while it
  does. The theorem's hypothesis is one process, or operations that remove
  nothing; with a recorder beside a collector it is false (finding
  `journal_collect`).
- **Receipts.** `ReceiptsInv` says of each arm that was run that its early stop and
  its marks are what the full replay would have given (`ArmSound`), of each
  pair with no effect alone that it is still to be run or judged, and of the
  coalitions a report needs that each is measured or still on the list. A batch
  enters only where it is certified or wanted. Assumed: a beginning of a reply
  does not spell the text that stands for a wrong batch.
- **Context map.** First the algorithm, for every text: a sentence is cut into
  chunks, the chunks of a message are grouped within the bound, and at each step the
  ranges still cover each visible character once, in order, with no word in two
  of them; by induction on what is left of the text. Then the machine: `MapInv`
  says that the spans given out are such a cut at every stage (`SpansMeasured`),
  that the counter is the number of scores asked for (`CallsAddUp`), and that the
  queue lists, strongest first, exactly the spans that clear the floor and were
  not yet taken (`Refining`), whence what is left whole is no stronger than what
  was refined. Assumed: positive bounds.
- **Watch and migrations.** `WatchInv`: what was shown lies at or before the cursor;
  the cursor is the key of a run that nobody is still recording; and some stored
  row is not before it, since pruning keeps the newest (a finite set of rows has
  that many newest ones, `NewestExists`). Nothing is assumed of the clock. `MigInv`: at most one
  opener is in a transaction, what an opener no longer has on its list is in the
  ledger, and the ledger is an initial segment of the versions whose objects are
  there unless another program dropped them. Assumed: keys are totally ordered and well founded, at least one row is
  kept; finitely many versions.
- **Think tags.** The answer is defined on the whole reply, character by character:
  what is in no tag and in no block. `ThinkInv` says that the filter stands where
  that reading stands at some place p of the text so far: depth, answer
  and the rest of the text agree, no tag that began by p is still open there, and
  none is complete after it (`ReadTo`, `Plain`). Another piece changes nothing up to p
  (`SameReading`), a turn of the loop and the rest move p on (`TagTurnKeeps`,
  `TurnsEnd`, `PassRestKeeps`), and the end gives what is left (`FinishGives`).
  The theorem is of replies without a character whose lower case is longer.
  Assumed: no tag begins inside another or inside itself, as for `<think>` and
  `</think>`, and a tag does not begin with white space.
- **Streams.** `StreamInv` is a conjunction over the requests, of which at most one
  is in the handler: at each location it says which request is
  published as the current one, that a stop cause on its way is the worker's, and
  whether the run was logged. Assumed: a request has one wire, a reply
  has a piece.
- **Studio.** `TapeInv` ties a panel, its request counter, the receipts and the
  panels without a counter to the run on the tape: a call for another run is one
  that is marked late. `MonitorInv` ties an open reply to the send it is of.
- **Experiments.** `PlaceInv` (what is still to do at each location), `MatrixInv`
  (exactly the coordinates behind this one have a cell) and `DialsInv` (as long as
  nobody else turned a dial and all could be put back, which dials are the
  original ones and which the variant's, also where the restore was cut short).
  Assumed: what the validator enforces, that cases and dial names are distinct
  and there is a variant.
- **Dialogues.** The history check is a fold with a pending call and a set of
  answered ids. `ScannerKnows`, by induction over the messages, says what its
  state is worth after each of them: it has not failed exactly when each call so
  far is followed by its own result. `DialogueInv` adds that an honest
  client's transcript alternates so (`HonestSoFar`), and that no two of its calls
  have one id.
- **Supervisor.** `OwnershipInv` says for every location which child may be alive
  without being held by the stack: only a worker that a restart is booting, and
  `spawn_engine`'s own handler ends that one. Assumed: a positive restart limit.
- **Retrain, policies, connect.** `RetrainInv`: the retrain thread holds the train
  lock exactly while it may touch the prefix, and a second one is not started.
  `PolicyInv`: each policy in force is what some transaction of the log left,
  unless a write was torn or the log has dropped entries; of a session's
  transactions only the one that made its policy has its revision. `ConnectInv`:
  once a command may write the file, every version the user wrote himself is in a
  backup; while nobody else touches the files, the command works on what it
  read. Assumed: a target is a session or a profile, not both.
- **Completions.** `ChatInv`: what is kept once the last attempt is made is of that
  attempt, and a structured request past its check has the pipeline of a
  qualified worker. **Guard.** `GuardInv`: the cap is admitted only when it is
  spent, text that was not checked only when it is admitted, and what can fire was
  calibrated at the polled layer. **Replays.** `ReplayInv`: while an arm is generated
  the live state is the changed one and the borrowed one is in its hands, and
  a request that cannot be applied has changed the memory strength only; the runs of a comparison's arms have the same baseline. Assumed: a positive chunk,
  budget, cap and dial range.

Lemmas about the operators of one component (sums and cardinalities, the cells of
a text, the blocks of a board) stand before its invariant; those that several
need are in `DataLemmas`. What a recursive function computes is proved there and
elsewhere by induction with a set instead of a predicate: the set of the numbers
for which the claim holds contains 0 and every successor, so it is `Nat`
(`SetInduction`, from the well-foundedness of `<` on the naturals). That a recursive
function exists at all, with its values in a given set, is `Recursion`.

## 6. Only model-checked

- Liveness: `NobodyWaitsForEver`, `StreamEnds`, `ShutdownEnds`, `StaleHeals`,
  `EveryoneGetsThrough`. The prover does not handle fairness and ENABLED.
- `ShapleyIsTheMean`: that the weighted sum over coalitions is the mean over all
  orders is a counting argument over permutations, checked for up to the number of
  influences the run has.
- `NoLostEvidence` with several processes of which one removes blobs: it does not
  hold (finding `journal_collect`).

## 7. Not modelled

- **Numeric code**: kernels, samplers, activations, analysis and readouts,
  steering vectors, the fit planner and throughput predictor, calibration. TLC has
  no floating point, and their correctness is a matter of tolerances.
- **Pure conversions and views**: Markdown documents, artifact contracts, run
  exports, analytics, page rendering, the python client. They keep no state that
  a second actor sees.
- **Research code**: the engine's and the python laboratory, apart from the
  retrain thread, and the scripts.
- Within modelled components: process identity in the registry (pids that were
  reused), how a JSON schema is walked, the text of memory blocks, the studio's
  pages that show what a route answers, snapshot rings, profile files.
- The browser, the operating system and SQLite, which are modelled by what the
  code relies on: atomic rename, file locks, one writer at a time.

## 8. Observations

Seen while translating; no run is about them.

- *Registry.* `clozn stop` waits for its targets only: a runtime on another port
  that read the file before the prune writes the dropped row back
  (`serve.py:155-159`) until the next `clozn ps`. It signals pids without asking
  whose they are (`serve.py:146`). `clozn ps` drops a live runtime whose `/readyz`
  takes more than a second (`serve.py:112`).
- *Streaming.* A client that leaves between the log and the last SSE chunk has its
  run logged again (`sse.py:193`).
- *Cards.* A profile switch lists the overlay cards first and deletes them later:
  one that was given another scope in between goes too (`app.py:541`).
- *Policies.* A kept undo link whose policy was activated, undone and activated again finds
  what it expects (`corrective_retries.py:231`).
- *Retrain.* A change during a retrain is dropped without another one being
  started (`lab/substrates/__init__.py:141`).
- *Engine.* A checkpoint made at the end of a completion with a soft prefix holds
  a KV state that its restore does not expect (`server_main.cpp:820`); the count of
  random draws is one short after an end token (`:832`); `/v1/branch` ignores the
  checkpoint's steering and sampler; `/harvest`, `/state` and `/v1/checkpoint` set
  causal attention on a diffusion model's context and leave it so; a diffusion
  reply too long for the context fails only at the block that exceeds it; a cell
  taken back in the last pass stays a hole and counts as a new token.
- *Experiments.* A reply without a run id is taken to be the journal's newest run
  (`suite.py:298`); a failed restore of the dials is swallowed (`suite.py:326`);
  dials others set meanwhile are overwritten. The golden check of `clozn ci`
  grades whichever model answers, and duplicate test names count once
  (`ci_check.py:186`).
- *Think tags.* A stream never infers that a reply began inside a thought, the
  journal (`app.py:842`) and the gateway (`generation_gateway.py:137`) do.
- *Connect.* An edit between the copy and the replacement is lost, and one between
  the write and its digest is taken for clozn's own (`connect.py:155`). A kill
  between the write and its record leaves a change nobody can undo.
- *Replays.* A counterfactual about a dial that does not exist reports
  `causal_verified` true; its baseline runs under the live dials, not the run's; a
  fork records dials that the engine dropped; `cards_applied` lists cards even when
  memory is off; cards are read anew for each arm, so an edit in between is
  attributed to the intervention. The descriptors that stand for snapshots are kept without bound
  (`timetravel.py:197`), against `app.py:1017`.
- *Receipts.* A stop inside a multi-byte character ends in U+FFFD, which a
  comparison of texts sees (`deltas.py:102`); an arm whose second generation fails
  keeps the untrusted prefix (`core.py:49`); coalitions compare early-stopped
  replies (`core.py:161`). The pair that is tested for redundancy can be a span and
  a part of it (`context_answer_influence.py:534`), and a refined span that clears
  the floor while none of its parts does is left out of the summary (`:513`).
- *Structured output.* A client that changes the schema of a tool it has already
  called is refused from then on (`structured_io.py:540`).
- *Studio.* Of two loads the one answered last wins. A lineage that could not be
  fetched is shown as one without relatives (`replay.mjs:1707`).
- *Journal.* A literal redaction rewrites the reference to the influence map when
  the literal occurs in its hash (`mutations.py:33` spares `trace_ref` only); such
  a reference names no blob and is read as that of a run without a map, although
  `store.py:133` says that a run never presents none when it was lost.

## 9. What could come next

1. `RequestGate` composed with `ChatStream`, to derive the latter's assumption of
   one reply in the gateway at a time; `RuntimeSupervisor` with `DaemonRegistry`,
   with pids.
2. The snapshot ring and the token-level branches of `clozn/replay`, the
   anchored-memory topic gate, the text envelope of structured output.
