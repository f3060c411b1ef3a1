----------------------------- MODULE RunJournal -----------------------------
(***************************************************************************)
(* The run journal: one SQLite row per run (clozn/runs/store.py), whose    *)
(* bulky evidence (its trace, and a context/answer influence map) lives in *)
(* content-addressed blob files outside the database.  Recording, legacy   *)
(* import, attachments (clozn/runs/attachments.py and the influence-map    *)
(* route), the privacy mutations (clozn/runs/mutations.py) and the blob    *)
(* collector (clozn/runs/gc.py) all change it, from the server's threads   *)
(* and from separate CLI processes.                                        *)
(*                                                                         *)
(* A step is one SQLite transaction or one file-system operation: SQLite's *)
(* writer lock serialises the former, nothing orders the latter.  Because  *)
(* blobs are named by the SHA-256 of their content, a digest and its       *)
(* content are the same value here.                                        *)
(***************************************************************************)
EXTENDS Naturals, FiniteSets

CONSTANTS
    Runs,       \* run ids (time + random hex: never generated twice)
    Traces,     \* non-empty trace documents
    Maps,       \* influence-map documents
    Threads,    \* server threads and CLI processes using the journal
    Ops,        \* the operations they may start, a subset of AllOps
    Keep,       \* store.KEEP
    Empty,      \* the trace {} of a run that carried none
    Lost,       \* {"unavailable": ...}: what _load_blob returns for a lost blob
    Nil,        \* no row, no reference, no parent
    Broken      \* an influence_map_ref whose hash a scrub has rewritten

AllOps == {"record", "import", "attach", "redact", "scrub", "delete", "retain",
           "gc", "crash"}

Contents == Traces \cup Maps \cup {Empty, Lost}

ASSUME JournalAssumption ==
    /\ Ops \subseteq AllOps
    /\ Keep \in Nat \ {0}
    /\ IsFiniteSet(Runs)
    /\ Empty # Lost
    /\ {Empty, Lost} \cap (Traces \cup Maps) = {}
    /\ Nil \notin Contents \cup Runs
    /\ Broken \notin Contents \cup Runs \cup {Nil}

VARIABLES
    rows,       \* the runs table
    blobs,      \* digests that exist under blobs/sha256
    used,       \* ids some record() has generated
    clock,      \* time.time() as the journal's writers have read it
    pc,         \* where each thread is in its operation
    cur,        \* the run id it works on
    doc,        \* the document it is about to store
    todo,       \* references still to pack, or digests still to clean up
    known,      \* the collector's last scan of referenced digests
    recorded    \* history: the trace each run was first stored with

vars == <<rows, blobs, used, clock, pc, cur, doc, todo, known, recorded>>
locals == <<pc, cur, doc, todo, known>>

Kinds == {"trace", "map"}

\* payload_json.  `failed` holds the references stored with write_failed set,
\* `text` what is left of the prompt, the response and the other content:
\* everything, everything but the scrubbed literals, or a tombstone.
Docs == [trace : Contents \cup {Nil}, map : Contents \cup {Nil, Broken},
         failed : SUBSET Kinds, text : {"full", "scrubbed", "none"},
         tests : BOOLEAN, parent : Runs \cup {Nil}, ts : Nat]

Live == {r \in Runs : rows[r] # Nil}
Ref(d, kind) == IF kind = "trace" THEN d.trace ELSE d.map

Digests(S) == {Ref(rows[r], k) : r \in S, k \in Kinds} \ {Nil, Broken}

\* gc._referenced_digests: every digest in either reference of any row, a
\* reference whose write failed included.
Referenced == Digests(Live)

Locations == {"idle", "pack", "importPack", "imported", "prune", "compute", "repack",
              "cleanup", "gcGlob", "gcRecheck", "gcRemove"}

Init ==
    /\ rows = [r \in Runs |-> Nil]
    /\ blobs = {}
    /\ used = {}
    /\ clock = 0
    /\ pc = [t \in Threads |-> "idle"]
    /\ cur = [t \in Threads |-> Nil]
    /\ doc = [t \in Threads |-> Nil]
    /\ todo = [t \in Threads |-> {}]
    /\ known = [t \in Threads |-> {}]
    /\ recorded = [r \in Runs |-> Nil]

Start(t, op, there) ==
    /\ op \in Ops
    /\ pc[t] = "idle"
    /\ pc' = [pc EXCEPT ![t] = there]

\* Every local is dropped when the operation returns.
Return(t) ==
    /\ pc' = [pc EXCEPT ![t] = "idle"]
    /\ cur' = [cur EXCEPT ![t] = Nil]
    /\ doc' = [doc EXCEPT ![t] = Nil]
    /\ todo' = [todo EXCEPT ![t] = {}]
    /\ known' = [known EXCEPT ![t] = {}]

\* K holds the newest rows by recorded_ts; equal ones are told apart by their
\* random ids, so either may be the newer.
Newest(K) ==
    /\ K \subseteq Live
    /\ \A r \in K, q \in Live \ K : rows[q].ts <= rows[r].ts

KeepOnly(K) == rows' = [r \in Runs |-> IF r \in K THEN rows[r] ELSE Nil]

-----------------------------------------------------------------------------
(* record() and import_json_dir() *)

NewDoc(trace, parent, ts) ==
    [trace |-> trace, map |-> Nil, failed |-> {}, text |-> "full",
     tests |-> FALSE, parent |-> parent, ts |-> ts]

\* Everything up to _put: the id is generated and recorded_ts is read here.  A
\* replay or fork names as its parent a run it found in the journal.
Record(t, r, trace, parent) ==
    /\ Start(t, "record", "pack")
    /\ r \notin used
    /\ parent = Nil \/ parent \in Live
    /\ used' = used \cup {r}
    /\ clock' = clock + 1
    /\ cur' = [cur EXCEPT ![t] = r]
    /\ doc' = [doc EXCEPT ![t] = NewDoc(trace, parent, clock + 1)]
    /\ todo' = [todo EXCEPT ![t] = {"trace"}]
    /\ UNCHANGED <<rows, blobs, known, recorded>>

\* import_json_dir goes from file to file, and prunes once at the end.
Importing(t) ==
    /\ "import" \in Ops
    /\ pc[t] \in {"idle", "imported"}
    /\ pc' = [pc EXCEPT ![t] = "importPack"]

\* One run_*.json file of a legacy directory: its id may already be stored, but
\* is not one that a record() is just generating; its recorded_ts is its own or
\* its creation time.
Import(t, r, trace, ts) ==
    /\ Importing(t)
    /\ \A s \in Threads : pc[s] = "pack" => cur[s] # r
    /\ ts <= clock
    /\ used' = used \cup {r}
    /\ cur' = [cur EXCEPT ![t] = r]
    /\ doc' = [doc EXCEPT ![t] = NewDoc(trace, Nil, ts)]
    /\ todo' = [todo EXCEPT ![t] = {"trace"}]
    /\ UNCHANGED <<rows, blobs, clock, known, recorded>>

Packing(t) == pc[t] \in {"pack", "importPack", "repack"} /\ todo[t] # {}

\* _pack stores the trace first, then the influence map.
NextRef(t) == IF "trace" \in todo[t] THEN "trace" ELSE "map"
Packed(t) == todo' = [todo EXCEPT ![t] = @ \ {NextRef(t)}]

\* _store_blob finds the file and skips the write.
SkipBlob(t) ==
    /\ Packing(t)
    /\ Ref(doc[t], NextRef(t)) \in blobs
    /\ Packed(t)
    /\ UNCHANGED <<rows, blobs, used, clock, pc, cur, doc, known, recorded>>

\* It writes the file; atomic_write_json makes the whole file appear at once.
WriteBlob(t) ==
    /\ Packing(t)
    /\ Ref(doc[t], NextRef(t)) \notin blobs
    /\ blobs' = blobs \cup {Ref(doc[t], NextRef(t))}
    /\ Packed(t)
    /\ UNCHANGED <<rows, used, clock, pc, cur, doc, known, recorded>>

\* The write fails: the run is stored all the same, with the reference marked
\* write_failed (and the row flagged, which _load_blob does not depend on).
WriteBlobFails(t) ==
    /\ Packing(t)
    /\ Ref(doc[t], NextRef(t)) \notin blobs
    /\ doc' = [doc EXCEPT ![t].failed = @ \cup {NextRef(t)}]
    /\ Packed(t)
    /\ UNCHANGED <<rows, blobs, used, clock, pc, cur, known, recorded>>

\* _put: INSERT, which cannot meet an existing id, in a transaction of its own.
Put(t) ==
    /\ pc[t] = "pack" /\ todo[t] = {}
    /\ rows' = [rows EXCEPT ![cur[t]] = doc[t]]
    /\ recorded' = [recorded EXCEPT ![cur[t]] = doc[t].trace]
    /\ pc' = [pc EXCEPT ![t] = "prune"]
    /\ UNCHANGED <<blobs, used, clock, cur, doc, todo, known>>

\* _put(ignore=True): INSERT OR IGNORE.
ImportPut(t) ==
    /\ pc[t] = "importPack" /\ todo[t] = {}
    /\ IF cur[t] \in Live
       THEN UNCHANGED <<rows, recorded>>
       ELSE /\ rows' = [rows EXCEPT ![cur[t]] = doc[t]]
            /\ recorded' = [recorded EXCEPT ![cur[t]] = doc[t].trace]
    /\ pc' = [pc EXCEPT ![t] = "imported"]
    /\ UNCHANGED <<blobs, used, clock, cur, doc, todo, known>>

\* _prune: only the newest Keep rows, by recorded_ts, survive.
Prune(t) ==
    /\ pc[t] \in {"prune", "imported"}
    /\ \E K \in SUBSET Live :
           /\ Newest(K)
           /\ Cardinality(K) = IF Cardinality(Live) < Keep THEN Cardinality(Live) ELSE Keep
           /\ KeepOnly(K)
    /\ Return(t)
    /\ UNCHANGED <<blobs, used, clock, recorded>>

-----------------------------------------------------------------------------
(* Attachments: read the document, change a field, replace the row *)

\* Mutant: a blob that is gone loads as the {} of a run that had none.
LoadMissingAsEmpty(d, kind) ==
    IF Ref(d, kind) # Nil /\ kind \notin d.failed /\ Ref(d, kind) \in blobs
    THEN Ref(d, kind) ELSE Empty

\* _load_blob: {} only when the row carries no reference at all.
Load(d, kind) ==
    IF Ref(d, kind) = Nil THEN Empty
    ELSE IF kind \notin d.failed /\ Ref(d, kind) \in blobs THEN Ref(d, kind)
    ELSE Lost

\* get_run: the document with its evidence inlined.  A reference that is no
\* hash reads as a map {}, which is stored as none.
Unpack(d) ==
    [d EXCEPT !.trace = Load(d, "trace"),
              !.map = IF d.map \in {Nil, Broken} THEN Nil ELSE Load(d, "map"),
              !.failed = {}]

\* The caller's own get_run (update_tiny_tests, or the influence-map route
\* before its many scoring passes).
AttachRead(t, r) ==
    /\ Start(t, "attach", "compute")
    /\ r \in Live
    /\ cur' = [cur EXCEPT ![t] = r]
    /\ doc' = [doc EXCEPT ![t] = Unpack(rows[r])]
    /\ UNCHANGED <<rows, blobs, used, clock, todo, known, recorded>>

RefsOf(d) == IF d.map = Nil THEN {"trace"} ELSE Kinds

\* The changed copy, then replace_run's check that the run exists and _pack.
Attach(t, d) ==
    /\ pc[t] = "compute"
    /\ cur[t] \in Live
    /\ doc' = [doc EXCEPT ![t] = d]
    /\ todo' = [todo EXCEPT ![t] = RefsOf(d)]
    /\ pc' = [pc EXCEPT ![t] = "repack"]
    /\ UNCHANGED <<rows, blobs, used, clock, cur, known, recorded>>

AttachTests(t) == Attach(t, [doc[t] EXCEPT !.tests = TRUE])
AttachMap(t) == \E m \in Maps : Attach(t, [doc[t] EXCEPT !.map = m])

\* replace_run finds no such run and returns False.
AttachRefused(t) ==
    /\ pc[t] = "compute"
    /\ cur[t] \notin Live
    /\ Return(t)
    /\ UNCHANGED <<rows, blobs, used, clock, recorded>>

\* _put(replace=True): INSERT OR REPLACE, whatever the row is by now.
PutBack(t) ==
    /\ pc[t] = "repack" /\ todo[t] = {}
    /\ rows' = [rows EXCEPT ![cur[t]] = doc[t]]
    /\ Return(t)
    /\ UNCHANGED <<blobs, used, clock, recorded>>

-----------------------------------------------------------------------------
(* Privacy and retention mutations: each commits in one BEGIN IMMEDIATE *)

Tombstone(d) ==
    [d EXCEPT !.trace = Nil, !.map = Nil, !.failed = {}, !.text = "none",
              !.tests = FALSE]

\* redact_run without literals; a tombstone is left as it is.
Redact(t, r) ==
    /\ Start(t, "redact", "cleanup")
    /\ r \in Live /\ rows[r].text # "none"
    /\ rows' = [rows EXCEPT ![r] = Tombstone(@)]
    /\ todo' = [todo EXCEPT ![t] = Digests({r})]
    /\ UNCHANGED <<blobs, used, clock, cur, doc, known, recorded>>

\* Mutant: the literal path does not look for an existing tombstone.
ScrubTombstone(t, r) ==
    /\ "scrub" \in Ops /\ pc[t] = "idle"
    /\ r \in Live
    /\ rows' = [rows EXCEPT ![r].text = "scrubbed"]
    /\ UNCHANGED <<blobs, used, clock, locals, recorded>>

\* redact_run with literals: the text is scrubbed, the blobs are not touched.
\* _NO_SCRUB_KEYS spares the trace's reference; the map's is rewritten when a
\* literal occurs in its hash.
Scrubbed(d, ref) == [d EXCEPT !.text = "scrubbed", !.map = ref]

Scrub(t, r) ==
    /\ "scrub" \in Ops /\ pc[t] = "idle"
    /\ r \in Live /\ rows[r].text # "none"
    /\ \E ref \in {rows[r].map, Broken} :
         /\ rows[r].map = Nil => ref = Nil
         /\ rows' = [rows EXCEPT ![r] = Scrubbed(@, ref)]
    /\ UNCHANGED <<blobs, used, clock, locals, recorded>>

Children(r) == {q \in Live : rows[q].parent = r}

\* _descendant_ids: what following parent_run_id down from r reaches.
Descendants(r) ==
    {q \in Live : \A S \in SUBSET Live :
        (\A c \in Live : rows[c].parent \in S \cup {r} => c \in S) => q \in S}

\* Mutant: a run with children is deleted alone.
DeleteAlone(t, r, cascade) ==
    /\ Start(t, "delete", "cleanup")
    /\ r \in Live
    /\ rows' = [rows EXCEPT ![r] = Nil]
    /\ todo' = [todo EXCEPT ![t] = Digests({r})]
    /\ UNCHANGED <<blobs, used, clock, cur, doc, known, recorded>>

\* delete_run: a run with children is refused unless cascade is given.
Delete(t, r, cascade) ==
    /\ Start(t, "delete", "cleanup")
    /\ r \in Live
    /\ Children(r) # {} => cascade
    /\ LET targets == {r} \cup Descendants(r)
       IN  /\ rows' = [q \in Runs |-> IF q \in targets THEN Nil ELSE rows[q]]
           /\ todo' = [todo EXCEPT ![t] = Digests(targets)]
    /\ UNCHANGED <<blobs, used, clock, cur, doc, known, recorded>>

\* prune_to(keep) and prune_older_than(days), applied: either keeps the rows
\* newest by recorded_ts and leaves their blobs to the collector.
Retain(t, K) ==
    /\ "retain" \in Ops /\ pc[t] = "idle"
    /\ Newest(K) /\ KeepOnly(K)
    /\ UNCHANGED <<blobs, used, clock, locals, recorded>>

\* Mutant: the cleanup forgets that another run may share the blob.
CleanupUnchecked(t, d, removed) ==
    /\ pc[t] = "cleanup" /\ d \in todo[t]
    /\ blobs' = IF removed THEN blobs \ {d} ELSE blobs
    /\ todo' = [todo EXCEPT ![t] = @ \ {d}]
    /\ UNCHANGED <<rows, used, clock, pc, cur, doc, known, recorded>>

\* _cleanup_blob holds SQLite's writer lock from the scan to the unlink, so no
\* row can be committed in between.
Cleanup(t, d, removed) ==
    /\ pc[t] = "cleanup" /\ d \in todo[t]
    /\ removed => d \notin Referenced
    /\ blobs' = IF removed THEN blobs \ {d} ELSE blobs
    /\ todo' = [todo EXCEPT ![t] = @ \ {d}]
    /\ UNCHANGED <<rows, used, clock, pc, cur, doc, known, recorded>>

CleanupDone(t) ==
    /\ pc[t] = "cleanup" /\ todo[t] = {}
    /\ Return(t)
    /\ UNCHANGED <<rows, blobs, used, clock, recorded>>

-----------------------------------------------------------------------------
(* gc.collect(dry_run=False) *)

\* plan(): scan the rows, close the connection, then list the files.
GcScan(t) ==
    /\ Start(t, "gc", "gcGlob")
    /\ known' = [known EXCEPT ![t] = Referenced]
    /\ UNCHANGED <<rows, blobs, used, clock, cur, doc, todo, recorded>>

GcGlob(t) ==
    /\ pc[t] = "gcGlob"
    /\ todo' = [todo EXCEPT ![t] = blobs \ known[t]]
    /\ pc' = [pc EXCEPT ![t] = "gcRecheck"]
    /\ UNCHANGED <<rows, blobs, used, clock, cur, doc, known, recorded>>

\* The referenced set is read again, without the writer lock, and the loop
\* below skips what is in it.
GcRecheck(t) ==
    /\ pc[t] = "gcRecheck"
    /\ known' = [known EXCEPT ![t] = {}]
    /\ todo' = [todo EXCEPT ![t] = @ \ Referenced]
    /\ pc' = [pc EXCEPT ![t] = "gcRemove"]
    /\ UNCHANGED <<rows, blobs, used, clock, cur, doc, recorded>>

\* os.remove, or an OSError for this one file.
GcRemove(t, d, removed) ==
    /\ pc[t] = "gcRemove" /\ d \in todo[t]
    /\ blobs' = IF removed THEN blobs \ {d} ELSE blobs
    /\ todo' = [todo EXCEPT ![t] = @ \ {d}]
    /\ UNCHANGED <<rows, used, clock, pc, cur, doc, known, recorded>>

GcDone(t) ==
    /\ pc[t] = "gcRemove" /\ todo[t] = {}
    /\ Return(t)
    /\ UNCHANGED <<rows, blobs, used, clock, recorded>>

-----------------------------------------------------------------------------
\* The process dies, or the transaction it was about to run is refused
\* (SQLITE_BUSY, a full disk): nothing of the operation's remainder happens.
Crash(t) ==
    /\ "crash" \in Ops
    /\ pc[t] # "idle"
    /\ Return(t)
    /\ UNCHANGED <<rows, blobs, used, clock, recorded>>

Write(t) ==
    \/ \E r \in Runs, c \in Traces \cup {Empty}, p \in Runs \cup {Nil} : Record(t, r, c, p)
    \/ \E r \in Runs, c \in Traces \cup {Empty}, ts \in 0..Cardinality(Runs) : Import(t, r, c, ts)
    \/ SkipBlob(t) \/ WriteBlob(t) \/ WriteBlobFails(t)
    \/ Put(t) \/ ImportPut(t) \/ Prune(t)

Amend(t) ==
    \/ \E r \in Runs : AttachRead(t, r)
    \/ AttachTests(t) \/ AttachMap(t) \/ AttachRefused(t) \/ PutBack(t)

Mutate(t) ==
    \/ \E r \in Runs : Redact(t, r) \/ Scrub(t, r)
    \/ \E r \in Runs, cascade \in BOOLEAN : Delete(t, r, cascade)
    \/ \E K \in SUBSET Live : Retain(t, K)
    \/ \E d \in Contents, removed \in BOOLEAN : Cleanup(t, d, removed)
    \/ CleanupDone(t)

Collect(t) ==
    \/ GcScan(t) \/ GcGlob(t) \/ GcRecheck(t)
    \/ \E d \in Contents, removed \in BOOLEAN : GcRemove(t, d, removed)
    \/ GcDone(t)

Next == \E t \in Threads : Write(t) \/ Amend(t) \/ Mutate(t) \/ Collect(t) \/ Crash(t)

Spec == Init /\ [][Next]_vars

-----------------------------------------------------------------------------
(* Properties *)

\* Every blob a stored row refers to is on disk, unless the row itself says
\* that its write failed ("never a surviving row whose evidence was deleted").
\* A reference rewritten by a scrub refers to none: the run has lost its map.
NoLostEvidence ==
    \A r \in Live, k \in Kinds :
        Ref(rows[r], k) \notin {Nil, Broken} /\ k \notin rows[r].failed => Ref(rows[r], k) \in blobs

\* A run that is not redacted reads back as the trace it was recorded with or
\* as unavailable, never as another trace and never as "no trace", whatever
\* was collected, replaced or lost in between (_load_blob's promise).
NeverSilentlyEmpty ==
    \A r \in Live : rows[r].text # "none" =>
        Load(rows[r], "trace") \in {recorded[r], Lost}

\* A redaction is final: no later step of anybody brings text back.
RedactionSticks ==
    [][\A r \in Live : r \in Live' =>
        /\ rows[r].text = "none" => rows'[r].text = "none"
        /\ rows[r].text = "scrubbed" => rows'[r].text # "full"]_vars

\* delete_run leaves no run whose parent it deleted, however deep the chain of
\* replays below it.
DeleteLeavesNoOrphanChild ==
    [][\A t \in Threads, r \in Runs, cascade \in BOOLEAN : Delete(t, r, cascade) =>
        \A q \in Live' : rows'[q].parent \notin Live \ Live']_vars

\* replace_run: "Atomically replace one existing run document".  The write of an
\* attachment finds the run still there, and leaves a redaction and the other
\* attachment made since the caller read the document as they are.
ReplaceIsAtomic ==
    [][\A t \in Threads, r \in Runs : cur[t] = r /\ PutBack(t) =>
        /\ r \in Live
        /\ rows'[r].text = rows[r].text
        /\ rows[r].tests => rows'[r].tests
        /\ rows[r].map # Nil => rows'[r].map # Nil]_vars

=============================================================================
