---------------------------- MODULE EvidenceProofs ----------------------------
(***************************************************************************)
(* The recorded run as evidence, for every value of the constants.         *)
(*                                                                         *)
(* The journal.  For any set of runs and any forest (or even graph) of     *)
(* parent links: a deletion takes the whole subtree with it.  Unless       *)
(* attachments are written, which put a document back that they read       *)
(* earlier, a redaction is final: an id that is being recorded is nobody   *)
(* else's (JournalInv), so its INSERT cannot meet a redacted row.  Unless  *)
(* attachments and imports go together, a run that is no tombstone reads   *)
(* back with the trace it was recorded with or as unavailable: TraceInv    *)
(* follows a trace from the capture to the row, and through every copy an  *)
(* amendment takes of the row.  With one process, or with none that        *)
(* removes anything, no row loses a blob: BlobInv says what a document     *)
(* under way has packed, and that whoever removes blobs is alone.          *)
(*                                                                         *)
(* The receipts, for any influences, replies and spelling of tokens.  Each *)
(* arm that was run says what a full replay would have said (ArmSound),    *)
(* and what the report is made of was judged (PairInv, CoalitionInv).      *)
(***************************************************************************)
EXTENDS RunJournal, Receipts, DataLemmas, TLAPS

-----------------------------------------------------------------------------
(* Deletions *)

\* What _descendant_ids reaches is closed: a stored child of r, or of one of
\* its descendants, is a descendant.
LEMMA DescendantsClosed ==
  ASSUME NEW r, NEW q \in Live, rows[q].parent \in {r} \cup Descendants(r)
  PROVE  q \in Descendants(r)
<1> SUFFICES ASSUME NEW S \in SUBSET Live,
                    \A c \in Live : rows[c].parent \in S \cup {r} => c \in S
             PROVE  q \in S
  BY DEF Descendants
<1>1. Descendants(r) \subseteq S
  BY DEF Descendants
<1>2. rows[q].parent \in S \cup {r}
  BY <1>1
<1> QED
  BY <1>2

\* No behaviour of the journal, however many processes take part in it, has a
\* delete_run that leaves behind a run whose parent it removed: the cascade is
\* complete at any depth.
THEOREM CascadeComplete == Spec => DeleteLeavesNoOrphanChild
<1>1. ASSUME NEW t \in Threads, NEW r \in Runs, NEW cascade \in BOOLEAN,
             Delete(t, r, cascade), NEW q \in Live'
      PROVE  rows'[q].parent \notin Live \ Live'
  <2> DEFINE targets == {r} \cup Descendants(r)
  <2>1. rows' = [x \in Runs |-> IF x \in targets THEN Nil ELSE rows[x]]
    BY <1>1 DEF Delete
  <2>2. q \in Runs /\ rows'[q] # Nil
    BY <1>1 DEF Live
  <2>3. q \notin targets /\ rows'[q] = rows[q]
    BY <2>1, <2>2
  <2>4. q \in Live
    BY <2>2, <2>3 DEF Live
  <2>5. \A p \in Live \ Live' : p \in targets
    BY <2>1 DEF Live
  <2>6. rows[q].parent \notin targets
    BY <2>3, <2>4, DescendantsClosed
  <2> QED
    BY <2>3, <2>5, <2>6
<1>2. [Next]_vars =>
        [\A t \in Threads, r \in Runs, cascade \in BOOLEAN : Delete(t, r, cascade) =>
            \A q \in Live' : rows'[q].parent \notin Live \ Live']_vars
  BY <1>1
<1> QED
  BY <1>2, PTL DEF Spec, DeleteLeavesNoOrphanChild

-----------------------------------------------------------------------------
(* Redactions *)

HasFields(d) == d = [trace |-> d.trace, map |-> d.map, failed |-> d.failed,
                     text |-> d.text, tests |-> d.tests, parent |-> d.parent,
                     ts |-> d.ts]

Storing(t) == pc[t] \in {"pack", "importPack"}

JournalInv ==
  /\ rows = [r \in Runs |-> rows[r]] /\ pc = [t \in Threads |-> pc[t]]
  /\ cur = [t \in Threads |-> cur[t]] /\ doc = [t \in Threads |-> doc[t]]
  /\ \A r \in Live : HasFields(rows[r]) /\ r \in used
  /\ \A t \in Threads : Storing(t) => HasFields(doc[t]) /\ cur[t] \in used
  /\ \A t \in Threads : pc[t] = "pack" => cur[t] \notin Live
  /\ \A s, t \in Threads : pc[s] = "pack" /\ Storing(t) /\ cur[s] = cur[t] => s = t
  /\ \A t \in Threads : pc[t] \notin {"compute", "repack"}

\* What the rows look like after a step that writes no new one: each is as it
\* was, gone, or has lost more of its text.
Weaker(d, e) ==
  /\ HasFields(e)
  /\ d.text = "none" => e.text = "none"
  /\ d.text = "scrubbed" => e.text # "full"

RowsWeaken == \A r \in Live' : r \in Live /\ Weaker(rows[r], rows'[r])

\* A thread that returns, or does anything but record and import, stores nothing
\* the others did not.
LEMMA WeakenKeeps ==
  ASSUME JournalInv, rows' = [r \in Runs |-> rows'[r]], RowsWeaken, used' = used,
         NEW t \in Threads,
         pc' = [s \in Threads |-> pc'[s]], cur' = [s \in Threads |-> cur'[s]],
         doc' = [s \in Threads |-> doc'[s]],
         \A s \in Threads : s # t => /\ pc'[s] = pc[s] /\ cur'[s] = cur[s]
                                     /\ doc'[s] = doc[s],
         pc'[t] \notin {"compute", "repack"},
         Storing(t)' => /\ pc'[t] = pc[t] /\ cur'[t] = cur[t] /\ HasFields(doc'[t])
  PROVE  JournalInv'
<1>1. \A s \in Threads : Storing(s)' => Storing(s) /\ pc'[s] = pc[s] /\ cur'[s] = cur[s]
  BY DEF Storing
<1>2. Live' \subseteq Live /\ \A r \in Live' : HasFields(rows'[r])
  BY DEF RowsWeaken, Weaker
<1>3. \A s \in Threads : Storing(s)' => HasFields(doc'[s]) /\ cur'[s] \in used'
  BY <1>1 DEF JournalInv, Storing
<1>4. \A s \in Threads : pc'[s] = "pack" => Storing(s)' /\ pc[s] = "pack" /\ cur'[s] = cur[s]
  BY <1>1 DEF Storing
<1>5. \A s \in Threads : pc'[s] \notin {"compute", "repack"}
  BY DEF JournalInv
<1> QED
  BY <1>1, <1>2, <1>3, <1>4, <1>5 DEF JournalInv

LEMMA SameWeakens ==
  ASSUME JournalInv, rows' = rows PROVE RowsWeaken
BY DEF JournalInv, RowsWeaken, Weaker, Live

LEMMA KeepingWeakens ==
  ASSUME JournalInv, NEW K \in SUBSET Runs,
         rows' = [r \in Runs |-> IF r \in K THEN rows[r] ELSE Nil]
  PROVE  RowsWeaken
BY DEF JournalInv, RowsWeaken, Weaker, Live

\* The steps that read, write or remove blobs, and the end of an operation.
LEMMA QuietStep ==
  ASSUME JournalInv, NEW t \in Threads, rows' = rows, used' = used,
         \/ /\ pc' = [pc EXCEPT ![t] = "idle"] /\ cur' = [cur EXCEPT ![t] = Nil]
            /\ doc' = [doc EXCEPT ![t] = Nil]
         \/ UNCHANGED <<pc, cur, doc>>
         \/ /\ UNCHANGED <<cur, doc>>
            /\ \E there \in {"imported", "cleanup", "gcGlob", "gcRecheck", "gcRemove"} :
                  pc' = [pc EXCEPT ![t] = there]
  PROVE  JournalInv' /\ RowsWeaken
<1>1. RowsWeaken
  BY SameWeakens
<1>2. JournalInv'
  BY <1>1, WeakenKeeps DEF JournalInv, Storing
<1> QED
  BY <1>1, <1>2

NothingComesBack == \A r \in Live : r \in Live' => Weaker(rows[r], rows'[r])

LEMMA RecordStep ==
  ASSUME JournalInv, NEW t \in Threads, NEW r \in Runs, NEW there \in {"pack", "importPack"},
         NEW trace, NEW parent, NEW ts,
         rows' = rows, used' = used \cup {r},
         pc' = [pc EXCEPT ![t] = there], cur' = [cur EXCEPT ![t] = r],
         doc' = [doc EXCEPT ![t] = NewDoc(trace, parent, ts)],
         there = "pack" => r \notin used,
         \A s \in Threads : pc[s] = "pack" => cur[s] # r
  PROVE  JournalInv' /\ NothingComesBack
<1>1. /\ pc'[t] = there /\ cur'[t] = r /\ HasFields(doc'[t])
      /\ \A s \in Threads : s # t => /\ pc'[s] = pc[s] /\ cur'[s] = cur[s]
                                     /\ doc'[s] = doc[s]
  BY DEF JournalInv, NewDoc, HasFields
<1>2. /\ pc' = [s \in Threads |-> pc'[s]] /\ cur' = [s \in Threads |-> cur'[s]]
      /\ doc' = [s \in Threads |-> doc'[s]] /\ rows' = [q \in Runs |-> rows'[q]]
  BY DEF JournalInv
<1>3. Live' = Live /\ \A q \in Live' : HasFields(rows'[q]) /\ q \in used'
  BY DEF JournalInv, Live
<1>4. \A s \in Threads : Storing(s)' => HasFields(doc'[s]) /\ cur'[s] \in used'
  BY <1>1 DEF JournalInv, Storing
<1>5. \A s \in Threads : pc'[s] = "pack" => cur'[s] \notin Live'
  BY <1>1, <1>3 DEF JournalInv
<1>6. \A s, q \in Threads : pc'[s] = "pack" /\ Storing(q)' /\ cur'[s] = cur'[q] => s = q
  BY <1>1 DEF JournalInv, Storing
<1>7. \A s \in Threads : pc'[s] \notin {"compute", "repack"}
  BY <1>1 DEF JournalInv
<1> QED
  BY <1>2, <1>3, <1>4, <1>5, <1>6, <1>7, SameWeakens DEF JournalInv, RowsWeaken, NothingComesBack

\* Storing a row, under an id that has none.
LEMMA StoreStep ==
  ASSUME JournalInv, NEW t \in Threads, Storing(t), NEW there \in {"prune", "imported"},
         \/ rows' = rows
         \/ cur[t] \notin Live /\ rows' = [rows EXCEPT ![cur[t]] = doc[t]],
         used' = used, cur' = cur, doc' = doc, pc' = [pc EXCEPT ![t] = there]
  PROVE  JournalInv' /\ NothingComesBack
<1>1. CASE rows' = rows
  <2>1. RowsWeaken
    BY <1>1, SameWeakens
  <2>2. JournalInv'
    BY <1>1, <2>1, WeakenKeeps DEF JournalInv, Storing
  <2> QED
    BY <2>1, <2>2 DEF RowsWeaken, NothingComesBack
<1>2. CASE cur[t] \notin Live /\ rows' = [rows EXCEPT ![cur[t]] = doc[t]]
  <2>0. /\ rows' = [q \in Runs |-> rows'[q]]
        /\ \A q \in Runs : q # cur[t] => rows'[q] = rows[q]
        /\ cur[t] \in Runs => rows'[cur[t]] = doc[t]
    BY <1>2 DEF JournalInv
  <2>1. ASSUME NEW q \in Live'
        PROVE  \/ q \in Live /\ rows'[q] = rows[q]
               \/ q = cur[t] /\ rows'[q] = doc[t]
    <3>1. q \in Runs /\ rows'[q] # Nil
      BY <2>1 DEF Live
    <3>2. CASE q = cur[t]
      BY <2>0, <3>1, <3>2
    <3>3. CASE q # cur[t]
      BY <2>0, <3>1, <3>3 DEF Live
    <3> QED
      BY <3>2, <3>3
  <2>9. ASSUME NEW q \in Live PROVE rows'[q] = rows[q]
    BY <2>0, <1>2 DEF Live
  <2>2. \A q \in Live' : HasFields(rows'[q]) /\ q \in used'
    BY <2>1 DEF JournalInv
  <2>3. /\ pc' = [s \in Threads |-> pc'[s]] /\ pc'[t] = there
        /\ \A s \in Threads : s # t => pc'[s] = pc[s]
    BY DEF JournalInv
  <2>4. \A s \in Threads : Storing(s)' => Storing(s) /\ s # t
    BY <2>3 DEF Storing
  <2>5. \A s \in Threads : pc'[s] = "pack" => cur'[s] \notin Live'
    BY <2>1, <2>3 DEF JournalInv
  <2>6. \A s, q \in Threads : pc'[s] = "pack" /\ Storing(q)' /\ cur'[s] = cur'[q] => s = q
    BY <2>3, <2>4 DEF JournalInv
  <2>7. /\ \A s \in Threads : pc'[s] \notin {"compute", "repack"}
        /\ \A s \in Threads : Storing(s)' => HasFields(doc'[s]) /\ cur'[s] \in used'
    BY <2>3, <2>4 DEF JournalInv
  <2>8. NothingComesBack
    BY <2>9 DEF JournalInv, NothingComesBack, Weaker
  <2> QED
    BY <2>0, <2>2, <2>3, <2>5, <2>6, <2>7, <2>8 DEF JournalInv
<1> QED
  BY <1>1, <1>2

LEMMA WriteStep ==
  ASSUME JournalInv, NEW t \in Threads, Write(t)
  PROVE  JournalInv' /\ NothingComesBack
<1>1. ASSUME NEW r \in Runs, NEW c, NEW p, Record(t, r, c, p)
      PROVE  JournalInv' /\ NothingComesBack
  <2>1. \A s \in Threads : pc[s] = "pack" => cur[s] # r
    BY <1>1 DEF Record, JournalInv, Storing
  <2> QED
    BY <1>1, <2>1, RecordStep DEF Record, Start
<1>2. ASSUME NEW r \in Runs, NEW c, NEW ts, Import(t, r, c, ts)
      PROVE  JournalInv' /\ NothingComesBack
  BY <1>2, RecordStep DEF Import, Importing
<1>3. CASE SkipBlob(t) \/ WriteBlob(t)
  BY <1>3, QuietStep DEF SkipBlob, WriteBlob, RowsWeaken, NothingComesBack
<1>4. CASE WriteBlobFails(t)
  <2>1. /\ doc' = [doc EXCEPT ![t].failed = @ \cup {NextRef(t)}]
        /\ rows' = rows /\ used' = used /\ pc' = pc /\ cur' = cur
        /\ pc[t] \in {"pack", "importPack", "repack"}
    BY <1>4 DEF WriteBlobFails, Packing
  <2>2. HasFields(doc[t]) /\ doc = [s \in Threads |-> doc[s]]
    BY <2>1 DEF JournalInv, Storing
  <2>3. doc'[t] = [doc[t] EXCEPT !.failed = @ \cup {NextRef(t)}]
    BY <2>1, <2>2
  <2>4. HasFields(doc'[t])
    <3>1. doc[t] = [trace |-> doc[t].trace, map |-> doc[t].map, failed |-> doc[t].failed,
                    text |-> doc[t].text, tests |-> doc[t].tests,
                    parent |-> doc[t].parent, ts |-> doc[t].ts]
      BY <2>2 DEF HasFields
    <3>2. doc'[t] = [trace |-> doc[t].trace, map |-> doc[t].map,
                     failed |-> doc[t].failed \cup {NextRef(t)},
                     text |-> doc[t].text, tests |-> doc[t].tests,
                     parent |-> doc[t].parent, ts |-> doc[t].ts]
      BY <2>3, <3>1
    <3> QED
      BY <3>2 DEF HasFields
  <2>5. doc' = [s \in Threads |-> doc'[s]] /\ \A s \in Threads : s # t => doc'[s] = doc[s]
    BY <2>1, <2>2
  <2>6. RowsWeaken
    BY <2>1, SameWeakens
  <2>7. JournalInv'
    BY <2>1, <2>4, <2>5, <2>6, WeakenKeeps DEF JournalInv, Storing
  <2> QED
    BY <2>6, <2>7 DEF RowsWeaken, NothingComesBack
<1>5. CASE Put(t)
  <2>1. cur[t] \notin Live /\ Storing(t)
    BY <1>5 DEF Put, JournalInv, Storing
  <2> QED
    BY <1>5, <2>1, StoreStep DEF Put
<1>6. CASE ImportPut(t)
  BY <1>6, StoreStep DEF ImportPut, Storing
<1>7. CASE Prune(t)
  <2>1. PICK K \in SUBSET Live : KeepOnly(K)
    BY <1>7 DEF Prune
  <2>2. RowsWeaken
    BY <2>1, KeepingWeakens DEF KeepOnly, Live
  <2>3. JournalInv'
    BY <1>7, <2>1, <2>2, WeakenKeeps DEF Prune, Return, KeepOnly, JournalInv, Storing
  <2> QED
    BY <2>2, <2>3 DEF RowsWeaken, NothingComesBack
<1> QED
  BY <1>1, <1>2, <1>3, <1>4, <1>5, <1>6, <1>7 DEF Write

LEMMA MutateStep ==
  ASSUME JournalInv, NEW t \in Threads, Mutate(t)
  PROVE  JournalInv' /\ NothingComesBack
<1> SUFFICES JournalInv' /\ RowsWeaken
  BY DEF RowsWeaken, NothingComesBack
<1>1. ASSUME NEW r \in Runs, Redact(t, r) \/ Scrub(t, r)
      PROVE  JournalInv' /\ RowsWeaken
  <2>1. r \in Live /\ rows[r].text # "none" /\ HasFields(rows[r])
    BY <1>1 DEF Redact, Scrub, JournalInv
  <2>2. rows[r] = [trace |-> rows[r].trace, map |-> rows[r].map, failed |-> rows[r].failed,
                   text |-> rows[r].text, tests |-> rows[r].tests,
                   parent |-> rows[r].parent, ts |-> rows[r].ts]
    BY <2>1 DEF HasFields
  <2>3. PICK e : (e = Tombstone(rows[r]) \/ \E ref : e = Scrubbed(rows[r], ref))
                 /\ rows' = [rows EXCEPT ![r] = e]
    BY <1>1 DEF Redact, Scrub
  <2>4. HasFields(e) /\ e.text \in {"none", "scrubbed"}
    BY <2>2, <2>3 DEF HasFields, Tombstone, Scrubbed
  <2>5. /\ rows' = [q \in Runs |-> rows'[q]] /\ rows'[r] = e
        /\ \A q \in Runs : q # r => rows'[q] = rows[q]
    BY <2>1, <2>3 DEF JournalInv, Live
  <2>6. RowsWeaken
    BY <2>1, <2>4, <2>5 DEF JournalInv, RowsWeaken, Weaker, Live
  <2>7. used' = used /\ cur' = cur /\ doc' = doc
        /\ (pc' = pc \/ pc' = [pc EXCEPT ![t] = "cleanup"])
    BY <1>1 DEF Redact, Scrub, Start, locals
  <2> QED
    BY <2>5, <2>6, <2>7, WeakenKeeps DEF JournalInv, Storing
<1>2. ASSUME NEW r \in Runs, NEW cascade \in BOOLEAN, Delete(t, r, cascade)
      PROVE  JournalInv' /\ RowsWeaken
  <2> DEFINE targets == {r} \cup Descendants(r)
  <2>1. rows' = [q \in Runs |-> IF q \in Runs \ targets THEN rows[q] ELSE Nil]
    BY <1>2 DEF Delete
  <2>2. used' = used /\ cur' = cur /\ doc' = doc /\ pc' = [pc EXCEPT ![t] = "cleanup"]
    BY <1>2 DEF Delete, Start
  <2> HIDE DEF targets
  <2>3. RowsWeaken
    BY <2>1, KeepingWeakens
  <2> QED
    BY <2>1, <2>2, <2>3, WeakenKeeps DEF JournalInv, Storing
<1>3. ASSUME NEW K \in SUBSET Live, Retain(t, K)
      PROVE  JournalInv' /\ RowsWeaken
  <2>1. rows' = [r \in Runs |-> IF r \in K THEN rows[r] ELSE Nil] /\ K \subseteq Runs
    BY <1>3 DEF Retain, KeepOnly, Live
  <2>2. RowsWeaken
    BY <2>1, KeepingWeakens
  <2>3. used' = used /\ cur' = cur /\ doc' = doc /\ pc' = pc
    BY <1>3 DEF Retain, locals
  <2> QED
    BY <2>1, <2>2, <2>3, WeakenKeeps DEF JournalInv, Storing
<1>4. ASSUME NEW d, NEW removed, Cleanup(t, d, removed)
      PROVE  JournalInv' /\ RowsWeaken
  BY <1>4, QuietStep DEF Cleanup
<1>5. CASE CleanupDone(t)
  BY <1>5, QuietStep DEF CleanupDone, Return
<1> QED
  BY <1>1, <1>2, <1>3, <1>4, <1>5 DEF Mutate

LEMMA RedactionStep ==
  ASSUME "attach" \notin Ops, JournalInv, [Next]_vars
  PROVE  JournalInv' /\ NothingComesBack
<1>1. ASSUME NEW t \in Threads, Write(t) PROVE JournalInv' /\ NothingComesBack
  BY <1>1, WriteStep
<1>2. ASSUME NEW t \in Threads, Amend(t) PROVE FALSE
  BY <1>2 DEF JournalInv, Amend, AttachRead, Start, AttachTests, AttachMap, Attach,
              AttachRefused, PutBack
<1>3. ASSUME NEW t \in Threads, Mutate(t) PROVE JournalInv' /\ NothingComesBack
  BY <1>3, MutateStep
<1>4. ASSUME NEW t \in Threads, Collect(t) \/ Crash(t)
      PROVE  JournalInv' /\ NothingComesBack
  BY <1>4, QuietStep
  DEF Collect, Crash, GcScan, GcGlob, GcRecheck, GcRemove, GcDone, Start, Return,
      RowsWeaken, NothingComesBack
<1>5. CASE UNCHANGED vars
  <2>1. RowsWeaken
    BY <1>5, SameWeakens DEF vars
  <2> QED
    BY <1>5, <2>1 DEF vars, JournalInv, Storing, Live, RowsWeaken, NothingComesBack
<1> QED
  BY <1>1, <1>2, <1>3, <1>4, <1>5 DEF Next

\* As long as no attachment is written, no interleaving of recordings, imports,
\* redactions, deletions, prunings, collections and crashes brings back a text
\* that has been redacted.  (That an attachment can is what JournalReplace.cfg
\* shows.)
THEOREM RedactionIsFinal == "attach" \notin Ops => (Spec => RedactionSticks)
<1> SUFFICES ASSUME "attach" \notin Ops PROVE Spec => RedactionSticks
  OBVIOUS
<1>1. Init => JournalInv
  BY DEF Init, JournalInv, Storing, Live
<1>2. JournalInv /\ [Next]_vars => JournalInv'
  BY RedactionStep
<1>3. JournalInv /\ [Next]_vars =>
         [\A r \in Live : r \in Live' =>
             /\ rows[r].text = "none" => rows'[r].text = "none"
             /\ rows[r].text = "scrubbed" => rows'[r].text # "full"]_vars
  BY RedactionStep DEF NothingComesBack, Weaker
<1> QED
  BY <1>1, <1>2, <1>3, PTL DEF Spec, RedactionSticks
-----------------------------------------------------------------------------
(* The trace a run reads back with.  An attachment puts back a document that *)
(* was read earlier, and an import may give a deleted run's id to another    *)
(* trace: the two together can store the old trace under the new run (the    *)
(* replacement that ReplaceIsAtomic is about).  Without the one or the other *)
(* the trace read back is the recorded one.                                  *)

Attaching(t) == pc[t] \in {"compute", "repack"}

\* A document that is not a tombstone has the recorded trace, or has lost it;
\* it never has no reference at all.
Evident(d, trace) == d.text # "none" => d.trace # Nil /\ d.trace \in {trace, Lost}

\* The ids that are being recorded are nobody else's, so a trace is recorded
\* only where nobody has read an earlier one.
TraceInv ==
  /\ rows = [r \in Runs |-> rows[r]] /\ pc = [t \in Threads |-> pc[t]]
  /\ cur = [t \in Threads |-> cur[t]] /\ doc = [t \in Threads |-> doc[t]]
  /\ recorded = [r \in Runs |-> recorded[r]]
  /\ \A r \in Live : HasFields(rows[r]) /\ r \in used /\ Evident(rows[r], recorded[r])
  /\ \A t \in Threads : Storing(t) =>
        HasFields(doc[t]) /\ cur[t] \in used /\ doc[t].trace # Nil
  /\ \A t \in Threads : Attaching(t) =>
        /\ HasFields(doc[t]) /\ cur[t] \in used
        /\ Evident(doc[t], recorded[cur[t]]) /\ "attach" \in Ops
  /\ \A t \in Threads : pc[t] = "importPack" => "import" \in Ops
  /\ \A t \in Threads : pc[t] = "pack" => cur[t] \notin Live
  /\ \A s, t \in Threads :
        pc[s] = "pack" /\ (Storing(t) \/ Attaching(t)) /\ cur[s] = cur[t] => s = t

\* A document that is amended in some of its fields, its trace and its text left
\* alone, is as evident as it was.
SameTrace(d, e) == HasFields(e) /\ e.trace = d.trace /\ e.text = d.text

LEMMA Amended ==
  ASSUME NEW d, HasFields(d), NEW x
  PROVE  /\ SameTrace(d, [d EXCEPT !.failed = x])
         /\ SameTrace(d, [d EXCEPT !.map = x])
         /\ SameTrace(d, [d EXCEPT !.tests = x])
<1>1. d = [trace |-> d.trace, map |-> d.map, failed |-> d.failed, text |-> d.text,
           tests |-> d.tests, parent |-> d.parent, ts |-> d.ts]
  BY DEF HasFields
<1>2. [d EXCEPT !.failed = x] =
        [trace |-> d.trace, map |-> d.map, failed |-> x, text |-> d.text,
         tests |-> d.tests, parent |-> d.parent, ts |-> d.ts]
  BY <1>1
<1>3. [d EXCEPT !.map = x] =
        [trace |-> d.trace, map |-> x, failed |-> d.failed, text |-> d.text,
         tests |-> d.tests, parent |-> d.parent, ts |-> d.ts]
  BY <1>1
<1>4. [d EXCEPT !.tests = x] =
        [trace |-> d.trace, map |-> d.map, failed |-> d.failed, text |-> d.text,
         tests |-> x, parent |-> d.parent, ts |-> d.ts]
  BY <1>1
<1> QED
  BY <1>2, <1>3, <1>4 DEF SameTrace, HasFields

LEMMA EvidentReadsBack ==
  ASSUME NEW d, NEW trace, Evident(d, trace), d.text # "none"
  PROVE  Load(d, "trace") \in {trace, Lost} /\ Load(d, "trace") # Nil
BY JournalAssumption DEF Evident, Load, Ref, Contents

LEMMA UnpackedIsEvident ==
  ASSUME NEW d, NEW trace, HasFields(d), Evident(d, trace)
  PROVE  HasFields(Unpack(d)) /\ Evident(Unpack(d), trace)
<1> DEFINE n == IF d.map \in {Nil, Broken} THEN Nil ELSE Load(d, "map")
<1>1. d = [trace |-> d.trace, map |-> d.map, failed |-> d.failed, text |-> d.text,
           tests |-> d.tests, parent |-> d.parent, ts |-> d.ts]
  BY DEF HasFields
<1>2. Unpack(d) = [d EXCEPT !.trace = Load(d, "trace"), !.map = n, !.failed = {}]
  BY DEF Unpack
<1> HIDE DEF n
<1>3. Unpack(d) = [trace |-> Load(d, "trace"), map |-> n, failed |-> {}, text |-> d.text,
                   tests |-> d.tests, parent |-> d.parent, ts |-> d.ts]
  BY <1>1, <1>2
<1>4. HasFields(Unpack(d)) /\ Unpack(d).trace = Load(d, "trace") /\ Unpack(d).text = d.text
  BY <1>3 DEF HasFields
<1> QED
  BY <1>4, EvidentReadsBack DEF Evident

\* The steps that leave every row they do not remove as evident as it was, and
\* the operation under way, if it goes on, with the trace it had.
LEMMA TraceKept ==
  ASSUME TraceInv, NEW t \in Threads, used' = used, recorded' = recorded,
         rows' = [r \in Runs |-> rows'[r]],
         \A r \in Live' : /\ r \in Live /\ HasFields(rows'[r])
                          /\ Evident(rows'[r], recorded[r]),
         pc' = [s \in Threads |-> pc'[s]], cur' = [s \in Threads |-> cur'[s]],
         doc' = [s \in Threads |-> doc'[s]],
         \A s \in Threads : s # t => pc'[s] = pc[s] /\ cur'[s] = cur[s] /\ doc'[s] = doc[s],
         Storing(t)' \/ Attaching(t)' =>
            /\ \/ pc'[t] = pc[t]
               \/ pc[t] = "compute" /\ pc'[t] = "repack"
            /\ cur'[t] = cur[t] /\ SameTrace(doc[t], doc'[t])
  PROVE  TraceInv'
<1>1. \A s \in Threads : Storing(s)' =>
         Storing(s) /\ pc'[s] = pc[s] /\ cur'[s] = cur[s]
         /\ (doc'[s] = doc[s] \/ SameTrace(doc[s], doc'[s]))
  BY DEF Storing
<1>2. \A s \in Threads : Attaching(s)' =>
         Attaching(s) /\ cur'[s] = cur[s]
         /\ (doc'[s] = doc[s] \/ SameTrace(doc[s], doc'[s]))
  BY DEF Attaching
<1>3. \A r \in Live' : HasFields(rows'[r]) /\ r \in used' /\ Evident(rows'[r], recorded'[r])
  BY DEF TraceInv
<1>4. \A s \in Threads : Storing(s)' =>
         HasFields(doc'[s]) /\ cur'[s] \in used' /\ doc'[s].trace # Nil
  BY <1>1 DEF TraceInv, SameTrace
<1>5. \A s \in Threads : Attaching(s)' =>
         /\ HasFields(doc'[s]) /\ cur'[s] \in used'
         /\ Evident(doc'[s], recorded'[cur'[s]]) /\ "attach" \in Ops
  BY <1>2, SMTT(30) DEF TraceInv, SameTrace, Evident
<1>6. \A s \in Threads : pc'[s] = "importPack" => "import" \in Ops
  BY <1>1 DEF TraceInv, Storing
<1>7. \A s \in Threads : pc'[s] = "pack" => pc[s] = "pack" /\ cur'[s] = cur[s]
  BY <1>1 DEF Storing
<1>8. \A s \in Threads : pc'[s] = "pack" => cur'[s] \notin Live'
  BY <1>7 DEF TraceInv
<1>9. \A s, q \in Threads :
         pc'[s] = "pack" /\ (Storing(q)' \/ Attaching(q)') /\ cur'[s] = cur'[q] => s = q
  BY <1>1, <1>2, <1>7 DEF TraceInv
<1>10. recorded' = [r \in Runs |-> recorded'[r]]
  BY DEF TraceInv
<1> QED
  BY <1>3, <1>4, <1>5, <1>6, <1>8, <1>9, <1>10 DEF TraceInv

\* The steps that read, write or remove blobs, and the end of an operation.
LEMMA QuietTrace ==
  ASSUME TraceInv, NEW t \in Threads, used' = used, recorded' = recorded,
         \/ rows' = rows
         \/ \E K \in SUBSET Runs : rows' = [r \in Runs |-> IF r \in K THEN rows[r] ELSE Nil],
         \/ /\ pc' = [pc EXCEPT ![t] = "idle"] /\ cur' = [cur EXCEPT ![t] = Nil]
            /\ doc' = [doc EXCEPT ![t] = Nil]
         \/ UNCHANGED <<pc, cur, doc>>
         \/ /\ UNCHANGED <<cur, doc>>
            /\ \E there \in {"cleanup", "gcGlob", "gcRecheck", "gcRemove"} :
                  pc' = [pc EXCEPT ![t] = there]
  PROVE  TraceInv'
<1>1. /\ rows' = [r \in Runs |-> rows'[r]]
      /\ \A r \in Live' : r \in Live /\ rows'[r] = rows[r]
  BY DEF TraceInv, Live
<1>2. \A r \in Live' : r \in Live /\ HasFields(rows'[r]) /\ Evident(rows'[r], recorded[r])
  BY <1>1 DEF TraceInv
<1>3. /\ pc' = [s \in Threads |-> pc'[s]] /\ cur' = [s \in Threads |-> cur'[s]]
      /\ doc' = [s \in Threads |-> doc'[s]]
      /\ \A s \in Threads : s # t => pc'[s] = pc[s] /\ cur'[s] = cur[s] /\ doc'[s] = doc[s]
  BY DEF TraceInv
<1>4. Storing(t)' \/ Attaching(t)' => pc'[t] = pc[t] /\ cur'[t] = cur[t] /\ doc'[t] = doc[t]
  BY DEF TraceInv, Storing, Attaching
<1>5. Storing(t)' \/ Attaching(t)' => SameTrace(doc[t], doc'[t])
  BY <1>4 DEF TraceInv, Storing, Attaching, SameTrace
<1> QED
  BY <1>1, <1>2, <1>3, <1>4, <1>5, TraceKept

LEMMA RecordTrace ==
  ASSUME TraceInv, NEW t \in Threads, NEW r \in Runs, NEW there \in {"pack", "importPack"},
         NEW trace \in Traces \cup {Empty}, NEW parent, NEW ts,
         rows' = rows, recorded' = recorded, used' = used \cup {r},
         pc' = [pc EXCEPT ![t] = there], cur' = [cur EXCEPT ![t] = r],
         doc' = [doc EXCEPT ![t] = NewDoc(trace, parent, ts)],
         IF there = "pack" THEN r \notin used
         ELSE "import" \in Ops /\ \A s \in Threads : pc[s] = "pack" => cur[s] # r
  PROVE  TraceInv'
<1>1. /\ pc'[t] = there /\ cur'[t] = r /\ HasFields(doc'[t]) /\ doc'[t].trace # Nil
      /\ \A s \in Threads : s # t => /\ pc'[s] = pc[s] /\ cur'[s] = cur[s]
                                     /\ doc'[s] = doc[s]
  <2>1. trace # Nil
    BY JournalAssumption DEF Contents
  <2> QED
    BY <2>1 DEF TraceInv, NewDoc, HasFields
<1>2. /\ pc' = [s \in Threads |-> pc'[s]] /\ cur' = [s \in Threads |-> cur'[s]]
      /\ doc' = [s \in Threads |-> doc'[s]] /\ rows' = [q \in Runs |-> rows'[q]]
      /\ recorded' = [q \in Runs |-> recorded'[q]]
  BY DEF TraceInv
<1>3. Live' = Live /\ \A q \in Live' :
         HasFields(rows'[q]) /\ q \in used' /\ Evident(rows'[q], recorded'[q])
  BY DEF TraceInv, Live
<1>4. \A s \in Threads : Storing(s)' =>
         HasFields(doc'[s]) /\ cur'[s] \in used' /\ doc'[s].trace # Nil
  BY <1>1 DEF TraceInv, Storing
<1>5. \A s \in Threads : Attaching(s)' =>
         s # t /\ Attaching(s) /\ cur'[s] = cur[s] /\ doc'[s] = doc[s]
  BY <1>1 DEF Attaching
<1>6. \A s \in Threads : Attaching(s)' =>
         /\ HasFields(doc'[s]) /\ cur'[s] \in used'
         /\ Evident(doc'[s], recorded'[cur'[s]]) /\ "attach" \in Ops
  BY <1>5 DEF TraceInv
<1>7. \A s \in Threads : pc'[s] = "importPack" => "import" \in Ops
  BY <1>1 DEF TraceInv
<1>8. \A s \in Threads : pc'[s] = "pack" => cur'[s] \notin Live'
  BY <1>1, <1>3 DEF TraceInv
<1>9. \A s \in Threads : s # t /\ pc'[s] = "pack" => cur'[s] # r
  BY <1>1 DEF TraceInv, Storing
<1>10. \A s \in Threads : pc'[t] = "pack" /\ s # t /\ (Storing(s)' \/ Attaching(s)') =>
          cur'[s] # r
  BY <1>1, <1>5 DEF TraceInv, Storing
<1>11. \A s, q \in Threads :
          pc'[s] = "pack" /\ (Storing(q)' \/ Attaching(q)') /\ cur'[s] = cur'[q] => s = q
  <2> SUFFICES ASSUME NEW s \in Threads, NEW q \in Threads, s # q, pc'[s] = "pack",
                      Storing(q)' \/ Attaching(q)'
               PROVE  cur'[s] # cur'[q]
    OBVIOUS
  <2>1. CASE s = t
    BY <1>1, <1>10, <2>1
  <2>2. CASE q = t
    BY <1>1, <1>9, <2>2
  <2>3. CASE s # t /\ q # t
    BY <1>1, <1>5, <2>3 DEF TraceInv, Storing
  <2> QED
    BY <2>1, <2>2, <2>3
<1> QED
  BY <1>2, <1>3, <1>4, <1>6, <1>7, <1>8, <1>11 DEF TraceInv

\* Storing a row, and with it the trace that it is recorded with.
LEMMA StoreTrace ==
  ASSUME TraceInv, ~({"attach", "import"} \subseteq Ops), NEW t \in Threads, Storing(t),
         rows' = [rows EXCEPT ![cur[t]] = doc[t]],
         recorded' = [recorded EXCEPT ![cur[t]] = doc[t].trace],
         pc[t] = "importPack" => cur[t] \notin Live,
         NEW there \in {"prune", "imported"},
         used' = used, cur' = cur, doc' = doc, pc' = [pc EXCEPT ![t] = there]
  PROVE  TraceInv'
<1>1. /\ rows' = [q \in Runs |-> rows'[q]] /\ recorded' = [q \in Runs |-> recorded'[q]]
      /\ \A q \in Runs : q # cur[t] => rows'[q] = rows[q] /\ recorded'[q] = recorded[q]
      /\ cur[t] \in Runs => rows'[cur[t]] = doc[t] /\ recorded'[cur[t]] = doc[t].trace
  BY DEF TraceInv
<1>2. HasFields(doc[t]) /\ cur[t] \in used /\ doc[t].trace # Nil
  BY DEF TraceInv
<1>3. ASSUME NEW q \in Live'
      PROVE  HasFields(rows'[q]) /\ q \in used' /\ Evident(rows'[q], recorded'[q])
  <2>1. q \in Runs /\ rows'[q] # Nil
    BY <1>3 DEF Live
  <2>2. CASE q = cur[t]
    BY <1>1, <1>2, <2>1, <2>2 DEF Evident
  <2>3. CASE q # cur[t]
    BY <1>1, <2>1, <2>3 DEF TraceInv, Live
  <2> QED
    BY <2>2, <2>3
<1>4. /\ pc' = [s \in Threads |-> pc'[s]] /\ pc'[t] = there
      /\ \A s \in Threads : s # t => pc'[s] = pc[s]
  BY DEF TraceInv
<1>5. \A s \in Threads : Storing(s)' => s # t /\ Storing(s)
  BY <1>4 DEF Storing
<1>6. \A s \in Threads : Attaching(s)' => s # t /\ Attaching(s)
  BY <1>4 DEF Attaching
<1>7. \A s \in Threads : Attaching(s) => cur[s] # cur[t]
  <2>1. CASE pc[t] = "pack"
    BY <2>1 DEF TraceInv, Attaching
  <2>2. CASE pc[t] = "importPack"
    BY <2>2 DEF TraceInv
  <2> QED
    BY <2>1, <2>2 DEF Storing
<1>8. \A s \in Threads : Attaching(s) => recorded'[cur[s]] = recorded[cur[s]]
  BY <1>7 DEF TraceInv
<1>9. \A s \in Threads : Attaching(s)' =>
         /\ HasFields(doc'[s]) /\ cur'[s] \in used'
         /\ Evident(doc'[s], recorded'[cur'[s]]) /\ "attach" \in Ops
  BY <1>6, <1>8 DEF TraceInv
<1>10. \A s \in Threads : Storing(s)' =>
          HasFields(doc'[s]) /\ cur'[s] \in used' /\ doc'[s].trace # Nil
  BY <1>5 DEF TraceInv
<1>11. \A s \in Threads : pc'[s] = "importPack" => "import" \in Ops
  BY <1>4 DEF TraceInv
<1>12. \A s \in Threads : pc'[s] = "pack" => s # t /\ pc[s] = "pack" /\ cur[s] # cur[t]
  BY <1>4 DEF TraceInv
<1>13. \A s \in Threads : pc'[s] = "pack" => cur'[s] \notin Live'
  <2> SUFFICES ASSUME NEW s \in Threads, pc'[s] = "pack", cur[s] \in Live' PROVE FALSE
    OBVIOUS
  <2>1. cur[s] \in Runs /\ rows'[cur[s]] = rows[cur[s]]
    BY <1>1, <1>12 DEF Live
  <2> QED
    BY <1>12, <2>1 DEF TraceInv, Live
<1>14. \A s, q \in Threads :
          pc'[s] = "pack" /\ (Storing(q)' \/ Attaching(q)') /\ cur'[s] = cur'[q] => s = q
  BY <1>5, <1>6, <1>12 DEF TraceInv
<1> QED
  BY <1>1, <1>3, <1>4, <1>9, <1>10, <1>11, <1>13, <1>14 DEF TraceInv

\* Reading a run, and putting back what became of it.
LEMMA ReadTrace ==
  ASSUME TraceInv, NEW t \in Threads, NEW r \in Runs, AttachRead(t, r)
  PROVE  TraceInv'
<1>1. /\ rows' = rows /\ used' = used /\ recorded' = recorded /\ r \in Live
      /\ "attach" \in Ops
      /\ pc' = [pc EXCEPT ![t] = "compute"] /\ cur' = [cur EXCEPT ![t] = r]
      /\ doc' = [doc EXCEPT ![t] = Unpack(rows[r])]
  BY DEF AttachRead, Start
<1>2. HasFields(Unpack(rows[r])) /\ Evident(Unpack(rows[r]), recorded[r]) /\ r \in used
  BY <1>1, UnpackedIsEvident DEF TraceInv
<1>3. /\ pc'[t] = "compute" /\ cur'[t] = r /\ doc'[t] = Unpack(rows[r])
      /\ \A s \in Threads : s # t => /\ pc'[s] = pc[s] /\ cur'[s] = cur[s]
                                     /\ doc'[s] = doc[s]
  BY <1>1 DEF TraceInv
<1>4. /\ pc' = [s \in Threads |-> pc'[s]] /\ cur' = [s \in Threads |-> cur'[s]]
      /\ doc' = [s \in Threads |-> doc'[s]] /\ rows' = [q \in Runs |-> rows'[q]]
      /\ recorded' = [q \in Runs |-> recorded'[q]]
  BY <1>1 DEF TraceInv
<1>5. Live' = Live /\ \A q \in Live' :
         HasFields(rows'[q]) /\ q \in used' /\ Evident(rows'[q], recorded'[q])
  BY <1>1 DEF TraceInv, Live
<1>6. \A s \in Threads : Storing(s)' => s # t /\ Storing(s)
  BY <1>3 DEF Storing
<1>7. \A s \in Threads : Storing(s)' =>
         HasFields(doc'[s]) /\ cur'[s] \in used' /\ doc'[s].trace # Nil
  BY <1>1, <1>3, <1>6 DEF TraceInv
<1>8. \A s \in Threads : Attaching(s)' =>
         /\ HasFields(doc'[s]) /\ cur'[s] \in used'
         /\ Evident(doc'[s], recorded'[cur'[s]]) /\ "attach" \in Ops
  <2> SUFFICES ASSUME NEW s \in Threads, Attaching(s)'
               PROVE  /\ HasFields(doc'[s]) /\ cur'[s] \in used'
                      /\ Evident(doc'[s], recorded'[cur'[s]]) /\ "attach" \in Ops
    OBVIOUS
  <2>1. CASE s = t
    BY <1>1, <1>2, <1>3, <2>1
  <2>2. CASE s # t
    BY <1>1, <1>3, <2>2 DEF TraceInv, Attaching
  <2> QED
    BY <2>1, <2>2
<1>9. \A s \in Threads : pc'[s] = "importPack" => "import" \in Ops
  BY <1>3 DEF TraceInv
<1>10. \A s \in Threads : pc'[s] = "pack" => s # t /\ pc[s] = "pack"
  BY <1>3
<1>11. \A s \in Threads : pc'[s] = "pack" => cur'[s] \notin Live' /\ cur'[s] # r
  BY <1>1, <1>3, <1>5, <1>10 DEF TraceInv
<1>12. \A s, q \in Threads :
          pc'[s] = "pack" /\ (Storing(q)' \/ Attaching(q)') /\ cur'[s] = cur'[q] => s = q
  BY <1>3, <1>6, <1>10, <1>11 DEF TraceInv, Attaching
<1> QED
  BY <1>4, <1>5, <1>7, <1>8, <1>9, <1>11, <1>12 DEF TraceInv

LEMMA PutBackTrace ==
  ASSUME TraceInv, NEW t \in Threads, PutBack(t)
  PROVE  TraceInv'
<1>1. /\ pc[t] = "repack" /\ Attaching(t)
      /\ rows' = [rows EXCEPT ![cur[t]] = doc[t]]
      /\ used' = used /\ recorded' = recorded
      /\ pc' = [pc EXCEPT ![t] = "idle"] /\ cur' = [cur EXCEPT ![t] = Nil]
      /\ doc' = [doc EXCEPT ![t] = Nil]
  BY DEF PutBack, Return, Attaching
<1>2. /\ rows' = [q \in Runs |-> rows'[q]] /\ recorded' = [q \in Runs |-> recorded'[q]]
      /\ \A q \in Runs : q # cur[t] => rows'[q] = rows[q]
      /\ cur[t] \in Runs => rows'[cur[t]] = doc[t]
  BY <1>1 DEF TraceInv
<1>3. HasFields(doc[t]) /\ cur[t] \in used /\ Evident(doc[t], recorded[cur[t]])
  BY <1>1 DEF TraceInv
<1>4. ASSUME NEW q \in Live'
      PROVE  HasFields(rows'[q]) /\ q \in used' /\ Evident(rows'[q], recorded'[q])
  <2>1. q \in Runs /\ rows'[q] # Nil
    BY <1>4 DEF Live
  <2>2. CASE q = cur[t]
    BY <1>1, <1>2, <1>3, <2>1, <2>2
  <2>3. CASE q # cur[t]
    BY <1>1, <1>2, <2>1, <2>3 DEF TraceInv, Live
  <2> QED
    BY <2>2, <2>3
<1>5. /\ pc' = [s \in Threads |-> pc'[s]] /\ cur' = [s \in Threads |-> cur'[s]]
      /\ doc' = [s \in Threads |-> doc'[s]] /\ pc'[t] = "idle"
      /\ \A s \in Threads : s # t => /\ pc'[s] = pc[s] /\ cur'[s] = cur[s]
                                     /\ doc'[s] = doc[s]
  BY <1>1 DEF TraceInv
<1>6. \A s \in Threads : Storing(s)' \/ Attaching(s)' \/ pc'[s] = "pack" =>
         s # t /\ pc'[s] = pc[s] /\ cur'[s] = cur[s] /\ doc'[s] = doc[s]
  BY <1>5 DEF Storing, Attaching
<1>7. \A s \in Threads : Storing(s)' =>
         HasFields(doc'[s]) /\ cur'[s] \in used' /\ doc'[s].trace # Nil
  BY <1>1, <1>6 DEF TraceInv, Storing
<1>8. \A s \in Threads : Attaching(s)' =>
         /\ HasFields(doc'[s]) /\ cur'[s] \in used'
         /\ Evident(doc'[s], recorded'[cur'[s]]) /\ "attach" \in Ops
  BY <1>1, <1>6 DEF TraceInv, Attaching
<1>9. \A s \in Threads : pc'[s] = "importPack" => "import" \in Ops
  BY <1>5 DEF TraceInv
<1>10. \A s \in Threads : pc'[s] = "pack" => cur[s] # cur[t] /\ cur[s] \notin Live
  BY <1>1, <1>6 DEF TraceInv
<1>11. \A s \in Threads : pc'[s] = "pack" => cur'[s] \notin Live'
  <2> SUFFICES ASSUME NEW s \in Threads, pc'[s] = "pack", cur[s] \in Live' PROVE FALSE
    BY <1>6
  <2>1. cur[s] \in Runs /\ rows'[cur[s]] = rows[cur[s]]
    BY <1>2, <1>10 DEF Live
  <2> QED
    BY <1>10, <2>1 DEF Live
<1>12. \A s, q \in Threads :
          pc'[s] = "pack" /\ (Storing(q)' \/ Attaching(q)') /\ cur'[s] = cur'[q] => s = q
  BY <1>6 DEF TraceInv, Storing, Attaching
<1> QED
  BY <1>2, <1>4, <1>5, <1>7, <1>8, <1>9, <1>11, <1>12 DEF TraceInv

LEMMA WriteTrace ==
  ASSUME TraceInv, ~({"attach", "import"} \subseteq Ops), NEW t \in Threads, Write(t)
  PROVE  TraceInv'
<1>1. ASSUME NEW r \in Runs, NEW c \in Traces \cup {Empty}, NEW p, Record(t, r, c, p)
      PROVE  TraceInv'
  BY <1>1, RecordTrace DEF Record, Start
<1>2. ASSUME NEW r \in Runs, NEW c \in Traces \cup {Empty}, NEW ts, Import(t, r, c, ts)
      PROVE  TraceInv'
  BY <1>2, RecordTrace DEF Import, Importing
<1>3. CASE SkipBlob(t) \/ WriteBlob(t)
  BY <1>3, QuietTrace DEF SkipBlob, WriteBlob
<1>4. CASE WriteBlobFails(t)
  <2>1. /\ doc' = [doc EXCEPT ![t].failed = @ \cup {NextRef(t)}]
        /\ rows' = rows /\ used' = used /\ pc' = pc /\ cur' = cur /\ recorded' = recorded
        /\ HasFields(doc[t])
    BY <1>4 DEF WriteBlobFails, Packing, TraceInv, Storing, Attaching
  <2>2. /\ doc' = [s \in Threads |-> doc'[s]] /\ \A s \in Threads : s # t => doc'[s] = doc[s]
        /\ doc'[t] = [doc[t] EXCEPT !.failed = doc[t].failed \cup {NextRef(t)}]
    BY <2>1 DEF TraceInv
  <2>3. SameTrace(doc[t], doc'[t])
    BY <2>1, <2>2, Amended
  <2>4. \A r \in Live' : /\ r \in Live /\ HasFields(rows'[r])
                         /\ Evident(rows'[r], recorded[r])
    BY <2>1 DEF TraceInv, Live
  <2>5. /\ rows' = [r \in Runs |-> rows'[r]] /\ pc' = [s \in Threads |-> pc'[s]]
        /\ cur' = [s \in Threads |-> cur'[s]]
    BY <2>1 DEF TraceInv
  <2> QED
    BY <2>1, <2>2, <2>3, <2>4, <2>5, TraceKept
<1>5. CASE Put(t)
  BY <1>5, StoreTrace DEF Put, Storing
<1>6. CASE ImportPut(t) /\ cur[t] \notin Live
  BY <1>6, StoreTrace DEF ImportPut, Storing
<1>7. CASE ImportPut(t) /\ cur[t] \in Live
  <2>1. /\ rows' = rows /\ recorded' = recorded /\ used' = used /\ cur' = cur /\ doc' = doc
        /\ pc' = [pc EXCEPT ![t] = "imported"]
    BY <1>7 DEF ImportPut
  <2>2. /\ pc' = [s \in Threads |-> pc'[s]] /\ pc'[t] = "imported"
        /\ \A s \in Threads : s # t => pc'[s] = pc[s]
    BY <2>1 DEF TraceInv
  <2>3. ~(Storing(t)' \/ Attaching(t)')
    BY <2>2 DEF Storing, Attaching
  <2>4. \A r \in Live' : /\ r \in Live /\ HasFields(rows'[r])
                         /\ Evident(rows'[r], recorded[r])
    BY <2>1 DEF TraceInv, Live
  <2>5. /\ rows' = [r \in Runs |-> rows'[r]] /\ cur' = [s \in Threads |-> cur'[s]]
        /\ doc' = [s \in Threads |-> doc'[s]]
    BY <2>1 DEF TraceInv
  <2> QED
    BY <2>1, <2>2, <2>3, <2>4, <2>5, TraceKept
<1>8. CASE Prune(t)
  <2>1. \E K \in SUBSET Runs : rows' = [r \in Runs |-> IF r \in K THEN rows[r] ELSE Nil]
    BY <1>8 DEF Prune, KeepOnly, Live
  <2> QED
    BY <1>8, <2>1, QuietTrace DEF Prune, Return
<1> QED
  BY <1>1, <1>2, <1>3, <1>4, <1>5, <1>6, <1>7, <1>8 DEF Write

LEMMA AttachTrace ==
  ASSUME TraceInv, NEW t \in Threads, pc[t] = "compute", NEW d, Attach(t, d),
         SameTrace(doc[t], d)
  PROVE  TraceInv'
<1>1. /\ rows' = rows /\ used' = used /\ recorded' = recorded /\ cur' = cur
      /\ doc' = [doc EXCEPT ![t] = d] /\ pc' = [pc EXCEPT ![t] = "repack"]
  BY DEF Attach
<1>2. /\ pc' = [s \in Threads |-> pc'[s]] /\ doc' = [s \in Threads |-> doc'[s]]
      /\ pc'[t] = "repack" /\ doc'[t] = d
      /\ \A s \in Threads : s # t => pc'[s] = pc[s] /\ doc'[s] = doc[s]
  BY <1>1 DEF TraceInv
<1>3. \A r \in Live' : /\ r \in Live /\ HasFields(rows'[r])
                       /\ Evident(rows'[r], recorded[r])
  BY <1>1 DEF TraceInv, Live
<1>4. /\ rows' = [r \in Runs |-> rows'[r]] /\ cur' = [s \in Threads |-> cur'[s]]
  BY <1>1 DEF TraceInv
<1> QED
  BY <1>1, <1>2, <1>3, <1>4, TraceKept

LEMMA AmendTrace ==
  ASSUME TraceInv, NEW t \in Threads, Amend(t)
  PROVE  TraceInv'
<1>1. ASSUME NEW r \in Runs, AttachRead(t, r) PROVE TraceInv'
  BY <1>1, ReadTrace
<1>2. CASE AttachTests(t)
  <2>1. pc[t] = "compute" /\ HasFields(doc[t])
    BY <1>2 DEF AttachTests, Attach, TraceInv, Attaching
  <2>2. SameTrace(doc[t], [doc[t] EXCEPT !.tests = TRUE])
    BY <2>1, Amended
  <2> QED
    BY <1>2, <2>1, <2>2, AttachTrace DEF AttachTests
<1>3. CASE AttachMap(t)
  <2>1. PICK m \in Maps : Attach(t, [doc[t] EXCEPT !.map = m])
    BY <1>3 DEF AttachMap
  <2>2. pc[t] = "compute" /\ HasFields(doc[t])
    BY <2>1 DEF Attach, TraceInv, Attaching
  <2>3. SameTrace(doc[t], [doc[t] EXCEPT !.map = m])
    BY <2>2, Amended
  <2> QED
    BY <2>1, <2>2, <2>3, AttachTrace
<1>4. CASE AttachRefused(t)
  <2>1. rows' = rows /\ used' = used /\ recorded' = recorded
    BY <1>4 DEF AttachRefused
  <2> QED
    BY <1>4, <2>1, QuietTrace DEF AttachRefused, Return
<1>5. CASE PutBack(t)
  BY <1>5, PutBackTrace
<1> QED
  BY <1>1, <1>2, <1>3, <1>4, <1>5 DEF Amend

LEMMA MutateTrace ==
  ASSUME TraceInv, NEW t \in Threads, Mutate(t)
  PROVE  TraceInv'
<1>1. ASSUME NEW r \in Runs, Redact(t, r) \/ Scrub(t, r) PROVE TraceInv'
  <2>1. r \in Live /\ rows[r].text # "none" /\ HasFields(rows[r])
        /\ Evident(rows[r], recorded[r])
    BY <1>1 DEF Redact, Scrub, TraceInv
  <2>2. rows[r] = [trace |-> rows[r].trace, map |-> rows[r].map, failed |-> rows[r].failed,
                   text |-> rows[r].text, tests |-> rows[r].tests,
                   parent |-> rows[r].parent, ts |-> rows[r].ts]
    BY <2>1 DEF HasFields
  <2>3. PICK e : (e = Tombstone(rows[r]) \/ \E ref : e = Scrubbed(rows[r], ref))
                 /\ rows' = [rows EXCEPT ![r] = e]
    BY <1>1 DEF Redact, Scrub
  <2>4. HasFields(e) /\ (e.text = "none" \/ e.trace = rows[r].trace)
    BY <2>2, <2>3 DEF HasFields, Tombstone, Scrubbed
  <2>5. Evident(e, recorded[r])
    BY <2>1, <2>4 DEF Evident
  <2>6. /\ rows' = [q \in Runs |-> rows'[q]] /\ rows'[r] = e
        /\ \A q \in Runs : q # r => rows'[q] = rows[q]
    BY <2>1, <2>3 DEF TraceInv, Live
  <2>7. \A q \in Live' : q \in Live /\ HasFields(rows'[q]) /\ Evident(rows'[q], recorded[q])
    BY <2>1, <2>4, <2>5, <2>6 DEF TraceInv, Live
  <2>8. used' = used /\ recorded' = recorded /\ cur' = cur /\ doc' = doc
        /\ (pc' = pc \/ pc' = [pc EXCEPT ![t] = "cleanup"])
    BY <1>1 DEF Redact, Scrub, Start, locals
  <2>9. /\ pc' = [s \in Threads |-> pc'[s]] /\ cur' = [s \in Threads |-> cur'[s]]
        /\ doc' = [s \in Threads |-> doc'[s]]
        /\ \A s \in Threads : s # t => pc'[s] = pc[s] /\ cur'[s] = cur[s] /\ doc'[s] = doc[s]
        /\ pc'[t] = pc[t] \/ pc'[t] = "cleanup"
    BY <2>8 DEF TraceInv
  <2>10. Storing(t)' \/ Attaching(t)' =>
            pc'[t] = pc[t] /\ cur'[t] = cur[t] /\ SameTrace(doc[t], doc'[t])
    BY <2>8, <2>9 DEF TraceInv, Storing, Attaching, SameTrace
  <2> QED
    BY <2>6, <2>7, <2>8, <2>9, <2>10, TraceKept
<1>2. ASSUME NEW r \in Runs, NEW cascade \in BOOLEAN, Delete(t, r, cascade)
      PROVE  TraceInv'
  <2>1. \E K \in SUBSET Runs : rows' = [q \in Runs |-> IF q \in K THEN rows[q] ELSE Nil]
    <3> DEFINE targets == {r} \cup Descendants(r)
    <3>1. rows' = [q \in Runs |-> IF q \in Runs \ targets THEN rows[q] ELSE Nil]
      BY <1>2 DEF Delete
    <3> HIDE DEF targets
    <3> QED
      BY <3>1
  <2> QED
    BY <1>2, <2>1, QuietTrace DEF Delete, Start
<1>3. ASSUME NEW K \in SUBSET Live, Retain(t, K) PROVE TraceInv'
  <2>1. \E J \in SUBSET Runs : rows' = [r \in Runs |-> IF r \in J THEN rows[r] ELSE Nil]
    BY <1>3 DEF Retain, KeepOnly, Live
  <2> QED
    BY <1>3, <2>1, QuietTrace DEF Retain, locals
<1>4. ASSUME NEW d, NEW removed, Cleanup(t, d, removed) PROVE TraceInv'
  BY <1>4, QuietTrace DEF Cleanup
<1>5. CASE CleanupDone(t)
  BY <1>5, QuietTrace DEF CleanupDone, Return
<1> QED
  BY <1>1, <1>2, <1>3, <1>4, <1>5 DEF Mutate

\* Whatever is collected, redacted, pruned, attached or lost in whatever
\* interleaving, a stored run that is not a tombstone reads back with the trace
\* it was recorded with or as unavailable: never as another run's evidence, and
\* never as a run that had none.
THEOREM TraceOrLost ==
  ~({"attach", "import"} \subseteq Ops) => (Spec => []NeverSilentlyEmpty)
<1> SUFFICES ASSUME ~({"attach", "import"} \subseteq Ops)
             PROVE  Spec => []NeverSilentlyEmpty
  OBVIOUS
<1>1. Init => TraceInv
  BY DEF Init, TraceInv, Storing, Attaching, Live
<1>2. TraceInv /\ [Next]_vars => TraceInv'
  <2> SUFFICES ASSUME TraceInv, [Next]_vars PROVE TraceInv'
    OBVIOUS
  <2>1. ASSUME NEW t \in Threads, Write(t) PROVE TraceInv'
    BY <2>1, WriteTrace
  <2>2. ASSUME NEW t \in Threads, Amend(t) PROVE TraceInv'
    BY <2>2, AmendTrace
  <2>3. ASSUME NEW t \in Threads, Mutate(t) PROVE TraceInv'
    BY <2>3, MutateTrace
  <2>4. ASSUME NEW t \in Threads, Collect(t) \/ Crash(t) PROVE TraceInv'
    BY <2>4, QuietTrace
    DEF Collect, Crash, GcScan, GcGlob, GcRecheck, GcRemove, GcDone, Start, Return
  <2>5. CASE UNCHANGED vars
    BY <2>5 DEF vars, TraceInv, Storing, Attaching, Live
  <2> QED
    BY <2>1, <2>2, <2>3, <2>4, <2>5 DEF Next
<1>3. TraceInv => NeverSilentlyEmpty
  BY EvidentReadsBack DEF TraceInv, NeverSilentlyEmpty
<1> QED
  BY <1>1, <1>2, <1>3, PTL DEF Spec

-----------------------------------------------------------------------------
(* Blobs *)

OneProcess == \A s, t \in Threads : s = t
NothingRemoved == Ops \cap {"redact", "delete", "gc"} = {}

Backed(d, k) == Ref(d, k) \notin {Nil, Broken} /\ k \notin d.failed => Ref(d, k) \in blobs

RowsBacked == \A r \in Live : HasFields(rows[r]) /\ \A k \in Kinds : Backed(rows[r], k)

\* The document a thread is about to store: what it has packed is on disk.
PackedBacked(t) ==
  pc[t] \in {"pack", "importPack", "repack"} =>
    /\ HasFields(doc[t]) /\ todo[t] \subseteq Kinds
    /\ \A k \in Kinds \ todo[t] : Backed(doc[t], k)

\* Whoever removes blobs is alone, and the collector's list is still right when
\* it removes what is on it.
RemovesAlone(t) ==
  /\ pc[t] \in {"cleanup", "gcGlob", "gcRecheck", "gcRemove"} => OneProcess
  /\ pc[t] = "gcRemove" => todo[t] \cap Referenced = {}

BlobInv ==
  /\ rows = [r \in Runs |-> rows[r]] /\ pc = [t \in Threads |-> pc[t]]
  /\ doc = [t \in Threads |-> doc[t]] /\ todo = [t \in Threads |-> todo[t]]
  /\ RowsBacked
  /\ \A t \in Threads : /\ PackedBacked(t) /\ RemovesAlone(t)
                        /\ pc[t] = "compute" => HasFields(doc[t])

\* What the changes of a document leave of its fields.
LEMMA Edits ==
  ASSUME NEW d, HasFields(d), NEW x
  PROVE  /\ HasFields([d EXCEPT !.map = x]) /\ HasFields([d EXCEPT !.tests = x])
         /\ HasFields([d EXCEPT !.failed = x]) /\ HasFields([d EXCEPT !.text = x])
         /\ [d EXCEPT !.failed = x].failed = x
         /\ [d EXCEPT !.text = x].failed = d.failed
         /\ \A k \in Kinds : /\ Ref([d EXCEPT !.failed = x], k) = Ref(d, k)
                             /\ Ref([d EXCEPT !.text = x], k) = Ref(d, k)
<1>1. d = [trace |-> d.trace, map |-> d.map, failed |-> d.failed, text |-> d.text,
           tests |-> d.tests, parent |-> d.parent, ts |-> d.ts]
  BY DEF HasFields
<1>2. [d EXCEPT !.failed = x] =
        [trace |-> d.trace, map |-> d.map, failed |-> x, text |-> d.text,
         tests |-> d.tests, parent |-> d.parent, ts |-> d.ts]
  BY <1>1
<1>3. [d EXCEPT !.map = x] =
        [trace |-> d.trace, map |-> x, failed |-> d.failed, text |-> d.text,
         tests |-> d.tests, parent |-> d.parent, ts |-> d.ts]
  BY <1>1
<1>4. [d EXCEPT !.tests = x] =
        [trace |-> d.trace, map |-> d.map, failed |-> d.failed, text |-> d.text,
         tests |-> x, parent |-> d.parent, ts |-> d.ts]
  BY <1>1
<1>5. [d EXCEPT !.text = x] =
        [trace |-> d.trace, map |-> d.map, failed |-> d.failed, text |-> x,
         tests |-> d.tests, parent |-> d.parent, ts |-> d.ts]
  BY <1>1
<1> QED
  BY <1>2, <1>3, <1>4, <1>5 DEF HasFields, Ref

LEMMA UnpackKeepsFields ==
  ASSUME NEW d, HasFields(d) PROVE HasFields(Unpack(d))
<1> DEFINE n == IF d.map \in {Nil, Broken} THEN Nil ELSE Load(d, "map")
<1>1. d = [trace |-> d.trace, map |-> d.map, failed |-> d.failed, text |-> d.text,
           tests |-> d.tests, parent |-> d.parent, ts |-> d.ts]
  BY DEF HasFields
<1>2. Unpack(d) = [d EXCEPT !.trace = Load(d, "trace"), !.map = n, !.failed = {}]
  BY DEF Unpack
<1> HIDE DEF n
<1>3. Unpack(d) = [trace |-> Load(d, "trace"), map |-> n, failed |-> {}, text |-> d.text,
                   tests |-> d.tests, parent |-> d.parent, ts |-> d.ts]
  BY <1>1, <1>2
<1> QED
  BY <1>3 DEF HasFields

LEMMA TombstoneRefersToNothing ==
  ASSUME NEW d, HasFields(d)
  PROVE  HasFields(Tombstone(d)) /\ \A k \in Kinds : Ref(Tombstone(d), k) = Nil
<1>1. d = [trace |-> d.trace, map |-> d.map, failed |-> d.failed, text |-> d.text,
           tests |-> d.tests, parent |-> d.parent, ts |-> d.ts]
  BY DEF HasFields
<1>2. Tombstone(d) = [d EXCEPT !.trace = Nil, !.map = Nil, !.failed = {},
                               !.text = "none", !.tests = FALSE]
  BY DEF Tombstone
<1>3. Tombstone(d) = [trace |-> Nil, map |-> Nil, failed |-> {}, text |-> "none",
                      tests |-> FALSE, parent |-> d.parent, ts |-> d.ts]
  BY <1>1, <1>2
<1> QED
  BY <1>3 DEF HasFields, Ref

LEMMA InitBlobs == Init => BlobInv
BY DEF Init, BlobInv, RowsBacked, PackedBacked, RemovesAlone, Live

\* A step of one thread, seen by the others.
LEMMA BlobFrame ==
  ASSUME BlobInv, NEW t \in Threads,
         rows' = [r \in Runs |-> rows'[r]], pc' = [s \in Threads |-> pc'[s]],
         doc' = [s \in Threads |-> doc'[s]], todo' = [s \in Threads |-> todo'[s]],
         \A s \in Threads \ {t} : pc'[s] = pc[s] /\ doc'[s] = doc[s] /\ todo'[s] = todo[s],
         blobs \subseteq blobs' \/ OneProcess,
         RowsBacked', PackedBacked(t)', RemovesAlone(t)',
         pc'[t] = "compute" => HasFields(doc'[t])
  PROVE  BlobInv'
<1> SUFFICES ASSUME NEW s \in Threads, s # t
             PROVE  /\ PackedBacked(s)' /\ RemovesAlone(s)'
                    /\ pc'[s] = "compute" => HasFields(doc'[s])
  BY DEF BlobInv
<1>1. ~OneProcess /\ blobs \subseteq blobs'
  BY DEF OneProcess
<1>2. PackedBacked(s) /\ RemovesAlone(s) /\ (pc[s] = "compute" => HasFields(doc[s]))
  BY DEF BlobInv
<1>3. PackedBacked(s)'
  BY <1>1, <1>2 DEF PackedBacked, Backed
<1>4. RemovesAlone(s)'
  BY <1>1, <1>2 DEF RemovesAlone
<1> QED
  BY <1>2, <1>3, <1>4

\* Rows that stay, or go, while no blob is removed.
LEMMA RowsStayBacked ==
  ASSUME BlobInv, blobs \subseteq blobs',
         \A r \in Live' : r \in Live /\ rows'[r] = rows[r]
  PROVE  RowsBacked'
BY DEF BlobInv, RowsBacked, Backed

LEMMA SameRowsBacked ==
  ASSUME BlobInv, blobs \subseteq blobs', rows' = rows
  PROVE  RowsBacked'
BY RowsStayBacked DEF Live

\* A row is stored from a document all of which is packed.
LEMMA StoredBacked ==
  ASSUME BlobInv, blobs' = blobs, NEW t \in Threads,
         pc[t] \in {"pack", "importPack", "repack"}, todo[t] = {},
         rows' = [rows EXCEPT ![cur[t]] = doc[t]]
  PROVE  RowsBacked'
<1> SUFFICES ASSUME NEW r \in Live'
             PROVE  HasFields(rows'[r]) /\ \A k \in Kinds : Backed(rows[r], k)'
  BY DEF RowsBacked
<1>1. HasFields(doc[t]) /\ \A k \in Kinds : Backed(doc[t], k)
  BY DEF BlobInv, PackedBacked
<1>2. r \in Runs /\ rows'[r] # Nil /\ (rows'[r] = doc[t] \/ rows'[r] = rows[r])
  BY DEF BlobInv, Live
<1>3. CASE rows'[r] = doc[t]
  BY <1>1, <1>3 DEF Backed
<1>4. CASE rows'[r] = rows[r]
  <2>1. r \in Live
    BY <1>2, <1>4 DEF Live
  <2>2. HasFields(rows[r]) /\ \A k \in Kinds : Backed(rows[r], k)
    BY <2>1 DEF BlobInv, RowsBacked
  <2> QED BY <2>2, <1>4 DEF Backed
<1> QED
  BY <1>2, <1>3, <1>4

\* The end of an operation.
LEMMA ReturnBlobs ==
  ASSUME BlobInv, NEW t \in Threads, Return(t), rows' = [r \in Runs |-> rows'[r]],
         blobs' = blobs, RowsBacked'
  PROVE  BlobInv'
<1>1. /\ pc' = [s \in Threads |-> pc'[s]] /\ doc' = [s \in Threads |-> doc'[s]]
      /\ todo' = [s \in Threads |-> todo'[s]] /\ pc'[t] = "idle"
      /\ \A s \in Threads \ {t} : pc'[s] = pc[s] /\ doc'[s] = doc[s] /\ todo'[s] = todo[s]
  BY DEF Return, BlobInv
<1>2. PackedBacked(t)' /\ RemovesAlone(t)' /\ pc'[t] # "compute"
  BY <1>1 DEF PackedBacked, RemovesAlone
<1> QED
  BY <1>1, <1>2, BlobFrame

\* A step that only moves the thread's own pc, doc and todo.
LEMMA OwnStepBlobs ==
  ASSUME BlobInv, NEW t \in Threads,
         pc' = [s \in Threads |-> pc'[s]], doc' = [s \in Threads |-> doc'[s]],
         todo' = [s \in Threads |-> todo'[s]],
         \A s \in Threads \ {t} : pc'[s] = pc[s] /\ doc'[s] = doc[s] /\ todo'[s] = todo[s],
         rows' = rows, blobs \subseteq blobs',
         PackedBacked(t)', RemovesAlone(t)', pc'[t] = "compute" => HasFields(doc'[t])
  PROVE  BlobInv'
<1>1. rows' = [r \in Runs |-> rows'[r]]
  BY DEF BlobInv
<1> QED
  BY <1>1, SameRowsBacked, BlobFrame

LEMMA NewDocBacked ==
  ASSUME NEW c, NEW p, NEW ts
  PROVE  /\ HasFields(NewDoc(c, p, ts))
         /\ \A k \in Kinds \ {"trace"} : Ref(NewDoc(c, p, ts), k) = Nil
BY DEF HasFields, NewDoc, Kinds, Ref

\* One reference is packed, or its document says that it is not.
LEMMA PackBlobs ==
  ASSUME BlobInv, NEW t \in Threads, SkipBlob(t) \/ WriteBlob(t) \/ WriteBlobFails(t)
  PROVE  BlobInv'
<1> DEFINE k0 == NextRef(t)
<1>1. /\ pc[t] \in {"pack", "importPack", "repack"} /\ rows' = rows /\ pc' = pc
      /\ todo' = [todo EXCEPT ![t] = @ \ {k0}]
  BY DEF SkipBlob, WriteBlob, WriteBlobFails, Packing, Packed
<1>2. /\ HasFields(doc[t]) /\ todo[t] \subseteq Kinds
      /\ \A k \in Kinds \ todo[t] : Backed(doc[t], k)
  BY <1>1 DEF BlobInv, PackedBacked
<1>3. /\ pc' = [s \in Threads |-> pc'[s]] /\ todo' = [s \in Threads |-> todo'[s]]
      /\ todo'[t] = todo[t] \ {k0} /\ \A s \in Threads \ {t} : todo'[s] = todo[s]
  BY <1>1 DEF BlobInv
<1>4. RemovesAlone(t)' /\ pc'[t] # "compute"
  BY <1>1 DEF RemovesAlone
<1>5. CASE SkipBlob(t) \/ WriteBlob(t)
  <2>1. doc' = doc /\ blobs \subseteq blobs' /\ Ref(doc[t], k0) \in blobs'
    BY <1>5 DEF SkipBlob, WriteBlob
  <2>2. doc' = [s \in Threads |-> doc'[s]]
    BY <2>1 DEF BlobInv
  <2>3. PackedBacked(t)'
    BY <1>2, <1>3, <2>1 DEF PackedBacked, Backed
  <2> HIDE DEF k0
  <2> QED BY <1>1, <1>3, <1>4, <2>1, <2>2, <2>3, OwnStepBlobs
<1>6. CASE WriteBlobFails(t)
  <2>1. /\ blobs' = blobs /\ doc' = [doc EXCEPT ![t] = [doc[t] EXCEPT !.failed = @ \cup {k0}]]
    BY <1>6 DEF WriteBlobFails
  <2> DEFINE d == [doc[t] EXCEPT !.failed = @ \cup {k0}]
  <2>2. HasFields(d) /\ d.failed = doc[t].failed \cup {k0} /\ d.trace = doc[t].trace /\ d.map = doc[t].map
    <3>1. d.trace = doc[t].trace /\ d.map = doc[t].map
      BY <1>2 DEF HasFields
    <3> QED BY <1>2, <3>1, Edits
  <2>3. doc' = [s \in Threads |-> doc'[s]] /\ doc'[t] = d
        /\ \A s \in Threads \ {t} : doc'[s] = doc[s]
    BY <2>1 DEF BlobInv
  <2>4. \A k \in Kinds : Ref(d, k) = Ref(doc[t], k)
    BY <2>2 DEF Ref
  <2> HIDE DEF d, k0
  <2>5. PackedBacked(t)'
    <3>1. \A k \in Kinds \ todo'[t] : Backed(doc[t], k)'
      BY <1>2, <1>3, <2>1, <2>2, <2>3, <2>4 DEF Backed
    <3> QED BY <1>2, <1>3, <2>2, <2>3, <3>1 DEF PackedBacked
  <2> QED BY <1>1, <1>3, <1>4, <2>1, <2>3, <2>5, OwnStepBlobs
<1> QED
  BY <1>5, <1>6

LEMMA WriteBlobs ==
  ASSUME BlobInv, NEW t \in Threads, Write(t)
  PROVE  BlobInv'
<1>1. ASSUME NEW r \in Runs, NEW c, NEW p, Record(t, r, c, p) PROVE BlobInv'
  <2>1. /\ pc' = [pc EXCEPT ![t] = "pack"] /\ doc' = [doc EXCEPT ![t] = NewDoc(c, p, clock + 1)]
        /\ todo' = [todo EXCEPT ![t] = {"trace"}] /\ rows' = rows /\ blobs' = blobs
    BY <1>1 DEF Record, Start
  <2>2. /\ pc' = [s \in Threads |-> pc'[s]] /\ doc' = [s \in Threads |-> doc'[s]]
        /\ todo' = [s \in Threads |-> todo'[s]] /\ pc'[t] = "pack"
        /\ doc'[t] = NewDoc(c, p, clock + 1) /\ todo'[t] = {"trace"}
        /\ \A s \in Threads \ {t} : pc'[s] = pc[s] /\ doc'[s] = doc[s] /\ todo'[s] = todo[s]
    BY <2>1 DEF BlobInv
  <2>3. PackedBacked(t)' /\ RemovesAlone(t)'
    BY <2>2, NewDocBacked DEF PackedBacked, RemovesAlone, Backed, Kinds
  <2> QED BY <2>1, <2>2, <2>3, OwnStepBlobs
<1>2. ASSUME NEW r \in Runs, NEW c, NEW ts, Import(t, r, c, ts) PROVE BlobInv'
  <2>1. /\ pc' = [pc EXCEPT ![t] = "importPack"] /\ doc' = [doc EXCEPT ![t] = NewDoc(c, Nil, ts)]
        /\ todo' = [todo EXCEPT ![t] = {"trace"}] /\ rows' = rows /\ blobs' = blobs
    BY <1>2 DEF Import, Importing
  <2>2. /\ pc' = [s \in Threads |-> pc'[s]] /\ doc' = [s \in Threads |-> doc'[s]]
        /\ todo' = [s \in Threads |-> todo'[s]] /\ pc'[t] = "importPack"
        /\ doc'[t] = NewDoc(c, Nil, ts) /\ todo'[t] = {"trace"}
        /\ \A s \in Threads \ {t} : pc'[s] = pc[s] /\ doc'[s] = doc[s] /\ todo'[s] = todo[s]
    BY <2>1 DEF BlobInv
  <2>3. PackedBacked(t)' /\ RemovesAlone(t)'
    BY <2>2, NewDocBacked DEF PackedBacked, RemovesAlone, Backed, Kinds
  <2> QED BY <2>1, <2>2, <2>3, OwnStepBlobs
<1>3. ASSUME Put(t) \/ ImportPut(t) PROVE BlobInv'
  <2>1. /\ pc[t] \in {"pack", "importPack"} /\ todo[t] = {}
        /\ blobs' = blobs /\ doc' = doc /\ todo' = todo
        /\ rows' = rows \/ rows' = [rows EXCEPT ![cur[t]] = doc[t]]
        /\ \E there \in {"prune", "imported"} : pc' = [pc EXCEPT ![t] = there]
    BY <1>3 DEF Put, ImportPut
  <2>2. RowsBacked'
    BY <2>1, StoredBacked, SameRowsBacked
  <2>3. /\ rows' = [r \in Runs |-> rows'[r]] /\ pc' = [s \in Threads |-> pc'[s]]
        /\ doc' = [s \in Threads |-> doc'[s]] /\ todo' = [s \in Threads |-> todo'[s]]
        /\ pc'[t] \in {"prune", "imported"} /\ \A s \in Threads \ {t} : pc'[s] = pc[s]
    BY <2>1 DEF BlobInv
  <2>4. PackedBacked(t)' /\ RemovesAlone(t)' /\ pc'[t] # "compute"
    BY <2>3 DEF PackedBacked, RemovesAlone
  <2> QED BY <2>1, <2>2, <2>3, <2>4, BlobFrame
<1>4. ASSUME Prune(t) PROVE BlobInv'
  <2>1. PICK K \in SUBSET Live : KeepOnly(K)
    BY <1>4 DEF Prune
  <2>2. RowsBacked' /\ rows' = [r \in Runs |-> rows'[r]]
    BY <1>4, <2>1, RowsStayBacked DEF Prune, KeepOnly, Live
  <2> QED BY <1>4, <2>2, ReturnBlobs DEF Prune
<1> QED
  BY <1>1, <1>2, <1>3, <1>4, PackBlobs DEF Write

LEMMA AmendBlobs ==
  ASSUME BlobInv, NEW t \in Threads, Amend(t)
  PROVE  BlobInv'
<1>1. ASSUME NEW r \in Runs, AttachRead(t, r) PROVE BlobInv'
  <2>1. /\ r \in Live /\ pc' = [pc EXCEPT ![t] = "compute"]
        /\ doc' = [doc EXCEPT ![t] = Unpack(rows[r])]
        /\ rows' = rows /\ blobs' = blobs /\ todo' = todo
    BY <1>1 DEF AttachRead, Start
  <2>2. HasFields(Unpack(rows[r]))
    BY <2>1, UnpackKeepsFields DEF BlobInv, RowsBacked
  <2>3. /\ pc' = [s \in Threads |-> pc'[s]] /\ doc' = [s \in Threads |-> doc'[s]]
        /\ todo' = [s \in Threads |-> todo'[s]] /\ pc'[t] = "compute"
        /\ doc'[t] = Unpack(rows[r])
        /\ \A s \in Threads \ {t} : pc'[s] = pc[s] /\ doc'[s] = doc[s]
    BY <2>1 DEF BlobInv
  <2>4. PackedBacked(t)' /\ RemovesAlone(t)'
    BY <2>3 DEF PackedBacked, RemovesAlone
  <2> QED BY <2>1, <2>2, <2>3, <2>4, OwnStepBlobs
<1>2. ASSUME NEW d, HasFields(d), Attach(t, d) PROVE BlobInv'
  <2>1. /\ pc' = [pc EXCEPT ![t] = "repack"] /\ doc' = [doc EXCEPT ![t] = d]
        /\ todo' = [todo EXCEPT ![t] = RefsOf(d)] /\ rows' = rows /\ blobs' = blobs
    BY <1>2 DEF Attach
  <2>2. /\ pc' = [s \in Threads |-> pc'[s]] /\ doc' = [s \in Threads |-> doc'[s]]
        /\ todo' = [s \in Threads |-> todo'[s]] /\ pc'[t] = "repack"
        /\ doc'[t] = d /\ todo'[t] = RefsOf(d)
        /\ \A s \in Threads \ {t} : pc'[s] = pc[s] /\ doc'[s] = doc[s] /\ todo'[s] = todo[s]
    BY <2>1 DEF BlobInv
  <2>3. RefsOf(d) \subseteq Kinds /\ \A k \in Kinds \ RefsOf(d) : Ref(d, k) = Nil
    BY DEF RefsOf, Kinds, Ref
  <2>4. PackedBacked(t)' /\ RemovesAlone(t)'
    BY <1>2, <2>2, <2>3 DEF PackedBacked, RemovesAlone, Backed
  <2> QED BY <2>1, <2>2, <2>4, OwnStepBlobs
<1>3. ASSUME AttachTests(t) \/ AttachMap(t) PROVE BlobInv'
  <2>1. pc[t] = "compute"
    BY <1>3 DEF AttachTests, AttachMap, Attach
  <2>2. HasFields(doc[t])
    BY <2>1 DEF BlobInv
  <2>3. /\ HasFields([doc[t] EXCEPT !.tests = TRUE])
        /\ \A m \in Maps : HasFields([doc[t] EXCEPT !.map = m])
    BY <2>2, Edits
  <2> QED BY <1>2, <1>3, <2>3 DEF AttachTests, AttachMap
<1>4. ASSUME AttachRefused(t) PROVE BlobInv'
  <2>1. RowsBacked' /\ rows' = [r \in Runs |-> rows'[r]]
    BY <1>4, SameRowsBacked DEF AttachRefused, BlobInv
  <2> QED BY <1>4, <2>1, ReturnBlobs DEF AttachRefused
<1>5. ASSUME PutBack(t) PROVE BlobInv'
  <2>1. RowsBacked' /\ rows' = [r \in Runs |-> rows'[r]]
    BY <1>5, StoredBacked DEF PutBack, BlobInv
  <2> QED BY <1>5, <2>1, ReturnBlobs DEF PutBack
<1> QED
  BY <1>1, <1>3, <1>4, <1>5 DEF Amend

\* A scrub leaves the trace's reference and what failed.
LEMMA ScrubbedFields ==
  ASSUME NEW d, HasFields(d), NEW ref
  PROVE  /\ HasFields(Scrubbed(d, ref)) /\ Scrubbed(d, ref).map = ref
         /\ Scrubbed(d, ref).trace = d.trace /\ Scrubbed(d, ref).failed = d.failed
<1>1. d = [trace |-> d.trace, map |-> d.map, failed |-> d.failed, text |-> d.text,
           tests |-> d.tests, parent |-> d.parent, ts |-> d.ts]
  BY DEF HasFields
<1>2. /\ Scrubbed(d, ref) = [f \in DOMAIN d |-> Scrubbed(d, ref)[f]]
      /\ DOMAIN d = {"trace", "map", "failed", "text", "tests", "parent", "ts"}
  BY <1>1 DEF Scrubbed
<1>3. /\ Scrubbed(d, ref).map = ref /\ Scrubbed(d, ref).trace = d.trace
      /\ Scrubbed(d, ref).failed = d.failed
  BY <1>1 DEF Scrubbed
<1>4. HasFields(Scrubbed(d, ref))
  BY <1>2 DEF HasFields
<1> QED
  BY <1>3, <1>4

\* A row loses its text or its evidence, or goes.
LEMMA MutateRows ==
  ASSUME BlobInv, blobs' = blobs,
         \/ \E r \in Live : rows' = [rows EXCEPT ![r] = Tombstone(@)]
         \/ \E r \in Live : \E ref \in {rows[r].map, Broken} :
                              rows' = [rows EXCEPT ![r] = Scrubbed(@, ref)]
         \/ \E K \in SUBSET Runs : rows' = [r \in Runs |-> IF r \in K THEN Nil ELSE rows[r]]
  PROVE  RowsBacked' /\ rows' = [r \in Runs |-> rows'[r]]
<1>1. ASSUME NEW r \in Live, rows' = [rows EXCEPT ![r] = Tombstone(@)]
      PROVE  RowsBacked' /\ rows' = [q \in Runs |-> rows'[q]]
  <2>1. HasFields(Tombstone(rows[r])) /\ \A k \in Kinds : Ref(Tombstone(rows[r]), k) = Nil
    BY TombstoneRefersToNothing DEF BlobInv, RowsBacked
  <2>2. \A q \in Runs : rows'[q] = IF q = r THEN Tombstone(rows[r]) ELSE rows[q]
    BY <1>1 DEF BlobInv
  <2> QED BY <1>1, <2>1, <2>2 DEF BlobInv, RowsBacked, Backed, Live
<1>2. ASSUME NEW r \in Live, NEW ref \in {rows[r].map, Broken},
             rows' = [rows EXCEPT ![r] = Scrubbed(@, ref)]
      PROVE  RowsBacked' /\ rows' = [q \in Runs |-> rows'[q]]
  <2> DEFINE d == Scrubbed(rows[r], ref)
  <2>1. HasFields(d) /\ \A k \in Kinds : Backed(d, k)
    <3>1. HasFields(rows[r]) /\ \A k \in Kinds : Backed(rows[r], k)
      BY DEF BlobInv, RowsBacked
    <3>2. /\ HasFields(d) /\ d.map = ref
          /\ d.trace = rows[r].trace /\ d.failed = rows[r].failed
      BY <3>1, ScrubbedFields
    <3>3. ref = Broken \/ ref = rows[r].map
      OBVIOUS
    <3> HIDE DEF d
    <3> QED BY <3>1, <3>2, <3>3 DEF Kinds, Backed, Ref
  <2>2. /\ rows' = [q \in Runs |-> rows'[q]]
        /\ \A q \in Runs : rows'[q] = IF q = r THEN d ELSE rows[q]
    BY <1>2 DEF BlobInv, Live
  <2> HIDE DEF d
  <2> QED BY <2>1, <2>2 DEF BlobInv, RowsBacked, Live, Backed
<1>3. ASSUME NEW K \in SUBSET Runs, rows' = [r \in Runs |-> IF r \in K THEN Nil ELSE rows[r]]
      PROVE  RowsBacked' /\ rows' = [r \in Runs |-> rows'[r]]
  BY <1>3, RowsStayBacked DEF Live
<1> QED
  BY <1>1, <1>2, <1>3

LEMMA MutateBlobs ==
  ASSUME BlobInv, OneProcess \/ NothingRemoved, NEW t \in Threads, Mutate(t)
  PROVE  BlobInv'
<1>1. ASSUME NEW r \in Runs, NEW cascade, Redact(t, r) \/ Delete(t, r, cascade)
      PROVE  BlobInv'
  <2>1. /\ r \in Live /\ blobs' = blobs /\ doc' = doc /\ OneProcess
        /\ pc' = [pc EXCEPT ![t] = "cleanup"]
        /\ \E T : todo' = [todo EXCEPT ![t] = T]
        /\ \/ rows' = [rows EXCEPT ![r] = Tombstone(@)]
           \/ \E K \in SUBSET Runs : rows' = [q \in Runs |-> IF q \in K THEN Nil ELSE rows[q]]
    <3>1. OneProcess
      BY <1>1 DEF Redact, Delete, Start, NothingRemoved
    <3>2. CASE Redact(t, r)
      BY <3>1, <3>2 DEF Redact, Start
    <3>3. CASE Delete(t, r, cascade)
      <4>1. {r} \cup Descendants(r) \in SUBSET Runs
        BY DEF Descendants, Live
      <4> QED BY <3>1, <3>3, <4>1 DEF Delete, Start
    <3> QED BY <1>1, <3>2, <3>3
  <2>2. RowsBacked' /\ rows' = [q \in Runs |-> rows'[q]]
    BY <2>1, MutateRows
  <2>3. /\ pc' = [s \in Threads |-> pc'[s]] /\ doc' = [s \in Threads |-> doc'[s]]
        /\ todo' = [s \in Threads |-> todo'[s]] /\ pc'[t] = "cleanup"
        /\ \A s \in Threads \ {t} : pc'[s] = pc[s] /\ doc'[s] = doc[s] /\ todo'[s] = todo[s]
    BY <2>1 DEF BlobInv
  <2>4. PackedBacked(t)' /\ RemovesAlone(t)'
    BY <2>1, <2>3 DEF PackedBacked, RemovesAlone
  <2> QED BY <2>1, <2>2, <2>3, <2>4, BlobFrame
<1>2. ASSUME NEW r \in Runs, Scrub(t, r) \/ \E K \in SUBSET Live : Retain(t, K)
      PROVE  BlobInv'
  <2>1. /\ blobs' = blobs /\ doc' = doc /\ pc' = pc /\ todo' = todo /\ pc[t] = "idle"
        /\ \/ \E q \in Live : \E ref \in {rows[q].map, Broken} :
                rows' = [rows EXCEPT ![q] = Scrubbed(@, ref)]
           \/ \E K \in SUBSET Live : KeepOnly(K)
    BY <1>2 DEF Scrub, Retain, locals
  <2>2. RowsBacked' /\ rows' = [q \in Runs |-> rows'[q]]
    <3>1. CASE \E q \in Live : \E ref \in {rows[q].map, Broken} :
                rows' = [rows EXCEPT ![q] = Scrubbed(@, ref)]
      BY <2>1, <3>1, MutateRows
    <3>2. CASE \E K \in SUBSET Live : KeepOnly(K)
      BY <2>1, <3>2, RowsStayBacked DEF KeepOnly, Live
    <3> QED BY <2>1, <3>1, <3>2
  <2>3. PackedBacked(t)' /\ RemovesAlone(t)' /\ pc'[t] # "compute"
    BY <2>1 DEF PackedBacked, RemovesAlone
  <2> QED BY <2>1, <2>2, <2>3, BlobFrame DEF BlobInv
<1>3. ASSUME NEW d, NEW removed, Cleanup(t, d, removed) PROVE BlobInv'
  <2>1. /\ pc[t] = "cleanup" /\ blobs' \in {blobs, blobs \ {d}} /\ rows' = rows
        /\ d \notin Referenced \/ blobs' = blobs
        /\ pc' = pc /\ doc' = doc /\ todo' = [todo EXCEPT ![t] = @ \ {d}]
    BY <1>3 DEF Cleanup
  <2>2. OneProcess
    BY <2>1 DEF BlobInv, RemovesAlone
  <2>3. RowsBacked'
    BY <2>1 DEF BlobInv, RowsBacked, Backed, Referenced, Digests, Live
  <2>4. PackedBacked(t)' /\ RemovesAlone(t)' /\ pc'[t] # "compute"
    BY <2>1, <2>2 DEF PackedBacked, RemovesAlone
  <2>5. todo' = [s \in Threads |-> todo'[s]] /\ \A s \in Threads \ {t} : todo'[s] = todo[s]
    BY <2>1 DEF BlobInv
  <2> QED BY <2>1, <2>2, <2>3, <2>4, <2>5, BlobFrame DEF BlobInv
<1>4. ASSUME CleanupDone(t) PROVE BlobInv'
  <2>1. RowsBacked' /\ rows' = [r \in Runs |-> rows'[r]]
    BY <1>4, SameRowsBacked DEF CleanupDone, BlobInv
  <2> QED BY <1>4, <2>1, ReturnBlobs DEF CleanupDone
<1>5. CASE \E r \in Runs : Redact(t, r) \/ Scrub(t, r)
  BY <1>1, <1>2, <1>5
<1>6. CASE \E K \in SUBSET Live : Retain(t, K)
  <2>1. CASE Runs = {}
    BY <1>6, <2>1, BlobFrame, SameRowsBacked
       DEF Retain, KeepOnly, locals, BlobInv, PackedBacked, RemovesAlone
  <2>2. CASE Runs # {}
    BY <1>2, <1>6, <2>2
  <2> QED BY <2>1, <2>2
<1> QED
  BY <1>1, <1>3, <1>4, <1>5, <1>6 DEF Mutate

LEMMA CollectBlobs ==
  ASSUME BlobInv, OneProcess \/ NothingRemoved, NEW t \in Threads, Collect(t)
  PROVE  BlobInv'
<1>1. ASSUME NEW there \in {"gcGlob", "gcRecheck", "gcRemove"}, NEW T, OneProcess,
             pc' = [pc EXCEPT ![t] = there], todo' = [todo EXCEPT ![t] = T],
             rows' = rows, blobs' = blobs, doc' = doc,
             there = "gcRemove" => T \cap Referenced = {}
      PROVE  BlobInv'
  <2>1. /\ pc' = [s \in Threads |-> pc'[s]] /\ doc' = [s \in Threads |-> doc'[s]]
        /\ todo' = [s \in Threads |-> todo'[s]] /\ pc'[t] = there /\ todo'[t] = T
        /\ \A s \in Threads \ {t} : pc'[s] = pc[s] /\ doc'[s] = doc[s] /\ todo'[s] = todo[s]
    BY <1>1 DEF BlobInv
  <2>2. Referenced' = Referenced
    BY <1>1 DEF Referenced, Digests, Live
  <2>3. PackedBacked(t)' /\ RemovesAlone(t)'
    BY <1>1, <2>1, <2>2 DEF PackedBacked, RemovesAlone
  <2> QED BY <1>1, <2>1, <2>3, OwnStepBlobs
<1>2. todo = [todo EXCEPT ![t] = todo[t]]
  BY DEF BlobInv
<1>3. CASE GcScan(t)
  <2>1. OneProcess
    BY <1>3 DEF GcScan, Start, NothingRemoved
  <2> QED BY <1>1, <1>2, <1>3, <2>1 DEF GcScan, Start
<1>4. CASE GcGlob(t) \/ GcRecheck(t)
  <2>1. OneProcess
    BY <1>4 DEF GcGlob, GcRecheck, BlobInv, RemovesAlone
  <2>2. CASE GcGlob(t)
    BY <1>1, <2>1, <2>2 DEF GcGlob
  <2>3. CASE GcRecheck(t)
    <3>1. (todo[t] \ Referenced) \cap Referenced = {}
      OBVIOUS
    <3> QED BY <1>1, <2>1, <2>3, <3>1 DEF GcRecheck
  <2> QED BY <1>4, <2>2, <2>3
<1>5. ASSUME NEW d, NEW removed, GcRemove(t, d, removed) PROVE BlobInv'
  <2>1. /\ pc[t] = "gcRemove" /\ d \in todo[t] /\ blobs' \in {blobs, blobs \ {d}}
        /\ rows' = rows /\ pc' = pc /\ doc' = doc /\ todo' = [todo EXCEPT ![t] = @ \ {d}]
    BY <1>5 DEF GcRemove
  <2>2. OneProcess /\ d \notin Referenced /\ todo[t] \cap Referenced = {}
    BY <2>1 DEF BlobInv, RemovesAlone
  <2>3. RowsBacked' /\ Referenced' = Referenced
    BY <2>1, <2>2 DEF BlobInv, RowsBacked, Backed, Referenced, Digests, Live
  <2>4. /\ todo' = [s \in Threads |-> todo'[s]] /\ \A s \in Threads \ {t} : todo'[s] = todo[s]
        /\ todo'[t] = todo[t] \ {d}
    BY <2>1 DEF BlobInv
  <2>5. PackedBacked(t)' /\ RemovesAlone(t)' /\ pc'[t] # "compute"
    BY <2>1, <2>2, <2>3, <2>4 DEF PackedBacked, RemovesAlone
  <2> QED BY <2>1, <2>2, <2>3, <2>4, <2>5, BlobFrame DEF BlobInv
<1>6. ASSUME GcDone(t) PROVE BlobInv'
  <2>1. RowsBacked' /\ rows' = [r \in Runs |-> rows'[r]]
    BY <1>6, SameRowsBacked DEF GcDone, BlobInv
  <2> QED BY <1>6, <2>1, ReturnBlobs DEF GcDone
<1> QED
  BY <1>3, <1>4, <1>5, <1>6 DEF Collect

\* Every blob that a stored row refers to is on disk, for any number of runs,
\* as long as one process works on the journal, whatever it does and wherever
\* it dies; and for any number of processes as long as none of them removes a
\* run or collects blobs.  (With a recorder beside a collector or a redaction
\* it does not hold, as a run shows: the recorder skips the write of a blob
\* that is then removed before its row is committed.)
THEOREM EvidenceStays ==
  OneProcess \/ NothingRemoved => (Spec => []NoLostEvidence)
<1> SUFFICES ASSUME OneProcess \/ NothingRemoved PROVE Spec => []NoLostEvidence
  OBVIOUS
<1>1. Init => BlobInv
  BY InitBlobs
<1>2. BlobInv /\ [Next]_vars => BlobInv'
  <2> SUFFICES ASSUME BlobInv, [Next]_vars PROVE BlobInv'
    OBVIOUS
  <2>1. ASSUME NEW t \in Threads, Crash(t) PROVE BlobInv'
    <3>1. RowsBacked' /\ rows' = [r \in Runs |-> rows'[r]]
      BY <2>1, SameRowsBacked DEF Crash, BlobInv
    <3> QED BY <2>1, <3>1, ReturnBlobs DEF Crash
  <2>2. CASE UNCHANGED vars
    BY <2>2 DEF vars, BlobInv, RowsBacked, PackedBacked, RemovesAlone, Backed, Live,
                Referenced, Digests
  <2> QED
    BY <2>1, <2>2, WriteBlobs, AmendBlobs, MutateBlobs, CollectBlobs DEF Next
<1>3. BlobInv => NoLostEvidence
  BY DEF BlobInv, RowsBacked, Backed, NoLostEvidence
<1> QED
  BY <1>1, <1>2, <1>3, PTL DEF Spec

-----------------------------------------------------------------------------
(* Receipts *)

\* Nothing that was generated is generated otherwise.
Kept == DOMAIN greedy \subseteq DOMAIN greedy' /\ \A S \in DOMAIN greedy : greedy'[S] = greedy[S]

\* What may be said of an arm that came out for S.
ArmSound(arm, S) ==
    /\ S \in DOMAIN greedy /\ {} \in DOMAIN greedy
    /\ arm.text # Truly(S) => arm.cut
    /\ ~arm.doubted => (HasEffect(arm) <=> Truly(S) # Truly({}))
    /\ arm.doubted => failures > 0

Judged(P) == P \in DOMAIN greedy /\ (P \in redundant \/ Truly(P) = Truly({}))

\* The coalitions a report cannot do without.
Needed == {Keys} \cup IF Cardinality(Keys) <= ExactMax
                      THEN {S \in SUBSET Keys : Cardinality(S) >= 2} ELSE {}

ReceiptsTypes ==
    /\ asked \in [fired : FiredSets, voice : Voices, faults : 0..MaxFailures,
                  early : BOOLEAN, coalitions : BOOLEAN,
                  batch : {"auto", "off", "approximate"},
                  branches : {"none", "unverified", "verified"}]
    /\ failures \in Nat
    /\ \A S \in DOMAIN greedy : greedy[S] \in asked.voice

SoloInv ==
    /\ DOMAIN receipts \subseteq asked.fired
    /\ \A i \in DOMAIN receipts : ArmSound(receipts[i], {i})
    /\ stage \in {"solo", "pairs", "coalitions"} => {} \in DOMAIN greedy
    /\ stage = "baseline" => receipts = <<>> /\ greedy = <<>>
    /\ stage = "solo" => arms \in Seq({{i} : i \in asked.fired})

PairInv ==
    /\ stage \in {"baseline", "solo"} => redundant = {}
    /\ redundant \subseteq PairsOf(NoEffect)
    /\ \A P \in redundant : P \in DOMAIN greedy /\ (Truly(P) # Truly({}) \/ failures > 0)
    /\ stage = "pairs" => arms \in Seq(PairsOf(NoEffect))
    /\ stage = "pairs" /\ failures = 0 =>
          \A P \in PairsOf(NoEffect) : P \in ToSet(arms) \/ Judged(P)
    /\ stage \in {"coalitions", "done"} /\ failures = 0 =>
          \A P \in PairsOf(NoEffect) : Judged(P)

CoalitionInv ==
    /\ "class" \in DOMAIN report
    /\ stage = "coalitions" => Keys # {} /\ arms \in Seq(SUBSET Keys)
    /\ stage = "coalitions" /\ failures = 0 =>
          Needed \subseteq DOMAIN measured \cup ToSet(arms)
    /\ ~TakeBatch => \A S \in DOMAIN measured : measured[S].text # Garbled
    /\ ReportIsComplete

ReceiptsInv == ReceiptsTypes /\ SoloInv /\ PairInv /\ CoalitionInv

\* A reply's beginning spells a beginning of its text.
LEMMA SpellPrefix ==
    ASSUME NEW reply \in Seq(Tokens), NEW n \in 0..Len(reply)
    PROVE  /\ Spell(SubSeq(reply, 1, n)) \in Seq(Words)
           /\ \E t \in Seq(Words) : Spell(reply) = Spell(SubSeq(reply, 1, n)) \o t
<1> DEFINE seqs == [k \in DOMAIN reply |-> Spelling[reply[k]]]
           pre == SubSeq(reply, 1, n)
           cut == [k \in DOMAIN pre |-> Spelling[pre[k]]]
<1>1. seqs \in Seq(Seq(Words)) /\ Len(seqs) = Len(reply)
  <2>1. \A k \in 1..Len(reply) : Spelling[reply[k]] \in Seq(Words)
    BY ReceiptsAssumption
  <2> QED BY <2>1
<1>2. Len(pre) = n /\ DOMAIN pre = 1..n /\ \A k \in 1..n : pre[k] = reply[k]
  BY SubSeqProperties
<1>3. SubSeq(seqs, 1, n) = cut
  <2>1. SubSeq(seqs, 1, n) = [k \in 1..n |-> seqs[k]]
    BY <1>1
  <2>2. \A k \in 1..n : seqs[k] = Spelling[pre[k]]
    BY <1>2
  <2> QED BY <1>2, <2>1, <2>2
<1>4. SubSeq(seqs, 1, Len(seqs)) = seqs /\ Len(seqs) \in n..Len(seqs) /\ n \in 0..Len(seqs)
  BY <1>1, SubSeqFull
<1> HIDE DEF seqs
<1>5. /\ FlattenSeq(SubSeq(seqs, 1, n)) \in Seq(Words)
      /\ \E t \in Seq(Words) : FlattenSeq(SubSeq(seqs, 1, Len(seqs))) =
                                 FlattenSeq(SubSeq(seqs, 1, n)) \o t
  BY <1>1, <1>4, FlattenPrefixes
<1>6. FlattenSeq(seqs) = Spell(reply) /\ FlattenSeq(cut) = Spell(pre)
  BY DEF Spell, seqs
<1> HIDE DEF cut, pre
<1>7. Spell(pre) \in Seq(Words) /\ \E t \in Seq(Words) : Spell(reply) = Spell(pre) \o t
  BY <1>3, <1>4, <1>5, <1>6
<1> QED
  BY <1>7 DEF pre

LEMMA SpellType ==
    ASSUME NEW reply \in Seq(Tokens) PROVE Spell(reply) \in Seq(Words)
<1>1. Len(reply) \in 0..Len(reply) /\ SubSeq(reply, 1, Len(reply)) = reply
  BY SubSeqFull
<1> QED
  BY <1>1, SpellPrefix

\* What an arm that was made comes out as, by the reply it is made of.
LEMMA ChildIsSound ==
    ASSUME ReceiptsTypes, {} \in DOMAIN greedy,
           NEW reply \in asked.voice, NEW child \in AblatedChild(reply)
    PROVE  /\ child[2] \in {0, 1}
           /\ ~child[1].made => child[2] = 1
           /\ child[1].made =>
                 /\ child[1].text # Garbled
                 /\ child[1].text # Spell(reply) => child[1].cut
                 /\ ~child[1].doubted => (HasEffect(child[1]) <=> Spell(reply) # BaselineText)
                 /\ child[1].doubted => child[2] = 1
<1> DEFINE at == DivergesAt(reply)
           whole == Whole(reply)
           text == Spell(SubSeq(reply, 1, at))
           prefix == [Whole(SubSeq(reply, 1, at)) EXCEPT !.cut = TRUE]
<1>1. /\ asked.voice \in Voices /\ reply \in Seq(Tokens) /\ greedy[{}] \in asked.voice
      /\ asked.voice \subseteq Seq(Tokens)
  BY ReceiptsAssumption DEF ReceiptsTypes
<1>2. Spell(reply) \in Seq(Words) /\ BaselineText \in Seq(Words)
  BY <1>1, SpellType DEF BaselineText, Baseline
<1>3. at \in 0..Len(reply)
  <2> DEFINE off == {k \in DOMAIN reply : k > Len(Baseline) \/ reply[k] # Baseline[k]}
  <2>1. off \subseteq 1..Len(reply) /\ off \subseteq Nat
    BY <1>1
  <2>2. off # {} => Min(off) \in off
    BY <2>1, MinOfSet
  <2>3. at = IF ~armed \/ off = {} THEN 0 ELSE Min(off)
    BY DEF DivergesAt
  <2> QED BY <1>1, <2>1, <2>2, <2>3
<1>4. /\ whole.made /\ whole.text = Spell(reply) /\ ~whole.cut /\ ~whole.doubted
      /\ ~NoArm.made
  BY DEF Whole, NoArm
<1>5. prefix.made /\ prefix.text = text /\ prefix.cut /\ ~prefix.doubted
  BY DEF Whole
<1>6. text # Garbled /\ Spell(reply) # Garbled
  <2>1. SubSeq(reply, 1, Len(reply)) = reply /\ Len(reply) \in 0..Len(reply)
    BY <1>1, SubSeqFull
  <2> QED BY <1>1, <1>3, <2>1, GarbledAssumption
<1>7. text \in Seq(Words) /\ \E t \in Seq(Words) : Spell(reply) = text \o t
  BY <1>1, <1>3, SpellPrefix
<1>8. ~IsPrefix(text, BaselineText) =>
         text # BaselineText /\ Spell(reply) # BaselineText
  <2>1. PICK t \in Seq(Words) : Spell(reply) = text \o t
    BY <1>7
  <2>2. IsPrefix(text, text \o t)
    <3> HIDE DEF text
    <3> QED BY <1>7, <2>1 DEF IsPrefix
  <2>3. IsPrefix(text, text)
    BY <1>7 DEF IsPrefix
  <2> QED BY <2>1, <2>2, <2>3
<1> DEFINE late == [prefix EXCEPT !.doubted = TRUE]
<1>9. late.made /\ late.text = text /\ late.cut /\ late.doubted
  BY DEF Whole
<1>10. \/ child = <<NoArm, 1>>
       \/ child = <<whole, 0>>
       \/ child = <<prefix, 0>> /\ ~IsPrefix(text, BaselineText)
       \/ child = <<late, 1>>
  BY <1>5 DEF AblatedChild
<1> HIDE DEF at, whole, text, prefix, late
<1>11. CASE child = <<NoArm, 1>>
  BY <1>4, <1>11
<1>12. CASE child = <<whole, 0>>
  BY <1>4, <1>6, <1>12 DEF HasEffect
<1>13. CASE child = <<prefix, 0>> /\ ~IsPrefix(text, BaselineText)
  BY <1>5, <1>6, <1>8, <1>13 DEF HasEffect
<1>14. CASE child = <<late, 1>>
  BY <1>6, <1>9, <1>14
<1> QED
  BY <1>10, <1>11, <1>12, <1>13, <1>14

\* An arm of its stage has come out: what was generated stays, and the arm is
\* sound.
LEMMA AblatedIsSound ==
    ASSUME ReceiptsTypes, {} \in DOMAIN greedy, NEW arm, Ablate(arm), UNCHANGED asked,
           NEW S, S = Head(arms)
    PROVE  /\ ReceiptsTypes' /\ Kept /\ failures <= failures'
           /\ arm.made => ArmSound(arm, S)' /\ arm.text # Garbled
           /\ ~arm.made => failures' > 0
<1>1. PICK reply \in GreedyOf(S) :
         /\ greedy' = Put1(greedy, S, reply)
         /\ \E child \in AblatedChild(reply) :
               child[1] = arm /\ failures' = failures + child[2]
  BY DEF Ablate
<1>2. reply \in asked.voice /\ (S \in DOMAIN greedy => reply = greedy[S])
  BY DEF GreedyOf, ReceiptsTypes
<1>3. /\ DOMAIN greedy' = DOMAIN greedy \cup {S} /\ greedy'[S] = reply
      /\ \A Q \in DOMAIN greedy' : greedy'[Q] = IF Q = S THEN reply ELSE greedy[Q]
  BY <1>1 DEF Put1
<1>4. Kept
  BY <1>2, <1>3 DEF Kept
<1>5. PICK child \in AblatedChild(reply) :
         child[1] = arm /\ failures' = failures + child[2]
  BY <1>1
<1>6. /\ child[2] \in {0, 1} /\ failures \in Nat
      /\ ~arm.made => child[2] = 1
      /\ arm.made =>
            /\ arm.text # Garbled
            /\ arm.text # Spell(reply) => arm.cut
            /\ ~arm.doubted => (HasEffect(arm) <=> Spell(reply) # BaselineText)
            /\ arm.doubted => child[2] = 1
  BY <1>2, <1>5, ChildIsSound DEF ReceiptsTypes
<1>7. ReceiptsTypes' /\ failures <= failures' /\ (child[2] = 1 => failures' > 0)
  BY <1>2, <1>3, <1>5, <1>6 DEF ReceiptsTypes
<1>8. greedy'[{}] = greedy[{}] /\ {} \in DOMAIN greedy'
  BY <1>4 DEF Kept
<1>9. arm.made => ArmSound(arm, S)'
  BY <1>3, <1>6, <1>7, <1>8 DEF ArmSound, Truly, HasEffect, BaselineText, Baseline
<1> QED
  BY <1>4, <1>6, <1>7, <1>9

\* Sound arms and judged pairs remain so.
LEMMA SoundStays ==
    ASSUME ReceiptsTypes, Kept, failures <= failures', failures' \in Nat, NEW arm, NEW S,
           ArmSound(arm, S)
    PROVE  ArmSound(arm, S)' /\ (HasEffect(arm)' <=> HasEffect(arm))
BY DEF ReceiptsTypes, Kept, ArmSound, Truly, HasEffect, BaselineText, Baseline

LEMMA NoEffectStays ==
    ASSUME ReceiptsTypes, Kept, UNCHANGED receipts, SoloInv, failures <= failures', failures' \in Nat
    PROVE  NoEffect' = NoEffect
<1>1. \A i \in DOMAIN receipts : HasEffect(receipts[i])' <=> HasEffect(receipts[i])
  BY SoundStays DEF SoloInv
<1> QED
  BY <1>1 DEF NoEffect, HasEffect

LEMMA JudgedStays ==
    ASSUME Kept, redundant \subseteq redundant', {} \in DOMAIN greedy, NEW P, Judged(P)
    PROVE  Judged(P)'
BY DEF Kept, Judged, Truly

LEMMA TailType ==
    ASSUME NEW T, NEW s \in Seq(T), s # <<>>
    PROVE  /\ Head(s) \in T /\ Tail(s) \in Seq(T)
           /\ ToSet(s) \subseteq ToSet(Tail(s)) \cup {Head(s)}
<1>1. Head(s) \in T /\ Tail(s) \in Seq(T) /\ Len(Tail(s)) = Len(s) - 1 /\ Head(s) = s[1]
      /\ \A i \in 1..Len(Tail(s)) : Tail(s)[i] = s[i + 1]
  BY HeadTailProperties
<1>2. ASSUME NEW i \in 1..Len(s), i # 1 PROVE s[i] \in ToSet(Tail(s))
  <2> DEFINE j == i - 1
  <2>1. j \in 1..Len(Tail(s)) /\ Tail(s)[j] = s[j + 1] /\ s[j + 1] = s[i]
    BY <1>1, <1>2
  <2> HIDE DEF j
  <2>2. j \in DOMAIN Tail(s) /\ Tail(s)[j] = s[i]
    BY <1>1, <2>1
  <2> QED BY <2>2 DEF ToSet
<1> QED
  BY <1>1, <1>2 DEF ToSet

LEMMA ListOfSet ==
    ASSUME NEW T, NEW U, IsFiniteSet(T), T \subseteq U
    PROVE  SetToSeq(T) \in Seq(U) /\ T \subseteq ToSet(SetToSeq(T))
<1>1. /\ SetToSeq(T) \in Seq(T)
      /\ \A x \in T : \E i \in 1..Len(SetToSeq(T)) : SetToSeq(T)[i] = x
  BY SetToSeqLists
<1> DEFINE s == SetToSeq(T)
<1> HIDE DEF s
<1>2. s \in Seq(T) /\ \A x \in T : \E i \in 1..Len(s) : s[i] = x
  BY <1>1 DEF s
<1>3. s \in Seq(U) /\ T \subseteq ToSet(s)
  BY <1>2 DEF ToSet
<1> QED
  BY <1>3 DEF s

LEMMA KeysAreFinite ==
    ASSUME ReceiptsTypes, SoloInv
    PROVE  /\ IsFiniteSet(asked.fired) /\ IsFiniteSet(Keys) /\ IsFiniteSet(SUBSET Keys)
           /\ IsFiniteSet(PairsOf(NoEffect))
<1>1. IsFiniteSet(asked.fired)
  BY ReceiptsAssumption DEF ReceiptsTypes
<1>2. IsFiniteSet(Keys)
  BY <1>1, FS_Subset DEF Keys, SoloInv
<1>3. IsFiniteSet(SUBSET Keys)
  BY <1>2, FS_SUBSET
<1>4. PairsOf(NoEffect) \subseteq SUBSET Keys
  BY DEF PairsOf, NoEffect, Keys
<1> QED
  BY <1>1, <1>2, <1>3, <1>4, FS_Subset

LEMMA ReceiptsInitInv == ReceiptsInit => ReceiptsInv
<1> SUFFICES ASSUME ReceiptsInit PROVE ReceiptsInv
  OBVIOUS
<1> USE DEF ReceiptsInit
<1>1. ReceiptsTypes
  BY DEF ReceiptsTypes
<1>2. SoloInv
  BY DEF SoloInv
<1>3. PairInv
  BY DEF PairInv
<1>4. CoalitionInv
  BY DEF CoalitionInv, ReportIsComplete, NoReport
<1> QED
  BY <1>1, <1>2, <1>3, <1>4 DEF ReceiptsInv

LEMMA BaselineInv == ASSUME ReceiptsInv, GenerateBaseline PROVE ReceiptsInv'
<1> USE DEF ReceiptsInv, GenerateBaseline
<1>1. stage = "baseline" /\ receipts = <<>> /\ greedy = <<>> /\ redundant = {} /\ failures \in Nat
  BY DEF SoloInv, PairInv, ReceiptsTypes
<1>2. CASE /\ \E reply \in asked.voice : greedy' = Put1(greedy, {}, reply)
           /\ armed' \in {asked.early, FALSE}
           /\ stage' = "solo"
           /\ arms' = SetToSeq({{i} : i \in asked.fired})
           /\ UNCHANGED failures
  <2>1. ReceiptsTypes' /\ {} \in DOMAIN greedy'
    BY <1>2 DEF ReceiptsTypes, Put1
  <2>2. arms' \in Seq({{i} : i \in asked.fired})
    <3> DEFINE T == {{i} : i \in asked.fired}
    <3>1. IsFiniteSet(asked.fired) /\ T \subseteq SUBSET asked.fired
      BY ReceiptsAssumption DEF ReceiptsTypes
    <3>2. IsFiniteSet(T)
      BY <3>1, FS_SUBSET, FS_Subset
    <3> HIDE DEF T
    <3>3. SetToSeq(T) \in Seq(T)
      BY <3>2, ListOfSet
    <3> QED BY <1>2, <3>3 DEF T
  <2>3. SoloInv'
    BY <1>1, <1>2, <2>1, <2>2 DEF SoloInv
  <2>4. PairInv'
    BY <1>1, <1>2 DEF PairInv
  <2>5. CoalitionInv'
    BY <1>2 DEF CoalitionInv, ReportIsComplete, TakeBatch
  <2> QED BY <2>1, <2>3, <2>4, <2>5
<1>3. CASE failures' = failures + 1 /\ stage' = "done" /\ UNCHANGED <<greedy, armed, arms>>
  <2>1. ReceiptsTypes' /\ failures' > 0
    BY <1>1, <1>3 DEF ReceiptsTypes
  <2>2. SoloInv'
    BY <1>1, <1>3 DEF SoloInv
  <2>3. PairInv'
    BY <1>1, <1>3, <2>1 DEF PairInv
  <2>4. CoalitionInv'
    BY <1>3, <2>1 DEF CoalitionInv, ReportIsComplete, TakeBatch
  <2> QED BY <2>1, <2>2, <2>3, <2>4
<1> QED
  BY <1>2, <1>3

LEMMA SoloArmInv == ASSUME ReceiptsInv, SoloArm PROVE ReceiptsInv'
<1> USE DEF ReceiptsInv
<1>1. /\ stage = "solo" /\ arms # <<>> /\ stage' = "solo" /\ redundant = {}
      /\ UNCHANGED <<asked, stage, armed, redundant, measured, pending, report>>
      /\ {} \in DOMAIN greedy /\ arms \in Seq({{i} : i \in asked.fired})
  BY DEF SoloArm, SoloInv, PairInv
<1>2. PICK S, i, arm :
         /\ S = Head(arms) /\ i = (CHOOSE j \in S : TRUE) /\ Ablate(arm)
         /\ receipts' = IF arm.made THEN Put1(receipts, i, arm) ELSE receipts
  BY DEF SoloArm
<1>3. i \in asked.fired /\ S = {i} /\ Tail(arms) \in Seq({{j} : j \in asked.fired})
  <2>1. S \in {{j} : j \in asked.fired} /\ Tail(arms) \in Seq({{j} : j \in asked.fired})
    BY <1>1, <1>2, TailType
  <2>2. PICK k \in asked.fired : S = {k}
    BY <2>1
  <2>3. i \in S
    BY <1>2, <2>2
  <2> QED BY <2>1, <2>2, <2>3
<1>4. /\ ReceiptsTypes' /\ Kept /\ failures <= failures' /\ failures' \in Nat
      /\ arm.made => ArmSound(arm, S)'
  BY <1>1, <1>2, AblatedIsSound DEF ReceiptsTypes
<1>5. ASSUME NEW j \in DOMAIN receipts, NEW a, a = receipts[j]
      PROVE  j \in asked.fired /\ ArmSound(a, {j})'
  <2>1. ArmSound(a, {j}) /\ j \in asked.fired
    BY <1>5 DEF SoloInv
  <2> QED BY <1>4, <2>1, SoundStays
<1>6. ASSUME NEW j \in DOMAIN receipts', NEW a, a = receipts'[j]
      PROVE  j \in asked.fired /\ ArmSound(a, {j})'
  <2>1. CASE arm.made
    <3>1. /\ receipts' = Put1(receipts, i, arm)
          /\ j = i \/ j \in DOMAIN receipts
      BY <1>2, <1>6, <2>1 DEF Put1
    <3>2. CASE j = i
      <4>1. a = arm
        BY <1>6, <3>1, <3>2 DEF Put1
      <4> QED BY <1>3, <1>4, <2>1, <3>2, <4>1
    <3>3. CASE j # i
      <4>1. j \in DOMAIN receipts /\ a = receipts[j]
        BY <1>6, <3>1, <3>3 DEF Put1
      <4> QED BY <1>5, <4>1
    <3> QED BY <3>2, <3>3
  <2>2. CASE ~arm.made
    BY <1>2, <1>5, <1>6, <2>2
  <2> QED BY <2>1, <2>2
<1>7. arms' = Tail(arms)
  BY <1>2 DEF Ablate
<1>8. SoloInv'
  <2>1. \A j \in DOMAIN receipts' : j \in asked.fired /\ ArmSound(receipts[j], {j})'
    BY <1>6
  <2> QED BY <1>1, <1>3, <1>4, <1>7, <2>1 DEF SoloInv, Kept
<1>9. PairInv'
  BY <1>1 DEF PairInv
<1>10. CoalitionInv'
  BY <1>1 DEF CoalitionInv, ReportIsComplete, TakeBatch
<1> QED
  BY <1>4, <1>8, <1>9, <1>10

LEMMA StartPairsInv == ASSUME ReceiptsInv, StartPairs PROVE ReceiptsInv'
<1> USE DEF ReceiptsInv, StartPairs
<1>1. ReceiptsTypes' /\ Kept /\ UNCHANGED receipts
  BY DEF ReceiptsTypes, Kept
<1>2. SoloInv'
  <2>1. \A i \in DOMAIN receipts : ArmSound(receipts[i], {i})'
    BY DEF SoloInv, ArmSound, Truly, HasEffect, BaselineText, Baseline
  <2> QED BY <2>1 DEF SoloInv
<1>3. NoEffect' = NoEffect
  BY DEF NoEffect, HasEffect, BaselineText, Baseline
<1>4. arms' \in Seq(PairsOf(NoEffect)) /\ PairsOf(NoEffect) \subseteq ToSet(arms')
  BY KeysAreFinite, ListOfSet
<1>5. PairInv'
  BY <1>3, <1>4 DEF PairInv
<1>6. CoalitionInv'
  BY DEF CoalitionInv, ReportIsComplete, TakeBatch
<1> QED
  BY <1>1, <1>2, <1>5, <1>6

LEMMA PairArmInv == ASSUME ReceiptsInv, PairArm PROVE ReceiptsInv'
<1> USE DEF ReceiptsInv
<1>1. /\ stage = "pairs" /\ arms # <<>> /\ stage' = "pairs"
      /\ UNCHANGED <<asked, stage, armed, receipts, measured, pending, report>>
      /\ {} \in DOMAIN greedy /\ arms \in Seq(PairsOf(NoEffect))
  BY DEF PairArm, SoloInv, PairInv
<1>2. PICK S, arm :
         /\ S = Head(arms) /\ Ablate(arm)
         /\ redundant' = IF arm.made /\ HasEffect(arm) THEN redundant \cup {S} ELSE redundant
  BY DEF PairArm
<1>3. /\ S \in PairsOf(NoEffect) /\ Tail(arms) \in Seq(PairsOf(NoEffect))
      /\ ToSet(arms) \subseteq ToSet(Tail(arms)) \cup {S}
  BY <1>1, <1>2, TailType
<1>4. /\ ReceiptsTypes' /\ Kept /\ failures <= failures' /\ failures' \in Nat /\ failures \in Nat
      /\ arm.made => ArmSound(arm, S)'
      /\ ~arm.made => failures' > 0
  BY <1>1, <1>2, AblatedIsSound DEF ReceiptsTypes
<1>5. ASSUME NEW j \in DOMAIN receipts PROVE ArmSound(receipts[j], {j})'
  <2>1. PICK a : a = receipts[j]
    OBVIOUS
  <2>2. ArmSound(a, {j})
    BY <2>1 DEF SoloInv
  <2>3. ArmSound(a, {j})'
    BY <1>4, <2>2, SoundStays
  <2> QED BY <1>1, <2>1, <2>3
<1>6. arms' = Tail(arms)
  BY <1>2 DEF Ablate
<1>7. SoloInv'
  BY <1>1, <1>4, <1>5 DEF SoloInv, Kept
<1>8. NoEffect' = NoEffect
  BY <1>1, <1>4, NoEffectStays
<1>9. HasEffect(arm)' <=> HasEffect(arm)
  BY <1>1, <1>4 DEF HasEffect, BaselineText, Baseline, Kept
<1>10. \A P \in redundant : P \in DOMAIN greedy' /\ (Truly(P)' # Truly({})' \/ failures' > 0)
  BY <1>1, <1>4 DEF PairInv, Kept, Truly
<1>11. \A P \in redundant' : P \in DOMAIN greedy' /\ (Truly(P)' # Truly({})' \/ failures' > 0)
  BY <1>2, <1>4, <1>9, <1>10 DEF ArmSound
<1>12. failures' = 0 => Judged(S)'
  <2>1. ASSUME failures' = 0 PROVE Judged(S)'
    <3>1. arm.made /\ ArmSound(arm, S)'
      BY <1>4, <2>1
    <3>2. ~arm.doubted /\ S \in DOMAIN greedy'
      BY <2>1, <3>1 DEF ArmSound
    <3>3. HasEffect(arm)' <=> Truly(S)' # Truly({})'
      BY <3>1, <3>2 DEF ArmSound
    <3> QED BY <1>2, <1>9, <3>1, <3>2, <3>3 DEF Judged
  <2> QED BY <2>1
<1>13. failures' = 0 => \A P \in PairsOf(NoEffect) : P \in ToSet(arms') \/ Judged(P)'
  <2>1. ASSUME failures' = 0, NEW P \in PairsOf(NoEffect), P \notin ToSet(arms')
        PROVE  Judged(P)'
    <3>1. failures = 0 /\ (P \in ToSet(arms) \/ Judged(P))
      BY <1>1, <1>4, <2>1 DEF PairInv
    <3>2. P = S \/ Judged(P)
      BY <1>3, <1>6, <2>1, <3>1
    <3>3. CASE P = S
      BY <1>12, <2>1, <3>3
    <3>4. CASE Judged(P)
      BY <1>1, <1>2, <1>4, <3>4, JudgedStays
    <3> QED BY <3>2, <3>3, <3>4
  <2> QED BY <2>1
<1>14. PairInv'
  BY <1>1, <1>2, <1>3, <1>6, <1>8, <1>11, <1>13 DEF PairInv
<1>15. CoalitionInv'
  BY <1>1 DEF CoalitionInv, ReportIsComplete, TakeBatch
<1> QED
  BY <1>4, <1>7, <1>14, <1>15

\* A step that generates nothing and changes no verdict leaves them standing.
LEMMA VerdictsStand ==
    ASSUME ReceiptsInv, stage = "pairs", arms = <<>>, stage' \in {"coalitions", "done"},
           UNCHANGED <<asked, armed, receipts, redundant, failures>>, Kept,
           \A S \in DOMAIN greedy' : greedy'[S] \in asked.voice
    PROVE  ReceiptsTypes' /\ SoloInv' /\ PairInv'
<1> USE DEF ReceiptsInv
<1>1. ReceiptsTypes' /\ failures \in Nat /\ failures' \in Nat /\ failures <= failures'
  BY DEF ReceiptsTypes
<1>2. SoloInv'
  <2>1. ASSUME NEW i \in DOMAIN receipts PROVE ArmSound(receipts[i], {i})'
    <3>1. PICK a : a = receipts[i]
      OBVIOUS
    <3>2. ArmSound(a, {i})
      BY <3>1 DEF SoloInv
    <3>3. ArmSound(a, {i})'
      BY <1>1, <3>2, SoundStays
    <3> QED BY <3>1, <3>3
  <2> QED BY <2>1 DEF SoloInv, Kept
<1>3. NoEffect' = NoEffect
  BY <1>1, NoEffectStays
<1>4. failures = 0 => \A P \in PairsOf(NoEffect) : Judged(P)
  BY DEF PairInv, ToSet
<1>5. failures' = 0 => \A P \in PairsOf(NoEffect) : Judged(P)'
  BY <1>4, JudgedStays DEF SoloInv
<1>6. \A P \in redundant : P \in DOMAIN greedy' /\ (Truly(P)' # Truly({})' \/ failures' > 0)
  BY DEF PairInv, SoloInv, Kept, Truly
<1>7. PairInv'
  BY <1>3, <1>5, <1>6 DEF PairInv
<1> QED
  BY <1>1, <1>2, <1>7

LEMMA NoneNeededInv == ASSUME ReceiptsInv, ReportSingle \/ NoCoalitions PROVE ReceiptsInv'
<1>1. /\ stage = "pairs" /\ arms = <<>> /\ stage' = "done"
      /\ UNCHANGED <<asked, greedy, armed, receipts, redundant, measured, failures>>
      /\ ~asked.coalitions \/ Keys = {} \/ report' = [NoReport EXCEPT !.class = "exact",
                                  !.credit = [i \in Keys |-> SoloValue(i)],
                                  !.joint = SoloValue(CHOOSE i \in Keys : TRUE)]
  BY DEF ReportSingle, NoCoalitions
<1>2. Kept /\ \A S \in DOMAIN greedy' : greedy'[S] \in asked.voice
  BY <1>1 DEF Kept, ReceiptsInv, ReceiptsTypes
<1>3. ReceiptsTypes' /\ SoloInv' /\ PairInv'
  BY <1>1, <1>2, VerdictsStand
<1>4. report'.class = "exact" \/ ~asked'.coalitions \/ Keys' = {}
  BY <1>1 DEF NoReport, Keys
<1>6. "class" \in DOMAIN report'
  BY DEF ReportSingle, NoCoalitions, NoReport, ReceiptsInv, CoalitionInv
<1>5. CoalitionInv'
  BY <1>1, <1>4, <1>6 DEF ReceiptsInv, CoalitionInv, ReportIsComplete, TakeBatch, Keys
<1> QED
  BY <1>3, <1>5 DEF ReceiptsInv

\* What is run is a finite set of sets of influences, with all that is needed.
LEMMA RunIsNeeded ==
    ASSUME ReceiptsTypes, SoloInv, NEW pairs \in PairKeys
    PROVE  /\ CoalitionsToRun(pairs) \subseteq SUBSET Keys
           /\ Needed \subseteq CoalitionsToRun(pairs)
           /\ \A T \in SUBSET CoalitionsToRun(pairs) : IsFiniteSet(T)
<1>1. pairs \subseteq SUBSET Keys
  BY DEF PairKeys, PairsOf
<1>2. CoalitionsToRun(pairs) \subseteq SUBSET Keys
  BY <1>1 DEF CoalitionsToRun
<1>3. Needed \subseteq CoalitionsToRun(pairs)
  BY DEF CoalitionsToRun, Needed
<1> QED
  BY <1>2, <1>3, KeysAreFinite, FS_Subset

LEMMA StartCoalitionsInv == ASSUME ReceiptsInv, StartCoalitions PROVE ReceiptsInv'
<1>1. /\ stage = "pairs" /\ arms = <<>> /\ stage' = "coalitions" /\ Cardinality(Keys) > 1
      /\ UNCHANGED <<asked, armed, receipts, redundant, failures>>
  BY DEF StartCoalitions
<1>2. PICK pairs \in PairKeys :
       LET run == CoalitionsToRun(pairs) IN
       \/ /\ \E rest \in [run \ DOMAIN greedy -> asked.voice] :
                greedy' = [S \in DOMAIN greedy \cup run |->
                             IF S \in DOMAIN greedy THEN greedy[S] ELSE rest[S]]
          /\ \E wrong, missing \in Few(run) :
             LET got == BatchedArms(run, wrong, missing) IN
             IF TakeBatch
             THEN measured' = got /\ arms' = SetToSeq(run \ DOMAIN got)
             ELSE arms' = SetToSeq(run) /\ UNCHANGED measured
       \/ arms' = SetToSeq(run) /\ UNCHANGED <<greedy, measured>>
  BY DEF StartCoalitions
<1> DEFINE run == CoalitionsToRun(pairs)
<1>3. /\ run \subseteq SUBSET Keys /\ Needed \subseteq run
      /\ \A T \in SUBSET run : IsFiniteSet(T)
  BY RunIsNeeded DEF ReceiptsInv
<1> HIDE DEF run
<1>4. Kept /\ \A S \in DOMAIN greedy' : greedy'[S] \in asked.voice
  <2>1. \A S \in DOMAIN greedy : greedy[S] \in asked.voice
    BY DEF ReceiptsInv, ReceiptsTypes
  <2>2. CASE UNCHANGED greedy
    BY <2>1, <2>2 DEF Kept
  <2>3. CASE \E rest \in [run \ DOMAIN greedy -> asked.voice] :
                greedy' = [S \in DOMAIN greedy \cup run |->
                             IF S \in DOMAIN greedy THEN greedy[S] ELSE rest[S]]
    BY <2>1, <2>3 DEF Kept
  <2> QED BY <1>2, <2>2, <2>3 DEF run
<1>5. ReceiptsTypes' /\ SoloInv' /\ PairInv'
  BY <1>1, <1>4, VerdictsStand
<1>6. /\ \/ arms' = SetToSeq(run)
         \/ arms' = SetToSeq(run \ DOMAIN measured')
      /\ TakeBatch \/ UNCHANGED measured
  BY <1>2 DEF run
<1>7. arms' \in Seq(SUBSET Keys) /\ run \subseteq DOMAIN measured' \cup ToSet(arms')
  <2>1. \A T \in SUBSET run : SetToSeq(T) \in Seq(SUBSET Keys) /\ T \subseteq ToSet(SetToSeq(T))
    BY <1>3, ListOfSet
  <2>2. run \ DOMAIN measured' \in SUBSET run /\ run \in SUBSET run
    OBVIOUS
  <2>3. CASE arms' = SetToSeq(run)
    BY <2>1, <2>2, <2>3
  <2>4. CASE arms' = SetToSeq(run \ DOMAIN measured')
    <3>1. SetToSeq(run \ DOMAIN measured') \in Seq(SUBSET Keys)
          /\ run \ DOMAIN measured' \subseteq ToSet(SetToSeq(run \ DOMAIN measured'))
      BY <2>1, <2>2
    <3> QED BY <2>4, <3>1
  <2> QED BY <1>6, <2>3, <2>4
<1>8. Keys # {} /\ Keys' = Keys /\ Needed' = Needed /\ (TakeBatch' <=> TakeBatch)
  <2>1. Keys # {}
    BY <1>1, FS_EmptySet
  <2> QED BY <1>1, <2>1 DEF Keys, Needed, TakeBatch
<1>10. "class" \in DOMAIN report'
  <2>1. UNCHANGED report \/ \E batch : report' = [report EXCEPT !.batch = batch]
    BY DEF StartCoalitions
  <2> QED BY <2>1 DEF ReceiptsInv, CoalitionInv
<1>9. CoalitionInv'
  BY <1>1, <1>3, <1>6, <1>7, <1>8, <1>10 DEF ReceiptsInv, CoalitionInv, ReportIsComplete
<1> QED
  BY <1>5, <1>9 DEF ReceiptsInv

LEMMA CoalitionArmInv == ASSUME ReceiptsInv, CoalitionArm PROVE ReceiptsInv'
<1> USE DEF ReceiptsInv
<1>1. /\ stage = "coalitions" /\ arms # <<>> /\ stage' = "coalitions"
      /\ UNCHANGED <<asked, stage, armed, receipts, redundant, pending, report>>
      /\ {} \in DOMAIN greedy /\ arms \in Seq(SUBSET Keys) /\ Keys # {}
  BY DEF CoalitionArm, SoloInv, CoalitionInv
<1>2. PICK S, arm :
         /\ S = Head(arms) /\ Ablate(arm)
         /\ measured' = IF arm.made THEN Put1(measured, S, arm) ELSE measured
  BY DEF CoalitionArm
<1>3. /\ Tail(arms) \in Seq(SUBSET Keys) /\ arms' = Tail(arms)
      /\ ToSet(arms) \subseteq ToSet(Tail(arms)) \cup {S}
  BY <1>1, <1>2, TailType DEF Ablate
<1>4. /\ ReceiptsTypes' /\ Kept /\ failures <= failures' /\ failures' \in Nat /\ failures \in Nat
      /\ arm.made => arm.text # Garbled
      /\ ~arm.made => failures' > 0
  BY <1>1, <1>2, AblatedIsSound DEF ReceiptsTypes
<1>5. ASSUME NEW j \in DOMAIN receipts PROVE ArmSound(receipts[j], {j})'
  <2>1. PICK a : a = receipts[j]
    OBVIOUS
  <2>2. ArmSound(a, {j})
    BY <2>1 DEF SoloInv
  <2>3. ArmSound(a, {j})'
    BY <1>4, <2>2, SoundStays
  <2> QED BY <1>1, <2>1, <2>3
<1>6. SoloInv'
  BY <1>1, <1>4, <1>5 DEF SoloInv, Kept
<1>7. NoEffect' = NoEffect
  BY <1>1, <1>4, NoEffectStays
<1>8. \A P \in redundant : P \in DOMAIN greedy' /\ (Truly(P)' # Truly({})' \/ failures' > 0)
  BY <1>1, <1>4 DEF PairInv, Kept, Truly
<1>9. failures' = 0 => \A P \in PairsOf(NoEffect) : Judged(P)'
  <2>1. ASSUME failures' = 0, NEW P \in PairsOf(NoEffect) PROVE Judged(P)'
    <3>1. Judged(P)
      BY <1>1, <1>4, <2>1 DEF PairInv
    <3> QED BY <1>1, <1>4, <3>1, JudgedStays
  <2> QED BY <2>1
<1>10. PairInv'
  BY <1>1, <1>7, <1>8, <1>9 DEF PairInv
<1>11. DOMAIN measured \subseteq DOMAIN measured' /\ (arm.made => S \in DOMAIN measured')
  BY <1>2 DEF Put1
<1>12. failures' = 0 => Needed' \subseteq DOMAIN measured' \cup ToSet(arms')
  <2>1. ASSUME failures' = 0 PROVE Needed \subseteq DOMAIN measured' \cup ToSet(arms')
    <3>1. failures = 0 /\ S \in DOMAIN measured'
      BY <1>4, <1>11, <2>1
    <3>2. Needed \subseteq DOMAIN measured \cup ToSet(arms)
      BY <1>1, <3>1 DEF CoalitionInv
    <3> QED BY <1>3, <1>11, <3>1, <3>2
  <2>2. Needed' = Needed
    BY <1>1 DEF Needed, Keys
  <2> QED BY <2>1, <2>2
<1>13. ~TakeBatch' => \A Q \in DOMAIN measured' : measured'[Q].text # Garbled
  <2>1. ASSUME ~TakeBatch', NEW Q \in DOMAIN measured' PROVE measured'[Q].text # Garbled
    <3>1. ~TakeBatch
      BY <1>1, <2>1 DEF TakeBatch
    <3>2. Q \in DOMAIN measured => measured[Q].text # Garbled
      BY <3>1 DEF CoalitionInv
    <3>3. \/ arm.made /\ Q = S /\ measured'[Q] = arm
          \/ Q \in DOMAIN measured /\ measured'[Q] = measured[Q]
      BY <1>2, <2>1 DEF Put1
    <3> QED BY <1>4, <3>2, <3>3
  <2> QED BY <2>1
<1>14. CoalitionInv'
  <2>1. Keys' = Keys
    BY <1>1 DEF Keys
  <2> QED BY <1>1, <1>3, <1>12, <1>13, <2>1 DEF CoalitionInv, ReportIsComplete
<1> QED
  BY <1>4, <1>6, <1>10, <1>14

LEMMA ReportInv == ASSUME ReceiptsInv, Report PROVE ReceiptsInv'
<1> USE DEF ReceiptsInv
<1>1. /\ stage = "coalitions" /\ arms = <<>> /\ stage' = "done"
      /\ UNCHANGED <<asked, greedy, armed, arms, receipts, redundant, measured, failures>>
  BY DEF Report
<1>2. ReceiptsTypes'
  BY <1>1 DEF ReceiptsTypes
<1>3. SoloInv'
  BY <1>1 DEF SoloInv, ArmSound, Truly, HasEffect, BaselineText, Baseline
<1>4. NoEffect' = NoEffect
  BY <1>1 DEF NoEffect, HasEffect, BaselineText, Baseline
<1>5. PairInv'
  BY <1>1, <1>4 DEF PairInv, Judged, Truly
<1>6. failures' = 0 => report'.class \in {"exact", "taylor"}
  <2>1. ASSUME failures' = 0 PROVE report'.class \in {"exact", "taylor"}
    <3>1. Needed \subseteq DOMAIN measured
      BY <1>1, <2>1 DEF CoalitionInv, ToSet
    <3>2. Keys \in DOMAIN measured /\ (Cardinality(Keys) <= ExactMax => AllMeasured)
      BY <3>1 DEF Needed, AllMeasured
    <3>3. Cardinality(Keys) \in Nat /\ ExactMax \in Nat
      BY KeysAreFinite, FS_CardinalityType, ReceiptsAssumption
    <3>4. ~(Cardinality(Keys) > ExactMax) => AllMeasured
      BY <3>2, <3>3
    <3>5. "class" \in DOMAIN report
      BY DEF CoalitionInv
    <3>6. PICK credit, joint, bitExact :
            report' = [report EXCEPT
                !.class = IF Cardinality(Keys) > ExactMax THEN "taylor"
                          ELSE IF AllMeasured THEN "exact" ELSE "missing",
                !.credit = credit, !.joint = joint, !.bitExact = bitExact]
      BY <3>2 DEF Report
    <3> QED BY <3>4, <3>5, <3>6
  <2> QED BY <2>1
<1>7. "class" \in DOMAIN report'
  <2>1. "class" \in DOMAIN report
    BY DEF CoalitionInv
  <2> QED BY <2>1 DEF Report
<1>8. CoalitionInv'
  BY <1>1, <1>6, <1>7 DEF CoalitionInv, ReportIsComplete, TakeBatch
<1> QED
  BY <1>2, <1>3, <1>5, <1>8

LEMMA ReceiptsNextInv == ReceiptsInv /\ [ReceiptsNext]_receiptVars => ReceiptsInv'
<1> SUFFICES ASSUME ReceiptsInv, [ReceiptsNext]_receiptVars PROVE ReceiptsInv'
  OBVIOUS
<1>1. CASE UNCHANGED receiptVars
  <2> USE <1>1 DEF receiptVars, ReceiptsInv
  <2>1. ReceiptsTypes'
    BY DEF ReceiptsTypes
  <2>2. SoloInv'
    BY DEF SoloInv, ArmSound, Truly, HasEffect, BaselineText, Baseline
  <2>3. NoEffect' = NoEffect
    BY DEF NoEffect, HasEffect, BaselineText, Baseline
  <2>4. PairInv'
    BY <2>3 DEF PairInv, Judged, Truly
  <2>5. CoalitionInv'
    BY DEF CoalitionInv, ReportIsComplete, TakeBatch, Needed, Keys
  <2> QED BY <2>1, <2>2, <2>4, <2>5
<1> QED
  BY <1>1, BaselineInv, SoloArmInv, StartPairsInv, PairArmInv, NoneNeededInv,
     StartCoalitionsInv, CoalitionArmInv, ReportInv DEF ReceiptsNext

\* The verdicts that may be read off at any time are sound.
LEMMA SoundVerdicts == ReceiptsInv => VerdictsAreSound
<1> SUFFICES ASSUME ReceiptsInv PROVE VerdictsAreSound
  OBVIOUS
<1> USE DEF ReceiptsInv
<1>1. EarlyStopIsSound
  BY DEF EarlyStopIsSound, SoloInv, ArmSound
<1>2. CutRepliesAreMarked
  BY DEF CutRepliesAreMarked, SoloInv, ArmSound
<1>3. PairsAreRedundant
  <2>1. ASSUME stage \in {"coalitions", "done"}, NEW P \in PairsOf(Keys \ Doubted)
        PROVE  /\ P \in redundant =>
                     /\ \A i \in P : Truly({i}) = Truly({})
                     /\ Truly(P) # Truly({}) \/ failures > 0
               /\ failures = 0 /\ (\A i \in P : Truly({i}) = Truly({})) /\ Truly(P) # Truly({})
                     => P \in redundant
    <3>1. \A i \in P : /\ i \in DOMAIN receipts
                       /\ HasEffect(receipts[i]) <=> Truly({i}) # Truly({})
      BY <2>1, <1>1 DEF PairsOf, Doubted, Keys, EarlyStopIsSound
    <3>2. P \in redundant => \A i \in P : ~HasEffect(receipts[i])
      BY DEF PairInv, PairsOf, NoEffect
    <3>3. (\A i \in P : Truly({i}) = Truly({})) => P \in PairsOf(NoEffect)
      <4>1. P \in SUBSET (Keys \ Doubted) /\ Cardinality(P) = 2
        BY <2>1 DEF PairsOf
      <4>2. ASSUME \A i \in P : Truly({i}) = Truly({}), NEW i \in P PROVE i \in NoEffect
        <5>1. i \in DOMAIN receipts /\ ~HasEffect(receipts[i])
          BY <3>1, <4>2
        <5> QED BY <5>1 DEF NoEffect
      <4> QED BY <4>1, <4>2 DEF PairsOf
    <3>4. P \in redundant => Truly(P) # Truly({}) \/ failures > 0
      BY DEF PairInv
    <3>5. failures = 0 /\ P \in PairsOf(NoEffect) => P \in redundant \/ Truly(P) = Truly({})
      BY <2>1 DEF PairInv, Judged
    <3> QED BY <3>1, <3>2, <3>3, <3>4, <3>5
  <2> QED BY <2>1 DEF PairsAreRedundant
<1>4. BatchesAreChecked
  BY DEF BatchesAreChecked, CoalitionInv, TakeBatch
<1>5. ReportIsComplete
  BY DEF CoalitionInv
<1> QED
  BY <1>1, <1>2, <1>3, <1>4, <1>5 DEF VerdictsAreSound

\* Whatever the influences, the replies and how tokens spell words: early
\* stopping changes no verdict, a reply that is not whole says so, a pair is
\* named redundant exactly when neither influence alone moves the reply and both
\* together do, no unchecked batch reaches a value, and a run whose replays all
\* came back gets its report.
THEOREM VerdictsSound == ReceiptsSpec => []VerdictsAreSound
<1>1. ReceiptsInit => ReceiptsInv
  BY ReceiptsInitInv
<1>2. ReceiptsInv /\ [ReceiptsNext]_receiptVars => ReceiptsInv'
  BY ReceiptsNextInv
<1>3. ReceiptsInv => VerdictsAreSound
  BY SoundVerdicts
<1> QED
  BY <1>1, <1>2, <1>3, PTL DEF ReceiptsSpec

===============================================================================
