------------------------------ MODULE RunWatch ------------------------------
(***************************************************************************)
(* `clozn watch` tailing the run journal (clozn/runs/store.py runs_after,  *)
(* current_cursor; clozn/cli/commands/watch.py).  A run is keyed by        *)
(* (recorded_ts, id); record() reads recorded_ts before its INSERT         *)
(* commits, and the watcher asks for what follows the last key it scanned. *)
(***************************************************************************)
EXTENDS Naturals, FiniteSets

CONSTANTS
    RunIds,     \* ids, ordered as SQLite orders them: a finite set of naturals
    Wanted,     \* the runs that pass the watcher's filters
    Writers,    \* processes and threads that record runs
    Times,      \* what time.time() may read
    Limit,      \* rows per page
    Keep,       \* rows _prune leaves
    NoRun       \* a writer that is not recording

ASSUME WatchAssumption ==
    /\ RunIds \subseteq Nat /\ IsFiniteSet(RunIds)
    /\ Wanted \subseteq RunIds
    /\ Times \subseteq Nat \ {0}
    /\ Limit \in Nat \ {0} /\ Keep \in Nat \ {0}
    /\ NoRun \notin RunIds

VARIABLES
    stamp,      \* recorded_ts of every run that has one, 0 before
    committed,  \* rows in the journal
    pending,    \* the run each writer is recording
    pruning,    \* writers whose row is in and who have still to prune
    cursor,     \* <<recorded_ts, id>> the watcher resumes after
    shown,      \* runs it has printed
    missed,     \* runs pruned before it could print them
    overtaken   \* history: runs committed after one with a later stamp

watchVars == <<stamp, committed, pending, pruning, cursor, shown, missed, overtaken>>

Key(r) == <<stamp[r], r>>
Before(x, y) == x[1] < y[1] \/ (x[1] = y[1] /\ x[2] < y[2])

\* Default tail semantics on an empty journal: current_cursor() is None, which
\* runs_after reads as "before everything".
WatchInit ==
    /\ stamp = [r \in RunIds |-> 0]
    /\ committed = {}
    /\ pending = [w \in Writers |-> NoRun]
    /\ pruning = {}
    /\ cursor = <<0, 0>>
    /\ shown = {}
    /\ missed = {}
    /\ overtaken = {}

\* record() fills in recorded_ts = time.time(), which may read what it read
\* before, or less, ...
Stamp(w, r) ==
    /\ pending[w] = NoRun /\ w \notin pruning
    /\ stamp[r] = 0
    /\ \E now \in Times : stamp' = [stamp EXCEPT ![r] = now]
    /\ pending' = [pending EXCEPT ![w] = r]
    /\ UNCHANGED <<committed, pruning, cursor, shown, missed, overtaken>>

\* ... packs its blobs, and only then does the INSERT commit, ...
Commit(w) ==
    /\ pending[w] # NoRun
    /\ committed' = committed \cup {pending[w]}
    /\ overtaken' = IF \E q \in committed : Before(Key(pending[w]), Key(q))
                    THEN overtaken \cup {pending[w]} ELSE overtaken
    /\ pending' = [pending EXCEPT ![w] = NoRun]
    /\ pruning' = pruning \cup {w}
    /\ UNCHANGED <<stamp, cursor, shown, missed>>

\* ORDER BY recorded_ts DESC, id DESC LIMIT -1 OFFSET KEEP
Newest == {r \in committed : Cardinality({q \in committed : Before(Key(r), Key(q))}) < Keep}

\* ... and _prune is a transaction of its own.
Prune(w) ==
    /\ w \in pruning
    /\ committed' = Newest
    /\ missed' = missed \cup ((committed \ Newest) \ shown)
    /\ pruning' = pruning \ {w}
    /\ UNCHANGED <<stamp, pending, cursor, shown, overtaken>>

\* The INSERT or the pruning fails and record() returns None.
Abandon(w) ==
    /\ pending[w] # NoRun \/ w \in pruning
    /\ pending' = [pending EXCEPT ![w] = NoRun]
    /\ pruning' = pruning \ {w}
    /\ UNCHANGED <<stamp, committed, cursor, shown, missed, overtaken>>

\* WHERE recorded_ts > ? OR (recorded_ts = ? AND id > ?)
RowsAfter(c) == {r \in committed : Before(c, Key(r))}

Matches(c) == RowsAfter(c) \cap Wanted
MatchesBefore(c, r) == Cardinality({q \in Matches(c) : Before(Key(q), Key(r))})

\* Mutant: every row fetched moves the cursor, those that did not fit too.
ScannedAll(c) == RowsAfter(c)

\* The rows runs_after looks at, in key order, before Limit matches end it.
Scanned(c) == {r \in RowsAfter(c) : MatchesBefore(c, r) < Limit}

Page(c) == {r \in Matches(c) : MatchesBefore(c, r) < Limit}

\* One turn of the watch loop: print the page, resume after the last row
\* scanned, whether or not it matched.
Poll ==
    /\ RowsAfter(cursor) # {}
    /\ shown' = shown \cup Page(cursor)
    /\ \E last \in Scanned(cursor) :
           /\ \A r \in Scanned(cursor) : ~Before(Key(last), Key(r))
           /\ cursor' = Key(last)
    /\ UNCHANGED <<stamp, committed, pending, pruning, missed, overtaken>>

WatchNext ==
    \/ \E w \in Writers, r \in RunIds : Stamp(w, r)
    \/ \E w \in Writers : Commit(w) \/ Prune(w) \/ Abandon(w)
    \/ Poll

\* The watcher keeps polling; nothing is assumed of the writers.
WatchSpec == WatchInit /\ [][WatchNext]_watchVars
WatchFairSpec == WatchSpec /\ WF_watchVars(Poll)

-----------------------------------------------------------------------------
(* Properties *)

\* What the watcher has moved past it has printed: a run that matches its
\* filters and is behind the cursor unprinted was committed after a run with a
\* later key: another writer's, for record() reads recorded_ts before its
\* INSERT, or its own when the clock was set back or stood still between two
\* ids.
NoRunSkipped ==
    \A r \in committed \cap Wanted :
        ~Before(cursor, Key(r)) => r \in shown \cup overtaken

\* No run is printed twice, even when pages are cut off by the limit or rows
\* the cursor names have been pruned.
PrintedOnce == Page(cursor) \cap shown = {}

\* The watcher shows what matches exactly once.
WatchedExactly == NoRunSkipped /\ PrintedOnce

\* Every matching run is printed, unless it is pruned first or was overtaken.
EventuallyPrinted ==
    \A r \in Wanted : r \in committed ~> r \in shown \cup missed \cup overtaken

=============================================================================
