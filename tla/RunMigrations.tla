--------------------------- MODULE RunMigrations ---------------------------
(***************************************************************************)
(* Schema migrations of the run store (clozn/runs/migrations.py): every    *)
(* process that opens the database calls migrate(), which lists the        *)
(* pending steps first and then runs each in a BEGIN IMMEDIATE ... COMMIT  *)
(* of its own, looking at the ledger again inside.                         *)
(*                                                                         *)
(* An effect of a step is one DDL or DML statement.  The database starts   *)
(* empty or as the legacy store that _ensure() made: the objects of step 1 *)
(* without a ledger row.                                                   *)
(***************************************************************************)
EXTENDS Naturals, FiniteSets, FiniteSetsExt

CONSTANTS
    Openers,    \* processes opening the store
    Versions,   \* versions of MIGRATIONS
    Parts,      \* number of statements of a step
    MaxFails,   \* bound of the model: failures in a behaviour
    NoTx        \* no transaction holds the write lock

ASSUME MigrationsAssumption ==
    /\ Versions \subseteq Nat \ {0} /\ IsFiniteSet(Versions)
    /\ Parts \in Nat \ {0} /\ MaxFails \in Nat
    /\ NoTx \notin Openers

VARIABLES
    objects,    \* committed effects: <<version, part>>
    ledger,     \* committed migration:<version> rows
    schemaVersion, \* committed schema_version row, 0 when absent
    writer,     \* the opener inside BEGIN IMMEDIATE
    draft,      \* statements executed inside the open transaction
    list,       \* versions an opener still has to look at
    migAt,      \* where each opener is
    fails,      \* failures so far, for the bound
    commits,    \* history: how often a step was committed
    dropped     \* history: the schema lost an object after a step committed

migVars == <<objects, ledger, schemaVersion, writer, draft, list, migAt, fails,
             commits, dropped>>

StepParts(v) == {v} \X (1..Parts)

\* verify(db): every object of the step is there.
Verified(v) == StepParts(v) \subseteq objects

\* pending(): no ledger row, or a row whose objects are missing.
Pending == {v \in Versions : v \notin ledger \/ ~Verified(v)}

\* pending() is ascending: migrate() takes the lowest version first.
Step(o) == Min(list[o])

MigInit ==
    /\ objects \in {{}, StepParts(Min(Versions))}
    /\ ledger = {} /\ schemaVersion = 0
    /\ writer = NoTx /\ draft = {}
    /\ list = [o \in Openers |-> {}]
    /\ migAt = [o \in Openers |-> "closed"]
    /\ fails = 0
    /\ commits = [v \in Versions |-> 0]
    /\ dropped = FALSE

\* migrate() lists the pending steps outside any transaction.
ListPending(o) ==
    /\ migAt[o] = "closed"
    /\ list' = [list EXCEPT ![o] = Pending]
    /\ migAt' = [migAt EXCEPT ![o] = "loop"]
    /\ UNCHANGED <<objects, ledger, schemaVersion, writer, draft, fails, commits,
                   dropped>>

\* BEGIN IMMEDIATE waits for the write lock; a step that another opener has
\* applied meanwhile is rolled back and skipped.
BeginStep(o) ==
    LET v == Step(o)
        already == v \in ledger /\ Verified(v)
    IN  /\ migAt[o] = "loop" /\ list[o] # {} /\ writer = NoTx
        /\ writer' = IF already THEN NoTx ELSE o
        /\ draft' = {}
        /\ list' = IF already THEN [list EXCEPT ![o] = @ \ {v}] ELSE list
        /\ migAt' = IF already THEN migAt ELSE [migAt EXCEPT ![o] = "apply"]
        /\ UNCHANGED <<objects, ledger, schemaVersion, fails, commits,
                   dropped>>

\* One statement: CREATE ... IF NOT EXISTS, ADD COLUMN when absent, UPDATE.
Execute(o) ==
    /\ migAt[o] = "apply"
    /\ \E part \in 1..Parts :
          /\ part = Cardinality(draft) + 1
          /\ draft' = draft \cup {<<Step(o), part>>}
    /\ UNCHANGED <<objects, ledger, schemaVersion, writer, list, migAt, fails, commits,
                   dropped>>

\* Mutant: the ledger row and the statements are committed one by one.
CommitEarly(o) ==
    LET v == Step(o)
    IN  /\ migAt[o] = "apply"
        /\ objects' = objects \cup draft
        /\ ledger' = ledger \cup {v} /\ schemaVersion' = v
        /\ commits' = [commits EXCEPT ![v] = @ + 1]
        /\ list' = [list EXCEPT ![o] = @ \ {v}]
        /\ writer' = NoTx /\ draft' = {}
        /\ migAt' = [migAt EXCEPT ![o] = "loop"]
        /\ UNCHANGED <<fails, dropped>>

\* The ledger row and schema_version, then COMMIT: all of it or nothing.
CommitStep(o) ==
    LET v == Step(o)
    IN  /\ migAt[o] = "apply" /\ draft = StepParts(v)
        /\ objects' = objects \cup draft
        /\ ledger' = ledger \cup {v} /\ schemaVersion' = v
        /\ commits' = [commits EXCEPT ![v] = @ + 1]
        /\ list' = [list EXCEPT ![o] = @ \ {v}]
        /\ writer' = NoTx /\ draft' = {}
        /\ migAt' = [migAt EXCEPT ![o] = "loop"]
        /\ UNCHANGED <<fails, dropped>>

GiveUpOpening(o) ==
    /\ fails < MaxFails /\ fails' = fails + 1
    /\ list' = [list EXCEPT ![o] = {}]
    /\ migAt' = [migAt EXCEPT ![o] = "closed"]
    /\ UNCHANGED <<objects, ledger, schemaVersion, commits, dropped>>

\* Mutant: the exception leaves the transaction open.
FailWithoutRollback(o) ==
    /\ migAt[o] = "apply"
    /\ GiveUpOpening(o)
    /\ UNCHANGED <<writer, draft>>

\* A statement raises (ROLLBACK, and the exception ends migrate()), or the
\* process dies: the transaction leaves nothing behind.  The store is opened
\* again later.
StepFails(o) ==
    /\ migAt[o] = "apply"
    /\ writer' = NoTx /\ draft' = {}
    /\ GiveUpOpening(o)

\* BEGIN IMMEDIATE gives up after the busy timeout: "database is locked".
BeginTimesOut(o) ==
    /\ migAt[o] = "loop" /\ list[o] # {} /\ writer # NoTx
    /\ GiveUpOpening(o)
    /\ UNCHANGED <<writer, draft>>

Migrated(o) ==
    /\ migAt[o] = "loop" /\ list[o] = {}
    /\ migAt' = [migAt EXCEPT ![o] = "open"]
    /\ UNCHANGED <<objects, ledger, schemaVersion, writer, draft, list, fails, commits,
                   dropped>>

\* Another program drops the runs table, and with it what later steps added to
\* it, or what a later step added alone.
DropObjects ==
    /\ ~dropped /\ writer = NoTx
    /\ \E v \in ledger : objects' = objects \ UNION {StepParts(u) :
                                                     u \in {w \in Versions : w >= v}}
    /\ dropped' = TRUE
    /\ UNCHANGED <<ledger, schemaVersion, writer, draft, list, migAt, fails, commits>>

Opener(o) ==
    \/ ListPending(o) \/ BeginStep(o) \/ Execute(o) \/ CommitStep(o)
    \/ Migrated(o)

MigNext ==
    \/ DropObjects
    \/ \E o \in Openers : Opener(o) \/ StepFails(o) \/ BeginTimesOut(o)

\* Every opener goes on, and SQLite's lock is granted to one that keeps asking.
MigFairness ==
    \A o \in Openers : WF_migVars(Opener(o)) /\ SF_migVars(BeginStep(o))

MigSpec == MigInit /\ [][MigNext]_migVars /\ MigFairness

-----------------------------------------------------------------------------
(* Properties *)

\* "A failure at step N leaves the DB at EXACTLY version N-1": the ledger never
\* skips a version, and every version it claims has all its objects, unless
\* something else dropped one.
LedgerTruthful ==
    /\ \A v \in ledger, u \in Versions : u < v => u \in ledger
    /\ ~dropped => \A v \in ledger : Verified(v)

\* However many processes open the store at once, and wherever they fail, a
\* step is committed once; a second time only to repair a dropped object.
AppliedOnce ==
    \A v \in Versions : commits[v] <= IF dropped THEN 2 ELSE 1

\* Every process that starts to open the store gets it, however the openers wait for
\* one another and whichever steps failed before.
EveryOpenerGetsTheStore ==
    \A o \in Openers : (migAt[o] = "loop") ~> (migAt[o] = "open")

\* The coarse schema_version never falls back behind the ledger: openers that
\* apply steps out of step with one another leave it at the newest version.
StampIsNewest == dropped \/ schemaVersion = (IF ledger = {} THEN 0 ELSE Max(ledger))

\* What the store says of itself is true, and was done once.
LedgerSound == LedgerTruthful /\ AppliedOnce /\ StampIsNewest

=============================================================================
