----------------------------- MODULE Experiment -----------------------------
(***************************************************************************)
(* `clozn experiment run` (clozn/experiments/suite.py) and the gate over   *)
(* its result, `clozn ci check --experiment` (clozn/cli/commands/          *)
(* ci_check.py).  run_manifest takes the variants in turn; for one with    *)
(* dials it sets the dials of a gateway that others use as well, asks for  *)
(* every case, and puts the dials back.  Every request can fail, and a     *)
(* request that failed for the client may have been served all the same.   *)
(***************************************************************************)
EXTENDS Integers, Sequences, FiniteSets, SequencesExt

CONSTANTS
    Dials,              \* the gateway's axes, in their order
    DialValues,         \* their values, 0 among them
    Variants,           \* a sequence: the dials a variant asks for, as a function
                        \* on some of them, or NoDials; the first is the baseline
    Cases,              \* suite x case x seed, as one sequence
    Identities,         \* models that can stand behind the URL
    NoDials, NoRunId,   \* None
    MaxOthers           \* bound of the model: what others do on the gateway

Axes == ToSet(Dials)

\* validate_manifest refuses a manifest without a variant, and one that repeats
\* a seed, or the name of a case in its suite.
ASSUME ExperimentAssumption ==
    /\ 0 \in DialValues /\ MaxOthers \in Nat
    /\ Dials \in Seq(Axes) /\ NoDials \notin [Axes -> DialValues]
    /\ Cases \in Seq(ToSet(Cases)) /\ IsInjective(Cases)
    /\ Variants \in Seq(ToSet(Variants)) /\ Variants # <<>>
    /\ \A v \in DOMAIN Variants :
          \/ Variants[v] = NoDials
          \/ \A d \in DOMAIN Variants[v] : Variants[v][d] \in DialValues

VARIABLES
    dialState,  \* the gateway's dials
    serving,    \* the model behind it
    journalOf,  \* the journal: who asked for each run and under what, newest last
    expAt,      \* where run_manifest stands
    variant,    \* index of the variant
    toDo,       \* dials still to be set, or cases still to be asked for, in order
    priorDials, \* prior, NoDials while none was read
    askedCase,      \* the case whose completion was answered, with the id it named
    matrix,     \* the cells of the result
    raised,     \* "no", "error": the exception that leaves the `with` block, or
                \* "interrupt"
    original,   \* history: the dials before the experiment
    touched,    \* history: somebody else set a dial
    unrestored, \* history: a dial could not be put back
    others      \* what others did so far

gatewayVars == <<dialState, serving, journalOf>>
expVars == <<gatewayVars, expAt, variant, toDo, priorDials, askedCase, matrix, raised,
             original, touched, unrestored, others>>

NoCase == [case |-> NoRunId, id |-> NoRunId]
Statuses == {"pass", "fail"}

ExperimentInit ==
    /\ dialState \in [Axes -> DialValues] /\ original = dialState
    /\ serving \in Identities
    /\ journalOf = <<>>
    /\ expAt = "variant" /\ variant = 1 /\ toDo = <<>> /\ priorDials = NoDials
    /\ askedCase = NoCase /\ matrix = {} /\ raised = "no"
    /\ touched = FALSE /\ unrestored = FALSE /\ others = 0

-----------------------------------------------------------------------------
(* A variant begins: dial_state *)

\* A cell: `copy` counts the ones its coordinate has already.
Cell(c, status, id) ==
    [variant |-> variant, case |-> c, status |-> status, run |-> id,
     copy |-> Cardinality({x \in matrix : x.variant = variant /\ x.case = c})]

Appended(c, status, id) == matrix \cup {Cell(c, status, id)}

\* except Exception: an error cell for every case.
AllErrors == matrix \cup {Cell(c, "error", NoRunId) : c \in ToSet(Cases)}

Advance ==
    /\ expAt' = IF variant < Len(Variants) THEN "variant" ELSE "done"
    /\ variant' = IF variant < Len(Variants) THEN variant + 1 ELSE variant
    /\ toDo' = <<>> /\ priorDials' = NoDials

Desired == Variants[variant]

StartPlain ==
    /\ expAt = "variant" /\ Desired = NoDials
    /\ expAt' = "cells" /\ toDo' = Cases
    /\ UNCHANGED <<gatewayVars, variant, priorDials, askedCase, matrix, raised,
                   original, touched, unrestored, others>>

\* /steer/axes fails, or does not know a dial: the variant is lost before a
\* dial was touched.
AxesFail ==
    /\ expAt = "variant" /\ Desired # NoDials
    /\ matrix' = AllErrors
    /\ Advance
    /\ UNCHANGED <<gatewayVars, askedCase, raised, original, touched, unrestored, others>>

ReadAxes ==
    /\ expAt = "variant" /\ Desired # NoDials /\ DOMAIN Desired \subseteq Axes
    /\ priorDials' = dialState
    /\ expAt' = "arm" /\ toDo' = Dials
    /\ UNCHANGED <<gatewayVars, variant, askedCase, matrix, raised,
                   original, touched, unrestored, others>>

\* Mutant: only the dials the variant names are set.
DialForNamedOnly(d) == IF d \in DOMAIN Desired THEN Desired[d] ELSE dialState[d]

\* desired.get(name, 0.0)
DialFor(d) == IF d \in DOMAIN Desired THEN Desired[d] ELSE 0

\* The last dial set opens the `with` block.
Arm(d) ==
    /\ expAt = "arm" /\ toDo # <<>> /\ d = Head(toDo)
    /\ dialState' = [dialState EXCEPT ![d] = DialFor(d)]
    /\ IF Len(toDo) = 1 THEN expAt' = "cells" /\ toDo' = Cases
                        ELSE expAt' = expAt /\ toDo' = Tail(toDo)
    /\ UNCHANGED <<serving, journalOf, variant, priorDials, askedCase, matrix, raised,
                   original, touched, unrestored, others>>

\* A /steer/set fails, served or not: the finally block runs.
ArmFails(d) ==
    /\ expAt = "arm" /\ toDo # <<>> /\ d = Head(toDo)
    /\ dialState' \in {dialState, [dialState EXCEPT ![d] = DialFor(d)]}
    /\ raised' = "error" /\ expAt' = "restore" /\ toDo' = Dials
    /\ UNCHANGED <<serving, journalOf, variant, priorDials, askedCase, matrix,
                   original, touched, unrestored, others>>

-----------------------------------------------------------------------------
(* A cell *)

RunOf(c) == [variant |-> variant, case |-> c, dials |-> dialState, sha |-> serving]

\* The completion is answered: with the id of its run, or, when the run was not
\* journaled, with none.
AskCase(c) ==
    /\ expAt = "cells" /\ askedCase = NoCase /\ toDo # <<>> /\ c = Head(toDo)
    /\ \/ /\ journalOf' = Append(journalOf, RunOf(c))
          /\ askedCase' = [case |-> c, id |-> Len(journalOf) + 1]
       \/ askedCase' = [case |-> c, id |-> NoRunId] /\ UNCHANGED journalOf
    /\ UNCHANGED <<dialState, serving, expAt, variant, toDo, priorDials, matrix, raised,
                   original, touched, unrestored, others>>

\* The completion fails, served or not.
AskFails(c) ==
    /\ expAt = "cells" /\ askedCase = NoCase /\ toDo # <<>> /\ c = Head(toDo)
    /\ journalOf' \in {journalOf, Append(journalOf, RunOf(c))}
    /\ matrix' = Appended(c, "error", NoRunId)
    /\ toDo' = Tail(toDo)
    /\ UNCHANGED <<dialState, serving, expAt, variant, priorDials, askedCase, raised,
                   original, touched, unrestored, others>>

\* The run is fetched, by its id or else the newest of the journal, and scored;
\* without one, or if the fetch fails, the cell is an error.
Fetch ==
    /\ askedCase # NoCase
    /\ LET id == IF askedCase.id # NoRunId THEN askedCase.id
                 ELSE IF journalOf # <<>> THEN Len(journalOf) ELSE NoRunId
       IN \/ \E status \in Statuses :
                /\ id # NoRunId
                /\ matrix' = Appended(askedCase.case, status, id)
          \/ matrix' = Appended(askedCase.case, "error", NoRunId)
    /\ toDo' = Tail(toDo) /\ askedCase' = NoCase
    /\ UNCHANGED <<gatewayVars, expAt, variant, priorDials, raised,
                   original, touched, unrestored, others>>

CellsDone ==
    /\ expAt = "cells" /\ toDo = <<>>
    /\ IF priorDials = NoDials
       THEN Advance
       ELSE expAt' = "restore" /\ toDo' = Dials /\ UNCHANGED <<variant, priorDials>>
    /\ UNCHANGED <<gatewayVars, askedCase, matrix, raised, original, touched, unrestored, others>>

\* ^C: not an Exception, it passes both handlers.
Interrupt ==
    /\ expAt \in {"variant", "arm", "cells"} /\ raised = "no"
    /\ raised' = "interrupt" /\ askedCase' = NoCase
    /\ IF priorDials = NoDials THEN expAt' = "left" /\ toDo' = <<>>
                               ELSE expAt' = "restore" /\ toDo' = Dials
    /\ UNCHANGED <<gatewayVars, variant, priorDials, matrix, original, touched,
                   unrestored, others>>

-----------------------------------------------------------------------------
(* The finally block *)

RestoreDial(d) ==
    /\ expAt = "restore" /\ toDo # <<>> /\ d = Head(toDo)
    /\ dialState' = [dialState EXCEPT ![d] = priorDials[d]]
    /\ toDo' = Tail(toDo)
    /\ UNCHANGED <<serving, journalOf, expAt, variant, priorDials, askedCase, matrix, raised,
                   original, touched, unrestored, others>>

\* A failed restore is passed over.
RestoreDialFails(d) ==
    /\ expAt = "restore" /\ toDo # <<>> /\ d = Head(toDo)
    /\ toDo' = Tail(toDo) /\ unrestored' = TRUE
    /\ UNCHANGED <<gatewayVars, expAt, variant, priorDials, askedCase, matrix, raised,
                   original, touched, others>>

\* ^C again, or for the first time, in the finally block: the loop is left, and
\* the dials it had not come to, `toDo`, stay as the variant has them.
InterruptRestore ==
    /\ expAt = "restore"
    /\ raised' = "interrupt" /\ expAt' = "left" /\ priorDials' = NoDials
    /\ UNCHANGED <<gatewayVars, variant, toDo, askedCase, matrix, original, touched,
                   unrestored, others>>

\* The `with` block is left: normally, or with its exception.
LeaveWith ==
    /\ expAt = "restore" /\ toDo = <<>>
    /\ matrix' = IF raised = "error" THEN AllErrors ELSE matrix
    /\ IF raised = "interrupt"
       THEN /\ expAt' = "left" /\ priorDials' = NoDials
            /\ UNCHANGED <<variant, toDo, raised>>
       ELSE Advance /\ raised' = "no"
    /\ UNCHANGED <<gatewayVars, askedCase, original, touched, unrestored, others>>

-----------------------------------------------------------------------------
(* Others on the same gateway *)

OtherRun ==
    /\ others < MaxOthers /\ others' = others + 1
    /\ journalOf' = Append(journalOf, [RunOf(NoRunId) EXCEPT !.variant = 0])
    /\ UNCHANGED <<dialState, serving, expAt, variant, toDo, priorDials, askedCase, matrix,
                   raised, original, touched, unrestored>>

OtherSetsDial ==
    /\ others < MaxOthers /\ others' = others + 1
    /\ \E d \in Axes, x \in DialValues : dialState' = [dialState EXCEPT ![d] = x]
    /\ touched' = TRUE
    /\ UNCHANGED <<serving, journalOf, expAt, variant, toDo, priorDials, askedCase, matrix,
                   raised, original, unrestored>>

ModelSwapped ==
    /\ others < MaxOthers /\ others' = others + 1
    /\ serving' \in Identities \ {serving}
    /\ UNCHANGED <<dialState, journalOf, expAt, variant, toDo, priorDials, askedCase, matrix,
                   raised, original, touched, unrestored>>

ExperimentNext ==
    \/ /\ expAt \notin {"done", "left"}
       /\ \/ StartPlain \/ AxesFail \/ ReadAxes \/ Fetch \/ CellsDone
          \/ Interrupt \/ InterruptRestore \/ LeaveWith
          \/ \E d \in Axes : Arm(d) \/ ArmFails(d) \/ RestoreDial(d) \/ RestoreDialFails(d)
          \/ \E c \in ToSet(Cases) : AskCase(c) \/ AskFails(c)
          \/ OtherRun \/ OtherSetsDial \/ ModelSwapped

ExperimentSpec == ExperimentInit /\ [][ExperimentNext]_expVars

-----------------------------------------------------------------------------
(* The gate over the result: gate_experiment_result, its budgets all zero *)

Evidence == {x \in matrix : x.status # "error"}

\* variant_identity_changed
GateFindings ==
    {v \in DOMAIN Variants :
       Cardinality({journalOf[x.run].sha : x \in {y \in Evidence : y.variant = v}}) > 1}

StatusOf(v, c) == (CHOOSE x \in matrix : x.variant = v /\ x.case = c).status

Regressions ==
    {vc \in (2..Len(Variants)) \X ToSet(Cases) :
       StatusOf(1, vc[2]) = "pass" /\ StatusOf(vc[1], vc[2]) # "pass"}

Green == GateFindings = {} /\ matrix = Evidence /\ Regressions = {}

-----------------------------------------------------------------------------
(* Properties *)

\* "The case x variant x seed matrix must be complete and unique": whatever
\* failed on the way, the result that run_manifest returns is one its own
\* validator and the gate accept.
MatrixComplete ==
    expAt = "done" =>
        \A v \in DOMAIN Variants, c \in ToSet(Cases) :
            Cardinality({x \in matrix : x.variant = v /\ x.case = c}) = 1

\* A run that a cell asked for was made under the dials of its variant: exactly
\* those it names and zero for the rest, or, for a variant without dials, the
\* ones the gateway had before the experiment.
CellsUnderTheirDials ==
    ~touched /\ ~unrestored =>
        \A i \in DOMAIN journalOf :
            LET r == journalOf[i] IN
            r.variant > 0 =>
                \A d \in Axes :
                    r.dials[d] = IF Variants[r.variant] = NoDials THEN original[d]
                                 ELSE IF d \in DOMAIN Variants[r.variant]
                                      THEN Variants[r.variant][d] ELSE 0

\* When the command is over, finished or interrupted, after any failure but one of
\* the restore itself, the dials are what they were: all of them, unless a ^C came
\* into the finally block, and then the ones it had got to (AlwaysRestored).
DialsRestored ==
    expAt \in {"done", "left"} /\ ~touched /\ ~unrestored =>
        \A d \in Axes \ ToSet(toDo) : dialState[d] = original[d]

\* "always restore the gateway's prior state": no request failed, nobody else was
\* there, and the command is over.
AlwaysRestored ==
    expAt \in {"done", "left"} /\ ~touched /\ ~unrestored => dialState = original

\* A green gate compares one model per variant, even when the model behind the
\* URL was swapped in the middle of the experiment.
GreenIsOneModel ==
    expAt = "done" /\ Green =>
        \A x, y \in matrix : x.variant = y.variant => journalOf[x.run].sha = journalOf[y.run].sha

\* What the report of an experiment stands on.
ExperimentSound == MatrixComplete /\ CellsUnderTheirDials /\ DialsRestored /\ GreenIsOneModel

=============================================================================
