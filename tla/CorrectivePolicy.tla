-------------------------- MODULE CorrectivePolicy --------------------------
(***************************************************************************)
(* Corrective retries (clozn/server/routes/corrective_retries.py,          *)
(* clozn/behavior/corrective_retries.py, clozn/replay/corrective.py): a    *)
(* retry is replayed twice, as a baseline and with the correction, and a   *)
(* correction that showed in the second is made a standing policy of a     *)
(* session or of a profile, with a transaction to undo it.                 *)
(*                                                                         *)
(* A session's policy and the transactions are one file; a profile's       *)
(* policy is another, so its activation and its undo write two files and   *)
(* put the first back when the second write fails.  The handlers are POSTs *)
(* and run one at a time; writes fail and the gateway dies at any point.   *)
(***************************************************************************)
EXTENDS Naturals, Sequences, SequencesExt

CONSTANTS
    Presets,      \* keys of CORRECTION_PRESETS
    Sessions,     \* session keys
    Profiles,     \* names of saved profiles
    TxKept,       \* transactions _load keeps: 200
    MaxTx,        \* bound of the model: activations in a behaviour
    MaxRevision   \* bound of the model: revisions of a session

ASSUME PolicyAssumption ==
    /\ Sessions \cap Profiles = {}
    /\ TxKept \in Nat \ {0} /\ MaxTx \in Nat /\ MaxRevision \in Nat

VARIABLES
    policy,       \* presets in force for each session and profile, in order
    revision,     \* of a session; 0 when the file has no entry for it
    log,          \* the transactions of the file, oldest first
    given,        \* transactions made so far: the next id
    at,           \* where the handler is: "idle" or the second write
    work,         \* what the handler is writing: [target, tx, now]
    lastWrite,    \* history: the activation that made a target's policy, or 0
    orphaned,     \* history: transactions whose session lost its entry since
    torn          \* history: profiles left between their two files

policyVars == <<policy, revision, log, given, at, work, lastWrite,
                orphaned, torn>>

Targets == Sessions \cup Profiles
Of(t) == {log[i].id : i \in {j \in 1..Len(log) : log[j].target = t}}
NoWork == [target |-> "none"]

Kept(txs) == IF Len(txs) > TxKept
             THEN SubSeq(txs, Len(txs) - TxKept + 1, Len(txs)) ELSE txs

PolicyInit ==
    /\ policy = [t \in Targets |-> <<>>]
    /\ revision = [s \in Sessions |-> 0]
    /\ log = <<>> /\ given = 0
    /\ at = "idle" /\ work = NoWork
    /\ lastWrite = [t \in Targets |-> 0]
    /\ orphaned = {} /\ torn = {}

-----------------------------------------------------------------------------
(* POST /runs/<id>/corrective-retry *)

\* _transaction(scope, target, before, after).
Transaction(t, after, rev) ==
    [id |-> given + 1, target |-> t, before |-> policy[t], after |-> after,
     rev |-> rev, undone |-> FALSE]

\* A retry that ends without a policy writes nothing: scope "once", a failed
\* replay, a degenerate candidate, a correction that did not reach the prompt,
\* a preset that is in force already, an unreadable store.

\* activate("session", ...): entry and transaction in one atomic write.  A
\* failed write raises and leaves the file alone.
ActivateSession(s, preset) ==
    LET rev == revision[s] + 1
        after == Append(policy[s], preset)
    IN  /\ at = "idle" /\ given < MaxTx /\ rev <= MaxRevision
        /\ ~Contains(policy[s], preset)
        /\ given' = given + 1
        /\ log' = Append(Kept(log), Transaction(s, after, rev))
        /\ policy' = [policy EXCEPT ![s] = after]
        /\ revision' = [revision EXCEPT ![s] = rev]
        /\ lastWrite' = [lastWrite EXCEPT ![s] = given + 1]
        /\ UNCHANGED <<at, work, orphaned, torn>>

\* activate("profile", ...), first file: store.save(profile).
ActivateProfile(p, preset) ==
    LET after == Append(policy[p], preset)
    IN  /\ at = "idle" /\ given < MaxTx
        /\ ~Contains(policy[p], preset)
        /\ given' = given + 1
        /\ policy' = [policy EXCEPT ![p] = after]
        /\ lastWrite' = [lastWrite EXCEPT ![p] = given + 1]
        /\ at' = "record"
        /\ work' = [target |-> p, old |-> policy[p],
                    log |-> Append(Kept(log), Transaction(p, after, 0))]
        /\ UNCHANGED <<revision, log, orphaned, torn>>

\* Second file: the transactions as loaded before, with this one.
Record ==
    /\ at = "record"
    /\ log' = work.log
    /\ at' = "idle" /\ work' = NoWork
    /\ UNCHANGED <<policy, revision, given, lastWrite, orphaned, torn>>

\* The second write raised: the profile is written back, and the error goes on.
PutProfileBack ==
    /\ at = "record"
    /\ policy' = [policy EXCEPT ![work.target] = work.old]
    /\ at' = "idle" /\ work' = NoWork
    /\ UNCHANGED <<revision, log, given, lastWrite, orphaned, torn>>

\* Both writes failed, or the gateway died between them.
Tear ==
    /\ at = "record"
    /\ torn' = torn \cup {work.target}
    /\ at' = "idle" /\ work' = NoWork
    /\ UNCHANGED <<policy, revision, log, given, lastWrite, orphaned>>

-----------------------------------------------------------------------------
(* POST /corrective-retries/<id>/undo *)

Live(i) == i \in 1..Len(Kept(log)) /\ ~Kept(log)[i].undone
Undone(i) == [Kept(log) EXCEPT ![i].undone = TRUE]

\* Mutant: the undo does not compare the session with what it is to undo.
UndoAnySession(i) ==
    LET tx == Kept(log)[i]
        s == tx.target
    IN  /\ at = "idle" /\ Live(i) /\ s \in Sessions
        /\ revision[s] < MaxRevision
        /\ policy' = [policy EXCEPT ![s] = tx.before]
        /\ revision' = [revision EXCEPT ![s] =
                            IF tx.before = <<>> THEN 0 ELSE @ + 1]
        /\ log' = Undone(i)
        /\ lastWrite' = [lastWrite EXCEPT ![s] = 0]
        /\ orphaned' = orphaned \cup (IF tx.before = <<>> THEN Of(s) ELSE {})
        /\ UNCHANGED <<given, at, work, torn>>

\* Refused unless the session is as this transaction left it, presets and
\* revision; a session with nothing left loses its entry.
UndoSession(i) ==
    LET tx == Kept(log)[i]
        s == tx.target
    IN  /\ at = "idle" /\ Live(i) /\ s \in Sessions
        /\ policy[s] = tx.after /\ revision[s] = tx.rev
        /\ revision[s] < MaxRevision
        /\ policy' = [policy EXCEPT ![s] = tx.before]
        /\ revision' = [revision EXCEPT ![s] =
                            IF tx.before = <<>> THEN 0 ELSE @ + 1]
        /\ log' = Undone(i)
        /\ lastWrite' = [lastWrite EXCEPT ![s] = 0]
        /\ orphaned' = orphaned \cup (IF tx.before = <<>> THEN Of(s) ELSE {})
        /\ UNCHANGED <<given, at, work, torn>>

\* A profile has no revision: its presets are compared alone.  Two files again.
UndoProfile(i) ==
    LET tx == Kept(log)[i]
        p == tx.target
    IN  /\ at = "idle" /\ Live(i) /\ p \in Profiles
        /\ policy[p] = tx.after
        /\ policy' = [policy EXCEPT ![p] = tx.before]
        /\ lastWrite' = [lastWrite EXCEPT ![p] = 0]
        /\ at' = "record"
        /\ work' = [target |-> p, old |-> policy[p], log |-> Undone(i)]
        /\ UNCHANGED <<revision, log, given, orphaned, torn>>

-----------------------------------------------------------------------------
(* The environment *)

\* SESSION_TTL_SECONDS after its last change _load no longer sees a session.
Expire(s) ==
    /\ at = "idle" /\ revision[s] > 0
    /\ policy' = [policy EXCEPT ![s] = <<>>]
    /\ revision' = [revision EXCEPT ![s] = 0]
    /\ lastWrite' = [lastWrite EXCEPT ![s] = 0]
    /\ orphaned' = orphaned \cup Of(s)
    /\ UNCHANGED <<log, given, at, work, torn>>

\* Sessions and Profiles are disjoint, so one index of the log is one kind.
PolicyNext ==
    \/ \E preset \in Presets : \/ \E s \in Sessions : ActivateSession(s, preset)
                               \/ \E p \in Profiles : ActivateProfile(p, preset)
    \/ \E i \in 1..TxKept : UndoSession(i) \/ UndoProfile(i)
    \/ Record \/ PutProfileBack \/ Tear
    \/ \E s \in Sessions : Expire(s)

PolicySpec == PolicyInit /\ [][PolicyNext]_policyVars

-----------------------------------------------------------------------------
(* Properties *)

\* Every policy in force can be accounted for by the log, also after writes
\* that failed half-way: it is what the newest transaction of its target made,
\* or what the undo of one restored.  Only a target whose two files were torn
\* apart, or whose transactions the log has dropped, is excused.
PolicyAccounted ==
    \A t \in Targets :
        \/ policy[t] = <<>> \/ t \in torn \/ at = "record"
        \/ given > TxKept
        \/ \E i \in 1..Len(log) :
              /\ log[i].target = t
              /\ policy[t] = IF log[i].undone THEN log[i].before
                             ELSE log[i].after

\* The transactions that a step marks as undone.
NowUndone ==
    {log[i] : i \in {j \in 1..Len(log) :
                        \E k \in 1..Len(log') : /\ log'[k].id = log[j].id
                                                /\ log'[k].undone # log[j].undone}}

\* While a session keeps its entry, an undo is only accepted for the transaction that
\* made the policy in force: neither a later activation nor an earlier undo of
\* it is overwritten, in whatever order the undo links are used.
UndoTakesItsOwn ==
    [][\A rec \in NowUndone :
          rec.target \in Sessions /\ rec.id \notin orphaned
          => lastWrite[rec.target] = rec.id]_policyVars

\* Both, over a whole behaviour: the log accounts for the policies in force and
\* an undo takes back its own activation.
PolicySound == []PolicyAccounted /\ UndoTakesItsOwn

=============================================================================
