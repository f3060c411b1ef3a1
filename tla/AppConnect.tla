----------------------------- MODULE AppConnect -----------------------------
(***************************************************************************)
(* `clozn connect aider` and its --undo (clozn/cli/commands/connect.py):   *)
(* three keys are written into a configuration file that belongs to the    *)
(* user, with a backup before and a transaction record after.  Every step  *)
(* can fail or be interrupted, the process can be killed between any two,  *)
(* and the user edits his file whenever he likes.                          *)
(*                                                                         *)
(* A file's content is the version of the user's own text and the setting  *)
(* that the three keys hold; its digest is the content itself.             *)
(***************************************************************************)
EXTENDS Integers, Sequences, SequencesExt

CONSTANTS
    Settings,   \* what --url, --model and --api-key ask for
    Unreadable, \* versions that are not UTF-8 or repeat one of the keys
    NoFile,     \* no file, no setting, no record
    Torn,       \* the content of an incomplete or altered backup
    MostEdits,  \* bound of the model: the user's edits
    MostBackups \* bound of the model: backups

ASSUME ConnectAssumption ==
    /\ MostEdits \in Nat /\ MostBackups \in Nat
    /\ NoFile \notin [user : Nat, conn : Settings \cup {NoFile}]
    /\ Torn \notin [user : Nat, conn : Settings \cup {NoFile}]

VARIABLES
    config,   \* the file, or NoFile
    backups,  \* its backups, oldest first
    tx,       \* ~/.clozn/connect/aider.json, or NoFile
    cmd,      \* the running command and its local variables
    ended,    \* how the last command ended
    edits,    \* the user's edits so far
    own,      \* history: edits made while no command ran, and not undone by himself
    raced,    \* history: the user touched a file during the last command
    told      \* history: the file before the write that `tx` records, and `raced` then

connectVars == <<config, backups, tx, cmd, ended, edits, own, raced, told>>

Idle == [at |-> "idle"]

ConnectInit ==
    /\ config \in {NoFile, [user |-> 0, conn |-> NoFile]}
    /\ backups = <<>> /\ tx = NoFile /\ cmd = Idle /\ ended = "no"
    /\ edits = 0 /\ own = {} /\ raced = FALSE
    /\ told = [prior |-> NoFile, raced |-> FALSE]

End(how) == cmd' = Idle /\ ended' = how

\* A connect that reports failure; what it had read is kept as history.
Fail == cmd' = [at |-> "idle", existing |-> cmd.existing] /\ ended' = "failed"

-----------------------------------------------------------------------------
(* configure_aider *)

\* render_aider_config: only the three keys change.
Rendered(content, s) ==
    IF content = NoFile THEN [user |-> 0, conn |-> s] ELSE [content EXCEPT !.conn = s]

\* The file is read and rendered.  A file it cannot take, and one that is
\* connected that way already, end the command here: nothing changes.
ReadConfig(s) ==
    /\ cmd.at = "idle" /\ Len(backups) < MostBackups
    /\ config # NoFile => config.user \notin Unreadable
    /\ Rendered(config, s) # config
    /\ cmd' = [at |-> IF config = NoFile THEN "write" ELSE "backup",
               existing |-> config, rendered |-> Rendered(config, s), backup |-> 0,
               before |-> NoFile, after |-> NoFile]
    /\ raced' = FALSE /\ ended' = "no"
    /\ UNCHANGED <<config, backups, tx, edits, own, told>>

\* shutil.copy2 of the file as it is now.
Copy ==
    /\ cmd.at = "backup" /\ config # NoFile
    /\ backups' = Append(backups, config)
    /\ cmd' = [cmd EXCEPT !.at = "write", !.backup = Len(backups) + 1]
    /\ UNCHANGED <<config, tx, ended, edits, own, raced, told>>

\* The copy is outside the try block.
CopyFails ==
    /\ cmd.at = "backup"
    /\ backups' \in {backups, Append(backups, Torn)}
    /\ Fail
    /\ UNCHANGED <<config, tx, edits, own, raced, told>>

\* _atomic_write_text
WriteConfig ==
    /\ cmd.at = "write"
    /\ config' = cmd.rendered
    /\ cmd' = [cmd EXCEPT !.at = "hash", !.before = config]
    /\ UNCHANGED <<backups, tx, ended, edits, own, raced, told>>

\* The digest is taken from the file as it is now.
Hash ==
    /\ cmd.at = "hash" /\ config # NoFile
    /\ cmd' = [cmd EXCEPT !.at = "record", !.after = config]
    /\ UNCHANGED <<config, backups, tx, ended, edits, own, raced, told>>

Recorded ==
    /\ tx' = [existed |-> cmd.existing # NoFile, backup |-> cmd.backup,
              before |-> cmd.existing, after |-> cmd.after]
    /\ told' = [prior |-> cmd.before, raced |-> raced]

RecordTx ==
    /\ cmd.at = "record" /\ Recorded
    /\ End("connected")
    /\ UNCHANGED <<config, backups, edits, own, raced>>

\* A step of the try block raises; the record may have been replaced already.
ConnectStepFails ==
    /\ \/ cmd.at \in {"write", "hash", "record"} /\ UNCHANGED <<tx, told>>
       \/ cmd.at = "record" /\ Recorded
    /\ cmd' = [cmd EXCEPT !.at = "rollback"]
    /\ UNCHANGED <<config, backups, ended, edits, own, raced>>

\* The file is put back from the backup, or removed if it is what was written.
RollBack ==
    /\ cmd.at = "rollback"
    /\ config' = IF cmd.existing # NoFile THEN backups[cmd.backup]
                 ELSE IF config = cmd.rendered THEN NoFile ELSE config
    /\ Fail
    /\ UNCHANGED <<backups, tx, edits, own, raced, told>>

\* A failure of the rollback is passed over.
RollBackFails ==
    /\ cmd.at = "rollback"
    /\ End("halfway")
    /\ UNCHANGED <<config, backups, tx, edits, own, raced, told>>

-----------------------------------------------------------------------------
(* undo_aider *)

\* Neither side has drifted.
UndoChecked ==
    /\ tx # NoFile /\ config # NoFile /\ config = tx.after
    /\ tx.existed => backups[tx.backup] = tx.before

StartUndo ==
    /\ cmd.at = "idle" /\ UndoChecked
    /\ cmd' = [at |-> "undo"] /\ raced' = FALSE /\ ended' = "no"
    /\ UNCHANGED <<config, backups, tx, edits, own, told>>

\* Mutant: the newest backup is put back, not the one of the record.
PutConfigBackNewest ==
    /\ cmd.at = "undo"
    /\ config' = IF tx.existed THEN Last(backups) ELSE NoFile
    /\ cmd' = [at |-> "forget"]
    /\ UNCHANGED <<backups, tx, ended, edits, own, raced, told>>

\* _atomic_restore, or unlink.
PutConfigBack ==
    /\ cmd.at = "undo"
    /\ config' = IF tx.existed THEN backups[tx.backup] ELSE NoFile
    /\ cmd' = [at |-> "forget"]
    /\ UNCHANGED <<backups, tx, ended, edits, own, raced, told>>

Forget ==
    /\ cmd.at = "forget"
    /\ tx' = NoFile
    /\ End("undone")
    /\ UNCHANGED <<config, backups, edits, own, raced, told>>

\* Killed; an undo that raises ends the same way.
ConnectKilled ==
    /\ cmd.at # "idle"
    /\ End("killed")
    /\ UNCHANGED <<config, backups, tx, edits, own, raced, told>>

-----------------------------------------------------------------------------
(* The user *)

Race == raced' = (raced \/ cmd.at # "idle") /\ ended' = "no"

EditConfig ==
    /\ edits < MostEdits /\ edits' = edits + 1
    /\ \E conn \in {NoFile, IF config = NoFile THEN NoFile ELSE config.conn} :
          config' = [user |-> edits + 1, conn |-> conn]
    /\ own' = (IF config = NoFile THEN own ELSE own \ {config.user})
                  \cup (IF cmd.at = "idle" THEN {edits + 1} ELSE {})
    /\ Race
    /\ UNCHANGED <<backups, tx, cmd, told>>

DeleteConfig ==
    /\ config # NoFile /\ edits < MostEdits /\ edits' = edits + 1
    /\ config' = NoFile /\ own' = own \ {config.user}
    /\ Race
    /\ UNCHANGED <<backups, tx, cmd, told>>

\* A backup is altered or removed, while no command runs.
SpoilBackup ==
    /\ cmd.at = "idle" /\ edits < MostEdits /\ edits' = edits + 1
    /\ \E i \in DOMAIN backups :
          /\ backups[i] # Torn /\ backups' = [backups EXCEPT ![i] = Torn]
          /\ own' = own \ {backups[i].user}
    /\ Race
    /\ UNCHANGED <<config, tx, cmd, told>>

ConnectNext ==
    \/ \E s \in Settings : ReadConfig(s)
    \/ Copy \/ CopyFails \/ WriteConfig \/ Hash \/ RecordTx \/ ConnectStepFails
    \/ RollBack \/ RollBackFails
    \/ StartUndo \/ PutConfigBack \/ Forget \/ ConnectKilled
    \/ EditConfig \/ DeleteConfig \/ SpoilBackup

ConnectSpec == ConnectInit /\ [][ConnectNext]_connectVars

-----------------------------------------------------------------------------
(* Properties *)

\* An undo gives back the file as it was before the connect it undoes, also
\* after later connects that failed or were killed.
UndoRestores ==
    cmd.at = "forget" /\ ~raced /\ ~told.raced => config = told.prior

\* "backup-before-write", "refusing to overwrite external edits": what the user
\* wrote while no command was running, and did not overwrite or delete himself,
\* is in the file or in a backup, after any sequence of connects and undos,
\* failed and killed ones included.
EditsSurvive ==
    \A v \in own :
        \/ config # NoFile /\ config.user = v
        \/ \E i \in DOMAIN backups : backups[i] # Torn /\ backups[i].user = v

\* "an untracked mutation is never left active": a connect that reports failure,
\* its rollback having worked, leaves the keys of the file as they were.
FailureLeavesNothing ==
    ended = "failed" /\ ~raced => config = cmd.existing

\* The three promises over a whole behaviour.
ConnectSafe == UndoRestores /\ EditsSurvive /\ FailureLeavesNothing

=============================================================================
