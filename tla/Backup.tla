------------------------------- MODULE Backup -------------------------------
(***************************************************************************)
(* BACKUP TO (Database::start_backup): a checkpoint, then a copy of the    *)
(* files of the directory, one by one, while sessions and the checkpointer *)
(* go on.  The log is in a directory of its own and is not copied, so a    *)
(* copy that is opened has what .raw and .vindex give.  The files' order   *)
(* is that of directory_iterator: any.                                     *)
(***************************************************************************)
EXTENDS Recovery

CONSTANT MaxBackups     \* bound: BACKUP statements

Files == {"raw", "vindex"}

VARIABLES
    stage,      \* "none", "ask", "begun", "copying" or "done"
    todo,       \* the files not copied yet
    copy,       \* the copies
    backups,    \* BACKUP statements so far
    due,        \* ghost: the rows acknowledged before BACKUP was called
    moved       \* ghost: .vindex was rewritten while the files were copied

backupVars == <<stage, todo, copy, backups, due, moved>>
allVars == <<vars, backupVars>>

NoCopy == [raw |-> <<>>, vindex |-> NoFile]

BackupInit ==
    /\ Init
    /\ stage = "none" /\ todo = {} /\ copy = NoCopy /\ backups = 0
    /\ due = {} /\ moved = FALSE

\* The statement waits for checkpoint_exec_mtx_.
BackupAsk ==
    /\ state = "open" /\ stage \in {"none", "done"} /\ backups < MaxBackups
    /\ stage' = "ask" /\ backups' = backups + 1
    /\ due' = {a.row : a \in acked}
    /\ copy' = NoCopy /\ moved' = FALSE
    /\ UNCHANGED <<vars, todo>>

\* Mutant: a checkpoint that is running is taken for the statement's own.
BackupCheckpointShared ==
    /\ stage = "ask" /\ ckpt # "idle"
    /\ stage' = "begun"
    /\ UNCHANGED <<vars, todo, copy, backups, due, moved>>

\* Its own checkpoint begins.
BackupCheckpoint ==
    /\ stage = "ask" /\ CkptBegin
    /\ stage' = "begun"
    /\ UNCHANGED <<todo, copy, backups, due, moved>>

\* That checkpoint is through: backup_in_progress_ is set, the copy begins.
BackupStart ==
    /\ stage = "begun" /\ ckpt = "idle"
    /\ stage' = "copying" /\ todo' = Files
    /\ UNCHANGED <<vars, copy, backups, due, moved>>

\* copy_file.
CopyFile(f) ==
    /\ stage = "copying" /\ f \in todo
    /\ copy' = IF f = "raw" THEN [copy EXCEPT !.raw = file] ELSE [copy EXCEPT !.vindex = vfile]
    /\ todo' = todo \ {f}
    /\ UNCHANGED <<vars, stage, backups, due, moved>>

\* copy_file throws: the statement fails, and what was copied stays.
CopyFails ==
    /\ stage = "copying" /\ todo # {}
    /\ stage' = "none" /\ todo' = {} /\ copy' = NoCopy /\ due' = {} /\ moved' = FALSE
    /\ UNCHANGED <<vars, backups>>

\* backup_in_progress_ is cleared and backup.meta, which nothing reads, written.
BackupEnd ==
    /\ stage = "copying" /\ todo = {}
    /\ stage' = "done"
    /\ UNCHANGED <<vars, todo, copy, backups, due, moved>>

\* Any step of the database; a backup ends with its process.
DatabaseStep ==
    LET halts == state = "open" /\ state' # "open" /\ stage # "done"
    IN /\ Next
       /\ moved' = (moved \/ (stage = "copying" /\ vfile' # vfile))
       /\ stage' = IF halts THEN "none" ELSE stage
       /\ todo' = IF halts THEN {} ELSE todo
       /\ UNCHANGED <<copy, backups, due>>

BackupNext ==
    \/ DatabaseStep
    \/ BackupAsk \/ BackupCheckpoint \/ BackupStart
    \/ \E f \in Files : CopyFile(f)
    \/ CopyFails \/ BackupEnd

BackupSpec == BackupInit /\ [][BackupNext]_allVars

-----------------------------------------------------------------------------
(* The copy, opened.                                                       *)

\* load_vindex, or rebuild_vindex_from_pages.
CopiedIndex ==
    IF copy.vindex.st = "ok" THEN copy.vindex.entries ELSE [i \in DOMAIN copy.raw |-> copy.raw[i].page % TsSpan]

\* The rows a scan of the opened copy finds.
CopiedRows ==
    {copy.raw[i].row : i \in {j \in DOMAIN copy.raw \cap DOMAIN CopiedIndex : Committed(CopiedIndex[j])}}

\* A backup has every row whose COMMIT or INSERT was acknowledged before BACKUP
\* was called.
BackupComplete == stage = "done" => due \ excused \subseteq CopiedRows

\* A backup shows a transaction whole or not at all, and only if it committed;
\* unless the checkpointer rewrote .vindex while the files were copied, or the
\* database has been through a restart, which may itself mix transactions.
BackupAtomic ==
    stage = "done" /\ ~moved /\ restarts = 0 =>
        \A i \in DOMAIN copy.raw : copy.raw[i].row.tx # 0 /\ copy.raw[i].row \in CopiedRows =>
            /\ \E w \in wonTx : w = <<copy.raw[i].row.proc, copy.raw[i].row.tx>>
            /\ \A a \in acked : a.row.tx = copy.raw[i].row.tx /\ a.row.proc = copy.raw[i].row.proc
                  => a.row \in CopiedRows
=============================================================================
