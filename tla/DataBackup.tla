----------------------------- MODULE DataBackup -----------------------------
(***************************************************************************)
(* Backup, archive and restore of the index database (lp_data_backup.py).  *)
(* Every command builds its output in a temporary directory, syncs it,     *)
(* checks it and only then publishes it under a name that must be free.    *)
(* Writers commit to the database while it is copied; a published copy may *)
(* rot or be edited; the machine may lose power, and what was not synced   *)
(* with it.  Commands run concurrently.                                    *)
(***************************************************************************)
EXTENDS Naturals, FiniteSets, Absent

CONSTANTS
  Jobs,        \* running commands
  DbPages,     \* pages of the database
  Bad,         \* what a rotten or lost page reads as
  MaxCommits, MaxBackupFaults, MaxJobs

VARIABLES
  database,    \* page -> the commit that wrote it last
  committed,   \* history: every state the database has committed
  published,   \* "backup", "archive", "restored" -> NULL or [data, sum, synced]
  jobs,        \* the commands
  started, backupFaults

backupVars == <<database, committed, published, jobs, started, backupFaults>>

Names == {"backup", "archive", "restored"}

NoCommand == [cmd |-> "none", from |-> NULL, sum |-> NULL, out |-> <<>>,
          synced |-> FALSE, pc |-> "idle"]

BackupInit ==
  /\ database = [p \in DbPages |-> 0]
  /\ committed = {database}
  /\ published = [n \in Names |-> NULL]
  /\ jobs = [j \in Jobs |-> NoCommand]
  /\ started = 0 /\ backupFaults = 0

-----------------------------------------------------------------------------
(* The index process commits: a transaction writes some pages. *)
CommitPages(pages) ==
  LET version == Cardinality(committed)
      state == [p \in DbPages |-> IF p \in pages THEN version ELSE database[p]]
  IN
  /\ version <= MaxCommits
  /\ database' = state
  /\ committed' = committed \cup {state}
  /\ UNCHANGED <<published, jobs, started, backupFaults>>

(* A page of a published copy rots, or is edited, while nobody looks. *)
Rot(name, p) ==
  /\ published[name] # NULL /\ name # "restored" /\ backupFaults < MaxBackupFaults
  /\ published' = [published EXCEPT ![name].data[p] = Bad]
  /\ backupFaults' = backupFaults + 1
  /\ UNCHANGED <<database, committed, jobs, started>>

(* Power is lost: running commands end, pages that were not synced are gone. *)
PowerLoss ==
  /\ backupFaults < MaxBackupFaults
  /\ backupFaults' = backupFaults + 1
  /\ jobs' = [j \in Jobs |-> NoCommand]
  /\ published' = [n \in Names |->
       IF published[n] # NULL /\ ~published[n].synced
       THEN [published[n] EXCEPT !.data = [p \in DbPages |-> Bad]] ELSE published[n]]
  /\ UNCHANGED <<database, committed, started>>

-----------------------------------------------------------------------------
(* _absent: a command refuses a destination that exists. *)
Begin(j, job) ==
  /\ jobs[j].pc = "idle" /\ started < MaxJobs
  /\ published[job.cmd] = NULL
  /\ jobs' = [jobs EXCEPT ![j] = job]
  /\ started' = started + 1
  /\ UNCHANGED <<database, committed, published, backupFaults>>

(* create: the copy is made inside one read transaction, so what it reads is *)
(* the state that was committed when the transaction began.                  *)
CreateBackup(j) ==
  Begin(j, [NoCommand EXCEPT !.cmd = "backup", !.from = "database", !.sum = database, !.pc = "copy"])

(* archive and restore start from a copy's manifest. *)
FromCopy(j, cmd, name) ==
  /\ published[name] # NULL
  /\ Begin(j, [NoCommand EXCEPT !.cmd = cmd, !.from = name, !.sum = published[name].sum, !.pc = "copy"])

ArchiveBackup(j) == FromCopy(j, "archive", "backup")

RestoreBackup(j) == \E name \in {"backup", "archive"} : FromCopy(j, "restored", name)

(* What the command reads for page p just now. *)
Read(job, p) == IF job.from = "database" THEN job.sum[p] ELSE published[job.from].data[p]

(* _copy_bytes, source.backup, CheckedReader: page by page. *)
CopyPage(j, p) ==
  /\ jobs[j].pc = "copy" /\ p \notin DOMAIN jobs[j].out
  /\ jobs' = [jobs EXCEPT ![j].out =
       [q \in DOMAIN @ \cup {p} |-> IF q = p THEN Read(jobs[j], p) ELSE @[q]]]
  /\ UNCHANGED <<database, committed, published, started, backupFaults>>

(* Mutant: the copy is published unhashed. *)
Mutant_TrustedCopy(job) == TRUE

(* The checksum of what was written, against the manifest. *)
CopyMatches(job) == job.out = job.sum

(* The output is flushed and synced. *)
SyncCopy(j) ==
  /\ jobs[j].pc = "copy" /\ DOMAIN jobs[j].out = DbPages
  /\ jobs' = [jobs EXCEPT ![j].pc = "seal", ![j].synced = TRUE]
  /\ UNCHANGED <<database, committed, published, started, backupFaults>>

(* Hash and inspect: a mismatch raises and the staging directory is removed. *)
SealCopy(j) ==
  /\ jobs[j].pc = "seal"
  /\ jobs' = [jobs EXCEPT ![j] = IF CopyMatches(jobs[j]) THEN [@ EXCEPT !.pc = "publish"] ELSE NoCommand]
  /\ UNCHANGED <<database, committed, published, started, backupFaults>>

(* renameat2(RENAME_NOREPLACE), or link: fails when the name is taken. *)
PublishCopy(j) ==
  /\ jobs[j].pc = "publish"
  /\ jobs' = [jobs EXCEPT ![j] = NoCommand]
  /\ published' = [published EXCEPT ![jobs[j].cmd] =
       IF @ # NULL THEN @ ELSE [data |-> jobs[j].out, sum |-> jobs[j].sum, synced |-> jobs[j].synced]]
  /\ UNCHANGED <<database, committed, started, backupFaults>>

(* _guard: the deadline or the free-space reserve ends a command. *)
GiveUp(j) ==
  /\ jobs[j].pc # "idle"
  /\ jobs' = [jobs EXCEPT ![j] = NoCommand]
  /\ UNCHANGED <<database, committed, published, started, backupFaults>>

BackupNext ==
  \/ \E pages \in SUBSET DbPages : CommitPages(pages)
  \/ PowerLoss
  \/ \E n \in Names, p \in DbPages : Rot(n, p)
  \/ \E j \in Jobs :
       \/ CreateBackup(j) \/ ArchiveBackup(j) \/ RestoreBackup(j)
       \/ SyncCopy(j) \/ SealCopy(j) \/ PublishCopy(j) \/ GiveUp(j)
       \/ \E p \in DbPages : CopyPage(j, p)

BackupSpec == BackupInit /\ [][BackupNext]_backupVars

-----------------------------------------------------------------------------
(* A database that restore puts in place is, page for page, one state that *)
(* the source committed: never a mixture of two commits, a rotten copy or  *)
(* a half-written file, through a backup or through an archive of it.      *)
RestoredCommitted ==
  published["restored"] # NULL => published["restored"].data \in committed
=============================================================================
