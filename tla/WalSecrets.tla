----------------------------- MODULE WalSecrets -----------------------------
(***************************************************************************)
(* Write-ahead logs and their secrets, with LOG_ENC.  A WAL is readable    *)
(* only with the key and the hash log::Writer drew for it; CreateWAL       *)
(* records them in the MANIFEST once the file exists, recovery collects    *)
(* them in log_secret, replays the WALs that unflushed data may be in and  *)
(* drops log_secret.  A crash is survived when every WAL from the smallest *)
(* log number of the MANIFEST on has its secret there.                     *)
(*                                                                         *)
(* One writer thread leads (the write thread has one leader); one flush    *)
(* per column family and the deletion of obsolete WALs run beside it.      *)
(* Several flushes of one family commit in the order of their memtables    *)
(* (SstKeys has them), so one at a time stands for them.                   *)
(*                                                                         *)
(* Abstractions:                                                           *)
(*  - a write batch is its number, a WAL the set of batches in it, a       *)
(*    memtable and the tables of a column family sets of batches;          *)
(*  - the secret of a WAL is the incarnation that created the file: the    *)
(*    secret of another incarnation does not verify;                       *)
(*  - only WALs take file numbers, and a table is written when its edit    *)
(*    is (SstKeys has the numbers and the keys of tables);                 *)
(*  - the process crashes, the machine does not: AddRecord has flushed     *)
(*    every record (SecureLog has the torn ones).                          *)
(***************************************************************************)
EXTENDS Naturals, Sequences, FiniteSets, FiniteSetsExt, Functions

CONSTANTS
  CF,                           \* the column families
  default,                      \* kDefaultColumnFamilyName
  MaxWrites,                    \* bound: write batches
  MaxWal,                       \* bound: number of a WAL a switch creates
  MaxBoot,                      \* bound: incarnations of the process
  avoid_flush_during_recovery,
  AllowRoll,                    \* may the MANIFEST reach its size limit?
  AllowManifestError            \* may recording a secret fail?

ASSUME WalSecretsAssumption ==
  /\ IsFiniteSet(CF) /\ default \in CF
  /\ MaxWrites \in Nat /\ MaxWal \in Nat /\ MaxBoot \in Nat
  /\ avoid_flush_during_recovery \in BOOLEAN
  /\ AllowRoll \in BOOLEAN /\ AllowManifestError \in BOOLEAN

VARIABLES
  \* on disk
  wal,              \* the WAL files: number -> secret and batches
  m_tables,         \* MANIFEST: the batches in the tables of each family
  m_log,            \* MANIFEST: log number of each family
  m_secret,         \* MANIFEST: the secrets recorded, by WAL number
  m_next,           \* MANIFEST: next file number
  \* column families
  mem, imm,         \* memtable; sealed ones, oldest first
  tables,           \* batches in the current version
  log_number_,      \* WALs below it hold nothing unflushed of the family
  \* DBImpl and VersionSet
  logfile_number_, log_empty_,
  alive_log_files_,
  next_file_number_,
  log_secret,       \* secrets read from the MANIFEST
  descriptor_log_,  \* is there a MANIFEST open to append to?
  \* the leader of the write thread
  w_pc,             \* "idle", "logged", "switch", "created", "recorded"
  switching,        \* families whose memtable is still to be switched
  new_log_number,
  getting_flushed,  \* the oldest WAL, once SwitchWAL was called for it
  \* background
  f_pc,             \* flush of a family: "none", "picked", "logged", "done"
  mems_,            \* number of memtables it picked
  log_delete_files, \* WALs a purge is going to delete
  \* RecoverLogFiles
  todo,             \* WALs not opened yet
  replaying, rest,  \* the WAL being read, its batches not read yet
  version_edits,    \* batches in tables written by the replay
  flushed,          \* has the replay written a table?
  \* history
  batch,            \* the families a write batch touches, by its number
  acked,            \* batches acknowledged to the client
  window,           \* has a crash hit one of the windows?
  boot, phase       \* "open", "down", "replay", "newlog", "purge", "exited"

disk      == <<wal, m_tables, m_log, m_secret, m_next>>
families  == <<mem, imm, tables, log_number_>>
logState  == <<logfile_number_, log_empty_, alive_log_files_>>
versions_ == <<next_file_number_, log_secret, descriptor_log_>>
leader    == <<w_pc, switching, new_log_number, getting_flushed>>
flushes   == <<f_pc, mems_, log_delete_files>>
replay    == <<todo, replaying, rest, version_edits, flushed>>
history   == <<batch, acked, window, boot>>
vars == <<disk, families, logState, versions_, leader, flushes, replay,
          history, phase>>

Wal      == [secret : Nat, data : SUBSET Nat]
MemTable == [data : SUBSET Nat, next : Nat]

NoSecrets == [n \in {} |-> 0]
Nothing   == [c \in CF |-> {}]

\* f with f[k] = v.
Put(f, k, v) == [x \in DOMAIN f \cup {k} |-> IF x = k THEN v ELSE f[x]]

\* The batches of the first k sealed memtables of a family.
Picked(c, k) == UNION {imm[c][i].data : i \in 1 .. k}

\* Mutant: one family that is past the WAL is enough.
BelowMinLogOfOne(n) == \E c \in CF : n < log_number_[c]

\* Mutant: the WAL at the minimum goes too.
AtMinLog(n) == \A c \in CF : n <= log_number_[c]

\* MinLogNumberToKeep is above n.
BelowMinLog(n) == \A c \in CF : n < log_number_[c]

-----------------------------------------------------------------------------
(* The MANIFEST *)

\* ProcessManifestWrites has one group of edits at a time between the append
\* and the installation of its versions.
ManifestFree == \A c \in CF : f_pc[c] # "logged"

\* Is the edit written to a new MANIFEST?  It is when none is open, and when
\* the last one has reached its size.
NewDescriptorLog(new) ==
  \/ ~descriptor_log_ /\ new
  \/ descriptor_log_ /\ ~new
  \/ descriptor_log_ /\ new /\ AllowRoll

\* LogAndApply of an edit.  A new MANIFEST begins with the tables and the log
\* numbers of the families (WriteCurrentStateToManifest), without the secrets
\* the last one had.  A family's set of batches is left alone by the edit where
\* data is empty, its log number where log has no number for it.
\* The code copies the log numbers when it lets go of the mutex; a switch while
\* the file is written raises them only past WALs with nothing of the family.
LogAndApply(new, data, log, secret) ==
  /\ m_tables' = [c \in CF |-> data[c] \cup
                    (IF new THEN tables[c] ELSE m_tables[c])]
  /\ m_log' = [c \in CF |-> IF c \in DOMAIN log THEN log[c]
                            ELSE IF new THEN log_number_[c] ELSE m_log[c]]
  /\ m_secret' = IF new THEN secret
                 ELSE [n \in DOMAIN m_secret \cup DOMAIN secret |->
                         IF n \in DOMAIN m_secret THEN m_secret[n]
                                                  ELSE secret[n]]
  /\ descriptor_log_' = TRUE

-----------------------------------------------------------------------------
(* The leader of the write thread *)

\* WriteToWAL: the batch is a record of the current WAL.
WriteToWAL(families_) ==
  /\ phase = "open" /\ w_pc = "idle" /\ Len(batch) < MaxWrites
  /\ batch' = Append(batch, families_)
  /\ wal' = [wal EXCEPT ![logfile_number_].data = @ \cup {Len(batch) + 1}]
  /\ log_empty_' = FALSE /\ w_pc' = "logged"
  /\ UNCHANGED <<m_tables, m_log, m_secret, m_next, families,
                 logfile_number_, alive_log_files_, versions_, switching,
                 new_log_number, getting_flushed, flushes, replay, acked,
                 window, boot, phase>>

\* WriteBatchInternal::InsertInto, then the client has its answer.
InsertInto ==
  /\ w_pc = "logged"
  /\ mem' = [c \in CF |-> IF c \in batch[Len(batch)]
                          THEN mem[c] \cup {Len(batch)} ELSE mem[c]]
  /\ acked' = acked \cup {Len(batch)} /\ w_pc' = "idle"
  /\ UNCHANGED <<disk, imm, tables, log_number_, logState, versions_,
                 switching, new_log_number, getting_flushed, flushes, replay,
                 batch, window, boot, phase>>

\* The bound on the numbers a switch may draw.
RoomForLog == log_empty_ \/ next_file_number_ <= MaxWal

\* SwitchWAL, when the WALs are too large: every family that keeps the oldest
\* one alive.
SwitchWAL ==
  /\ phase = "open" /\ w_pc = "idle" /\ RoomForLog
  /\ LET oldest == Min(alive_log_files_)
     IN /\ getting_flushed # oldest /\ getting_flushed' = oldest
        /\ switching' = {c \in CF : log_number_[c] <= oldest}
  /\ w_pc' = IF switching' = {} THEN "idle" ELSE "switch"
  /\ UNCHANGED <<disk, families, logState, versions_, new_log_number, flushes,
                 replay, history, phase>>

\* HandleWriteBufferFull, ScheduleFlushes and FlushMemTable switch a family
\* that has something in its memtable.
ScheduleFlushes(c) ==
  /\ phase = "open" /\ w_pc = "idle" /\ RoomForLog
  /\ mem[c] # {}
  /\ switching' = {c} /\ w_pc' = "switch"
  /\ UNCHANGED <<disk, families, logState, versions_, new_log_number,
                 getting_flushed, flushes, replay, history, phase>>

\* CreateWAL up to its LogAndApply: for SwitchMemtable when the current WAL has
\* records, and at the end of Open.
CreateWAL ==
  /\ \/ phase = "open" /\ w_pc = "switch" /\ ~log_empty_
     \/ phase = "newlog" /\ w_pc = "idle"
  /\ new_log_number' = next_file_number_
  /\ next_file_number_' = next_file_number_ + 1
  /\ wal' = Put(wal, next_file_number_, [secret |-> boot, data |-> {}])
  /\ w_pc' = "created"
  /\ UNCHANGED <<m_tables, m_log, m_secret, m_next, families, logState,
                 log_secret, descriptor_log_, switching, getting_flushed,
                 flushes, replay, history, phase>>

\* The rest of CreateWAL: the secret becomes a record of the MANIFEST.
AddLogSecret ==
  /\ w_pc = "created" /\ ManifestFree
  /\ \E new \in BOOLEAN :
       /\ NewDescriptorLog(new)
       /\ LogAndApply(new, Nothing, NoSecrets,
                      [n \in {new_log_number} |-> wal[n].secret])
  /\ m_next' = next_file_number_
  /\ w_pc' = "recorded"
  /\ UNCHANGED <<wal, families, logState, next_file_number_, log_secret,
                 switching, new_log_number, getting_flushed, flushes, replay,
                 history, phase>>

\* ... or the write or the sync fails and no MANIFEST is open any more; a record
\* that went to an open MANIFEST may be in it all the same.  CreateWAL ignores
\* the status: the writes that follow go to a WAL that may have no secret.
AddLogSecretFails ==
  /\ AllowManifestError /\ w_pc = "created" /\ ManifestFree
  /\ \/ UNCHANGED <<m_secret, m_next>>
     \/ /\ descriptor_log_
        /\ m_secret' = Put(m_secret, new_log_number, wal[new_log_number].secret)
        /\ m_next' = next_file_number_
  /\ descriptor_log_' = FALSE
  /\ w_pc' = "recorded"
  /\ UNCHANGED <<wal, m_tables, m_log, families, logState, next_file_number_,
                 log_secret, switching, new_log_number, getting_flushed,
                 flushes, replay, history, phase>>

\* Mutant: sealed memtables are not looked at.
UnneededMem(c) == mem[c] = {}

\* A family with nothing unflushed needs no WAL before the new one.
Unneeded(c) == mem[c] = {} /\ imm[c] = <<>>

\* The end of SwitchMemtable for one family: with a new WAL, or with the
\* current one when that has no records.
SwitchMemtable(c) ==
  /\ phase = "open" /\ c \in switching
  /\ \/ w_pc = "switch" /\ log_empty_ /\ UNCHANGED <<logState, log_number_>>
     \/ /\ w_pc = "recorded"
        /\ logfile_number_' = new_log_number /\ log_empty_' = TRUE
        /\ alive_log_files_' = alive_log_files_ \cup {new_log_number}
        /\ log_number_' = [d \in CF |-> IF Unneeded(d) THEN new_log_number
                                                       ELSE log_number_[d]]
  /\ imm' = [imm EXCEPT ![c] =
               Append(@, [data |-> mem[c], next |-> logfile_number_'])]
  /\ mem' = [mem EXCEPT ![c] = {}]
  /\ switching' = switching \ {c}
  /\ w_pc' = IF switching' = {} THEN "idle" ELSE "switch"
  /\ UNCHANGED <<disk, tables, versions_, new_log_number, getting_flushed,
                 flushes, replay, history, phase>>

-----------------------------------------------------------------------------
(* Flush jobs and the purge of WALs *)

\* FlushJob::PickMemTable.
PickMemTable(c) ==
  /\ phase = "open" /\ f_pc[c] = "none" /\ imm[c] # <<>>
  /\ f_pc' = [f_pc EXCEPT ![c] = "picked"]
  /\ mems_' = [mems_ EXCEPT ![c] = Len(imm[c])]
  /\ UNCHANGED <<disk, families, logState, versions_, leader,
                 log_delete_files, replay, history, phase>>

\* The log number of the edit of a flush.
EditLog(c) == imm[c][mems_[c]].next

\* FlushJob::Run: the table is written, and the edit that adds it and moves
\* the log number is a record of the MANIFEST.  The edit has the next file
\* number of the time it was made.
LogFlush(c) ==
  /\ f_pc[c] = "picked" /\ ManifestFree
  /\ \E new \in BOOLEAN :
       /\ NewDescriptorLog(new)
       /\ LogAndApply(new,
                      [Nothing EXCEPT ![c] = Picked(c, mems_[c])],
                      [d \in {c} |-> EditLog(c)], NoSecrets)
  /\ m_next' \in m_next .. next_file_number_
  /\ f_pc' = [f_pc EXCEPT ![c] = "logged"]
  /\ UNCHANGED <<wal, families, logState, next_file_number_, log_secret,
                 leader, mems_, log_delete_files, replay, history, phase>>

\* Mutant: the count of picked memtables is not reset.
InstallFlushKeepCount(c) ==
  /\ f_pc[c] = "logged"
  /\ tables' = [tables EXCEPT ![c] = @ \cup Picked(c, mems_[c])]
  /\ log_number_' = [log_number_ EXCEPT ![c] = EditLog(c)]
  /\ imm' = [imm EXCEPT ![c] = SubSeq(@, mems_[c] + 1, Len(@))]
  /\ f_pc' = [f_pc EXCEPT ![c] = "done"]
  /\ UNCHANGED <<disk, mem, logState, versions_, leader, mems_,
                 log_delete_files, replay, history, phase>>

\* The end of ProcessManifestWrites and of TryInstallMemtableFlushResults: the
\* version with the table is current, the memtables are gone.
InstallFlush(c) ==
  /\ f_pc[c] = "logged"
  /\ tables' = [tables EXCEPT ![c] = @ \cup Picked(c, mems_[c])]
  /\ log_number_' = [log_number_ EXCEPT ![c] = EditLog(c)]
  /\ imm' = [imm EXCEPT ![c] = SubSeq(@, mems_[c] + 1, Len(@))]
  /\ f_pc' = [f_pc EXCEPT ![c] = "done"]
  /\ mems_' = [mems_ EXCEPT ![c] = 0]
  /\ UNCHANGED <<disk, mem, logState, versions_, leader, log_delete_files,
                 replay, history, phase>>

\* Mutant: the WALs are taken off the list and not handed to the purge.
FindObsoleteFilesForgets(c) ==
  /\ f_pc[c] = "done"
  /\ alive_log_files_' = {n \in alive_log_files_ : ~BelowMinLog(n)}
  /\ f_pc' = [f_pc EXCEPT ![c] = "none"]
  /\ UNCHANGED <<disk, families, logfile_number_, log_empty_, versions_,
                 leader, mems_, log_delete_files, replay, history, phase>>

\* FindObsoleteFiles, at the end of BackgroundCallFlush.
FindObsoleteFiles(c) ==
  /\ f_pc[c] = "done"
  /\ log_delete_files' = log_delete_files \cup
                           {n \in alive_log_files_ : BelowMinLog(n)}
  /\ alive_log_files_' = {n \in alive_log_files_ : ~BelowMinLog(n)}
  /\ f_pc' = [f_pc EXCEPT ![c] = "none"]
  /\ UNCHANGED <<disk, families, logfile_number_, log_empty_, versions_,
                 leader, mems_, replay, history, phase>>

\* PurgeObsoleteFiles, without the DB mutex, one file at a time.
DeleteWal(n) ==
  /\ n \in log_delete_files
  /\ wal' = Restrict(wal, DOMAIN wal \ {n})
  /\ log_delete_files' = log_delete_files \ {n}
  /\ UNCHANGED <<m_tables, m_log, m_secret, m_next, families, logState,
                 versions_, leader, f_pc, mems_, replay, history, phase>>

-----------------------------------------------------------------------------
(* Crash and recovery *)

\* A crash in one of these states may leave a WAL without a secret.
InWindow == phase \in {"replay", "exited"} \/ w_pc = "created"

\* What memory holds before Recover.
ForgetMemory ==
  /\ mem' = Nothing /\ imm' = [c \in CF |-> <<>>] /\ tables' = Nothing
  /\ log_number_' = [c \in CF |-> 0]
  /\ logfile_number_' = 0 /\ log_empty_' = TRUE /\ alive_log_files_' = {}
  /\ next_file_number_' = 0 /\ log_secret' = NoSecrets
  /\ descriptor_log_' = FALSE
  /\ w_pc' = "idle" /\ switching' = {} /\ new_log_number' = 0
  /\ getting_flushed' = 0
  /\ f_pc' = [c \in CF |-> "none"] /\ mems_' = [c \in CF |-> 0]
  /\ log_delete_files' = {}
  /\ todo' = {} /\ replaying' = 0 /\ rest' = {} /\ version_edits' = Nothing
  /\ flushed' = FALSE

\* The process ends at any point, or has exited, and is started again.
Crash ==
  /\ phase # "down" /\ boot < MaxBoot
  /\ ForgetMemory
  /\ window' = (window \/ InWindow)
  /\ boot' = boot + 1 /\ phase' = "down"
  /\ UNCHANGED <<disk, batch, acked>>

\* VersionSet::Recover reads the MANIFEST; DeleteUnreferencedSstFiles moves the
\* file number past every file and starts a new MANIFEST, without secrets.
Recover ==
  /\ phase = "down"
  /\ tables' = m_tables /\ log_number_' = m_log /\ log_secret' = m_secret
  /\ LET largest == Max(DOMAIN wal \cup {m_next})
     IN next_file_number_' = IF largest > m_next THEN largest + 1 ELSE m_next
  /\ m_secret' = NoSecrets /\ m_next' = next_file_number_'
  /\ descriptor_log_' = TRUE
  /\ todo' = DOMAIN wal /\ phase' = "replay"
  /\ UNCHANGED <<wal, m_tables, m_log, mem, imm, logState, leader, flushes,
                 replaying, rest, version_edits, flushed, history>>

\* VersionSet::MarkFileNumberUsed.
MarkFileNumberUsed(n) ==
  IF next_file_number_ <= n THEN n + 1 ELSE next_file_number_

\* RecoverLogFiles goes to the next WAL, in the order of their numbers.  One
\* without its secret, or with that of another file, ends the process.
OpenLog(n) ==
  /\ phase = "replay" /\ rest = {}
  /\ n \in todo /\ \A k \in todo : n <= k
  /\ todo' = todo \ {n}
  /\ IF BelowMinLog(n)
     THEN UNCHANGED <<next_file_number_, replaying, rest, phase>>
     ELSE /\ next_file_number_' = MarkFileNumberUsed(n)
          /\ IF n \in DOMAIN log_secret /\ log_secret[n] = wal[n].secret
             THEN replaying' = n /\ rest' = wal[n].data /\ phase' = phase
             ELSE UNCHANGED <<replaying, rest>> /\ phase' = "exited"
  /\ UNCHANGED <<disk, families, logState, log_secret, descriptor_log_, leader,
                 flushes, version_edits, flushed, history>>

\* Mutant: nothing is left out.
ReplaysAll(c, b) == c \in batch[b]

\* Mutant: the WAL at the log number is left out too.
ReplaysAbove(c, b) == c \in batch[b] /\ log_number_[c] < replaying

\* InsertInto leaves out the families that have flushed this WAL.
Replays(c, b) == c \in batch[b] /\ log_number_[c] <= replaying

\* The next record of the WAL goes to the memtables.  Some of them may be full
\* now and are written to a table (WriteLevel0TableForRecovery).
ReplayRecord(full) ==
  /\ phase = "replay"
  /\ \E b \in rest :
       /\ \A k \in rest : b <= k
       /\ \A c \in full : Replays(c, b)
       /\ rest' = rest \ {b}
       /\ LET grown(c) == IF Replays(c, b) THEN mem[c] \cup {b} ELSE mem[c]
          IN /\ mem' = [c \in CF |-> IF c \in full THEN {} ELSE grown(c)]
             /\ version_edits' = [c \in CF |->
                  IF c \in full THEN version_edits[c] \cup grown(c)
                                ELSE version_edits[c]]
  /\ flushed' = (flushed \/ full # {})
  /\ UNCHANGED <<disk, imm, tables, log_number_, logState, versions_, leader,
                 flushes, todo, replaying, history, phase>>

\* Mutant: the last WAL stays at the log number.
RecoveredLogAtMax(c, max_wal_number) ==
  IF log_number_[c] > max_wal_number THEN log_number_[c] ELSE max_wal_number

\* The log number of a family all of whose replayed data is in tables.
RecoveredLog(c, max_wal_number) ==
  IF log_number_[c] > max_wal_number THEN log_number_[c]
                                     ELSE max_wal_number + 1

\* The end of RecoverLogFiles, and DeleteSecret: the memtables are written to
\* tables, or stay where they are and keep the WALs alive
\* (RestoreAliveLogFiles); a new MANIFEST has the outcome, and no secrets.
FinishRecovery ==
  /\ phase = "replay" /\ todo = {} /\ rest = {}
  /\ LET max_wal_number == Max(DOMAIN wal)
         flush == flushed \/ ~avoid_flush_during_recovery
         stays(c) == mem[c] # {} /\ ~flush
     IN /\ tables' = [c \in CF |-> tables[c] \cup version_edits[c] \cup
                                     (IF flush THEN mem[c] ELSE {})]
        /\ mem' = [c \in CF |-> IF flush THEN {} ELSE mem[c]]
        /\ log_number_' = [c \in CF |->
             IF stays(c) THEN log_number_[c]
                         ELSE RecoveredLog(c, max_wal_number)]
        /\ next_file_number_' = MarkFileNumberUsed(max_wal_number + 1)
        /\ IF \E c \in CF : stays(c)
           THEN alive_log_files_' = DOMAIN wal /\ log_empty_' = FALSE
           ELSE UNCHANGED <<alive_log_files_, log_empty_>>
  /\ m_tables' = tables' /\ m_log' = log_number_' /\ m_secret' = NoSecrets
  /\ m_next' = next_file_number_'
  /\ log_secret' = NoSecrets /\ phase' = "newlog"
  /\ replaying' = 0 /\ version_edits' = Nothing /\ flushed' = FALSE
  /\ UNCHANGED <<wal, imm, logfile_number_, descriptor_log_, leader, flushes,
                 todo, rest, history>>

\* The end of Open: the new WAL is the current one, and DeleteObsoleteFiles
\* scans the directory for WALs that are not needed any more.
OpenDatabase ==
  /\ phase = "newlog" /\ w_pc = "recorded"
  /\ logfile_number_' = new_log_number
  /\ alive_log_files_' =
       {n \in alive_log_files_ \cup {new_log_number} : ~BelowMinLog(n)}
  /\ log_delete_files' = {n \in DOMAIN wal : BelowMinLog(n)}
  /\ w_pc' = "idle" /\ phase' = "purge"
  /\ UNCHANGED <<disk, families, log_empty_, versions_, switching,
                 new_log_number, getting_flushed, f_pc, mems_, replay,
                 history>>

\* Open returns once the files it found are deleted.
OpenReturns ==
  /\ phase = "purge" /\ log_delete_files = {} /\ phase' = "open"
  /\ UNCHANGED <<disk, families, logState, versions_, leader, flushes, replay,
                 history>>

\* The process has exited, or nobody has anything to do.
Stopped ==
  /\ \/ phase = "exited"
     \/ /\ phase = "open" /\ w_pc = "idle" /\ log_delete_files = {}
        /\ \A c \in CF : f_pc[c] = "none" /\ imm[c] = <<>>
  /\ UNCHANGED vars

-----------------------------------------------------------------------------
\* A database that DB::Open has created with its column families: the log
\* number of the default one is still that of NewDB.
Init ==
  /\ wal = [n \in {1} |-> [secret |-> 1, data |-> {}]]
  /\ m_tables = Nothing
  /\ m_log = [c \in CF |-> IF c = default THEN 0 ELSE 1]
  /\ m_secret = [n \in {1} |-> 1] /\ m_next = 2
  /\ mem = Nothing /\ imm = [c \in CF |-> <<>>] /\ tables = Nothing
  /\ log_number_ = m_log
  /\ logfile_number_ = 1 /\ log_empty_ = TRUE /\ alive_log_files_ = {1}
  /\ next_file_number_ = 2 /\ log_secret = NoSecrets
  /\ descriptor_log_ = TRUE
  /\ w_pc = "idle" /\ switching = {} /\ new_log_number = 1
  /\ getting_flushed = 0
  /\ f_pc = [c \in CF |-> "none"] /\ mems_ = [c \in CF |-> 0]
  /\ log_delete_files = {}
  /\ todo = {} /\ replaying = 0 /\ rest = {} /\ version_edits = Nothing
  /\ flushed = FALSE
  /\ batch = <<>> /\ acked = {} /\ window = FALSE
  /\ boot = 1 /\ phase = "open"

WriterStep ==
  \/ \E s \in SUBSET CF \ {{}} : WriteToWAL(s)
  \/ InsertInto \/ SwitchWAL
  \/ \E c \in CF : ScheduleFlushes(c) \/ SwitchMemtable(c)
  \/ CreateWAL \/ AddLogSecret \/ AddLogSecretFails

BackgroundStep ==
  \/ \E c \in CF : \/ PickMemTable(c) \/ LogFlush(c) \/ InstallFlush(c)
                   \/ FindObsoleteFiles(c)
  \/ \E n \in DOMAIN wal : DeleteWal(n)

RecoveryStep ==
  \/ Recover \/ \E n \in DOMAIN wal : OpenLog(n)
  \/ \E full \in SUBSET CF : ReplayRecord(full)
  \/ FinishRecovery \/ OpenDatabase \/ OpenReturns

Next == WriterStep \/ BackgroundStep \/ RecoveryStep \/ Crash \/ Stopped

Spec == Init /\ [][Next]_vars

\* Background threads run, and a leader finishes the switch it has begun.
Fairness ==
  /\ \A c \in CF : /\ WF_vars(PickMemTable(c)) /\ WF_vars(LogFlush(c))
                   /\ WF_vars(InstallFlush(c))
                   /\ WF_vars(FindObsoleteFiles(c))
                   /\ WF_vars(SwitchMemtable(c))
  /\ WF_vars(CreateWAL) /\ WF_vars(AddLogSecret) /\ WF_vars(InsertInto)
  /\ WF_vars(\E n \in DOMAIN wal : DeleteWal(n))

FairSpec == Spec /\ Fairness

-----------------------------------------------------------------------------
(* Properties *)

DiskType ==
  /\ DOMAIN wal \subseteq Nat /\ wal \in [DOMAIN wal -> Wal]
  /\ m_tables \in [CF -> SUBSET Nat] /\ m_log \in [CF -> Nat]
  /\ DOMAIN m_secret \subseteq Nat /\ m_secret \in [DOMAIN m_secret -> Nat]
  /\ m_next \in Nat

FamilyType ==
  /\ mem \in [CF -> SUBSET Nat] /\ imm \in [CF -> Seq(MemTable)]
  /\ tables \in [CF -> SUBSET Nat] /\ log_number_ \in [CF -> Nat]

VersionType ==
  /\ logfile_number_ \in Nat /\ log_empty_ \in BOOLEAN
  /\ alive_log_files_ \subseteq Nat
  /\ next_file_number_ \in Nat
  /\ DOMAIN log_secret \subseteq Nat
  /\ log_secret \in [DOMAIN log_secret -> Nat]
  /\ descriptor_log_ \in BOOLEAN

LeaderType ==
  /\ w_pc \in {"idle", "logged", "switch", "created", "recorded"}
  /\ switching \subseteq CF /\ new_log_number \in Nat
  /\ getting_flushed \in Nat

FlushType ==
  /\ f_pc \in [CF -> {"none", "picked", "logged", "done"}]
  /\ mems_ \in [CF -> Nat] /\ \A c \in CF : mems_[c] <= Len(imm[c])
  /\ log_delete_files \subseteq Nat

ReplayType ==
  /\ todo \subseteq Nat /\ replaying \in Nat /\ rest \subseteq Nat
  /\ version_edits \in [CF -> SUBSET Nat] /\ flushed \in BOOLEAN

HistoryType ==
  /\ batch \in Seq(SUBSET CF) /\ acked \subseteq Nat
  /\ window \in BOOLEAN /\ boot \in Nat
  /\ phase \in {"open", "down", "replay", "newlog", "purge", "exited"}

\* Every variable has its type.
TypeOK ==
  /\ DiskType /\ FamilyType /\ VersionType /\ LeaderType /\ FlushType
  /\ ReplayType /\ HistoryType

\* What a read of a family finds.
Visible(c) == mem[c] \cup Picked(c, Len(imm[c])) \cup tables[c]

Serving == phase \in {"newlog", "purge", "open"}

\* Whenever the database is open, after any number of crashes in any place,
\* flush and deletion of WALs, a batch that was acknowledged is there in every
\* family it touches.
AckedVisible ==
  Serving => \A b \in acked : \A c \in batch[b] : b \in Visible(c)

\* A batch is in a family once, in one memtable, a table of the replay or the
\* tables of the current version, during the replay too: InsertInto
\* ignores what a family has flushed ("We can't apply updates twice",
\* write_batch.cc:1397).
AppliedOnce ==
  \A c \in CF :
    /\ mem[c] \cap Picked(c, Len(imm[c])) = {}
    /\ tables[c] \cap (mem[c] \cup Picked(c, Len(imm[c]))) = {}
    /\ version_edits[c] \cap (mem[c] \cup tables[c]) = {}
    /\ \A i, j \in DOMAIN imm[c] :
         i # j => imm[c][i].data \cap imm[c][j].data = {}

\* A batch is in all the families it touches or in none, also when the crash
\* came before its acknowledgement and its families were flushed at different
\* times.
BatchAtomic ==
  Serving => \A b \in DOMAIN batch :
    (\E c \in CF : b \in Visible(c)) => \A c \in batch[b] : b \in Visible(c)

\* When no crash came while the replay ran or between the creation of a WAL and
\* the record of its secret, the next open finds every secret it needs.
ReopensOutsideWindows == phase = "exited" => window

\* The next open finds every secret it needs, wherever the crash came.
ReopensAfterCrash == phase # "exited"

\* The log number of a family never goes back when a flush is installed (the
\* assertions of LogAndApplyHelper and ProcessManifestWrites), and is one that
\* was given out.
LogNumbersForward ==
  \A c \in CF : f_pc[c] \in {"picked", "logged"} =>
    /\ log_number_[c] <= EditLog(c)
    /\ EditLog(c) < next_file_number_

\* The WAL that is written to is neither deleted nor about to be (the
\* assertions of FindObsoleteFiles).
CurrentWalKept ==
  phase = "open" => /\ logfile_number_ \in DOMAIN wal
                    /\ logfile_number_ \in alive_log_files_
                    /\ logfile_number_ \notin log_delete_files

\* WALs that hold nothing unflushed do not stay for good.  (The writes are
\* bounded here, so no WAL becomes obsolete for ever after.)
ObsoleteWalsGo ==
  LET obsolete == {n \in DOMAIN wal : BelowMinLog(n)}
  IN (phase = "open" /\ obsolete # {}) ~> (obsolete = {} \/ phase # "open")
=============================================================================
