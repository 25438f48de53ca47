------------------------------- MODULE SstKeys -------------------------------
(***************************************************************************)
(* The life of the per-file encryption keys of Tweezer's SST files: drawn  *)
(* when a flush or a compaction opens an output file, held in the global   *)
(* KeyList of the enclave, recorded in the MANIFEST, looked up by every    *)
(* block read, and dropped when the file is purged.                        *)
(*                                                                         *)
(* Actors: flush jobs, compaction jobs, iterators, the MANIFEST writer     *)
(* queue of VersionSet, a crash, and the recovery of DB::Open.  Every step *)
(* is what its thread does between two points at which the DB mutex is     *)
(* free, so all interleavings the mutex allows are behaviours here.        *)
(*                                                                         *)
(* Abstractions:                                                           *)
(*  - one column family and one data directory;                            *)
(*  - a random key is the incarnation (boot) that drew it: a number is     *)
(*    given out once per incarnation, so two keys of one file number       *)
(*    differ exactly when they were drawn in different incarnations;       *)
(*  - the durable MANIFEST is the state its records replay to;             *)
(*  - numbers given to WAL and MANIFEST files are left out of the counter. *)
(***************************************************************************)
EXTENDS Naturals, Sequences, FiniteSets

CONSTANTS
  FlushJobs,       \* background flush threads
  CompactionJobs,  \* background compaction threads
  Iterators,       \* client iterators
  MaxFile,         \* bound: file numbers of one history
  MaxBoot,         \* bound: incarnations of the process
  MaxIn,           \* bound: files one compaction takes as input
  AllowRoll,       \* may the MANIFEST reach max_manifest_file_size?
  AllowFailure,    \* may building a table fail?
  AllowManifestError \* may a write to the MANIFEST fail?

Jobs    == FlushJobs \cup CompactionJobs
Holders == Jobs \cup Iterators
File    == 1 .. MaxFile
Boot    == 1 .. MaxBoot
NoKey   == 0
Key     == Boot \cup {NoKey}
None    == 0          \* no file number

ASSUME SstKeysAssumption ==
  /\ MaxFile \in Nat /\ MaxBoot \in Nat \ {0} /\ MaxIn \in Nat
  /\ AllowRoll \in BOOLEAN /\ AllowFailure \in BOOLEAN
  /\ AllowManifestError \in BOOLEAN
  /\ FlushJobs \cap CompactionJobs = {}
  /\ Jobs \cap Iterators = {}

VARIABLES
  KeyList,     \* RAM: file number -> key, NoKey when absent
  table,       \* disk: file number -> key its blocks are encrypted with
  manifest,    \* disk: what the MANIFEST named by CURRENT replays to
  newManifest, \* disk: the MANIFEST being written before CURRENT names it
  rolling,     \* RAM: is the group being written to newManifest?
  version,     \* RAM: files of the current version
  sv,          \* RAM: files of the version the installed SuperVersion holds
  nextFile,    \* RAM: next_file_number_
  imm,         \* RAM: immutable memtables a flush has picked.  A flush picks
               \* one new memtable, whose id is the number of the flush's
               \* file (PickMemTable takes both under one hold of the mutex,
               \* so ids follow the age), and those whose commit failed
  committing,  \* RAM: commit_in_progress_
  pc,          \* RAM: where each job and iterator is
  pend,        \* RAM: pending_outputs_ entry of a job, None when it has none
  pins,        \* RAM: files of the version a job or an iterator references
  ins,         \* RAM: input files of a compaction (being_compacted)
  out,         \* RAM: output file a job is building
  outs,        \* RAM: finished output files of a compaction
  del,         \* RAM: JobContext::deletion_vector
  todo,        \* RAM: the part of outs or del the job has still to handle
  obsolete,    \* RAM: obsolete_files_
  grabbed,     \* RAM: files_grabbed_for_purge_
  writers,     \* RAM: manifest_writers_
  group,       \* RAM: the group commit in progress
  unref,       \* RAM: files DeleteUnreferencedSstFiles has still to delete
  recovered,   \* RAM: files of the version edit RecoverLogFiles builds
  rekey,       \* RAM: keys recovery has still to record again
  bgError,     \* RAM: background work stopped by an error
  descriptor_log_,  \* RAM: is the MANIFEST open for appending?  Not after a
               \* failed write, so it also says versions_->io_status().ok()
  disable_delete_obsolete_files_,  \* RAM: are file deletions disabled?
  phase,       \* where the process is
  boot         \* which incarnation runs

disk     == <<table, manifest>>
jobVars  == <<pc, pend, pins, ins, out, outs, del, todo>>
logVars  == <<writers, group, rolling, newManifest>>
memVars  == <<imm, committing>>
fileVars == <<version, sv, nextFile, obsolete, grabbed>>
bootVars == <<unref, recovered, rekey, phase, boot>>
errVars  == <<bgError, descriptor_log_, disable_delete_obsolete_files_>>
vars == <<KeyList, disk, jobVars, logVars, memVars, fileVars, bootVars,
          errVars>>

-----------------------------------------------------------------------------
(* Version edits and the MANIFEST *)

Manifest == [files : SUBSET File, keys : [File -> Key],
             next : 1 .. MaxFile + 1]

Edit == [add : SUBSET File, del : SUBSET File, sst : File \cup {None},
         key : Key, drop : File \cup {None}]

EmptyEdit == [add |-> {}, del |-> {}, sst |-> None, key |-> NoKey,
              drop |-> None]

AddSSTKey(n, k)  == [EmptyEdit EXCEPT !.sst = n, !.key = k]
DeleteSSTKey(n)  == [EmptyEdit EXCEPT !.drop = n]

\* KeyList.insert: a key that is already there stays.
AddSSTKeyToList(keys, n, k) ==
  IF keys[n] = NoKey THEN [keys EXCEPT ![n] = k] ELSE keys

DeleteSSTKeyFromList(keys, n) == [keys EXCEPT ![n] = NoKey]

\* Mutant: only edits that add files carry the next file number.
ApplyVersionEditKeepNext(m, e, next) ==
  LET added == IF e.sst = None THEN m.keys
               ELSE AddSSTKeyToList(m.keys, e.sst, e.key)
  IN [files |-> (m.files \ e.del) \cup e.add,
      keys  |-> IF e.drop = None THEN added
                ELSE DeleteSSTKeyFromList(added, e.drop),
      next  |-> IF e.add = {} THEN m.next ELSE next]

\* What replaying one more record does to the replayed state.
ApplyVersionEdit(m, e, next) ==
  LET added == IF e.sst = None THEN m.keys
               ELSE AddSSTKeyToList(m.keys, e.sst, e.key)
  IN [files |-> (m.files \ e.del) \cup e.add,
      keys  |-> IF e.drop = None THEN added
                ELSE DeleteSSTKeyFromList(added, e.drop),
      next  |-> next]

\* A new MANIFEST starts with the files of the current version; it holds no
\* key.
WriteCurrentStateToManifest ==
  [files |-> version, keys |-> [n \in File |-> NoKey], next |-> nextFile]

\* What a MANIFEST without records replays to.
EmptyManifest ==
  [files |-> {}, keys |-> [n \in File |-> NoKey], next |-> 1]

NoGroup == [size |-> 0, done |-> 0, next |-> 1]

-----------------------------------------------------------------------------
(* References to files *)

\* The files some version in memory lists: VersionSet::AddLiveFiles.
Live == version \cup sv \cup UNION {pins[h] : h \in Holders}

\* A version that loses its last reference moves the files nothing else lists
\* to obsolete_files_.
UnrefVersions == obsolete' = obsolete \cup (Live \ Live')

\* The block digest matches only under the key the table was built with.
Opens(keys, n) == keys[n] # NoKey /\ keys[n] = table[n]

\* Mutant: pending outputs do not protect files from a full scan.
BelowPendingIgnored(n, p) == TRUE

\* number < MinObsoleteSstNumberToKeep()
BelowPending(n, p) == \A j \in Jobs : p[j] # None => n < p[j]

Running == phase = "open"

\* LogAndApply: queue an edit; the caller sleeps until its writer is done.
LogAndApply(j, edit, mems) ==
  writers' = Append(writers, [job |-> j, edit |-> edit, mems |-> mems])

-----------------------------------------------------------------------------
(* Flush jobs *)

\* Mutant: edit_.Clear() is missing, so the table of the failed flush stays in
\* the edit of its memtable.
RollbackKeepEdit(mems, failed) ==
  {IF m \in failed THEN [m EXCEPT !.file = None, !.done = FALSE] ELSE m :
   m \in mems}

\* What a failed flush and a failed commit leave of their memtables.
Rollback(mems, failed) ==
  {IF m \in failed
   THEN [m EXCEPT !.file = None, !.done = FALSE, !.has = FALSE] ELSE m :
   m \in mems}

\* BackgroundCallFlush up to FlushJob::PickMemTable: a new memtable, those
\* whose commit failed before, or both.
FlushStart(j) ==
  /\ Running /\ ~bgError
  /\ pc[j] = "idle" /\ nextFile <= MaxFile
  /\ pc'   = [pc EXCEPT ![j] = "gen"]
  /\ pend' = [pend EXCEPT ![j] = nextFile]
  /\ out'  = [out EXCEPT ![j] = nextFile]
  /\ pins' = [pins EXCEPT ![j] = version]
  /\ \E fresh \in BOOLEAN :
       /\ fresh \/ \E m \in imm : m.file = None
       /\ imm' = {IF m.file = None THEN [m EXCEPT !.file = nextFile] ELSE m :
                  m \in imm}
                 \cup {m \in {[id |-> nextFile, file |-> nextFile,
                              done |-> FALSE, has |-> FALSE]} : fresh}
  /\ nextFile' = nextFile + 1
  /\ UNCHANGED <<KeyList, disk, ins, outs, del, todo, logVars, committing,
                 version, sv, obsolete, grabbed, bootVars, errVars>>

\* FlushJob::WriteLevel0Table draws the key, the mutex released.
GenerateKey(j) ==
  /\ Running /\ pc[j] = "gen"
  /\ KeyList' = AddSSTKeyToList(KeyList, out[j], boot)
  /\ pc' = [pc EXCEPT ![j] = "build"]
  /\ UNCHANGED <<disk, pend, pins, ins, out, outs, del, todo, logVars, memVars,
                 fileVars, bootVars, errVars>>

\* BuildTable encrypts with FilenameToKey of its own file; a flush whose
\* memtables leave nothing deletes the file again.
BuildFlushTable(j) ==
  /\ Running /\ j \in FlushJobs /\ pc[j] = "build"
  /\ \E has \in BOOLEAN :
       /\ table' = IF has THEN [table EXCEPT ![out[j]] = KeyList[out[j]]]
                   ELSE table
       /\ imm' = {IF m.file = out[j] THEN [m EXCEPT !.has = has] ELSE m :
                  m \in imm}
  /\ pc' = [pc EXCEPT ![j] = "install"]
  /\ pins' = [pins EXCEPT ![j] = {}]
  /\ UNCHANGED <<version, sv>> /\ UnrefVersions
  /\ UNCHANGED <<KeyList, manifest, pend, ins, out, outs, del, todo, logVars,
                 committing, nextFile, grabbed, bootVars, errVars>>

\* BuildTable fails and removes its file; the memtables of the job can be
\* flushed again.  An I/O error met while the MANIFEST is in error counts as a
\* MANIFEST error.
FlushFails(j) ==
  /\ Running /\ AllowFailure /\ j \in FlushJobs /\ pc[j] = "build"
  /\ pc' = [pc EXCEPT ![j] = "failed"]
  /\ pins' = [pins EXCEPT ![j] = {}]
  /\ imm' = Rollback(imm, {m \in imm : m.file = out[j]})
  /\ bgError' = TRUE
  /\ \E io_error \in BOOLEAN :
       disable_delete_obsolete_files_' =
         (disable_delete_obsolete_files_ \/ (io_error /\ ~descriptor_log_))
  /\ UNCHANGED <<version, sv>> /\ UnrefVersions
  /\ UNCHANGED <<KeyList, disk, pend, ins, out, outs, del, todo, logVars,
                 committing, nextFile, grabbed, bootVars, descriptor_log_>>

\* The memtables whose flush completed and that have no older unflushed one.
Committable(mems) ==
  {m \in mems : \A older \in mems : older.id <= m.id => older.done}

\* TryInstallMemtableFlushResults: the flush is completed; one thread commits
\* for everybody, and nobody when the oldest memtable is not flushed yet.
TryInstallMemtableFlushResults(j) ==
  /\ Running /\ pc[j] = "install"
  /\ imm' = {IF m.file = out[j] THEN [m EXCEPT !.done = TRUE] ELSE m :
             m \in imm}
  /\ LET commits == ~committing /\ Committable(imm') # {}
     IN /\ pc' = [pc EXCEPT ![j] = IF commits THEN "commit" ELSE "key"]
        /\ committing' = (committing \/ commits)
  /\ UNCHANGED <<KeyList, disk, pend, pins, ins, out, outs, del, todo, logVars,
                 fileVars, bootVars, errVars>>

\* One round of the commit loop.
CommitMemtables(j) ==
  /\ Running /\ pc[j] = "commit" /\ Committable(imm) # {}
  /\ LogAndApply(j, [EmptyEdit EXCEPT
                       !.add = {m.file : m \in {c \in Committable(imm) :
                                                   c.has}}],
                 {m.id : m \in Committable(imm)})
  /\ pc' = [pc EXCEPT ![j] = "committing"]
  /\ UNCHANGED <<KeyList, disk, pend, pins, ins, out, outs, del, todo, group,
                 rolling, newManifest, memVars, fileVars, bootVars, errVars>>

CommitDone(j) ==
  /\ Running /\ pc[j] = "commit" /\ Committable(imm) = {}
  /\ committing' = FALSE
  /\ pc' = [pc EXCEPT ![j] = "key"]
  /\ UNCHANGED <<KeyList, disk, pend, pins, ins, out, outs, del, todo, logVars,
                 imm, fileVars, bootVars, errVars>>

\* The commit failed: the loop ends, and what is known of the failure depends on
\* whether another writer has opened a new MANIFEST in the meantime.
CommitFails(j) ==
  /\ Running /\ pc[j] = "restored"
  /\ committing' = FALSE
  /\ pc' = [pc EXCEPT ![j] = IF descriptor_log_ THEN "keyerr" ELSE "keyio"]
  /\ UNCHANGED <<KeyList, disk, pend, pins, ins, out, outs, del, todo, logVars,
                 imm, fileVars, bootVars, errVars>>

\* FlushJob::Run after the install, failed or not: look the key up, exit when
\* it is missing, record it in the MANIFEST.  Nobody looks at the status.
LogFlushKey(j) ==
  /\ Running /\ pc[j] \in {"key", "keyio", "keyerr"}
  /\ LET k == KeyList[out[j]]
     IN /\ phase' = IF k = NoKey THEN "aborted" ELSE phase
        /\ LogAndApply(j, AddSSTKey(out[j], k), {})
  /\ pc' = [pc EXCEPT ![j] = CASE @ = "key"    -> "keying"
                                [] @ = "keyio"  -> "keyingio"
                                [] @ = "keyerr" -> "keyingerr"]
  /\ UNCHANGED <<KeyList, disk, pend, pins, ins, out, outs, del, todo, group,
                 rolling, newManifest, memVars, fileVars, unref,
                 recovered, rekey, boot, errVars>>

-----------------------------------------------------------------------------
(* Compaction jobs *)

\* BackgroundCallCompaction up to the picked compaction: its inputs are files
\* of the current version no other compaction has taken.
CompactionStart(c) ==
  /\ Running /\ ~bgError /\ pc[c] = "idle"
  /\ \E picked \in SUBSET (version \ UNION {ins[d] : d \in CompactionJobs}) :
       /\ picked # {} /\ Cardinality(picked) <= MaxIn
       /\ ins' = [ins EXCEPT ![c] = picked]
  /\ pc'   = [pc EXCEPT ![c] = "run"]
  /\ pend' = [pend EXCEPT ![c] = nextFile]
  /\ pins' = [pins EXCEPT ![c] = version]
  /\ UNCHANGED <<KeyList, disk, out, outs, del, todo, logVars, memVars,
                 fileVars, bootVars, errVars>>

OpenCompactionOutputFile(c) ==
  /\ Running /\ pc[c] = "run" /\ nextFile <= MaxFile
  /\ out' = [out EXCEPT ![c] = nextFile]
  /\ nextFile' = nextFile + 1
  /\ KeyList' = AddSSTKeyToList(KeyList, nextFile, boot)
  /\ pc' = [pc EXCEPT ![c] = "build"]
  /\ UNCHANGED <<disk, pend, pins, ins, outs, del, todo, logVars, memVars,
                 version, sv, obsolete, grabbed, bootVars, errVars>>

\* The output is written while the inputs are read; an output that turns out
\* empty is deleted again, and its key stays in KeyList.
FinishCompactionOutputFile(c) ==
  /\ Running /\ c \in CompactionJobs /\ pc[c] = "build"
  /\ phase' = IF \A n \in ins[c] : Opens(KeyList, n) THEN phase ELSE "aborted"
  /\ \/ /\ table' = [table EXCEPT ![out[c]] = KeyList[out[c]]]
        /\ outs' = [outs EXCEPT ![c] = @ \cup {out[c]}]
     \/ UNCHANGED <<table, outs>>
  /\ pc' = [pc EXCEPT ![c] = "run"]
  /\ UNCHANGED <<KeyList, manifest, pend, pins, ins, out, del, todo, logVars,
                 memVars, fileVars, unref, recovered, rekey, boot, errVars>>

\* A compaction fails between two outputs or in the middle of one, of which it
\* may leave a part on disk.
CompactionFails(c) ==
  /\ Running /\ AllowFailure /\ c \in CompactionJobs
  /\ \/ pc[c] \in {"run", "build"} /\ UNCHANGED table
     \/ pc[c] = "build" /\ table' = [table EXCEPT ![out[c]] = KeyList[out[c]]]
  /\ pc' = [pc EXCEPT ![c] = "failed"]
  /\ bgError' = TRUE
  /\ disable_delete_obsolete_files_' =
       (disable_delete_obsolete_files_ \/ ~descriptor_log_)
  /\ UNCHANGED <<KeyList, manifest, pend, pins, ins, out, outs, del, todo,
                 logVars, memVars, fileVars, bootVars, descriptor_log_>>

InstallCompactionResults(c) ==
  /\ Running /\ c \in CompactionJobs /\ pc[c] = "run"
  /\ todo' = [todo EXCEPT ![c] = outs[c]]
  /\ pc' = [pc EXCEPT ![c] = "sync"]
  /\ UNCHANGED <<KeyList, disk, pend, pins, ins, out, outs, del, logVars,
                 memVars, fileVars, bootVars, errVars>>

\* One key record per output, before the outputs are installed.
LogCompactionKey(c) ==
  /\ Running /\ pc[c] = "sync"
  /\ \E n \in todo[c] :
       /\ todo' = [todo EXCEPT ![c] = @ \ {n}]
       /\ phase' = IF KeyList[n] = NoKey THEN "aborted" ELSE phase
       /\ LogAndApply(c, AddSSTKey(n, KeyList[n]), {})
  /\ pc' = [pc EXCEPT ![c] = "syncing"]
  /\ UNCHANGED <<KeyList, disk, pend, pins, ins, out, outs, del, group,
                 rolling, newManifest, memVars, fileVars, unref,
                 recovered, rekey, boot, errVars>>

\* Mutant: the outputs are installed before their keys are recorded.
ApplyCompactionEarly(c) ==
  /\ Running /\ pc[c] = "sync"
  /\ LogAndApply(c, [EmptyEdit EXCEPT !.add = outs[c], !.del = ins[c]], {})
  /\ pc' = [pc EXCEPT ![c] = "applying"]
  /\ UNCHANGED <<KeyList, disk, pend, pins, ins, out, outs, del, todo, group,
                 rolling, newManifest, memVars, fileVars, bootVars, errVars>>

ApplyCompaction(c) ==
  /\ Running /\ pc[c] = "sync" /\ todo[c] = {}
  /\ LogAndApply(c, [EmptyEdit EXCEPT !.add = outs[c], !.del = ins[c]], {})
  /\ pc' = [pc EXCEPT ![c] = "applying"]
  /\ UNCHANGED <<KeyList, disk, pend, pins, ins, out, outs, del, todo, group,
                 rolling, newManifest, memVars, fileVars, bootVars, errVars>>

-----------------------------------------------------------------------------
(* Obsolete files *)

\* Mutant: only the current version keeps a file.
FindObsoleteFilesCurrentOnly(h, full) ==
  LET found  == obsolete \cup (Live \ version')
      deletes == {n \in found : BelowPending(n, pend')}
      purged == {n \in deletes : n \notin version'}
  IN /\ obsolete' = found \ deletes
     /\ grabbed' = grabbed \cup deletes
     /\ del'  = [del EXCEPT ![h] = purged]
     /\ todo' = [todo EXCEPT ![h] = purged]
     /\ pc'   = [pc EXCEPT ![h] = IF purged = {} THEN "idle" ELSE "purge"]

\* FindObsoleteFiles and the choice of PurgeObsoleteFiles between keeping and
\* deleting, once the caller's references and its pending_outputs_ entry are
\* gone; nothing while file deletions are disabled.
FindObsoleteFiles(h, full) ==
  LET found   == obsolete \cup (Live \ Live')
      enabled == ~disable_delete_obsolete_files_
      deletes == {n \in found : enabled /\ BelowPending(n, pend')}
      scanned == IF full /\ enabled
                 THEN {n \in File : table[n] # NoKey} \ grabbed ELSE {}
      purged == {n \in deletes \cup scanned : n \notin Live'
                                              /\ BelowPending(n, pend')}
  IN /\ obsolete' = found \ deletes
     /\ grabbed' = grabbed \cup deletes
     /\ del'  = [del EXCEPT ![h] = purged]
     /\ todo' = [todo EXCEPT ![h] = purged]
     /\ pc'   = [pc EXCEPT ![h] = IF purged = {} THEN "idle" ELSE "purge"]

\* Mutant: a failed write to the MANIFEST does not disable file deletions.
SetBGErrorKeepDeleting(j) ==
  /\ Running
  /\ \/ pc[j] \in {"err", "errio"} /\ UNCHANGED sv
     \/ j \in CompactionJobs /\ pc[j] = "release" /\ ~descriptor_log_
        /\ sv' = version
  /\ bgError' = TRUE
  /\ pc' = [pc EXCEPT ![j] = "failed"]
  /\ UNCHANGED <<version, pins>> /\ UnrefVersions
  /\ UNCHANGED <<KeyList, disk, pend, ins, out, outs, del, todo, logVars,
                 memVars, nextFile, grabbed, bootVars, descriptor_log_,
                 disable_delete_obsolete_files_>>

\* A flush whose commit failed, a compaction that was not installed, or one that
\* was and finds the MANIFEST in error stops background work.  File deletions
\* stop as well when the MANIFEST is still in error.
SetBGError(j) ==
  /\ Running
  /\ \/ pc[j] \in {"err", "errio"} /\ UNCHANGED sv
     \/ j \in CompactionJobs /\ pc[j] = "release" /\ ~descriptor_log_
        /\ sv' = version
  /\ bgError' = TRUE
  /\ disable_delete_obsolete_files_' =
       (disable_delete_obsolete_files_ \/ (pc[j] # "err" /\ ~descriptor_log_))
  /\ pc' = [pc EXCEPT ![j] = "failed"]
  /\ UNCHANGED <<version, pins>> /\ UnrefVersions
  /\ UNCHANGED <<KeyList, disk, pend, ins, out, outs, del, todo, logVars,
                 memVars, nextFile, grabbed, bootVars, descriptor_log_>>

\* The end of BackgroundCallFlush and BackgroundCallCompaction: install a
\* SuperVersion, release the pending output and the input version, look for
\* obsolete files (by a full scan after a failure or when the period is over).
ReleaseAndFind(j) ==
  /\ Running /\ pc[j] \in {"release", "failed"}
  /\ j \in CompactionJobs /\ pc[j] = "release" => descriptor_log_
  /\ sv'   = IF pc[j] = "release" THEN version ELSE sv
  /\ pins' = [pins EXCEPT ![j] = {}]
  /\ pend' = [pend EXCEPT ![j] = None]
  /\ ins'  = [ins EXCEPT ![j] = {}]
  /\ out'  = [out EXCEPT ![j] = None]
  /\ outs' = [outs EXCEPT ![j] = {}]
  /\ UNCHANGED version
  /\ \E full \in BOOLEAN :
       /\ pc[j] = "failed" => full
       /\ FindObsoleteFiles(j, full)
  /\ UNCHANGED <<KeyList, disk, logVars, memVars, nextFile, bootVars, errVars>>

\* Mutant: the key records are dropped while files are still to be deleted.
PurgeDoneEarly(h) ==
  /\ Running /\ pc[h] = "purge"
  /\ grabbed' = grabbed \ del[h]
  /\ pc'   = [pc EXCEPT ![h] = IF h \in Jobs THEN "drop" ELSE "idle"]
  /\ todo' = [todo EXCEPT ![h] = IF h \in Jobs THEN del[h] ELSE {}]
  /\ del'  = [del EXCEPT ![h] = IF h \in Jobs THEN @ ELSE {}]
  /\ UNCHANGED <<KeyList, disk, pend, pins, ins, out, outs, logVars, memVars,
                 version, sv, nextFile, obsolete, bootVars, errVars>>

\* PurgeObsoleteFiles deletes one file after the other without the mutex.
DeleteObsoleteFile(h) ==
  /\ Running /\ pc[h] = "purge"
  /\ \E n \in todo[h] :
       /\ table' = [table EXCEPT ![n] = NoKey]
       /\ todo' = [todo EXCEPT ![h] = @ \ {n}]
  /\ UNCHANGED <<KeyList, manifest, pc, pend, pins, ins, out, outs, del,
                 logVars, memVars, fileVars, bootVars, errVars>>

\* The purge of a background job goes on to the keys; the purge an iterator
\* runs does not.
PurgeDone(h) ==
  /\ Running /\ pc[h] = "purge" /\ todo[h] = {}
  /\ grabbed' = grabbed \ del[h]
  /\ pc'   = [pc EXCEPT ![h] = IF h \in Jobs THEN "drop" ELSE "idle"]
  /\ todo' = [todo EXCEPT ![h] = IF h \in Jobs THEN del[h] ELSE {}]
  /\ del'  = [del EXCEPT ![h] = IF h \in Jobs THEN @ ELSE {}]
  /\ UNCHANGED <<KeyList, disk, pend, pins, ins, out, outs, logVars, memVars,
                 version, sv, nextFile, obsolete, bootVars, errVars>>

\* One DeleteSSTKey record per purged file.
LogKeyDeletion(j) ==
  /\ Running /\ pc[j] = "drop"
  /\ \E n \in todo[j] :
       /\ todo' = [todo EXCEPT ![j] = @ \ {n}]
       /\ LogAndApply(j, DeleteSSTKey(n), {})
  /\ pc' = [pc EXCEPT ![j] = "dropping"]
  /\ UNCHANGED <<KeyList, disk, pend, pins, ins, out, outs, del, group,
                 rolling, newManifest, memVars, fileVars, bootVars, errVars>>

\* When all records are written the keys leave the list.
EraseKeys(j) ==
  /\ Running /\ pc[j] = "drop" /\ todo[j] = {}
  /\ KeyList' = [n \in File |-> IF n \in del[j] THEN NoKey ELSE KeyList[n]]
  /\ del' = [del EXCEPT ![j] = {}]
  /\ pc'  = [pc EXCEPT ![j] = "idle"]
  /\ UNCHANGED <<disk, pend, pins, ins, out, outs, todo, logVars, memVars,
                 fileVars, bootVars, errVars>>

-----------------------------------------------------------------------------
(* Clients *)

\* SwitchMemtable installs a SuperVersion of the current version.
SwitchMemtable ==
  /\ Running /\ sv # version
  /\ sv' = version
  /\ UNCHANGED <<version, pins>> /\ UnrefVersions
  /\ UNCHANGED <<KeyList, disk, pc, pend, ins, out, outs, del, todo, logVars,
                 memVars, nextFile, grabbed, bootVars, errVars>>

NewIterator(i) ==
  /\ Running /\ pc[i] = "idle"
  /\ pins' = [pins EXCEPT ![i] = sv]
  /\ pc' = [pc EXCEPT ![i] = "iterate"]
  /\ UNCHANGED <<KeyList, disk, pend, ins, out, outs, del, todo, logVars,
                 memVars, fileVars, bootVars, errVars>>

\* BlockFetcher looks the key up and exits on a digest mismatch.
ReadBlock(i) ==
  /\ Running /\ pc[i] = "iterate"
  /\ \E n \in pins[i] : phase' = IF Opens(KeyList, n) THEN phase ELSE "aborted"
  /\ UNCHANGED <<KeyList, disk, jobVars, logVars, memVars, fileVars, unref,
                 recovered, rekey, boot, errVars>>

\* CleanupIteratorState: the last reference to a SuperVersion makes the client
\* thread purge what became obsolete.
DeleteIterator(i) ==
  /\ Running /\ pc[i] = "iterate"
  /\ pins' = [pins EXCEPT ![i] = {}]
  /\ UNCHANGED <<version, sv, pend>>
  /\ \/ FindObsoleteFiles(i, FALSE)
     \/ /\ pins[i] \in {sv} \cup {pins[k] : k \in Iterators \ {i}}
        /\ pc' = [pc EXCEPT ![i] = "idle"]
        /\ UnrefVersions
        /\ UNCHANGED <<grabbed, del, todo>>
  /\ UNCHANGED <<KeyList, disk, ins, out, outs, logVars, memVars, nextFile,
                 bootVars, errVars>>

-----------------------------------------------------------------------------
(* VersionSet::ProcessManifestWrites *)

\* The first writer takes everything queued as one group, gives every edit the
\* current next_file_number_ and opens the tables the group adds.
BeginManifestWrite ==
  /\ Running /\ group.size = 0 /\ writers # <<>>
  /\ group' = [size |-> Len(writers), done |-> 0, next |-> nextFile]
  /\ phase' = IF \A i \in DOMAIN writers : \A n \in writers[i].edit.add :
                    Opens(KeyList, n)
              THEN phase ELSE "aborted"
  /\ \E new_descriptor_log \in BOOLEAN :
       /\ new_descriptor_log => AllowRoll \/ ~descriptor_log_
       /\ ~descriptor_log_ => new_descriptor_log
       /\ rolling' = new_descriptor_log
       /\ newManifest' = IF new_descriptor_log THEN WriteCurrentStateToManifest
                         ELSE newManifest
  /\ UNCHANGED <<KeyList, disk, jobVars, writers, memVars, fileVars, unref,
                 recovered, rekey, boot, errVars>>

\* AddRecord of one edit of the group, the mutex released.
AppendRecord ==
  /\ Running /\ group.done < group.size
  /\ LET e == writers[group.done + 1].edit
     IN IF rolling
        THEN /\ newManifest' = ApplyVersionEdit(newManifest, e, group.next)
             /\ UNCHANGED manifest
        ELSE /\ manifest' = ApplyVersionEdit(manifest, e, group.next)
             /\ UNCHANGED newManifest
  /\ group' = [group EXCEPT !.done = @ + 1]
  /\ UNCHANGED <<KeyList, table, jobVars, writers, rolling, memVars, fileVars,
                 bootVars, errVars>>

\* CURRENT names the new MANIFEST once it is complete and synced.
SetCurrentFile ==
  /\ Running /\ rolling /\ group.done = group.size
  /\ manifest' = newManifest /\ newManifest' = EmptyManifest
  /\ rolling' = FALSE
  /\ UNCHANGED <<KeyList, table, jobVars, writers, group, memVars, fileVars,
                 bootVars, errVars>>

\* The edits of the group in progress.
Batch == {writers[i] : i \in 1 .. group.size}

\* Where a job goes on when its writer is done; ok is the status the writer
\* got, which only the two installs look at.
Resume(p, ok) ==
  CASE p = "committing" -> IF ok THEN "commit" ELSE "restored"
    [] p = "applying"   -> IF ok THEN "release" ELSE "errio"
    [] p = "keying"     -> "release"
    [] p = "keyingio"   -> "errio"
    [] p = "keyingerr"  -> "err"
    [] p = "syncing"    -> "sync"
    [] p = "dropping"   -> "drop"
    [] OTHER            -> p

\* Mutant: only the writer that led the group is woken.
WakeWritersLeaderOnly(ok) ==
  /\ pc' = [pc EXCEPT ![writers[1].job] = Resume(@, ok)]
  /\ writers' = SubSeq(writers, group.size + 1, Len(writers))
  /\ group' = NoGroup

\* The group leaves the queue and all its writers are woken.
WakeWriters(ok) ==
  /\ pc' = [h \in Holders |->
             IF h \in {w.job : w \in Batch} THEN Resume(pc[h], ok) ELSE pc[h]]
  /\ writers' = SubSeq(writers, group.size + 1, Len(writers))
  /\ group' = NoGroup

\* The mutex is held again: install the version, drop the committed memtables,
\* wake every writer of the group.
FinishManifestWrite ==
  /\ Running /\ ~rolling /\ group.size # 0 /\ group.done = group.size
  /\ version' = (version \ UNION {w.edit.del : w \in Batch})
                  \cup UNION {w.edit.add : w \in Batch}
  /\ imm' = {m \in imm : m.id \notin UNION {w.mems : w \in Batch}}
  /\ WakeWriters(TRUE)
  /\ descriptor_log_' = TRUE
  /\ UNCHANGED <<sv, pins>> /\ UnrefVersions
  /\ UNCHANGED <<KeyList, disk, pend, ins, out, outs, del, todo, rolling,
                 newManifest, committing, nextFile, grabbed, bootVars, bgError,
                 disable_delete_obsolete_files_>>

\* A write or a sync fails, the record in question on disk or not.  No version
\* is installed, the memtables can be flushed again, a new MANIFEST is deleted
\* and the next edit starts another one.
ManifestWriteFails ==
  /\ Running /\ AllowManifestError /\ group.done < group.size
  /\ \E landed \in BOOLEAN :
       manifest' = IF landed /\ ~rolling
                   THEN ApplyVersionEdit(manifest,
                          writers[group.done + 1].edit, group.next)
                   ELSE manifest
  /\ imm' = Rollback(imm, {m \in imm : m.id \in UNION {w.mems : w \in Batch}})
  /\ WakeWriters(FALSE)
  /\ rolling' = FALSE /\ newManifest' = EmptyManifest
  /\ descriptor_log_' = FALSE
  /\ UNCHANGED <<KeyList, table, pend, pins, ins, out, outs, del, todo,
                 committing, fileVars, bootVars, bgError,
                 disable_delete_obsolete_files_>>

-----------------------------------------------------------------------------
(* Crash and recovery *)

\* The process dies; RAM is gone, the records appended so far are not.
Crash ==
  /\ phase \in {"open", "recovered", "replayed", "rekey"} /\ boot < MaxBoot
  /\ phase' = "down"
  /\ KeyList' = [n \in File |-> NoKey]
  /\ version' = {} /\ sv' = {} /\ nextFile' = 1
  /\ imm' = {} /\ committing' = FALSE
  /\ pc' = [h \in Holders |-> "idle"]
  /\ pend' = [j \in Jobs |-> None] /\ out' = [j \in Jobs |-> None]
  /\ pins' = [h \in Holders |-> {}]
  /\ ins' = [j \in Jobs |-> {}] /\ outs' = [j \in Jobs |-> {}]
  /\ del' = [h \in Holders |-> {}] /\ todo' = [h \in Holders |-> {}]
  /\ obsolete' = {} /\ grabbed' = {}
  /\ writers' = <<>> /\ group' = NoGroup /\ rolling' = FALSE
  /\ newManifest' = EmptyManifest
  /\ unref' = {} /\ recovered' = {} /\ rekey' = {} /\ bgError' = FALSE
  /\ descriptor_log_' = TRUE /\ disable_delete_obsolete_files_' = FALSE
  /\ UNCHANGED <<disk, boot>>

\* VersionSet::Recover replays the MANIFEST, refills KeyList and opens every
\* live table; a table whose key is missing stops the process.
Recover ==
  /\ phase = "down"
  /\ boot' = boot + 1
  /\ KeyList' = manifest.keys
  /\ version' = manifest.files /\ sv' = manifest.files
  /\ nextFile' = manifest.next
  /\ phase' = IF \A n \in manifest.files : Opens(manifest.keys, n)
              THEN "recovered" ELSE "unopenable"
  /\ UNCHANGED <<disk, jobVars, logVars, memVars, obsolete, grabbed, unref,
                 recovered, rekey, errVars>>

\* Recovery moves the counter past every file it finds.  Its first edit opens
\* a new MANIFEST, which holds no key, before the WALs are replayed ...
DeleteUnreferencedSstFiles ==
  LET onDisk == {n \in File : table[n] # NoKey}
  IN /\ phase = "recovered"
     /\ \E largest \in onDisk \cup {nextFile} :
          /\ \A n \in onDisk \cup {nextFile} : n <= largest
          /\ nextFile' = IF largest > nextFile THEN largest + 1 ELSE nextFile
     /\ unref' = {n \in onDisk : n >= nextFile}
     /\ manifest' = [WriteCurrentStateToManifest EXCEPT !.next = nextFile']
     /\ phase' = "replayed"
     /\ UNCHANGED <<KeyList, table, jobVars, logVars, memVars, version, sv,
                    obsolete, grabbed, recovered, rekey, boot, errVars>>

\* ... and then the tables the old MANIFEST had no number for are deleted.
DeleteUnreferencedFile ==
  /\ phase = "replayed"
  /\ \E n \in unref :
       /\ table' = [table EXCEPT ![n] = NoKey]
       /\ unref' = unref \ {n}
  /\ UNCHANGED <<KeyList, manifest, jobVars, logVars, memVars, fileVars,
                 recovered, rekey, phase, boot, errVars>>

\* Replayed WAL records are flushed to a table of their own.
WriteLevel0TableForRecovery ==
  /\ phase = "replayed" /\ unref = {} /\ nextFile <= MaxFile
  /\ KeyList' = AddSSTKeyToList(KeyList, nextFile, boot)
  /\ table' = [table EXCEPT ![nextFile] = KeyList'[nextFile]]
  /\ recovered' = recovered \cup {nextFile}
  /\ nextFile' = nextFile + 1
  /\ UNCHANGED <<manifest, jobVars, logVars, memVars, version, sv, obsolete,
                 grabbed, unref, rekey, phase, boot, errVars>>

\* The end of RecoverLogFiles: one more MANIFEST without a key ...
RecoverLogFiles ==
  /\ phase = "replayed" /\ unref = {}
  /\ version' = version \cup recovered
  /\ sv' = version'
  /\ manifest' = [WriteCurrentStateToManifest EXCEPT !.files = version']
  /\ rekey' = {n \in File : KeyList[n] # NoKey}
  /\ recovered' = {}
  /\ phase' = "rekey"
  /\ UNCHANGED <<KeyList, table, jobVars, logVars, memVars, nextFile, obsolete,
                 grabbed, unref, boot, errVars>>

\* ... and then one record per key of the list, in the order of the map.
LogRecoveredKey ==
  /\ phase = "rekey" /\ rekey # {}
  /\ \E n \in rekey :
       /\ \A y \in rekey : n <= y
       /\ manifest' = ApplyVersionEdit(manifest, AddSSTKey(n, KeyList[n]),
                                       nextFile)
       /\ rekey' = rekey \ {n}
  /\ UNCHANGED <<KeyList, table, jobVars, logVars, memVars, fileVars, unref,
                 recovered, phase, boot, errVars>>

\* DB::Open ends with a full scan that deletes what no version lists; the keys
\* of the deleted files stay.
OpenDone ==
  /\ phase = "rekey" /\ rekey = {}
  /\ table' = [n \in File |-> IF n \in version THEN table[n] ELSE NoKey]
  /\ phase' = "open"
  /\ UNCHANGED <<KeyList, manifest, jobVars, logVars, memVars, fileVars,
                 unref, recovered, rekey, boot, errVars>>

\* A database that cannot be opened, a process that called exit, or one with
\* nothing to do: background work stopped, or the numbers of the bound spent.
Stopped ==
  /\ \/ phase \in {"unopenable", "aborted"}
     \/ /\ Running /\ \A h \in Holders : pc[h] = "idle"
        /\ bgError \/ nextFile > MaxFile
  /\ UNCHANGED vars

-----------------------------------------------------------------------------
Init ==
  /\ KeyList = [n \in File |-> NoKey] /\ table = [n \in File |-> NoKey]
  /\ manifest = EmptyManifest /\ newManifest = EmptyManifest
  /\ rolling = FALSE
  /\ version = {} /\ sv = {} /\ nextFile = 1
  /\ imm = {} /\ committing = FALSE
  /\ pc = [h \in Holders |-> "idle"]
  /\ pend = [j \in Jobs |-> None] /\ out = [j \in Jobs |-> None]
  /\ pins = [h \in Holders |-> {}]
  /\ ins = [j \in Jobs |-> {}] /\ outs = [j \in Jobs |-> {}]
  /\ del = [h \in Holders |-> {}] /\ todo = [h \in Holders |-> {}]
  /\ obsolete = {} /\ grabbed = {}
  /\ writers = <<>> /\ group = NoGroup
  /\ unref = {} /\ recovered = {} /\ rekey = {} /\ bgError = FALSE
  /\ descriptor_log_ = TRUE /\ disable_delete_obsolete_files_ = FALSE
  /\ phase = "open" /\ boot = 1

FlushStep(j) ==
  \/ FlushStart(j) \/ GenerateKey(j) \/ BuildFlushTable(j) \/ FlushFails(j)
  \/ TryInstallMemtableFlushResults(j) \/ CommitMemtables(j) \/ CommitDone(j)
  \/ CommitFails(j) \/ LogFlushKey(j)

CompactionStep(c) ==
  \/ CompactionStart(c) \/ OpenCompactionOutputFile(c)
  \/ FinishCompactionOutputFile(c) \/ CompactionFails(c)
  \/ InstallCompactionResults(c) \/ LogCompactionKey(c) \/ ApplyCompaction(c)

PurgeStep(j) ==
  \/ SetBGError(j) \/ ReleaseAndFind(j) \/ LogKeyDeletion(j) \/ EraseKeys(j)

IteratorStep(i) ==
  \/ NewIterator(i) \/ ReadBlock(i) \/ DeleteIterator(i)

ManifestStep ==
  \/ BeginManifestWrite \/ AppendRecord \/ SetCurrentFile
  \/ FinishManifestWrite \/ ManifestWriteFails

RecoveryStep ==
  \/ Recover \/ DeleteUnreferencedSstFiles \/ DeleteUnreferencedFile
  \/ WriteLevel0TableForRecovery \/ RecoverLogFiles
  \/ LogRecoveredKey \/ OpenDone

Next ==
  \/ \E j \in FlushJobs : FlushStep(j)
  \/ \E c \in CompactionJobs : CompactionStep(c)
  \/ \E j \in Jobs : PurgeStep(j)
  \/ \E h \in Holders : DeleteObsoleteFile(h) \/ PurgeDone(h)
  \/ \E i \in Iterators : IteratorStep(i)
  \/ SwitchMemtable
  \/ ManifestStep
  \/ Crash
  \/ RecoveryStep
  \/ Stopped

Spec == Init /\ [][Next]_vars

\* Background threads and the leader of the MANIFEST queue are scheduled;
\* clients and crashes owe nothing.
Fairness ==
  /\ \A j \in FlushJobs :
       WF_vars(FlushStep(j) \/ PurgeStep(j) \/ DeleteObsoleteFile(j)
                 \/ PurgeDone(j))
  /\ \A c \in CompactionJobs :
       WF_vars(CompactionStep(c) \/ PurgeStep(c) \/ DeleteObsoleteFile(c)
                 \/ PurgeDone(c))
  /\ WF_vars(ManifestStep)

FairSpec == Spec /\ Fairness

-----------------------------------------------------------------------------
JobState ==
  {"idle", "gen", "build", "install", "commit", "committing", "key", "keying",
   "run", "sync", "syncing", "applying", "release", "failed", "iterate",
   "purge", "drop", "dropping", "restored", "keyio", "keyerr", "keyingio",
   "keyingerr", "err", "errio"}

Phase == {"open", "down", "recovered", "replayed", "rekey", "unopenable",
          "aborted"}

KeyType ==
  /\ KeyList \in [File -> Key] /\ table \in [File -> Key]
  /\ manifest \in Manifest /\ newManifest \in Manifest

FlagType ==
  /\ rolling \in BOOLEAN /\ committing \in BOOLEAN /\ bgError \in BOOLEAN
  /\ descriptor_log_ \in BOOLEAN /\ disable_delete_obsolete_files_ \in BOOLEAN

Mem == {m \in [id : File, file : File \cup {None}, done : BOOLEAN,
                has : BOOLEAN] : m.has => m.file # None}

MemType == imm \subseteq Mem

FileType ==
  /\ version \subseteq File /\ sv \subseteq File
  /\ obsolete \subseteq File /\ grabbed \subseteq File
  /\ unref \subseteq File /\ recovered \subseteq File /\ rekey \subseteq File
  /\ nextFile \in 1 .. MaxFile + 1

JobType ==
  /\ pc \in [Holders -> JobState]
  /\ pend \in [Jobs -> 0 .. MaxFile + 1]
  /\ pins \in [Holders -> SUBSET File]
  /\ ins \in [Jobs -> SUBSET File]
  /\ out \in [Jobs -> File \cup {None}]
  /\ outs \in [Jobs -> SUBSET File]
  /\ del \in [Holders -> SUBSET File]
  /\ todo \in [Holders -> SUBSET File]

Writer == [job : Jobs, edit : Edit, mems : SUBSET File]

LogType ==
  /\ writers \in Seq(Writer)
  /\ group \in [size : Nat, done : Nat, next : 1 .. MaxFile + 1]

BootType == phase \in Phase /\ boot \in Boot

\* Every variable holds what its declaration says, in memory and on disk.
TypeOK ==
  /\ KeyType /\ FlagType /\ MemType /\ FileType /\ JobType /\ LogType
  /\ BootType

-----------------------------------------------------------------------------
(* Properties *)

\* While the database is open, every file some version in memory lists (the
\* current one, the SuperVersion's, one an iterator or a job holds) can be
\* decrypted: its key is in KeyList and is the one its blocks were encrypted
\* with.  A purge must never take the key of a file that is still read.
LiveFilesReadable == Running => \A n \in Live : Opens(KeyList, n)

\* The running process never reaches one of its exit(-1) calls: "Fail to Find
\* sst key" in FlushJob::Run and InstallCompactionResults, "Block Corruption"
\* in BlockFetcher.  So FilenameToKey never inserts an empty key either.
NeverAborts == phase # "aborted"

\* The files a flush has installed without a key record yet.
FlushWindow ==
  {n \in File : \E j \in FlushJobs :
     out[j] = n /\ pc[j] \in {"install", "commit", "committing", "key",
                              "keying"}}

\* Every file the durable MANIFEST lists has its key there as well, apart from
\* the two windows the code has: between the install of a flush and its key
\* record, and in recovery from its first MANIFEST until it has recorded the
\* key again.
DurableKeysOutsideWindows ==
  phase \in {"open", "recovered", "rekey"} =>
    \A n \in manifest.files \ (FlushWindow \cup rekey) :
      Opens(manifest.keys, n)

\* A number with a key, in memory or in the MANIFEST, is never given out again,
\* after a crash either: GenerateKey's insert would keep the old key.
KeyedNumbersSpent ==
  /\ Running => \A n \in File : KeyList[n] # NoKey => n < nextFile
  /\ \A n \in File :
       manifest.keys[n] # NoKey \/ n \in manifest.files => n < manifest.next

\* A key record is deleted only when the file is neither listed by the MANIFEST
\* nor on disk any more, so a crash between the steps of a purge leaves a key
\* too many and never one too few.
KeyRecordOutlivesFile ==
  [][Running => \A n \in File :
       manifest.keys[n] # NoKey /\ manifest'.keys[n] = NoKey
         => n \notin manifest'.files /\ table[n] = NoKey]_vars

\* Every table the MANIFEST on disk lists is there, after failed writes to the
\* MANIFEST too.  An edit that failed may be on disk all the same, so the files
\* it adds must survive the clean-up of the job whose edit it is: the process
\* may die and replay that MANIFEST.
ListedTablesExist == Running => \A n \in manifest.files : table[n] # NoKey

\* Every background job that started ends: nobody sleeps for ever in the
\* MANIFEST writer queue, the commit loop or the purge.
JobsFinish == \A j \in Jobs : pc[j] # "idle" ~> pc[j] = "idle"

\* include/rocksdb/options.h on WriteOptions::sync: when just the process
\* crashes no writes are lost.  So the database can be opened again after it.
ReopensAfterCrash == phase # "unopenable"

=============================================================================
