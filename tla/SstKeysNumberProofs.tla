------------------------- MODULE SstKeysNumberProofs -------------------------
(***************************************************************************)
(* A file number that has a key is never given out again, not after a      *)
(* crash either.  The MANIFEST carries next_file_number_ with every edit,  *)
(* and GenerateKey's insert keeps an old key: so the number in the         *)
(* MANIFEST must be ahead of every number any queued edit mentions, at     *)
(* every prefix of a group a crash may leave.  The invariant follows the   *)
(* numbers from the jobs through the queue and the group into the          *)
(* MANIFEST, and back into memory at recovery.                             *)
(***************************************************************************)
EXTENDS SstKeysTypeProofs

\* The numbers an edit brings into the MANIFEST are below b.
EditBelow(e, b) == e.sst < b /\ \A n \in e.add : n < b

\* A MANIFEST is ahead of the files and the keys it holds.
Fits(m) == \A n \in File : m.keys[n] # NoKey \/ n \in m.files => n < m.next

\* The states in which next_file_number_ is in memory.
Up == phase \in {"open", "recovered", "replayed", "rekey"}

\* The MANIFESTs on disk.
ManifestFits == Fits(manifest) /\ (rolling => Fits(newManifest))

\* Everything in memory that will get into an edit is below next_file_number_.
RamSpent ==
  Up =>
    /\ manifest.next <= nextFile
    /\ \A n \in File : KeyList[n] # NoKey => n < nextFile
    /\ \A n \in version \cup recovered \cup rekey : n < nextFile
    /\ \A m \in imm : m.file < nextFile
    /\ \A j \in Jobs : out[j] < nextFile /\ \A n \in outs[j] : n < nextFile
    /\ \A j \in Jobs : pc[j] \in {"sync", "syncing"} =>
         \A n \in todo[j] : n < nextFile

\* So are the edits of the queue; those of the group that is being written are
\* below the number the group carries.
QueueSpent ==
  Up =>
    /\ \A i \in 1 .. Len(writers) : EditBelow(writers[i].edit, nextFile)
    /\ \A i \in 1 .. group.size : EditBelow(writers[i].edit, group.next)
    /\ rolling => group.size # 0
    /\ group.size # 0 =>
         /\ manifest.next <= group.next /\ group.next <= nextFile
         /\ rolling => newManifest.next <= group.next

\* Nothing runs while the database is down or being recovered.
Quiet ==
  phase \in {"down", "recovered", "replayed", "rekey"} =>
    /\ writers = <<>> /\ group = NoGroup /\ ~rolling
    /\ imm = {} /\ out = [j \in Jobs |-> None] /\ outs = [j \in Jobs |-> {}]
    /\ pc = [h \in Holders |-> "idle"]
    /\ phase = "down" => recovered = {} /\ rekey = {}

\* The inductive invariant of this module, on top of TInv.
NInv == ManifestFits /\ RamSpent /\ QueueSpent /\ Quiet

USE SstKeysAssumption DEF errVars

-----------------------------------------------------------------------------
(* The operators of the model *)

\* Queueing an edit whose numbers are spent keeps the queue spent.
LEMMA QueueAppend ==
  ASSUME QueueSpent, LogType, Shape, FileType, phase = "open",
         NEW j \in Jobs, NEW e \in Edit, NEW mems \in SUBSET File,
         LogAndApply(j, e, mems), EditBelow(e, nextFile),
         UNCHANGED <<group, nextFile, manifest, newManifest, rolling>>
  PROVE  QueueSpent'
<1>1. /\ Len(writers') = Len(writers) + 1
      /\ \A i \in 1 .. Len(writers) : writers'[i] = writers[i]
      /\ writers'[Len(writers) + 1].edit = e
  BY DEF LogAndApply, LogType
<1>2. \A i \in 1 .. Len(writers') : EditBelow(writers'[i].edit, nextFile)
  BY <1>1 DEF QueueSpent, Up, LogType
<1> QED
  BY <1>1, <1>2 DEF QueueSpent, Up, EditBelow, LogType, Shape

\* The fields of the edits that carry or drop a key.
LEMMA EditFields ==
  /\ \A n \in File, k \in Key : /\ AddSSTKey(n, k) \in Edit
                               /\ AddSSTKey(n, k).sst = n
                               /\ AddSSTKey(n, k).add = {}
  /\ \A n \in File : /\ DeleteSSTKey(n) \in Edit
                     /\ DeleteSSTKey(n).sst = None
                     /\ DeleteSSTKey(n).add = {}
BY DEF AddSSTKey, DeleteSSTKey, EmptyEdit, Edit, Key

\* Numbers below a bound are below a later one.
LEMMA EditLater ==
  ASSUME NEW e \in Edit, NEW a \in Nat, NEW b \in Nat, a <= b,
         EditBelow(e, a)
  PROVE  EditBelow(e, b)
BY DEF EditBelow, Edit, File, None

\* Replaying a spent edit keeps a MANIFEST ahead of the numbers it holds.
LEMMA ApplyFits ==
  ASSUME NEW m \in Manifest, NEW e \in Edit, NEW next \in 1 .. MaxFile + 1,
         Fits(m), m.next <= next, EditBelow(e, next)
  PROVE  /\ Fits(ApplyVersionEdit(m, e, next))
         /\ ApplyVersionEdit(m, e, next).next = next
<1> DEFINE added == IF e.sst = None THEN m.keys
                    ELSE AddSSTKeyToList(m.keys, e.sst, e.key)
           keys  == IF e.drop = None THEN added
                    ELSE DeleteSSTKeyFromList(added, e.drop)
<1>1. added \in [File -> Key]
  BY AddKeyType DEF Manifest, Edit
<1>2. \A n \in File : added[n] # NoKey => m.keys[n] # NoKey \/ n = e.sst
  BY DEF AddSSTKeyToList, Manifest, Edit
<1>3. \A n \in File : keys[n] # NoKey => added[n] # NoKey
  BY <1>1 DEF DeleteSSTKeyFromList, Edit
<1>4. \A n \in File : m.keys[n] # NoKey \/ n \in m.files => n < next
  BY DEF Fits, Manifest, File
<1>5. \A n \in File : keys[n] # NoKey => n < next
  BY <1>2, <1>3, <1>4 DEF EditBelow
<1>6. \A n \in (m.files \ e.del) \cup e.add : n \in File => n < next
  BY <1>4 DEF EditBelow
<1> QED
  BY <1>5, <1>6 DEF Fits, ApplyVersionEdit

\* Every writer of the queue has an edit.
LEMMA WriterEdit ==
  ASSUME LogType, NEW i \in 1 .. Len(writers)
  PROVE  writers[i].edit \in Edit
<1>1. writers[i] \in Writer
  BY SeqElement DEF LogType
<1> QED
  BY <1>1 DEF Writer

\* The edit that is written next is spent, and so is the MANIFEST.
LEMMA GroupEdit ==
  ASSUME LogType, QueueSpent, Running, group.done < group.size
  PROVE  /\ EditBelow(writers[group.done + 1].edit, group.next)
         /\ manifest.next <= group.next
         /\ group.next <= nextFile
<1>1. group.done + 1 \in 1 .. group.size
  BY DEF LogType
<1>2. group.size # 0
  BY <1>1 DEF LogType
<1> QED
  BY <1>1, <1>2 DEF QueueSpent, Up, Running

\* Giving out a new number keeps the queue spent.
LEMMA QueueLater ==
  ASSUME QueueSpent, LogType, Shape, FileType, Up, FileType',
         nextFile <= nextFile',
         UNCHANGED <<writers, group, manifest, newManifest, rolling>>
  PROVE  QueueSpent'
<1>1. \A i \in 1 .. Len(writers) : writers[i].edit \in Edit
  BY WriterEdit
<1>2. \A i \in 1 .. Len(writers) : EditBelow(writers[i].edit, nextFile')
  BY <1>1, EditLater DEF QueueSpent, FileType
<1>3. \A i \in 1 .. group.size : EditBelow(writers[i].edit, group.next)
  BY DEF QueueSpent
<1>4. group.size # 0 => group.next <= nextFile'
  BY DEF QueueSpent, LogType, FileType
<1> QED
  BY <1>2, <1>3, <1>4 DEF QueueSpent

-----------------------------------------------------------------------------
(* The initial state and every action *)

\* A new database has given out no number.
LEMMA InitSpent == Init => NInv
<1> SUFFICES ASSUME Init PROVE NInv
  OBVIOUS
<1>1. ManifestFits
  BY DEF Init, ManifestFits, Fits, EmptyManifest
<1>2. RamSpent
  BY DEF Init, RamSpent, EmptyManifest, Jobs, Holders, None
<1>3. QueueSpent
  BY DEF Init, QueueSpent, NoGroup
<1>4. Quiet
  BY DEF Init, Quiet
<1> QED
  BY <1>1, <1>2, <1>3, <1>4 DEF NInv

\* FlushStart gives no keyed number out again.
LEMMA FlushStartSpent ==
  ASSUME TInv, TInv', NInv, NEW j \in FlushJobs, FlushStart(j)
  PROVE  NInv'
<1> USE DEF TInv, TypeOK, NInv, FlushStart
<1>0. j \in Jobs /\ j \in Holders
  BY DEF Jobs, Holders
<1>1. (ManifestFits)'
  BY DEF ManifestFits, Fits, disk, logVars
<1>2. RamSpent'
  <2>1. \A n \in File : n < nextFile => n < nextFile'
    BY DEF FileType, File
  <2>2. manifest'.next <= nextFile'
    BY DEF RamSpent, Up, Running, KeyType, Manifest, FileType, disk
  <2>3. \A m \in imm' : m.file < nextFile'
    BY <2>1 DEF RamSpent, Up, Running, FileType, MemType, Mem
  <2>4. \A k \in Jobs :
          out'[k] < nextFile' /\ \A n \in outs'[k] : n < nextFile'
    BY <1>0, <2>1 DEF RamSpent, Up, Running, FileType, JobType, None
  <2>5. \A k \in Jobs : pc'[k] \in {"sync", "syncing"} =>
          \A n \in todo'[k] : n < nextFile'
    BY <1>0, <2>1 DEF RamSpent, Up, Running, JobType, Holders
  <2>6. \A n \in version' \cup recovered' \cup rekey' : n < nextFile'
    BY <2>1 DEF RamSpent, Up, Running, FileType, bootVars
  <2>7. \A n \in File : KeyList'[n] # NoKey => n < nextFile'
    BY <2>1 DEF RamSpent, Up, Running
  <2> QED
    BY <2>2, <2>3, <2>4, <2>5, <2>6, <2>7 DEF RamSpent
<1>3. QueueSpent'
  BY QueueLater DEF Up, Running, FileType, disk, logVars
<1>4. Quiet'
  BY DEF Quiet, logVars, bootVars, Running
<1> QED
  BY <1>1, <1>2, <1>3, <1>4 DEF NInv

\* GenerateKey gives no keyed number out again.
LEMMA GenerateKeySpent ==
  ASSUME TInv, TInv', NInv, NEW j \in FlushJobs, GenerateKey(j)
  PROVE  NInv'
<1> USE DEF TInv, TypeOK, NInv, GenerateKey
<1>0. j \in Jobs /\ j \in Holders
  BY DEF Jobs, Holders
<1>1. (ManifestFits /\ QueueSpent)'
  BY DEF ManifestFits, Fits, QueueSpent, Up, EditBelow, disk, logVars,
     fileVars, bootVars
<1>2. RamSpent'
  BY <1>0 DEF RamSpent, Up, FileType, JobType, AddSSTKeyToList, KeyType, Shape,
     Building, disk, memVars, fileVars, bootVars, Running
<1>3. Quiet'
  BY DEF Quiet, logVars, memVars, bootVars, Running
<1> QED
  BY <1>1, <1>2, <1>3 DEF NInv

\* BuildFlushTable gives no keyed number out again.
LEMMA BuildFlushTableSpent ==
  ASSUME TInv, TInv', NInv, NEW j \in FlushJobs, BuildFlushTable(j)
  PROVE  NInv'
<1> USE DEF TInv, TypeOK, NInv, BuildFlushTable
<1>0. j \in Jobs /\ j \in Holders
  BY DEF Jobs, Holders
<1>1. (ManifestFits /\ QueueSpent)'
  BY DEF ManifestFits, Fits, QueueSpent, Up, EditBelow, logVars, bootVars
<1>2. RamSpent'
  BY <1>0 DEF RamSpent, Up, JobType, MemType, Mem, bootVars, Running
<1>3. Quiet'
  BY DEF Quiet, logVars, bootVars, Running
<1> QED
  BY <1>1, <1>2, <1>3 DEF NInv

\* FlushFails gives no keyed number out again.
LEMMA FlushFailsSpent ==
  ASSUME TInv, TInv', NInv, NEW j \in FlushJobs, FlushFails(j)
  PROVE  NInv'
<1> USE DEF TInv, TypeOK, NInv, FlushFails
<1>0. j \in Jobs /\ j \in Holders
  BY DEF Jobs, Holders
<1>1. (ManifestFits /\ QueueSpent)'
  BY DEF ManifestFits, Fits, QueueSpent, Up, EditBelow, disk, logVars, bootVars
<1>2. RamSpent'
  <2>1. \A m \in imm' : m.file = None \/ m \in imm
    BY RolledBack DEF Rolled
  <2>2. Up => \A m \in imm' : m.file < nextFile
    BY <2>1 DEF RamSpent, Up, None, FileType
  <2> QED
    BY <1>0, <2>2 DEF RamSpent, Up, JobType, disk, bootVars, Running
<1>3. Quiet'
  BY DEF Quiet, logVars, bootVars, Running
<1> QED
  BY <1>1, <1>2, <1>3 DEF NInv

\* TryInstallMemtableFlushResults gives no keyed number out again.
LEMMA TryInstallMemtableFlushResultsSpent ==
  ASSUME TInv, TInv', NInv, NEW j \in FlushJobs,
         TryInstallMemtableFlushResults(j)
  PROVE  NInv'
<1> USE DEF TInv, TypeOK, NInv, TryInstallMemtableFlushResults
<1>0. j \in Jobs /\ j \in Holders
  BY DEF Jobs, Holders
<1>1. (ManifestFits /\ QueueSpent)'
  BY DEF ManifestFits, Fits, QueueSpent, Up, EditBelow, disk, logVars,
     fileVars, bootVars
<1>2. RamSpent'
  BY <1>0 DEF RamSpent, Up, JobType, MemType, Mem, disk, fileVars, bootVars,
     Running
<1>3. Quiet'
  BY DEF Quiet, logVars, bootVars, Running
<1> QED
  BY <1>1, <1>2, <1>3 DEF NInv

\* CommitMemtables gives no keyed number out again.
LEMMA CommitMemtablesSpent ==
  ASSUME TInv, TInv', NInv, NEW j \in FlushJobs, CommitMemtables(j)
  PROVE  NInv'
<1> USE DEF TInv, TypeOK, NInv, CommitMemtables
<1>0. j \in Jobs /\ j \in Holders
  BY DEF Jobs, Holders
<1>1. (ManifestFits)'
  BY DEF ManifestFits, Fits, disk
<1>2. RamSpent'
  BY <1>0 DEF RamSpent, Up, JobType, disk, memVars, fileVars, bootVars, Running
<1>3. QueueSpent'
  <2> DEFINE adds == {m.file : m \in {c \in Committable(imm) : c.has}}
             mems == {m.id : m \in Committable(imm)}
             edit == [EmptyEdit EXCEPT !.add = adds]
  <2>1. adds \in SUBSET File /\ mems \in SUBSET File
    BY DEF MemType, Mem, Committable
  <2>2. edit \in Edit /\ edit.sst = None /\ edit.add = adds
    BY <2>1, EditType DEF EmptyEdit
  <2>3. \A n \in adds : n < nextFile
    BY DEF RamSpent, Up, Running, Committable
  <2>4. EditBelow(edit, nextFile)
    BY <2>2, <2>3 DEF EditBelow, FileType, None
  <2> QED
    BY <1>0, <2>1, <2>2, <2>4, QueueAppend DEF Running, disk, fileVars
<1>4. Quiet'
  BY DEF Quiet, memVars, bootVars, Running
<1> QED
  BY <1>1, <1>2, <1>3, <1>4 DEF NInv

\* CommitDone gives no keyed number out again.
LEMMA CommitDoneSpent ==
  ASSUME TInv, TInv', NInv, NEW j \in FlushJobs, CommitDone(j)
  PROVE  NInv'
<1> USE DEF TInv, TypeOK, NInv, CommitDone
<1>0. j \in Jobs /\ j \in Holders
  BY DEF Jobs, Holders
<1>1. (ManifestFits /\ QueueSpent)'
  BY DEF ManifestFits, Fits, QueueSpent, Up, EditBelow, disk, logVars,
     fileVars, bootVars
<1>2. RamSpent'
  BY <1>0 DEF RamSpent, Up, JobType, disk, fileVars, bootVars, Running
<1>3. Quiet'
  BY DEF Quiet, logVars, bootVars, Running
<1> QED
  BY <1>1, <1>2, <1>3 DEF NInv

\* CommitFails gives no keyed number out again.
LEMMA CommitFailsSpent ==
  ASSUME TInv, TInv', NInv, NEW j \in FlushJobs, CommitFails(j)
  PROVE  NInv'
<1> USE DEF TInv, TypeOK, NInv, CommitFails
<1>0. j \in Jobs /\ j \in Holders
  BY DEF Jobs, Holders
<1>1. (ManifestFits /\ QueueSpent)'
  BY DEF ManifestFits, Fits, QueueSpent, Up, EditBelow, disk, logVars,
     fileVars, bootVars
<1>2. RamSpent'
  BY <1>0 DEF RamSpent, Up, JobType, disk, fileVars, bootVars, Running
<1>3. Quiet'
  BY DEF Quiet, logVars, bootVars, Running
<1> QED
  BY <1>1, <1>2, <1>3 DEF NInv

\* LogFlushKey gives no keyed number out again.
LEMMA LogFlushKeySpent ==
  ASSUME TInv, TInv', NInv, NEW j \in FlushJobs, LogFlushKey(j)
  PROVE  NInv'
<1> USE DEF TInv, TypeOK, NInv, LogFlushKey
<1>0. j \in Jobs /\ j \in Holders
  BY DEF Jobs, Holders
<1>1. (ManifestFits)'
  BY DEF ManifestFits, Fits, disk
<1>2. RamSpent'
  BY <1>0 DEF RamSpent, Up, JobType, disk, memVars, fileVars, Running
<1>3. QueueSpent'
  <2> DEFINE edit == AddSSTKey(out[j], KeyList[out[j]])
  <2>1. edit \in Edit /\ edit.sst = out[j] /\ edit.add = {}
    BY <1>0, EditFields DEF KeyType, Shape, Building
  <2>2. EditBelow(edit, nextFile)
    BY <1>0, <2>1 DEF EditBelow, RamSpent, Up, Running
  <2> QED
    BY <1>0, <2>1, <2>2, QueueAppend DEF Running, disk, fileVars
<1>4. Quiet'
  BY DEF Quiet, memVars, Running
<1> QED
  BY <1>1, <1>2, <1>3, <1>4 DEF NInv

\* CompactionStart gives no keyed number out again.
LEMMA CompactionStartSpent ==
  ASSUME TInv, TInv', NInv, NEW c \in CompactionJobs, CompactionStart(c)
  PROVE  NInv'
<1> USE DEF TInv, TypeOK, NInv, CompactionStart
<1>0. c \in Jobs /\ c \in Holders
  BY DEF Jobs, Holders
<1>1. (ManifestFits /\ QueueSpent)'
  BY DEF ManifestFits, Fits, QueueSpent, Up, EditBelow, disk, logVars,
     fileVars, bootVars
<1>2. RamSpent'
  BY <1>0 DEF RamSpent, Up, JobType, disk, memVars, fileVars, bootVars, Running
<1>3. Quiet'
  BY DEF Quiet, logVars, memVars, bootVars, Running
<1> QED
  BY <1>1, <1>2, <1>3 DEF NInv

\* OpenCompactionOutputFile gives no keyed number out again.
LEMMA OpenCompactionOutputFileSpent ==
  ASSUME TInv, TInv', NInv, NEW c \in CompactionJobs,
         OpenCompactionOutputFile(c)
  PROVE  NInv'
<1> USE DEF TInv, TypeOK, NInv, OpenCompactionOutputFile
<1>0. c \in Jobs /\ c \in Holders
  BY DEF Jobs, Holders
<1>1. (ManifestFits)'
  BY DEF ManifestFits, Fits, disk, logVars
<1>2. RamSpent'
  <2>1. \A n \in File : n < nextFile => n < nextFile'
    BY DEF FileType, File
  <2>2. manifest'.next <= nextFile'
    BY DEF RamSpent, Up, Running, KeyType, Manifest, FileType, disk
  <2>3. \A m \in imm' : m.file < nextFile'
    BY <2>1 DEF RamSpent, Up, Running, FileType, MemType, Mem, None, memVars
  <2>4. \A k \in Jobs :
          out'[k] < nextFile' /\ \A n \in outs'[k] : n < nextFile'
    BY <1>0, <2>1 DEF RamSpent, Up, Running, FileType, JobType, None
  <2>5. \A k \in Jobs : pc'[k] \in {"sync", "syncing"} =>
          \A n \in todo'[k] : n < nextFile'
    BY <1>0, <2>1 DEF RamSpent, Up, Running, JobType, Holders
  <2>6. \A n \in version' \cup recovered' \cup rekey' : n < nextFile'
    BY <2>1 DEF RamSpent, Up, Running, FileType, bootVars
  <2>7. \A n \in File : KeyList'[n] # NoKey => n < nextFile'
    BY <2>1 DEF RamSpent, Up, Running, AddSSTKeyToList, KeyType, FileType
  <2> QED
    BY <2>2, <2>3, <2>4, <2>5, <2>6, <2>7 DEF RamSpent
<1>3. QueueSpent'
  BY QueueLater DEF Up, Running, FileType, disk, logVars
<1>4. Quiet'
  BY DEF Quiet, logVars, memVars, bootVars, Running
<1> QED
  BY <1>1, <1>2, <1>3, <1>4 DEF NInv

\* FinishCompactionOutputFile gives no keyed number out again.
LEMMA FinishCompactionOutputFileSpent ==
  ASSUME TInv, TInv', NInv, NEW c \in CompactionJobs,
         FinishCompactionOutputFile(c)
  PROVE  NInv'
<1> USE DEF TInv, TypeOK, NInv, FinishCompactionOutputFile
<1>0. c \in Jobs /\ c \in Holders
  BY DEF Jobs, Holders
<1>1. (ManifestFits)'
  BY DEF ManifestFits, Fits, logVars
<1>2. RamSpent'
  BY <1>0 DEF RamSpent, Up, JobType, memVars, fileVars, Running
<1>3. QueueSpent'
  BY <1>0 DEF QueueSpent, Up, EditBelow, logVars, fileVars, Running
<1>4. Quiet'
  BY DEF Quiet, logVars, memVars, Running
<1> QED
  BY <1>1, <1>2, <1>3, <1>4 DEF NInv

\* CompactionFails gives no keyed number out again.
LEMMA CompactionFailsSpent ==
  ASSUME TInv, TInv', NInv, NEW c \in CompactionJobs, CompactionFails(c)
  PROVE  NInv'
<1> USE DEF TInv, TypeOK, NInv, CompactionFails
<1>0. c \in Jobs /\ c \in Holders
  BY DEF Jobs, Holders
<1>1. (ManifestFits /\ QueueSpent)'
  BY DEF ManifestFits, Fits, QueueSpent, Up, EditBelow, disk, logVars,
     fileVars, bootVars
<1>2. RamSpent'
  BY <1>0 DEF RamSpent, Up, JobType, disk, memVars, fileVars, bootVars, Running
<1>3. Quiet'
  BY DEF Quiet, logVars, memVars, bootVars, Running
<1> QED
  BY <1>1, <1>2, <1>3 DEF NInv

\* InstallCompactionResults gives no keyed number out again.
LEMMA InstallCompactionResultsSpent ==
  ASSUME TInv, TInv', NInv, NEW c \in CompactionJobs,
         InstallCompactionResults(c)
  PROVE  NInv'
<1> USE DEF TInv, TypeOK, NInv, InstallCompactionResults
<1>0. c \in Jobs /\ c \in Holders
  BY DEF Jobs, Holders
<1>1. (ManifestFits /\ QueueSpent)'
  BY DEF ManifestFits, Fits, QueueSpent, Up, EditBelow, disk, logVars,
     fileVars, bootVars
<1>2. RamSpent'
  BY <1>0 DEF RamSpent, Up, JobType, disk, memVars, fileVars, bootVars, Running
<1>3. Quiet'
  BY DEF Quiet, logVars, memVars, bootVars, Running
<1> QED
  BY <1>1, <1>2, <1>3 DEF NInv

\* LogCompactionKey gives no keyed number out again.
LEMMA LogCompactionKeySpent ==
  ASSUME TInv, TInv', NInv, NEW c \in CompactionJobs, LogCompactionKey(c)
  PROVE  NInv'
<1> USE DEF TInv, TypeOK, NInv, LogCompactionKey
<1>0. c \in Jobs /\ c \in Holders
  BY DEF Jobs, Holders
<1>1. (ManifestFits)'
  BY DEF ManifestFits, Fits, disk
<1>2. RamSpent'
  BY <1>0 DEF RamSpent, Up, JobType, disk, memVars, fileVars, Running
<1>3. QueueSpent'
  <2>1. PICK n \in todo[c] : LogAndApply(c, AddSSTKey(n, KeyList[n]), {})
    OBVIOUS
  <2> DEFINE edit == AddSSTKey(n, KeyList[n])
  <2>2. edit \in Edit /\ edit.sst = n /\ edit.add = {}
    BY <1>0, <2>1, EditFields DEF KeyType, JobType
  <2>3. EditBelow(edit, nextFile)
    BY <1>0, <2>1, <2>2 DEF EditBelow, RamSpent, Up, Running
  <2> QED
    BY <1>0, <2>1, <2>2, <2>3, QueueAppend DEF Running, disk, fileVars
<1>4. Quiet'
  BY DEF Quiet, memVars, Running
<1> QED
  BY <1>1, <1>2, <1>3, <1>4 DEF NInv

\* ApplyCompaction gives no keyed number out again.
LEMMA ApplyCompactionSpent ==
  ASSUME TInv, TInv', NInv, NEW c \in CompactionJobs, ApplyCompaction(c)
  PROVE  NInv'
<1> USE DEF TInv, TypeOK, NInv, ApplyCompaction
<1>0. c \in Jobs /\ c \in Holders
  BY DEF Jobs, Holders
<1>1. (ManifestFits)'
  BY DEF ManifestFits, Fits, disk
<1>2. RamSpent'
  BY <1>0 DEF RamSpent, Up, JobType, disk, memVars, fileVars, bootVars, Running
<1>3. QueueSpent'
  <2> DEFINE edit == [EmptyEdit EXCEPT !.add = outs[c], !.del = ins[c]]
  <2>1. edit \in Edit /\ edit.sst = None /\ edit.add = outs[c]
    BY <1>0, EditType DEF EmptyEdit, JobType
  <2>2. EditBelow(edit, nextFile)
    BY <1>0, <2>1 DEF EditBelow, RamSpent, Up, Running, FileType, None
  <2> QED
    BY <1>0, <2>1, <2>2, QueueAppend DEF Running, disk, fileVars
<1>4. Quiet'
  BY DEF Quiet, memVars, bootVars, Running
<1> QED
  BY <1>1, <1>2, <1>3, <1>4 DEF NInv

\* SetBGError gives no keyed number out again.
LEMMA SetBGErrorSpent ==
  ASSUME TInv, TInv', NInv, NEW j \in Jobs, SetBGError(j)
  PROVE  NInv'
<1> USE DEF TInv, TypeOK, NInv, SetBGError
<1>0. j \in Holders
  BY DEF Holders
<1>1. (ManifestFits /\ QueueSpent)'
  BY DEF ManifestFits, Fits, QueueSpent, Up, EditBelow, disk, logVars, bootVars
<1>2. RamSpent'
  BY <1>0 DEF RamSpent, Up, JobType, disk, memVars, bootVars, Running
<1>3. Quiet'
  BY DEF Quiet, logVars, memVars, bootVars, Running
<1> QED
  BY <1>1, <1>2, <1>3 DEF NInv

\* ReleaseAndFind gives no keyed number out again.
LEMMA ReleaseAndFindSpent ==
  ASSUME TInv, TInv', NInv, NEW j \in Jobs, ReleaseAndFind(j)
  PROVE  NInv'
<1> USE DEF TInv, TypeOK, NInv, ReleaseAndFind
<1>0. j \in Jobs /\ j \in Holders
  BY DEF Jobs, Holders
<1>1. (ManifestFits /\ QueueSpent)'
  BY DEF ManifestFits, Fits, QueueSpent, Up, EditBelow, disk, logVars, bootVars
<1>2. RamSpent'
  <2>1. PICK full \in BOOLEAN : FindObsoleteFiles(j, full)
    OBVIOUS
  <2>2. /\ pc'[j] \in {"idle", "purge"}
        /\ \A k \in Holders \ {j} : pc'[k] = pc[k]
    BY <1>0, <2>1, FindType DEF FileType, JobType
  <2>3. \A k \in Holders \ {j} : todo'[k] = todo[k]
    BY <2>1 DEF FindObsoleteFiles, JobType
  <2>4. \A k \in Jobs : pc'[k] \in {"sync", "syncing"} =>
          \A n \in todo'[k] : n < nextFile'
    BY <2>2, <2>3 DEF RamSpent, Up, Running, Holders
  <2>5. \A k \in Jobs :
          out'[k] < nextFile' /\ \A n \in outs'[k] : n < nextFile'
    BY DEF RamSpent, Up, Running, FileType, JobType, None
  <2> QED
    BY <2>4, <2>5 DEF RamSpent, Up, Running, disk, memVars, bootVars
<1>3. Quiet'
  BY DEF Quiet, logVars, memVars, bootVars, Running
<1> QED
  BY <1>1, <1>2, <1>3 DEF NInv

\* LogKeyDeletion gives no keyed number out again.
LEMMA LogKeyDeletionSpent ==
  ASSUME TInv, TInv', NInv, NEW j \in Jobs, LogKeyDeletion(j)
  PROVE  NInv'
<1> USE DEF TInv, TypeOK, NInv, LogKeyDeletion
<1>0. j \in Jobs /\ j \in Holders
  BY DEF Jobs, Holders
<1>1. (ManifestFits)'
  BY DEF ManifestFits, Fits, disk
<1>2. RamSpent'
  BY <1>0 DEF RamSpent, Up, JobType, disk, memVars, fileVars, bootVars, Running
<1>3. QueueSpent'
  <2>1. PICK n \in todo[j] : LogAndApply(j, DeleteSSTKey(n), {})
    OBVIOUS
  <2> DEFINE edit == DeleteSSTKey(n)
  <2>2. edit \in Edit /\ edit.sst = None /\ edit.add = {}
    BY <1>0, <2>1, EditFields DEF JobType
  <2>3. EditBelow(edit, nextFile)
    BY <2>2 DEF EditBelow, FileType, None
  <2> QED
    BY <1>0, <2>1, <2>2, <2>3, QueueAppend DEF Running, disk, fileVars
<1>4. Quiet'
  BY DEF Quiet, memVars, bootVars, Running
<1> QED
  BY <1>1, <1>2, <1>3, <1>4 DEF NInv

\* EraseKeys gives no keyed number out again.
LEMMA EraseKeysSpent ==
  ASSUME TInv, TInv', NInv, NEW j \in Jobs, EraseKeys(j)
  PROVE  NInv'
<1> USE DEF TInv, TypeOK, NInv, EraseKeys
<1>0. j \in Jobs /\ j \in Holders
  BY DEF Jobs, Holders
<1>1. (ManifestFits /\ QueueSpent)'
  BY DEF ManifestFits, Fits, QueueSpent, Up, EditBelow, disk, logVars,
     fileVars, bootVars
<1>2. RamSpent'
  BY <1>0 DEF RamSpent, Up, JobType, KeyType, disk, memVars, fileVars,
     bootVars, Running
<1>3. Quiet'
  BY DEF Quiet, logVars, memVars, bootVars, Running
<1> QED
  BY <1>1, <1>2, <1>3 DEF NInv

\* DeleteObsoleteFile gives no keyed number out again.
LEMMA DeleteObsoleteFileSpent ==
  ASSUME TInv, TInv', NInv, NEW h \in Holders, DeleteObsoleteFile(h)
  PROVE  NInv'
<1> USE DEF TInv, TypeOK, NInv, DeleteObsoleteFile
<1>1. (ManifestFits /\ QueueSpent /\ Quiet)'
  BY DEF ManifestFits, Fits, QueueSpent, Up, EditBelow, Quiet, logVars,
     memVars, fileVars, bootVars
<1>2. RamSpent'
  BY DEF RamSpent, Up, JobType, memVars, fileVars, bootVars, Running
<1> QED
  BY <1>1, <1>2 DEF NInv

\* PurgeDone gives no keyed number out again.
LEMMA PurgeDoneSpent ==
  ASSUME TInv, TInv', NInv, NEW h \in Holders, PurgeDone(h)
  PROVE  NInv'
<1> USE DEF TInv, TypeOK, NInv, PurgeDone
<1>1. (ManifestFits /\ QueueSpent)'
  BY DEF ManifestFits, Fits, QueueSpent, Up, EditBelow, disk, logVars, bootVars
<1>2. RamSpent'
  BY DEF RamSpent, Up, JobType, disk, memVars, bootVars, Running
<1>3. Quiet'
  BY DEF Quiet, logVars, memVars, bootVars, Running
<1> QED
  BY <1>1, <1>2, <1>3 DEF NInv

\* NewIterator gives no keyed number out again.
LEMMA NewIteratorSpent ==
  ASSUME TInv, TInv', NInv, NEW i \in Iterators, NewIterator(i)
  PROVE  NInv'
<1> USE DEF TInv, TypeOK, NInv, NewIterator
<1>0. i \in Holders
  BY DEF Jobs, Holders
<1>1. (ManifestFits /\ QueueSpent)'
  BY DEF ManifestFits, Fits, QueueSpent, Up, EditBelow, disk, logVars,
     fileVars, bootVars
<1>2. RamSpent'
  BY <1>0 DEF RamSpent, Up, JobType, disk, memVars, fileVars, bootVars, Running
<1>3. Quiet'
  BY DEF Quiet, logVars, memVars, bootVars, Running
<1> QED
  BY <1>1, <1>2, <1>3 DEF NInv

\* ReadBlock gives no keyed number out again.
LEMMA ReadBlockSpent ==
  ASSUME TInv, TInv', NInv, NEW i \in Iterators, ReadBlock(i)
  PROVE  NInv'
<1> USE DEF TInv, TypeOK, NInv, ReadBlock
<1>0. i \in Holders
  BY DEF Jobs, Holders
<1>1. (ManifestFits)'
  BY DEF ManifestFits, Fits, disk, logVars
<1>2. RamSpent'
  BY <1>0 DEF RamSpent, Up, disk, jobVars, memVars, fileVars, Running
<1>3. QueueSpent'
  BY <1>0 DEF QueueSpent, Up, EditBelow, disk, logVars, fileVars, Running
<1>4. Quiet'
  BY DEF Quiet, jobVars, logVars, memVars, Running
<1> QED
  BY <1>1, <1>2, <1>3, <1>4 DEF NInv

\* DeleteIterator gives no keyed number out again.
LEMMA DeleteIteratorSpent ==
  ASSUME TInv, TInv', NInv, NEW i \in Iterators, DeleteIterator(i)
  PROVE  NInv'
<1> USE DEF TInv, TypeOK, NInv, DeleteIterator
<1>0. i \in Holders
  BY DEF Jobs, Holders
<1>1. (ManifestFits /\ QueueSpent)'
  BY DEF ManifestFits, Fits, QueueSpent, Up, EditBelow, disk, logVars, bootVars
<1>2. RamSpent'
  <2>1. i \notin Jobs
    OBVIOUS
  <2>2. \A k \in Holders \ {i} : pc'[k] = pc[k] /\ todo'[k] = todo[k]
    BY <1>0 DEF FindObsoleteFiles, JobType
  <2>3. \A k \in Jobs : pc'[k] \in {"sync", "syncing"} =>
          \A n \in todo'[k] : n < nextFile'
    BY <2>1, <2>2 DEF RamSpent, Up, Running, Holders
  <2> QED
    BY <2>3 DEF RamSpent, Up, Running, disk, memVars, bootVars
<1>3. Quiet'
  BY DEF Quiet, logVars, memVars, bootVars, Running
<1> QED
  BY <1>1, <1>2, <1>3 DEF NInv

\* SwitchMemtable gives no keyed number out again.
LEMMA SwitchMemtableSpent ==
  ASSUME TInv, TInv', NInv, SwitchMemtable
  PROVE  NInv'
<1> USE DEF TInv, TypeOK, NInv, SwitchMemtable
<1>1. (ManifestFits /\ RamSpent /\ QueueSpent /\ Quiet)'
  BY DEF ManifestFits, Fits, RamSpent, Up, QueueSpent, EditBelow, Quiet, disk,
     logVars, memVars, bootVars
<1> QED
  BY <1>1 DEF NInv

\* BeginManifestWrite gives no keyed number out again.
LEMMA BeginManifestWriteSpent ==
  ASSUME TInv, TInv', NInv, BeginManifestWrite
  PROVE  NInv'
<1> USE DEF TInv, TypeOK, NInv, BeginManifestWrite
<1>1. ManifestFits'
  BY DEF ManifestFits, Fits, RamSpent, Up, Running,
     WriteCurrentStateToManifest, disk
<1>2. RamSpent'
  BY DEF RamSpent, Up, disk, jobVars, memVars, fileVars, Running
<1>3. QueueSpent'
  BY DEF QueueSpent, Up, EditBelow, FileType, LogType, RamSpent, KeyType,
     Manifest, WriteCurrentStateToManifest, disk, fileVars, Running
<1>4. Quiet'
  BY DEF Quiet, jobVars, memVars, Running
<1> QED
  BY <1>1, <1>2, <1>3, <1>4 DEF NInv

\* AppendRecord gives no keyed number out again.
LEMMA AppendRecordSpent ==
  ASSUME TInv, TInv', NInv, AppendRecord
  PROVE  NInv'
<1> USE DEF TInv, TypeOK, NInv, AppendRecord
<1>1. ManifestFits'
  <2>1. writers[group.done + 1].edit \in Edit
    BY WriterEdit, SMTT(60) DEF LogType, Shape
  <2>2. EditBelow(writers[group.done + 1].edit, group.next)
    BY GroupEdit
  <2>3. group.next \in 1 .. MaxFile + 1 /\ manifest.next <= group.next
    BY DEF LogType, QueueSpent, Up, Running
  <2>4. rolling => newManifest.next <= group.next
    BY DEF LogType, QueueSpent, Up, Running
  <2> QED
    BY <2>1, <2>2, <2>3, <2>4, ApplyFits DEF ManifestFits, KeyType
<1>2. RamSpent'
  <2>0. manifest'.next <= nextFile'
    BY DEF RamSpent, QueueSpent, Up, Running, ApplyVersionEdit, LogType,
       FileType, fileVars
  <2> QED
    BY <2>0 DEF RamSpent, Up, Running, jobVars, memVars, fileVars, bootVars
<1>3. QueueSpent'
  <2>1. /\ group'.size = group.size /\ group'.next = group.next
        /\ manifest'.next <= group.next
        /\ rolling => newManifest'.next <= group.next
    BY DEF QueueSpent, Up, Running, ApplyVersionEdit, LogType
  <2> QED
    BY <2>1 DEF QueueSpent, Up, Running, fileVars, bootVars
<1>4. Quiet'
  BY DEF Quiet, jobVars, memVars, bootVars, Running
<1> QED
  BY <1>1, <1>2, <1>3, <1>4 DEF NInv

\* SetCurrentFile gives no keyed number out again.
LEMMA SetCurrentFileSpent ==
  ASSUME TInv, TInv', NInv, SetCurrentFile
  PROVE  NInv'
<1> USE DEF TInv, TypeOK, NInv, SetCurrentFile
<1>1. ManifestFits'
  BY DEF ManifestFits, Fits, Running
<1>2. RamSpent'
  <2>1. group.size # 0
    BY DEF QueueSpent, Up, Running
  <2>2. newManifest.next <= nextFile
    BY <2>1 DEF QueueSpent, Up, Running, LogType, KeyType, Manifest, FileType
  <2> QED
    BY <2>2 DEF RamSpent, Up, Running, jobVars, memVars, fileVars, bootVars
<1>3. QueueSpent'
  BY DEF QueueSpent, Up, EditBelow, LogType, fileVars, bootVars, Running
<1>4. Quiet'
  BY DEF Quiet, jobVars, memVars, bootVars, Running
<1> QED
  BY <1>1, <1>2, <1>3, <1>4 DEF NInv

\* Waking the writers of a group leaves the rest of the queue, and sends no job
\* to the key records of a compaction that was not there before.
LEMMA WakeSpent ==
  ASSUME TInv, NInv, Running, NEW ok \in BOOLEAN, WakeWriters(ok)
  PROVE  /\ \A i \in 1 .. Len(writers') : EditBelow(writers'[i].edit, nextFile)
         /\ group'.size = 0
         /\ \A j \in Jobs : pc'[j] \in {"sync", "syncing"} =>
              pc[j] \in {"sync", "syncing"}
<1> USE DEF TInv, TypeOK, NInv
<1>0. /\ writers \in Seq(Writer) /\ Len(writers) \in Nat
      /\ group.size \in Nat /\ group.size <= Len(writers)
  BY DEF LogType, Shape
<1>w. writers' = SubSeq(writers, group.size + 1, Len(writers))
  BY DEF WakeWriters
<1>1. /\ Len(writers') = Len(writers) - group.size
      /\ \A i \in 1 .. Len(writers') : writers'[i] = writers[i + group.size]
  BY ONLY <1>0, <1>w, SeqRest, SMTT(60)
<1>2. \A i \in 1 .. Len(writers') : i + group.size \in 1 .. Len(writers)
  BY ONLY <1>0, <1>1
<1>3. \A i \in 1 .. Len(writers') : EditBelow(writers'[i].edit, nextFile)
  BY <1>1, <1>2 DEF QueueSpent, Up, Running
<1>4. group'.size = 0
  BY DEF NoGroup, WakeWriters
<1>5. \A j \in Jobs : pc'[j] \in {"sync", "syncing"} =>
        pc[j] \in {"sync", "syncing"}
  BY DEF Resume, Holders, JobType, WakeWriters
<1> QED
  BY <1>3, <1>4, <1>5

\* FinishManifestWrite gives no keyed number out again.
LEMMA FinishManifestWriteSpent ==
  ASSUME TInv, TInv', NInv, FinishManifestWrite
  PROVE  NInv'
<1> USE DEF TInv, TypeOK, NInv, FinishManifestWrite
<1>0. /\ \A i \in 1 .. Len(writers') : EditBelow(writers'[i].edit, nextFile)
      /\ group'.size = 0
      /\ \A j \in Jobs : pc'[j] \in {"sync", "syncing"} =>
           pc[j] \in {"sync", "syncing"}
  BY WakeSpent
<1>1. (ManifestFits)'
  BY DEF ManifestFits, Fits, disk
<1>2. RamSpent'
  <2>0. \A i \in 1 .. group.size : i \in 1 .. Len(writers)
    BY DEF Shape, LogType
  <2>1. \A w \in Batch : \A n \in w.edit.add : n < nextFile
    BY <2>0 DEF QueueSpent, Up, Running, EditBelow, Batch
  <2>2. \A n \in version' : n < nextFile
    BY <2>1 DEF RamSpent, Up, Running
  <2> QED
    BY <1>0, <2>2 DEF RamSpent, Up, Running, disk, bootVars
<1>3. QueueSpent'
  <2>1. rolling' = FALSE /\ nextFile' = nextFile
    OBVIOUS
  <2>2. \A i \in 1 .. group'.size : FALSE
    BY <1>0
  <2> QED
    BY <1>0, <2>1, <2>2 DEF QueueSpent
<1>4. Quiet'
  BY DEF Quiet, bootVars, Running
<1> QED
  BY <1>1, <1>2, <1>3, <1>4 DEF NInv

\* ManifestWriteFails gives no keyed number out again: a record that landed
\* carries the number of its group.
LEMMA ManifestWriteFailsSpent ==
  ASSUME TInv, TInv', NInv, ManifestWriteFails
  PROVE  NInv'
<1> USE DEF TInv, TypeOK, NInv
<1>f. /\ Running /\ group.done < group.size /\ WakeWriters(FALSE)
      /\ rolling' = FALSE /\ nextFile' = nextFile /\ KeyList' = KeyList
      /\ version' = version /\ recovered' = recovered /\ rekey' = rekey
      /\ out' = out /\ outs' = outs /\ todo' = todo /\ phase' = phase
  BY DEF ManifestWriteFails, fileVars, bootVars
<1>0. /\ \A i \in 1 .. Len(writers') : EditBelow(writers'[i].edit, nextFile)
      /\ group'.size = 0
      /\ \A j \in Jobs : pc'[j] \in {"sync", "syncing"} =>
           pc[j] \in {"sync", "syncing"}
  BY <1>f, WakeSpent
<1>m. /\ manifest' \in {manifest, ApplyVersionEdit(manifest,
                           writers[group.done + 1].edit, group.next)}
      /\ manifest.next <= group.next /\ group.next <= nextFile
      /\ EditBelow(writers[group.done + 1].edit, group.next)
  BY <1>f, GroupEdit DEF ManifestWriteFails
<1>1. ManifestFits' /\ manifest'.next <= group.next
  <2>1. group.done + 1 \in 1 .. Len(writers)
    BY <1>f DEF LogType, Shape
  <2>2. writers[group.done + 1].edit \in Edit
    BY <2>1, WriterEdit
  <2>3. group.next \in 1 .. MaxFile + 1
    BY DEF LogType
  <2> QED
    BY <1>f, <1>m, <2>2, <2>3, ApplyFits DEF ManifestFits, Fits, KeyType
<1>2. RamSpent'
  <2>1. manifest'.next <= nextFile
    BY <1>1, <1>m, SMTT(60) DEF LogType, FileType, KeyType, Manifest
  <2>2. \A m \in imm' : m.file = None \/ m \in imm
    BY RolledBack DEF ManifestWriteFails, Rolled
  <2>3. \A m \in imm' : m.file < nextFile
    BY <1>f, <2>2 DEF RamSpent, Up, Running, None, FileType
  <2> QED
    BY <1>f, <1>0, <2>1, <2>3 DEF RamSpent, Up
<1>3. QueueSpent'
  <2>1. \A i \in 1 .. group'.size : FALSE
    BY <1>0
  <2> QED
    BY <1>f, <1>0, <2>1 DEF QueueSpent
<1>4. Quiet'
  BY <1>f DEF Quiet, Running
<1> QED
  BY <1>1, <1>2, <1>3, <1>4 DEF NInv

\* Crash gives no keyed number out again.
LEMMA CrashSpent ==
  ASSUME TInv, TInv', NInv, Crash
  PROVE  NInv'
<1> USE DEF TInv, TypeOK, NInv, Crash
<1>1. ManifestFits'
  BY DEF ManifestFits, Fits, disk
<1>2. RamSpent'
  BY DEF RamSpent, Up, disk
<1>3. QueueSpent'
  BY DEF QueueSpent, Up, EditBelow, disk
<1>4. Quiet'
  BY DEF Quiet
<1> QED
  BY <1>1, <1>2, <1>3, <1>4 DEF NInv

\* Recover gives no keyed number out again.
LEMMA RecoverSpent ==
  ASSUME TInv, TInv', NInv, Recover
  PROVE  NInv'
<1> USE DEF TInv, TypeOK, NInv, Recover
<1>1. (ManifestFits)'
  BY DEF ManifestFits, Fits, disk, logVars
<1>2. RamSpent'
  <2>1. /\ manifest'.next <= nextFile'
        /\ \A n \in File : KeyList'[n] # NoKey => n < nextFile'
        /\ \A n \in version' : n < nextFile'
    BY DEF ManifestFits, Fits, KeyType, Manifest, disk
  <2>2. recovered' = {} /\ rekey' = {} /\ imm' = {}
    BY DEF Quiet, memVars
  <2>3. \A j \in Jobs : out'[j] = None /\ outs'[j] = {} /\ pc'[j] = "idle"
    BY DEF Quiet, jobVars, Holders
  <2>4. None < nextFile'
    BY DEF FileType, None
  <2> QED
    BY <2>1, <2>2, <2>3, <2>4 DEF RamSpent
<1>3. QueueSpent'
  BY DEF QueueSpent, Up, EditBelow, Quiet, NoGroup, disk, logVars
<1>4. Quiet'
  BY DEF Quiet, jobVars, logVars, memVars
<1> QED
  BY <1>1, <1>2, <1>3, <1>4 DEF NInv

\* DeleteUnreferencedSstFiles gives no keyed number out again: it only moves
\* next_file_number_ forward.
LEMMA DeleteUnreferencedSstFilesSpent ==
  ASSUME TInv, TInv', NInv, DeleteUnreferencedSstFiles
  PROVE  NInv'
<1> USE DEF TInv, TypeOK, NInv, DeleteUnreferencedSstFiles
<1>0. nextFile <= nextFile'
  BY DEF FileType, File
<1>1. ManifestFits'
  BY <1>0 DEF ManifestFits, Fits, RamSpent, Up, WriteCurrentStateToManifest,
     FileType, File, Quiet, logVars
<1>2. RamSpent'
  <2>1. \A n \in File : n < nextFile => n < nextFile'
    BY <1>0 DEF FileType, File
  <2>2. manifest'.next <= nextFile'
    BY DEF WriteCurrentStateToManifest, FileType
  <2>3. \A n \in version' \cup recovered' \cup rekey' : n < nextFile'
    BY <2>1 DEF RamSpent, Up, FileType
  <2>4. \A n \in File : KeyList'[n] # NoKey => n < nextFile'
    BY <2>1 DEF RamSpent, Up
  <2>5. imm' = {}
    BY DEF Quiet, memVars
  <2>6. \A j \in Jobs : out'[j] = None /\ outs'[j] = {} /\ pc'[j] = "idle"
    BY DEF Quiet, jobVars, Holders
  <2>7. None < nextFile'
    BY DEF FileType, None
  <2> QED
    BY <2>2, <2>3, <2>4, <2>5, <2>6, <2>7 DEF RamSpent
<1>3. QueueSpent'
  BY DEF QueueSpent, Up, EditBelow, Quiet, NoGroup, logVars
<1>4. Quiet'
  BY DEF Quiet, jobVars, logVars, memVars
<1> QED
  BY <1>1, <1>2, <1>3, <1>4 DEF NInv

\* DeleteUnreferencedFile gives no keyed number out again.
LEMMA DeleteUnreferencedFileSpent ==
  ASSUME TInv, TInv', NInv, DeleteUnreferencedFile
  PROVE  NInv'
<1> USE DEF TInv, TypeOK, NInv, DeleteUnreferencedFile
<1>1. ManifestFits'
  BY DEF ManifestFits, Fits, logVars
<1>2. RamSpent'
  BY DEF RamSpent, Up, jobVars, memVars, fileVars
<1>3. QueueSpent'
  BY DEF QueueSpent, Up, EditBelow, logVars, fileVars
<1>4. Quiet'
  BY DEF Quiet, jobVars, logVars, memVars
<1> QED
  BY <1>1, <1>2, <1>3, <1>4 DEF NInv

\* WriteLevel0TableForRecovery gives no keyed number out again.
LEMMA WriteLevel0TableForRecoverySpent ==
  ASSUME TInv, TInv', NInv, WriteLevel0TableForRecovery
  PROVE  NInv'
<1> USE DEF TInv, TypeOK, NInv, WriteLevel0TableForRecovery
<1>1. (ManifestFits)'
  BY DEF ManifestFits, Fits, logVars
<1>2. RamSpent'
  <2>1. \A n \in File : n < nextFile => n < nextFile'
    BY DEF FileType, File
  <2>2. manifest'.next <= nextFile'
    BY DEF RamSpent, Up, KeyType, Manifest, FileType
  <2>3. \A n \in version' \cup recovered' \cup rekey' : n < nextFile'
    BY <2>1 DEF RamSpent, Up, FileType
  <2>4. \A n \in File : KeyList'[n] # NoKey => n < nextFile'
    BY <2>1 DEF RamSpent, Up, AddSSTKeyToList, KeyType, FileType
  <2>5. imm' = {}
    BY DEF Quiet, memVars
  <2>6. \A j \in Jobs : out'[j] = None /\ outs'[j] = {} /\ pc'[j] = "idle"
    BY DEF Quiet, jobVars, Holders
  <2>7. None < nextFile'
    BY DEF FileType, None
  <2> QED
    BY <2>2, <2>3, <2>4, <2>5, <2>6, <2>7 DEF RamSpent
<1>3. QueueSpent'
  BY DEF QueueSpent, Up, EditBelow, Quiet, NoGroup, logVars
<1>4. Quiet'
  BY DEF Quiet, jobVars, logVars, memVars
<1> QED
  BY <1>1, <1>2, <1>3, <1>4 DEF NInv

\* RecoverLogFiles gives no keyed number out again.
LEMMA RecoverLogFilesSpent ==
  ASSUME TInv, TInv', NInv, RecoverLogFiles
  PROVE  NInv'
<1> USE DEF TInv, TypeOK, NInv, RecoverLogFiles
<1>1. ManifestFits'
  BY DEF ManifestFits, Fits, RamSpent, Up, WriteCurrentStateToManifest, Quiet,
     logVars
<1>2. RamSpent'
  BY DEF RamSpent, Up, FileType, WriteCurrentStateToManifest, jobVars, memVars
<1>3. QueueSpent'
  BY DEF QueueSpent, Up, EditBelow, Quiet, NoGroup, logVars
<1>4. Quiet'
  BY DEF Quiet, jobVars, logVars, memVars
<1> QED
  BY <1>1, <1>2, <1>3, <1>4 DEF NInv

\* LogRecoveredKey gives no keyed number out again.
LEMMA LogRecoveredKeySpent ==
  ASSUME TInv, TInv', NInv, LogRecoveredKey
  PROVE  NInv'
<1> USE DEF TInv, TypeOK, NInv, LogRecoveredKey
<1>1. ManifestFits'
  <2>1. PICK n \in rekey :
          manifest' = ApplyVersionEdit(manifest, AddSSTKey(n, KeyList[n]),
                                       nextFile)
    OBVIOUS
  <2> DEFINE edit == AddSSTKey(n, KeyList[n])
  <2>2. edit \in Edit /\ edit.sst = n /\ edit.add = {}
    BY <2>1, EditFields DEF KeyType, FileType
  <2>3. EditBelow(edit, nextFile) /\ manifest.next <= nextFile
    BY <2>1, <2>2 DEF EditBelow, RamSpent, Up
  <2>4. ~rolling'
    BY DEF Quiet, logVars
  <2> QED
    BY <2>1, <2>2, <2>3, <2>4, ApplyFits DEF ManifestFits, KeyType, FileType
<1>2. RamSpent'
  <2>1. manifest'.next = nextFile
    BY DEF ApplyVersionEdit
  <2> QED
    BY <2>1 DEF RamSpent, Up, FileType, jobVars, memVars, fileVars
<1>3. QueueSpent'
  BY DEF QueueSpent, Quiet, NoGroup, logVars
<1>4. Quiet'
  BY DEF Quiet, jobVars, logVars, memVars
<1> QED
  BY <1>1, <1>2, <1>3, <1>4 DEF NInv

\* OpenDone gives no keyed number out again.
LEMMA OpenDoneSpent ==
  ASSUME TInv, TInv', NInv, OpenDone
  PROVE  NInv'
<1> USE DEF TInv, TypeOK, NInv, OpenDone
<1>1. (ManifestFits)'
  BY DEF ManifestFits, Fits, logVars
<1>2. RamSpent'
  BY DEF RamSpent, Up, jobVars, memVars, fileVars
<1>3. QueueSpent'
  BY DEF QueueSpent, Up, EditBelow, logVars, fileVars
<1>4. Quiet'
  BY DEF Quiet, jobVars, logVars, memVars
<1> QED
  BY <1>1, <1>2, <1>3, <1>4 DEF NInv

\* Stopped gives no keyed number out again.
LEMMA StoppedSpent ==
  ASSUME TInv, TInv', NInv, Stopped
  PROVE  NInv'
<1> USE DEF TInv, TypeOK, NInv, Stopped
<1>1. (ManifestFits /\ RamSpent /\ QueueSpent /\ Quiet)'
  BY DEF ManifestFits, Fits, RamSpent, Up, QueueSpent, EditBelow, Quiet, disk,
     jobVars, logVars, memVars, fileVars, bootVars, vars
<1> QED
  BY <1>1 DEF NInv

-----------------------------------------------------------------------------
(* Every step *)

\* Every step keeps the numbers spent.
LEMMA NextSpent ==
  ASSUME TInv, TInv', NInv, [Next]_vars
  PROVE  NInv'
<1>1. CASE \E j \in FlushJobs : FlushStep(j)
  BY <1>1, FlushStartSpent, GenerateKeySpent, BuildFlushTableSpent,
     FlushFailsSpent, TryInstallMemtableFlushResultsSpent,
     CommitMemtablesSpent, CommitDoneSpent, CommitFailsSpent, LogFlushKeySpent
     DEF FlushStep
<1>2. CASE \E c \in CompactionJobs : CompactionStep(c)
  BY <1>2, CompactionStartSpent, OpenCompactionOutputFileSpent,
     FinishCompactionOutputFileSpent, CompactionFailsSpent,
     InstallCompactionResultsSpent, LogCompactionKeySpent, ApplyCompactionSpent
     DEF CompactionStep
<1>3. CASE \E j \in Jobs : PurgeStep(j)
  BY <1>3, SetBGErrorSpent, ReleaseAndFindSpent, LogKeyDeletionSpent, EraseKeysSpent
     DEF PurgeStep
<1>4. CASE \E i \in Iterators : IteratorStep(i)
  BY <1>4, NewIteratorSpent, ReadBlockSpent, DeleteIteratorSpent
     DEF IteratorStep
<1>5. CASE ManifestStep
  BY <1>5, BeginManifestWriteSpent, AppendRecordSpent, SetCurrentFileSpent,
     FinishManifestWriteSpent, ManifestWriteFailsSpent
     DEF ManifestStep
<1>6. CASE RecoveryStep
  BY <1>6, RecoverSpent, DeleteUnreferencedSstFilesSpent,
     DeleteUnreferencedFileSpent, WriteLevel0TableForRecoverySpent,
     RecoverLogFilesSpent, LogRecoveredKeySpent, OpenDoneSpent
     DEF RecoveryStep
<1>7. CASE \E h \in Holders : DeleteObsoleteFile(h) \/ PurgeDone(h)
  BY <1>7, DeleteObsoleteFileSpent, PurgeDoneSpent
<1>8. CASE SwitchMemtable
  BY <1>8, SwitchMemtableSpent
<1>9. CASE Crash
  BY <1>9, CrashSpent
<1>10. CASE Stopped
  BY <1>10, StoppedSpent
<1>11. CASE UNCHANGED vars
  BY <1>11 DEF NInv, ManifestFits, Fits, RamSpent, QueueSpent, EditBelow,
     Quiet,
     Up, vars, disk, jobVars, logVars, memVars, fileVars, bootVars
<1> QED
  BY <1>1, <1>2, <1>3, <1>4, <1>5, <1>6, <1>7, <1>8, <1>9, <1>10, <1>11
     DEF Next

\* A number with a key, in KeyList or in the MANIFEST, is never given out
\* again, whatever crashes and however many threads draw numbers: GenerateKey
\* always inserts a fresh key and never meets the key of an earlier file.
THEOREM NumbersSpent == Spec => []KeyedNumbersSpent
<1>1. Init => NInv
  BY InitSpent
<1>2. TInv /\ TInv' /\ NInv /\ [Next]_vars => NInv'
  BY NextSpent
<1>3. NInv => KeyedNumbersSpent
  BY DEF NInv, ManifestFits, Fits, RamSpent, Up, Running, KeyedNumbersSpent
<1> QED
  BY <1>1, <1>2, <1>3, Shaped, PTL DEF Spec
=============================================================================
