-------------------------- MODULE SstKeysTypeProofs --------------------------
(***************************************************************************)
(* Type correctness of SstKeys, for every number of jobs, iterators, files *)
(* and incarnations.  TypeOK is not inductive: a group of the MANIFEST     *)
(* queue must not be longer than the queue, a job that builds must have a  *)
(* file, and only a process that may still restart is down.  Shape says    *)
(* so, and TypeOK /\ Shape is preserved by every action.                   *)
(***************************************************************************)
EXTENDS SstKeys, TLAPS

\* The states in which a job has an output file in hand.
Building == {"gen", "build", "install", "commit", "committing", "key",
             "keying", "restored", "keyio", "keyerr"}

\* What typing needs beyond the types.
Shape ==
  /\ phase = "down" => boot < MaxBoot
  /\ group.done <= group.size /\ group.size <= Len(writers)
  /\ \A j \in Jobs : pc[j] \in Building => out[j] \in File

\* The inductive invariant of this module.
TInv == TypeOK /\ Shape

USE SstKeysAssumption DEF errVars

-----------------------------------------------------------------------------
(* The operators of the model *)

\* Inserting a key keeps the list a map from file numbers to keys.
LEMMA AddKeyType ==
  ASSUME NEW keys \in [File -> Key], NEW n \in File, NEW k \in Key
  PROVE  AddSSTKeyToList(keys, n, k) \in [File -> Key]
BY DEF AddSSTKeyToList

\* Replaying an edit on a MANIFEST state gives a MANIFEST state.
LEMMA ApplyType ==
  ASSUME NEW m \in Manifest, NEW e \in Edit, NEW next \in 1 .. MaxFile + 1
  PROVE  ApplyVersionEdit(m, e, next) \in Manifest
BY AddKeyType DEF ApplyVersionEdit, Manifest, Edit, AddSSTKeyToList,
   DeleteSSTKeyFromList, NoKey, Key, None

\* The MANIFEST of a new database is one.
LEMMA EmptyType == EmptyManifest \in Manifest
BY DEF EmptyManifest, Manifest, Key

\* Every edit the code builds is one.
LEMMA EditType ==
  /\ \A n \in File, k \in Key : AddSSTKey(n, k) \in Edit
  /\ \A n \in File : DeleteSSTKey(n) \in Edit
  /\ \A a, d \in SUBSET File : [EmptyEdit EXCEPT !.add = a, !.del = d] \in Edit
  /\ \A a \in SUBSET File : [EmptyEdit EXCEPT !.add = a] \in Edit
BY DEF AddSSTKey, DeleteSSTKey, EmptyEdit, Edit, Key

\* An element of a sequence is of the sequence's type.
LEMMA SeqElement ==
  ASSUME NEW S, NEW s \in Seq(S), NEW i \in 1 .. Len(s)
  PROVE  s[i] \in S
OBVIOUS

\* What is left of a sequence when its first n elements are gone.
LEMMA SeqRest ==
  ASSUME NEW S, NEW s \in Seq(S), NEW n \in Nat, n <= Len(s)
  PROVE  /\ SubSeq(s, n + 1, Len(s)) \in Seq(S)
         /\ Len(SubSeq(s, n + 1, Len(s))) = Len(s) - n
         /\ \A i \in 1 .. Len(s) - n : SubSeq(s, n + 1, Len(s))[i] = s[i + n]
OBVIOUS

\* Queueing an edit makes the queue one longer and keeps its type.
LEMMA WritersType ==
  ASSUME LogType, NEW j \in Jobs, NEW e \in Edit, NEW mems \in SUBSET File,
         LogAndApply(j, e, mems), group' = group
  PROVE  LogType' /\ Len(writers') = Len(writers) + 1
BY DEF LogType, LogAndApply, Writer

\* The record of a memtable that is picked.
LEMMA MemRecord ==
  ASSUME NEW n \in File
  PROVE  [id |-> n, file |-> n, done |-> FALSE, has |-> FALSE] \in Mem
BY DEF Mem

\* A memtable that is picked again has a number again.
LEMMA MemSetFile ==
  ASSUME NEW m \in Mem, NEW n \in File
  PROVE  [m EXCEPT !.file = n] \in Mem
BY DEF Mem, File, None

\* A completed flush leaves the record of its memtable one.
LEMMA MemSetDone ==
  ASSUME NEW m \in Mem, NEW d \in BOOLEAN
  PROVE  [m EXCEPT !.done = d] \in Mem
BY DEF Mem

\* So does a built table.
LEMMA MemSetHas ==
  ASSUME NEW m \in Mem, NEW h \in BOOLEAN, m.file \in File
  PROVE  [m EXCEPT !.has = h] \in Mem
BY DEF Mem, File, None

\* x is what a rollback of the flush of the memtables in failed makes of m.
Rolled(m, x, failed) ==
  /\ x.id = m.id
  /\ IF m \in failed THEN x.file = None /\ ~x.done /\ ~x.has ELSE x = m

\* A rollback forgets the flush of the memtables in question and touches no
\* other.
LEMMA RolledBack ==
  ASSUME MemType, NEW failed, imm' = Rollback(imm, failed)
  PROVE  /\ MemType'
         /\ \A x \in imm' : \E m \in imm : Rolled(m, x, failed)
         /\ \A m \in imm : \E x \in imm' : Rolled(m, x, failed)
<1> DEFINE Set(m) ==
             IF m \in failed
             THEN [m EXCEPT !.file = None, !.done = FALSE, !.has = FALSE] ELSE m
<1>1. ASSUME NEW m \in imm
      PROVE  Set(m) \in Mem /\ Rolled(m, Set(m), failed)
  <2>1. m \in [id : File, file : File \cup {None}, done : BOOLEAN, has : BOOLEAN]
    BY DEF MemType, Mem
  <2> QED
    BY <2>1 DEF MemType, Mem, Rolled
<1>2. imm' = {Set(m) : m \in imm}
  BY DEF Rollback
<1> HIDE DEF Set
<1> QED
  BY <1>1, <1>2 DEF MemType

\* A version that goes away makes only file numbers obsolete.
LEMMA UnrefType ==
  ASSUME version \subseteq File, sv \subseteq File, obsolete \subseteq File,
         pins \in [Holders -> SUBSET File], UnrefVersions
  PROVE  obsolete' \subseteq File
BY DEF UnrefVersions, Live

\* FindObsoleteFiles sends its caller to the purge or back to rest, and
\* touches nobody else.
LEMMA FindType ==
  ASSUME NEW h \in Holders, NEW full \in BOOLEAN, FindObsoleteFiles(h, full),
         version \subseteq File, sv \subseteq File, obsolete \subseteq File,
         grabbed \subseteq File, pins \in [Holders -> SUBSET File],
         del \in [Holders -> SUBSET File], todo \in [Holders -> SUBSET File],
         pc \in [Holders -> JobState]
  PROVE  /\ obsolete' \subseteq File /\ grabbed' \subseteq File
         /\ del' \in [Holders -> SUBSET File]
         /\ todo' \in [Holders -> SUBSET File]
         /\ pc' \in [Holders -> JobState]
         /\ pc'[h] \in {"idle", "purge"}
         /\ \A k \in Holders \ {h} : pc'[k] = pc[k]
BY DEF FindObsoleteFiles, Live, JobState

-----------------------------------------------------------------------------
(* The initial state and every action *)

\* A new database has the types.
LEMMA InitType == Init => TInv
<1> SUFFICES ASSUME Init PROVE TInv
  OBVIOUS
<1>1. KeyType
  BY DEF Init, KeyType, NoKey, Key, Manifest, EmptyManifest
<1>2. FlagType
  BY Zenon DEF Init, FlagType
<1>3. MemType
  BY DEF Init, MemType
<1>4. FileType
  BY DEF Init, FileType
<1>5. JobType
  BY DEF Init, JobType, JobState, None
<1>6. LogType
  BY DEF Init, LogType, NoGroup
<1>7. BootType
  BY DEF Init, BootType, Phase, Boot
<1>8. Shape
  BY DEF Init, Shape, NoGroup, Building, Jobs, Holders
<1> QED
  BY <1>1, <1>2, <1>3, <1>4, <1>5, <1>6, <1>7, <1>8 DEF TInv, TypeOK

\* FlushStart keeps the types.
LEMMA FlushStartType ==
  ASSUME TInv, NEW j \in FlushJobs, FlushStart(j)
  PROVE  TInv'
<1> USE DEF TInv, TypeOK, FlushStart
<1>0. nextFile \in File /\ j \in Jobs /\ j \in Holders
  BY DEF File, FileType, Jobs, Holders
<1>1. (KeyType /\ FlagType /\ LogType /\ BootType)'
  BY DEF KeyType, FlagType, LogType, BootType, disk, logVars, bootVars
<1>2. MemType'
  BY <1>0, MemRecord, MemSetFile DEF MemType
<1>3. FileType'
  BY DEF FileType, bootVars
<1>4. JobType'
  BY <1>0 DEF JobType, JobState, FileType
<1>5. Shape'
  BY <1>0 DEF Shape, JobType, Building, logVars, bootVars
<1> QED
  BY <1>1, <1>2, <1>3, <1>4, <1>5 DEF TInv, TypeOK

\* GenerateKey keeps the types.
LEMMA GenerateKeyType ==
  ASSUME TInv, NEW j \in FlushJobs, GenerateKey(j)
  PROVE  TInv'
<1> USE DEF TInv, TypeOK, GenerateKey
<1>0. j \in Jobs /\ j \in Holders
  BY DEF Jobs, Holders
<1>1. (FlagType /\ MemType /\ FileType /\ LogType /\ BootType)'
  BY DEF FlagType, MemType, FileType, LogType, BootType, logVars, memVars,
     fileVars, bootVars
<1>2. KeyType'
  BY AddKeyType, <1>0 DEF KeyType, Shape, Building, BootType, Key, disk,
     logVars
<1>3. JobType'
  BY <1>0 DEF JobType, JobState
<1>4. Shape'
  BY <1>0 DEF Shape, JobType, Building, logVars, bootVars
<1> QED
  BY <1>1, <1>2, <1>3, <1>4 DEF TInv, TypeOK

\* BuildFlushTable keeps the types.
LEMMA BuildFlushTableType ==
  ASSUME TInv, NEW j \in FlushJobs, BuildFlushTable(j)
  PROVE  TInv'
<1> USE DEF TInv, TypeOK, BuildFlushTable
<1>0. j \in Jobs /\ j \in Holders
  BY DEF Jobs, Holders
<1>1. (FlagType /\ LogType /\ BootType)'
  BY DEF FlagType, LogType, BootType, logVars, bootVars
<1>2. KeyType'
  BY DEF KeyType, logVars
<1>3. MemType'
  BY <1>0, MemSetHas DEF MemType, Shape, Building
<1>4. FileType'
  BY UnrefType DEF FileType, JobType, bootVars
<1>5. JobType'
  BY <1>0 DEF JobType, JobState
<1>6. Shape'
  BY <1>0 DEF Shape, JobType, Building, logVars, bootVars
<1> QED
  BY <1>1, <1>2, <1>3, <1>4, <1>5, <1>6 DEF TInv, TypeOK

\* FlushFails keeps the types.
LEMMA FlushFailsType ==
  ASSUME TInv, NEW j \in FlushJobs, FlushFails(j)
  PROVE  TInv'
<1> USE DEF TInv, TypeOK, FlushFails
<1>0. j \in Jobs /\ j \in Holders
  BY DEF Jobs, Holders
<1>1. (KeyType /\ LogType /\ BootType)'
  BY DEF KeyType, LogType, BootType, disk, logVars, bootVars
<1>6. MemType'
  BY RolledBack DEF FlushFails
<1>2. FlagType'
  BY DEF FlagType, logVars
<1>3. FileType'
  BY UnrefType DEF FileType, JobType, bootVars
<1>4. JobType'
  BY <1>0 DEF JobType, JobState
<1>5. Shape'
  BY <1>0 DEF Shape, JobType, Building, logVars, bootVars
<1> QED
  BY <1>1, <1>2, <1>3, <1>4, <1>5, <1>6 DEF TInv, TypeOK

\* TryInstallMemtableFlushResults keeps the types.
LEMMA TryInstallMemtableFlushResultsType ==
  ASSUME TInv, NEW j \in FlushJobs, TryInstallMemtableFlushResults(j)
  PROVE  TInv'
<1> USE DEF TInv, TypeOK, TryInstallMemtableFlushResults
<1>0. j \in Jobs /\ j \in Holders
  BY DEF Jobs, Holders
<1>1. (KeyType /\ FileType /\ LogType /\ BootType)'
  BY DEF KeyType, FileType, LogType, BootType, disk, logVars, fileVars,
     bootVars
<1>2. FlagType'
  BY Zenon DEF FlagType, logVars
<1>3. MemType'
  BY MemSetDone DEF MemType
<1>4. JobType'
  BY <1>0 DEF JobType, JobState
<1>5. Shape'
  BY <1>0 DEF Shape, JobType, Building, logVars, bootVars
<1> QED
  BY <1>1, <1>2, <1>3, <1>4, <1>5 DEF TInv, TypeOK

\* CommitMemtables keeps the types.
LEMMA CommitMemtablesType ==
  ASSUME TInv, NEW j \in FlushJobs, CommitMemtables(j)
  PROVE  TInv'
<1> USE DEF TInv, TypeOK, CommitMemtables
<1>0. j \in Jobs /\ j \in Holders
  BY DEF Jobs, Holders
<1>1. (KeyType /\ FlagType /\ MemType /\ FileType /\ BootType)'
  BY DEF KeyType, FlagType, MemType, FileType, BootType, disk, memVars,
     fileVars, bootVars
<1>2. JobType'
  BY <1>0 DEF JobType, JobState
<1>3. LogType'
  <2> DEFINE adds == {m.file : m \in {c \in Committable(imm) : c.has}}
             mems == {m.id : m \in Committable(imm)}
  <2>1. adds \in SUBSET File /\ mems \in SUBSET File
    BY DEF MemType, Mem, Committable
  <2>2. [EmptyEdit EXCEPT !.add = adds] \in Edit
    BY <2>1, EditType
  <2> QED
    BY <1>0, <2>1, <2>2, WritersType
<1>4. Shape'
  BY <1>0 DEF Shape, LogAndApply, LogType, JobType, Building, bootVars
<1> QED
  BY <1>1, <1>2, <1>3, <1>4 DEF TInv, TypeOK

\* CommitDone keeps the types.
LEMMA CommitDoneType ==
  ASSUME TInv, NEW j \in FlushJobs, CommitDone(j)
  PROVE  TInv'
<1> USE DEF TInv, TypeOK, CommitDone
<1>0. j \in Jobs /\ j \in Holders
  BY DEF Jobs, Holders
<1>1. (KeyType /\ MemType /\ FileType /\ LogType /\ BootType)'
  BY DEF KeyType, MemType, FileType, LogType, BootType, disk, logVars,
     fileVars, bootVars
<1>2. FlagType'
  BY DEF FlagType, logVars
<1>3. JobType'
  BY <1>0 DEF JobType, JobState
<1>4. Shape'
  BY <1>0 DEF Shape, JobType, Building, logVars, bootVars
<1> QED
  BY <1>1, <1>2, <1>3, <1>4 DEF TInv, TypeOK

\* CommitFails keeps the types.
LEMMA CommitFailsType ==
  ASSUME TInv, NEW j \in FlushJobs, CommitFails(j)
  PROVE  TInv'
<1> USE DEF TInv, TypeOK, CommitFails
<1>0. j \in Jobs /\ j \in Holders
  BY DEF Jobs, Holders
<1>1. (KeyType /\ MemType /\ FileType /\ LogType /\ BootType)'
  BY DEF KeyType, MemType, FileType, LogType, BootType, disk, logVars,
     fileVars, bootVars
<1>2. FlagType'
  BY DEF FlagType, logVars
<1>3. JobType'
  BY <1>0 DEF JobType, JobState
<1>4. Shape'
  BY <1>0 DEF Shape, JobType, Building, logVars, bootVars
<1> QED
  BY <1>1, <1>2, <1>3, <1>4 DEF TInv, TypeOK

\* LogFlushKey keeps the types.
LEMMA LogFlushKeyType ==
  ASSUME TInv, NEW j \in FlushJobs, LogFlushKey(j)
  PROVE  TInv'
<1> USE DEF TInv, TypeOK, LogFlushKey
<1>0. j \in Jobs /\ j \in Holders
  BY DEF Jobs, Holders
<1>1. (KeyType /\ FlagType /\ MemType /\ FileType)'
  BY DEF KeyType, FlagType, MemType, FileType, disk, memVars, fileVars
<1>2. JobType'
  BY <1>0 DEF JobType, JobState
<1>3. LogType'
  <2>1. AddSSTKey(out[j], KeyList[out[j]]) \in Edit
    BY <1>0, EditType DEF KeyType, Shape, Building
  <2> QED
    BY <1>0, <2>1, WritersType
<1>4. BootType'
  BY DEF BootType, Phase
<1>5. Shape'
  BY <1>0 DEF Shape, LogAndApply, LogType, JobType, Building
<1> QED
  BY <1>1, <1>2, <1>3, <1>4, <1>5 DEF TInv, TypeOK

\* CompactionStart keeps the types.
LEMMA CompactionStartType ==
  ASSUME TInv, NEW c \in CompactionJobs, CompactionStart(c)
  PROVE  TInv'
<1> USE DEF TInv, TypeOK, CompactionStart
<1>0. c \in Jobs /\ c \in Holders
  BY DEF Jobs, Holders
<1>1. (KeyType /\ FlagType /\ MemType /\ FileType /\ LogType /\ BootType)'
  BY DEF KeyType, FlagType, MemType, FileType, LogType, BootType, disk,
     logVars, memVars, fileVars, bootVars
<1>2. JobType'
  BY <1>0 DEF JobType, JobState, FileType
<1>3. Shape'
  BY <1>0 DEF Shape, JobType, Building, logVars, bootVars
<1> QED
  BY <1>1, <1>2, <1>3 DEF TInv, TypeOK

\* OpenCompactionOutputFile keeps the types.
LEMMA OpenCompactionOutputFileType ==
  ASSUME TInv, NEW c \in CompactionJobs, OpenCompactionOutputFile(c)
  PROVE  TInv'
<1> USE DEF TInv, TypeOK, OpenCompactionOutputFile
<1>0. nextFile \in File /\ c \in Jobs /\ c \in Holders
  BY DEF File, FileType, Jobs, Holders
<1>1. (FlagType /\ MemType /\ LogType /\ BootType)'
  BY DEF FlagType, MemType, LogType, BootType, logVars, memVars, bootVars
<1>2. KeyType'
  BY AddKeyType, <1>0 DEF KeyType, BootType, Key, disk, logVars
<1>3. FileType'
  BY DEF FileType, bootVars
<1>4. JobType'
  BY <1>0 DEF JobType, JobState
<1>5. Shape'
  BY <1>0 DEF Shape, JobType, Building, logVars, bootVars
<1> QED
  BY <1>1, <1>2, <1>3, <1>4, <1>5 DEF TInv, TypeOK

\* FinishCompactionOutputFile keeps the types.
LEMMA FinishCompactionOutputFileType ==
  ASSUME TInv, NEW c \in CompactionJobs, FinishCompactionOutputFile(c)
  PROVE  TInv'
<1> USE DEF TInv, TypeOK, FinishCompactionOutputFile
<1>0. c \in Jobs /\ c \in Holders
  BY DEF Jobs, Holders
<1>1. (FlagType /\ MemType /\ FileType /\ LogType)'
  BY DEF FlagType, MemType, FileType, LogType, logVars, memVars, fileVars
<1>2. KeyType'
  BY DEF KeyType, logVars
<1>3. JobType'
  BY <1>0 DEF JobType, JobState, Shape, Building
<1>4. BootType'
  BY DEF BootType, Phase
<1>5. Shape'
  BY <1>0 DEF Shape, JobType, Building, logVars
<1> QED
  BY <1>1, <1>2, <1>3, <1>4, <1>5 DEF TInv, TypeOK

\* CompactionFails keeps the types.
LEMMA CompactionFailsType ==
  ASSUME TInv, NEW c \in CompactionJobs, CompactionFails(c)
  PROVE  TInv'
<1> USE DEF TInv, TypeOK, CompactionFails
<1>0. c \in Jobs /\ c \in Holders
  BY DEF Jobs, Holders
<1>1. (MemType /\ FileType /\ LogType /\ BootType)'
  BY DEF MemType, FileType, LogType, BootType, logVars, memVars, fileVars,
     bootVars
<1>5. KeyType'
  BY DEF KeyType, logVars
<1>2. FlagType'
  BY DEF FlagType, logVars, memVars
<1>3. JobType'
  BY <1>0 DEF JobType, JobState
<1>4. Shape'
  BY <1>0 DEF Shape, JobType, Building, logVars, bootVars
<1> QED
  BY <1>1, <1>2, <1>3, <1>4, <1>5 DEF TInv, TypeOK

\* InstallCompactionResults keeps the types.
LEMMA InstallCompactionResultsType ==
  ASSUME TInv, NEW c \in CompactionJobs, InstallCompactionResults(c)
  PROVE  TInv'
<1> USE DEF TInv, TypeOK, InstallCompactionResults
<1>0. c \in Jobs /\ c \in Holders
  BY DEF Jobs, Holders
<1>1. (KeyType /\ FlagType /\ MemType /\ FileType /\ LogType /\ BootType)'
  BY DEF KeyType, FlagType, MemType, FileType, LogType, BootType, disk,
     logVars, memVars, fileVars, bootVars
<1>2. JobType'
  BY <1>0 DEF JobType, JobState
<1>3. Shape'
  BY <1>0 DEF Shape, JobType, Building, logVars, bootVars
<1> QED
  BY <1>1, <1>2, <1>3 DEF TInv, TypeOK

\* LogCompactionKey keeps the types.
LEMMA LogCompactionKeyType ==
  ASSUME TInv, NEW c \in CompactionJobs, LogCompactionKey(c)
  PROVE  TInv'
<1> USE DEF TInv, TypeOK, LogCompactionKey
<1>0. c \in Jobs /\ c \in Holders
  BY DEF Jobs, Holders
<1>1. (KeyType /\ FlagType /\ MemType /\ FileType)'
  BY DEF KeyType, FlagType, MemType, FileType, disk, memVars, fileVars
<1>2. JobType'
  BY <1>0 DEF JobType, JobState
<1>3. LogType'
  <2>1. PICK n \in todo[c] : LogAndApply(c, AddSSTKey(n, KeyList[n]), {})
    OBVIOUS
  <2>2. AddSSTKey(n, KeyList[n]) \in Edit
    BY <1>0, <2>1, EditType DEF KeyType, JobType
  <2> QED
    BY <1>0, <2>1, <2>2, WritersType
<1>4. BootType'
  BY DEF BootType, Phase
<1>5. Shape'
  BY <1>0 DEF Shape, LogAndApply, LogType, JobType, Building
<1> QED
  BY <1>1, <1>2, <1>3, <1>4, <1>5 DEF TInv, TypeOK

\* ApplyCompaction keeps the types.
LEMMA ApplyCompactionType ==
  ASSUME TInv, NEW c \in CompactionJobs, ApplyCompaction(c)
  PROVE  TInv'
<1> USE DEF TInv, TypeOK, ApplyCompaction
<1>0. c \in Jobs /\ c \in Holders
  BY DEF Jobs, Holders
<1>1. (KeyType /\ FlagType /\ MemType /\ FileType /\ BootType)'
  BY DEF KeyType, FlagType, MemType, FileType, BootType, disk, memVars,
     fileVars, bootVars
<1>2. JobType'
  BY <1>0 DEF JobType, JobState
<1>3. LogType'
  <2>1. [EmptyEdit EXCEPT !.add = outs[c], !.del = ins[c]] \in Edit
    BY <1>0, EditType DEF JobType
  <2> QED
    BY <1>0, <2>1, WritersType
<1>4. Shape'
  BY <1>0 DEF Shape, LogAndApply, LogType, JobType, Building, bootVars
<1> QED
  BY <1>1, <1>2, <1>3, <1>4 DEF TInv, TypeOK

\* SetBGError keeps the types.
LEMMA SetBGErrorType ==
  ASSUME TInv, NEW j \in Jobs, SetBGError(j)
  PROVE  TInv'
<1> USE DEF TInv, TypeOK, SetBGError
<1>0. j \in Holders
  BY DEF Holders
<1>1. (KeyType /\ MemType /\ LogType /\ BootType)'
  BY DEF KeyType, MemType, LogType, BootType, disk, logVars, memVars, bootVars
<1>2. FlagType'
  BY DEF FlagType, logVars, memVars
<1>3. FileType'
  BY UnrefType DEF FileType, JobType, bootVars
<1>4. JobType'
  BY <1>0 DEF JobType, JobState
<1>5. Shape'
  BY <1>0 DEF Shape, JobType, Building, logVars, bootVars
<1> QED
  BY <1>1, <1>2, <1>3, <1>4, <1>5 DEF TInv, TypeOK

\* ReleaseAndFind keeps the types.
LEMMA ReleaseAndFindType ==
  ASSUME TInv, NEW j \in Jobs, ReleaseAndFind(j)
  PROVE  TInv'
<1> USE DEF TInv, TypeOK, ReleaseAndFind
<1>0. j \in Jobs /\ j \in Holders
  BY DEF Jobs, Holders
<1>1. (KeyType /\ FlagType /\ MemType /\ LogType /\ BootType)'
  BY DEF KeyType, FlagType, MemType, LogType, BootType, disk, logVars, memVars,
     bootVars
<1>2. FileType'
  <2>1. PICK full \in BOOLEAN : FindObsoleteFiles(j, full)
    OBVIOUS
  <2>2. obsolete' \subseteq File /\ grabbed' \subseteq File
    BY <1>0, <2>1, FindType DEF FileType, JobType
  <2> QED
    BY <2>2 DEF FileType, bootVars
<1>3. JobType'
  BY FindType, <1>0 DEF JobType, JobState, None, FileType
<1>4. Shape'
  <2>1. PICK full \in BOOLEAN : FindObsoleteFiles(j, full)
    OBVIOUS
  <2>2. /\ pc'[j] \in {"idle", "purge"}
        /\ \A k \in Holders \ {j} : pc'[k] = pc[k]
    BY <1>0, <2>1, FindType DEF FileType, JobType
  <2> QED
    BY <1>0, <2>2 DEF Shape, JobType, Building, Holders, logVars, bootVars
<1> QED
  BY <1>1, <1>2, <1>3, <1>4 DEF TInv, TypeOK

\* LogKeyDeletion keeps the types.
LEMMA LogKeyDeletionType ==
  ASSUME TInv, NEW j \in Jobs, LogKeyDeletion(j)
  PROVE  TInv'
<1> USE DEF TInv, TypeOK, LogKeyDeletion
<1>0. j \in Jobs /\ j \in Holders
  BY DEF Jobs, Holders
<1>1. (KeyType /\ FlagType /\ MemType /\ FileType /\ BootType)'
  BY DEF KeyType, FlagType, MemType, FileType, BootType, disk, memVars,
     fileVars, bootVars
<1>2. JobType'
  BY <1>0 DEF JobType, JobState
<1>3. LogType'
  <2>1. PICK n \in todo[j] : LogAndApply(j, DeleteSSTKey(n), {})
    OBVIOUS
  <2>2. DeleteSSTKey(n) \in Edit
    BY <1>0, <2>1, EditType DEF JobType
  <2> QED
    BY <1>0, <2>1, <2>2, WritersType
<1>4. Shape'
  BY <1>0 DEF Shape, LogAndApply, LogType, JobType, Building, bootVars
<1> QED
  BY <1>1, <1>2, <1>3, <1>4 DEF TInv, TypeOK

\* EraseKeys keeps the types.
LEMMA EraseKeysType ==
  ASSUME TInv, NEW j \in Jobs, EraseKeys(j)
  PROVE  TInv'
<1> USE DEF TInv, TypeOK, EraseKeys
<1>0. j \in Jobs /\ j \in Holders
  BY DEF Jobs, Holders
<1>1. (FlagType /\ MemType /\ FileType /\ LogType /\ BootType)'
  BY DEF FlagType, MemType, FileType, LogType, BootType, logVars, memVars,
     fileVars, bootVars
<1>2. KeyType'
  BY DEF KeyType, Key, disk, logVars
<1>3. JobType'
  BY <1>0 DEF JobType, JobState
<1>4. Shape'
  BY <1>0 DEF Shape, JobType, Building, logVars, bootVars
<1> QED
  BY <1>1, <1>2, <1>3, <1>4 DEF TInv, TypeOK

\* DeleteObsoleteFile keeps the types.
LEMMA DeleteObsoleteFileType ==
  ASSUME TInv, NEW h \in Holders, DeleteObsoleteFile(h)
  PROVE  TInv'
<1> USE DEF TInv, TypeOK, DeleteObsoleteFile
<1>1. (FlagType /\ MemType /\ FileType /\ LogType /\ BootType /\ Shape)'
  BY DEF FlagType, MemType, FileType, LogType, BootType, Shape, logVars,
     memVars, fileVars, bootVars
<1>2. KeyType'
  BY DEF KeyType, Key, logVars
<1>3. JobType'
  BY DEF JobType
<1> QED
  BY <1>1, <1>2, <1>3 DEF TInv, TypeOK

\* PurgeDone keeps the types.
LEMMA PurgeDoneType ==
  ASSUME TInv, NEW h \in Holders, PurgeDone(h)
  PROVE  TInv'
<1> USE DEF TInv, TypeOK, PurgeDone
<1>1. (KeyType /\ FlagType /\ MemType /\ LogType /\ BootType)'
  BY DEF KeyType, FlagType, MemType, LogType, BootType, disk, logVars, memVars,
     bootVars
<1>2. FileType'
  BY DEF FileType, bootVars
<1>3. JobType'
  BY DEF JobType, JobState
<1>4. Shape'
  BY DEF Shape, JobType, Building, logVars, bootVars
<1> QED
  BY <1>1, <1>2, <1>3, <1>4 DEF TInv, TypeOK

\* NewIterator keeps the types.
LEMMA NewIteratorType ==
  ASSUME TInv, NEW i \in Iterators, NewIterator(i)
  PROVE  TInv'
<1> USE DEF TInv, TypeOK, NewIterator
<1>0. i \in Holders
  BY DEF Jobs, Holders
<1>1. (KeyType /\ FlagType /\ MemType /\ FileType /\ LogType /\ BootType)'
  BY DEF KeyType, FlagType, MemType, FileType, LogType, BootType, disk,
     logVars, memVars, fileVars, bootVars
<1>2. JobType'
  BY <1>0 DEF JobType, JobState, FileType
<1>3. Shape'
  BY <1>0 DEF Shape, JobType, Building, logVars, bootVars
<1> QED
  BY <1>1, <1>2, <1>3 DEF TInv, TypeOK

\* ReadBlock keeps the types.
LEMMA ReadBlockType ==
  ASSUME TInv, NEW i \in Iterators, ReadBlock(i)
  PROVE  TInv'
<1> USE DEF TInv, TypeOK, ReadBlock
<1>0. i \in Holders
  BY DEF Jobs, Holders
<1>1. (KeyType /\ FlagType /\ MemType /\ FileType /\ JobType /\ LogType)'
  BY DEF KeyType, FlagType, MemType, FileType, JobType, LogType, disk, jobVars,
     logVars, memVars, fileVars
<1>2. BootType'
  BY DEF BootType, Phase
<1>3. Shape'
  BY <1>0 DEF Shape, jobVars, logVars
<1> QED
  BY <1>1, <1>2, <1>3 DEF TInv, TypeOK

\* DeleteIterator keeps the types.
LEMMA DeleteIteratorType ==
  ASSUME TInv, NEW i \in Iterators, DeleteIterator(i)
  PROVE  TInv'
<1> USE DEF TInv, TypeOK, DeleteIterator
<1>0. i \in Holders
  BY DEF Jobs, Holders
<1>1. (KeyType /\ FlagType /\ MemType /\ LogType /\ BootType)'
  BY DEF KeyType, FlagType, MemType, LogType, BootType, disk, logVars, memVars,
     bootVars
<1>2. FileType'
  <2>1. CASE FindObsoleteFiles(i, FALSE)
    <3>1. obsolete' \subseteq File /\ grabbed' \subseteq File
      BY <1>0, <2>1, FindType DEF FileType, JobType
    <3> QED
      BY <3>1 DEF FileType, bootVars
  <2>2. CASE UnrefVersions /\ UNCHANGED grabbed
    BY <2>2, UnrefType DEF FileType, JobType, bootVars
  <2> QED
    BY <2>1, <2>2
<1>3. JobType'
  BY FindType, <1>0 DEF JobType, JobState, FileType
<1>4. Shape'
  <2>1. i \notin Jobs
    OBVIOUS
  <2>2. \A k \in Holders \ {i} : pc'[k] = pc[k]
    BY <1>0, FindType DEF FileType, JobType
  <2> QED
    BY <1>0, <2>1, <2>2 DEF Shape, JobType, Holders, logVars, bootVars
<1> QED
  BY <1>1, <1>2, <1>3, <1>4 DEF TInv, TypeOK

\* SwitchMemtable keeps the types.
LEMMA SwitchMemtableType ==
  ASSUME TInv, SwitchMemtable
  PROVE  TInv'
<1> USE DEF TInv, TypeOK, SwitchMemtable
<1>1. (KeyType /\ FlagType /\ MemType /\ JobType /\ LogType /\ BootType /\
   Shape)'
  BY DEF KeyType, FlagType, MemType, JobType, LogType, BootType, Shape, disk,
     logVars, memVars, bootVars
<1>2. FileType'
  BY UnrefType DEF FileType, JobType, bootVars
<1> QED
  BY <1>1, <1>2 DEF TInv, TypeOK

\* BeginManifestWrite keeps the types.
LEMMA BeginManifestWriteType ==
  ASSUME TInv, BeginManifestWrite
  PROVE  TInv'
<1> USE DEF TInv, TypeOK, BeginManifestWrite
<1>1. (MemType /\ FileType /\ JobType)'
  BY DEF MemType, FileType, JobType, jobVars, memVars, fileVars
<1>2. KeyType'
  BY DEF KeyType, WriteCurrentStateToManifest, FileType, Manifest, Key, disk
<1>3. FlagType'
  BY DEF FlagType, memVars
<1>4. LogType'
  BY DEF LogType, FileType
<1>5. BootType'
  BY DEF BootType, Phase
<1>6. Shape'
  BY DEF Shape, LogType, jobVars
<1> QED
  BY <1>1, <1>2, <1>3, <1>4, <1>5, <1>6 DEF TInv, TypeOK

\* AppendRecord keeps the types.
LEMMA AppendRecordType ==
  ASSUME TInv, AppendRecord
  PROVE  TInv'
<1> USE DEF TInv, TypeOK, AppendRecord
<1>1. (FlagType /\ MemType /\ FileType /\ JobType /\ BootType)'
  BY DEF FlagType, MemType, FileType, JobType, BootType, jobVars, memVars,
     fileVars, bootVars
<1>2. KeyType'
  <2>1. writers[group.done + 1] \in Writer
    BY SeqElement DEF LogType, Shape
  <2>2. group.next \in 1 .. MaxFile + 1
    BY DEF LogType
  <2>3. writers[group.done + 1].edit \in Edit
    BY <2>1 DEF Writer
  <2> QED
    BY <2>2, <2>3, ApplyType DEF KeyType
<1>3. LogType'
  BY DEF LogType
<1>4. Shape'
  BY DEF Shape, LogType, jobVars, bootVars
<1> QED
  BY <1>1, <1>2, <1>3, <1>4 DEF TInv, TypeOK

\* SetCurrentFile keeps the types.
LEMMA SetCurrentFileType ==
  ASSUME TInv, SetCurrentFile
  PROVE  TInv'
<1> USE DEF TInv, TypeOK, SetCurrentFile
<1>1. (MemType /\ FileType /\ JobType /\ LogType /\ BootType /\ Shape)'
  BY DEF MemType, FileType, JobType, LogType, BootType, Shape, jobVars,
     memVars, fileVars, bootVars
<1>2. KeyType'
  BY EmptyType DEF KeyType
<1>3. FlagType'
  BY DEF FlagType, memVars
<1> QED
  BY <1>1, <1>2, <1>3 DEF TInv, TypeOK

\* Waking the writers of a group keeps the queue, the group and where every job
\* is well-formed, whatever the status is.
LEMMA WakeType ==
  ASSUME LogType, Shape, JobType, NEW ok \in BOOLEAN, WakeWriters(ok)
  PROVE  /\ LogType'
         /\ pc' \in [Holders -> JobState]
         /\ group'.done <= group'.size /\ group'.size <= Len(writers')
         /\ \A j \in Jobs : pc'[j] \in Building => pc[j] \in Building
         /\ \A w \in Batch : w \in Writer
<1>1. SubSeq(writers, group.size + 1, Len(writers)) \in Seq(Writer)
  BY SeqRest DEF LogType, Shape
<1>2. LogType' /\ writers' \in Seq(Writer)
  BY <1>1 DEF LogType, NoGroup, WakeWriters
<1>3. group'.done <= group'.size /\ group'.size <= Len(writers')
  BY <1>2 DEF NoGroup, WakeWriters
<1>4. pc' \in [Holders -> JobState]
  BY DEF JobType, JobState, Resume, WakeWriters
<1>5. \A j \in Jobs : pc'[j] \in Building => pc[j] \in Building
  BY DEF Building, Resume, Holders, JobType, WakeWriters
<1>6. \A w \in Batch : w \in Writer
  BY SeqElement DEF LogType, Shape, Batch
<1> QED
  BY <1>2, <1>3, <1>4, <1>5, <1>6

\* FinishManifestWrite keeps the types.
LEMMA FinishManifestWriteType ==
  ASSUME TInv, FinishManifestWrite
  PROVE  TInv'
<1> USE DEF TInv, TypeOK, FinishManifestWrite
<1>0. /\ LogType' /\ pc' \in [Holders -> JobState]
      /\ group'.done <= group'.size /\ group'.size <= Len(writers')
      /\ \A j \in Jobs : pc'[j] \in Building => pc[j] \in Building
      /\ \A w \in Batch : w \in Writer
  BY WakeType
<1>1. (KeyType /\ BootType)'
  BY DEF KeyType, BootType, disk, bootVars
<1>2. FlagType'
  BY DEF FlagType
<1>3. MemType'
  BY DEF MemType
<1>4. FileType'
  <2>1. \A w \in Batch : w.edit.add \subseteq File
    BY <1>0 DEF Writer, Edit
  <2>2. version' \subseteq File
    BY <2>1 DEF FileType
  <2>3. obsolete' \subseteq File
    BY UnrefType DEF FileType, JobType
  <2> QED
    BY <2>2, <2>3 DEF FileType, bootVars
<1>5. JobType'
  BY <1>0 DEF JobType
<1>6. Shape'
  BY <1>0 DEF Shape, bootVars
<1> QED
  BY <1>0, <1>1, <1>2, <1>3, <1>4, <1>5, <1>6 DEF TInv, TypeOK

\* ManifestWriteFails keeps the types.
LEMMA ManifestWriteFailsType ==
  ASSUME TInv, ManifestWriteFails
  PROVE  TInv'
<1> USE DEF TInv, TypeOK
<1>f. /\ group.done < group.size /\ WakeWriters(FALSE)
      /\ manifest' \in {manifest, ApplyVersionEdit(manifest,
                           writers[group.done + 1].edit, group.next)}
      /\ newManifest' = EmptyManifest /\ KeyList' = KeyList /\ table' = table
  BY DEF ManifestWriteFails
<1>0. /\ LogType' /\ pc' \in [Holders -> JobState]
      /\ group'.done <= group'.size /\ group'.size <= Len(writers')
      /\ \A j \in Jobs : pc'[j] \in Building => pc[j] \in Building
  BY <1>f, WakeType
<1>1. (FileType /\ BootType)'
  BY DEF ManifestWriteFails, FileType, BootType, fileVars, bootVars
<1>2. KeyType'
  <2>1. writers[group.done + 1] \in Writer
    BY <1>f, SeqElement DEF LogType, Shape
  <2>2. group.next \in 1 .. MaxFile + 1
    BY DEF LogType
  <2>3. writers[group.done + 1].edit \in Edit
    BY <2>1 DEF Writer
  <2> QED
    BY <1>f, <2>2, <2>3, ApplyType, EmptyType DEF KeyType
<1>3. FlagType'
  BY DEF ManifestWriteFails, FlagType
<1>4. MemType'
  BY RolledBack DEF ManifestWriteFails
<1>5. JobType'
  BY <1>0 DEF ManifestWriteFails, JobType
<1>6. Shape'
  BY <1>0 DEF ManifestWriteFails, Shape, bootVars
<1> QED
  BY <1>0, <1>1, <1>2, <1>3, <1>4, <1>5, <1>6 DEF TInv, TypeOK

\* Crash keeps the types.
LEMMA CrashType ==
  ASSUME TInv, Crash
  PROVE  TInv'
<1> USE DEF TInv, TypeOK, Crash
<1>1. KeyType'
  BY EmptyType DEF KeyType, Key, disk
<1>2. FlagType'
  BY DEF FlagType
<1>3. MemType'
  BY DEF MemType
<1>4. FileType'
  BY DEF FileType
<1>5. JobType'
  BY DEF JobType, JobState, None
<1>6. LogType'
  BY DEF LogType, NoGroup
<1>7. BootType'
  BY DEF BootType, Phase
<1>8. Shape'
  BY DEF Shape, NoGroup, Building, Holders
<1> QED
  BY <1>1, <1>2, <1>3, <1>4, <1>5, <1>6, <1>7, <1>8 DEF TInv, TypeOK

\* Recover keeps the types.
LEMMA RecoverType ==
  ASSUME TInv, Recover
  PROVE  TInv'
<1> USE DEF TInv, TypeOK, Recover
<1>1. (FlagType /\ MemType /\ JobType /\ LogType)'
  BY DEF FlagType, MemType, JobType, LogType, jobVars, logVars, memVars
<1>2. KeyType'
  BY DEF KeyType, Manifest, disk, logVars
<1>3. FileType'
  BY DEF FileType, KeyType, Manifest
<1>4. BootType'
  BY DEF BootType, Phase, Boot, Shape
<1>5. Shape'
  BY DEF Shape, jobVars, logVars
<1> QED
  BY <1>1, <1>2, <1>3, <1>4, <1>5 DEF TInv, TypeOK

\* DeleteUnreferencedSstFiles keeps the types.
LEMMA DeleteUnreferencedSstFilesType ==
  ASSUME TInv, DeleteUnreferencedSstFiles
  PROVE  TInv'
<1> USE DEF TInv, TypeOK, DeleteUnreferencedSstFiles
<1>0. nextFile' \in 1 .. MaxFile + 1
  BY DEF FileType, File
<1>1. (FlagType /\ MemType /\ JobType /\ LogType)'
  BY DEF FlagType, MemType, JobType, LogType, jobVars, logVars, memVars
<1>2. KeyType'
  BY <1>0 DEF KeyType, WriteCurrentStateToManifest, FileType, Manifest, Key,
     logVars
<1>3. FileType'
  BY <1>0 DEF FileType
<1>4. BootType'
  BY DEF BootType, Phase
<1>5. Shape'
  BY DEF Shape, jobVars, logVars
<1> QED
  BY <1>1, <1>2, <1>3, <1>4, <1>5 DEF TInv, TypeOK

\* DeleteUnreferencedFile keeps the types.
LEMMA DeleteUnreferencedFileType ==
  ASSUME TInv, DeleteUnreferencedFile
  PROVE  TInv'
<1> USE DEF TInv, TypeOK, DeleteUnreferencedFile
<1>1. (FlagType /\ MemType /\ JobType /\ LogType /\ BootType /\ Shape)'
  BY DEF FlagType, MemType, JobType, LogType, BootType, Shape, jobVars,
     logVars, memVars
<1>2. KeyType'
  BY DEF KeyType, Key, NoKey, logVars
<1>3. FileType'
  BY DEF FileType, fileVars
<1> QED
  BY <1>1, <1>2, <1>3 DEF TInv, TypeOK

\* WriteLevel0TableForRecovery keeps the types.
LEMMA WriteLevel0TableForRecoveryType ==
  ASSUME TInv, WriteLevel0TableForRecovery
  PROVE  TInv'
<1> USE DEF TInv, TypeOK, WriteLevel0TableForRecovery
<1>0. nextFile \in File
  BY DEF File, FileType, Jobs, Holders
<1>1. (FlagType /\ MemType /\ JobType /\ LogType /\ BootType /\ Shape)'
  BY DEF FlagType, MemType, JobType, LogType, BootType, Shape, jobVars,
     logVars, memVars
<1>2. KeyType'
  BY AddKeyType, <1>0 DEF KeyType, BootType, Key, logVars
<1>3. FileType'
  BY <1>0 DEF FileType
<1> QED
  BY <1>1, <1>2, <1>3 DEF TInv, TypeOK

\* RecoverLogFiles keeps the types.
LEMMA RecoverLogFilesType ==
  ASSUME TInv, RecoverLogFiles
  PROVE  TInv'
<1> USE DEF TInv, TypeOK, RecoverLogFiles
<1>1. (FlagType /\ MemType /\ JobType /\ LogType)'
  BY DEF FlagType, MemType, JobType, LogType, jobVars, logVars, memVars
<1>2. KeyType'
  BY DEF KeyType, WriteCurrentStateToManifest, FileType, Manifest, Key, logVars
<1>3. FileType'
  BY DEF FileType
<1>4. BootType'
  BY DEF BootType, Phase
<1>5. Shape'
  BY DEF Shape, jobVars, logVars
<1> QED
  BY <1>1, <1>2, <1>3, <1>4, <1>5 DEF TInv, TypeOK

\* LogRecoveredKey keeps the types.
LEMMA LogRecoveredKeyType ==
  ASSUME TInv, LogRecoveredKey
  PROVE  TInv'
<1> USE DEF TInv, TypeOK, LogRecoveredKey
<1>1. (FlagType /\ MemType /\ JobType /\ LogType /\ BootType /\ Shape)'
  BY DEF FlagType, MemType, JobType, LogType, BootType, Shape, jobVars,
     logVars, memVars
<1>2. KeyType'
  <2>1. PICK n \in rekey :
          manifest' = ApplyVersionEdit(manifest, AddSSTKey(n, KeyList[n]),
                                       nextFile)
    OBVIOUS
  <2>2. AddSSTKey(n, KeyList[n]) \in Edit
    BY <2>1, EditType DEF KeyType, FileType
  <2> QED
    BY <2>1, <2>2, ApplyType DEF KeyType, FileType, logVars
<1>3. FileType'
  BY DEF FileType, fileVars
<1> QED
  BY <1>1, <1>2, <1>3 DEF TInv, TypeOK

\* OpenDone keeps the types.
LEMMA OpenDoneType ==
  ASSUME TInv, OpenDone
  PROVE  TInv'
<1> USE DEF TInv, TypeOK, OpenDone
<1>1. (FlagType /\ MemType /\ FileType /\ JobType /\ LogType)'
  BY DEF FlagType, MemType, FileType, JobType, LogType, jobVars, logVars,
     memVars, fileVars
<1>2. KeyType'
  BY DEF KeyType, Key, logVars
<1>3. BootType'
  BY DEF BootType, Phase
<1>4. Shape'
  BY DEF Shape, jobVars, logVars
<1> QED
  BY <1>1, <1>2, <1>3, <1>4 DEF TInv, TypeOK

\* Stopped keeps the types.
LEMMA StoppedType ==
  ASSUME TInv, Stopped
  PROVE  TInv'
<1> USE DEF TInv, TypeOK, Stopped
<1>1. (KeyType /\ FlagType /\ MemType /\ FileType /\ JobType /\ LogType /\
   BootType /\ Shape)'
  BY DEF KeyType, FlagType, MemType, FileType, JobType, LogType, BootType,
     Shape, disk, jobVars, logVars, memVars, fileVars, bootVars, vars
<1> QED
  BY <1>1 DEF TInv, TypeOK

-----------------------------------------------------------------------------
(* Every step *)

\* Every step keeps the types.
LEMMA NextType ==
  ASSUME TInv, [Next]_vars
  PROVE  TInv'
<1>1. CASE \E j \in FlushJobs : FlushStep(j)
  BY <1>1, FlushStartType, GenerateKeyType, BuildFlushTableType,
     FlushFailsType, TryInstallMemtableFlushResultsType, CommitMemtablesType,
     CommitDoneType, CommitFailsType, LogFlushKeyType
     DEF FlushStep
<1>2. CASE \E c \in CompactionJobs : CompactionStep(c)
  BY <1>2, CompactionStartType, OpenCompactionOutputFileType,
     FinishCompactionOutputFileType, CompactionFailsType,
     InstallCompactionResultsType, LogCompactionKeyType, ApplyCompactionType
     DEF CompactionStep
<1>3. CASE \E j \in Jobs : PurgeStep(j)
  BY <1>3, SetBGErrorType, ReleaseAndFindType, LogKeyDeletionType, EraseKeysType
     DEF PurgeStep
<1>4. CASE \E i \in Iterators : IteratorStep(i)
  BY <1>4, NewIteratorType, ReadBlockType, DeleteIteratorType
     DEF IteratorStep
<1>5. CASE ManifestStep
  BY <1>5, BeginManifestWriteType, AppendRecordType, SetCurrentFileType,
     FinishManifestWriteType, ManifestWriteFailsType
     DEF ManifestStep
<1>6. CASE RecoveryStep
  BY <1>6, RecoverType, DeleteUnreferencedSstFilesType,
     DeleteUnreferencedFileType, WriteLevel0TableForRecoveryType,
     RecoverLogFilesType, LogRecoveredKeyType, OpenDoneType
     DEF RecoveryStep
<1>7. CASE \E h \in Holders : DeleteObsoleteFile(h) \/ PurgeDone(h)
  BY <1>7, DeleteObsoleteFileType, PurgeDoneType
<1>8. CASE SwitchMemtable
  BY <1>8, SwitchMemtableType
<1>9. CASE Crash
  BY <1>9, CrashType
<1>10. CASE Stopped
  BY <1>10, StoppedType
<1>11. CASE UNCHANGED vars
  BY <1>11 DEF TInv, TypeOK, Shape, KeyType, FlagType, MemType, FileType,
     JobType, LogType, BootType, vars, disk, jobVars, logVars, memVars,
     fileVars, bootVars
<1> QED
  BY <1>1, <1>2, <1>3, <1>4, <1>5, <1>6, <1>7, <1>8, <1>9, <1>10, <1>11
     DEF Next

\* In every behaviour the state has its types and the shape above.
THEOREM Shaped == Spec => []TInv
<1>1. Init => TInv
  BY InitType
<1>2. TInv /\ [Next]_vars => TInv'
  BY NextType
<1> QED
  BY <1>1, <1>2, PTL DEF Spec

\* Every variable keeps its type, whatever the numbers of flush threads,
\* compaction threads, iterators, files and restarts are: a job never writes an
\* edit without a file, no replayed MANIFEST holds anything but numbers and
\* keys, and the group of the MANIFEST queue stays inside the queue.
THEOREM Typing == Spec => []TypeOK
<1>1. TInv => TypeOK
  BY DEF TInv
<1> QED
  BY <1>1, Shaped, PTL
=============================================================================
