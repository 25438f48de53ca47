------------------------- MODULE SstKeysSafetyProofs -------------------------
(***************************************************************************)
(* A purge takes neither the table nor the key of a file that somebody     *)
(* still needs, and what a running process needs it finds: the files of    *)
(* every version in memory can be read, and no exit(-1) is reached.        *)
(*                                                                         *)
(* A file passes from hand to hand: from the job that builds it to the     *)
(* memtable it was flushed from or to the outputs of a compaction, from    *)
(* there to an edit of the MANIFEST queue and so to a version.  The        *)
(* invariant says of each hand that its files are held (their key and      *)
(* their table match, and no purge has them), and of each hand but the     *)
(* last, which is in Live, which pending_outputs_ entry shields them from  *)
(* the purges to come.  The hard case is a flushed memtable whose job has  *)
(* gone: it is shielded by the job of an older one that is not flushed     *)
(* yet or, when there is none, by the thread in the commit loop.           *)
(*                                                                         *)
(* Two more layers follow.  LInv is about the MANIFEST: the tables it      *)
(* lists, or will list by the edits in its queue, are those of the version *)
(* in memory, and they exist.  DInv is about the key records: the key of   *)
(* every table the MANIFEST lists is there as well, unless the flush that  *)
(* built it has still to record it, or recovery has to record it again.    *)
(***************************************************************************)
EXTENDS SstKeysNumberProofs

\* With more than one flush thread a failed MANIFEST write can cost a table
\* that is needed, so the theorems are about the other cases: MANIFEST writes
\* do not fail, or there is one flush thread (max_background_flushes is 1).
OneFlushThread == AllowManifestError => \A j, k \in FlushJobs : j = k

-----------------------------------------------------------------------------
(* Files and jobs *)

\* A purge has the file in hand.
Doomed(n) == \E h \in Holders : n \in del[h]

\* A file that can be read and that no purge has in hand.
Held(n) == n \in File /\ Opens(KeyList, n) /\ ~Doomed(n)

\* The pending_outputs_ entry of a job keeps the file from every purge.
Shields(j, n) == pend[j] # None /\ pend[j] <= n

\* A purge, from the choice of its files to the end of its key records.
Purging == {"purge", "drop", "dropping"}

\* A job that has given its outputs away.
Resting == Purging \cup {"idle"}

\* A job that sleeps in the MANIFEST queue.
Waiting == {"committing", "keying", "keyingio", "keyingerr", "syncing",
            "applying", "dropping"}

\* A flush before its memtables are marked as completed.
Unfinished == {"gen", "build", "install"}

\* The thread in the commit loop.
Committer == {"commit", "committing", "restored"}

\* A job whose output has a key.
WithKey == {"build", "install", "key", "keyio", "keyerr"} \cup Committer

\* A job that has an output.
WithOutput == WithKey \cup {"gen"}

-----------------------------------------------------------------------------
(* The parts of the invariant *)

\* A purge deletes its files one after the other and then drops their keys.
PurgeOf(h) ==
  /\ pc[h] \notin Purging => del[h] = {}
  /\ pc[h] \in Purging => todo[h] \subseteq del[h]
  /\ pc[h] = "purge" => \A n \in del[h] \ todo[h] : table[n] = NoKey
  /\ pc[h] \in {"drop", "dropping"} => \A n \in del[h] : table[n] = NoKey
  /\ \A n \in del[h] : n < nextFile

PurgeShape ==
  /\ \A h \in Holders : PurgeOf(h)
  /\ \A n \in obsolete : n < nextFile

\* What versions list.
FilesHeld ==
  /\ \A n \in Live : Held(n)
  /\ \A c \in CompactionJobs : ins[c] \subseteq pins[c]

\* What a job builds.
OutputHeld(j) ==
  /\ \A n \in outs[j] : Held(n) /\ Shields(j, n)
  /\ pc[j] \in Resting => outs[j] = {}
  /\ pc[j] \in {"sync", "syncing"} => todo[j] \subseteq outs[j]
  /\ pc[j] \in WithKey => KeyList[out[j]] # NoKey
  /\ pc[j] \in WithOutput => ~Doomed(out[j]) /\ Shields(j, out[j])
  /\ j \in FlushJobs /\ pc[j] \in WithOutput => pend[j] = out[j]
  /\ j \in CompactionJobs /\ pc[j] \in {"run", "build"}
       => pend[j] # None /\ pend[j] <= nextFile

OutputsHeld == \A j \in Jobs : OutputHeld(j)

\* What is queued for the MANIFEST.
Queue == {writers[i] : i \in 1 .. Len(writers)}

\* What is committed is flushed; the one flush thread commits everything.
WriterMems(w) ==
  /\ \A m \in imm : m.id \in w.mems => m.done
  /\ AllowManifestError /\ pc[w.job] = "committing"
       => \A m \in imm : m.id \in w.mems

WriterHeld(w) ==
  /\ pc[w.job] \in Waiting
  /\ \A n \in w.edit.add : Held(n) /\ Shields(w.job, n)
  /\ w.mems # {} => w.job \in FlushJobs /\ pc[w.job] = "committing"
  /\ \A n \in w.mems : n < nextFile
  /\ WriterMems(w)

QueueHeld ==
  /\ \A w \in Queue : WriterHeld(w)
  /\ \A i, k \in 1 .. Len(writers) : writers[i].job = writers[k].job => i = k

\* A flush still works for the memtable.
Active(m) == \E j \in FlushJobs : out[j] = m.file /\ pc[j] \in Unfinished

\* The files of memtables follow their age.  Memtables whose flush or commit
\* failed are without a file, all together as long as a flush may start.
MemsOrdered ==
  /\ \A m \in imm : m.id < nextFile /\ (m.done => m.file # None /\ ~Active(m))
  /\ \A j, k \in FlushJobs :
       pc[j] \in Unfinished /\ pc[k] \in Unfinished /\ out[j] = out[k] => j = k
  /\ ~bgError => \A m, l \in imm : m.file = None => l.file = None
  /\ \A m, l \in imm :
       m.id <= l.id /\ m.file # None /\ l.file # None => m.file <= l.file

\* One thread is in the commit loop, and its file is the oldest.  When there
\* is none the oldest memtable is not flushed yet.
OneCommitter ==
  /\ \A j \in Jobs : pc[j] \in Committer => j \in FlushJobs /\ committing
  /\ \A j, k \in Jobs : pc[j] \in Committer /\ pc[k] \in Committer => j = k
  /\ committing => \E k \in Jobs : pc[k] \in Committer
  /\ \A k \in Jobs : pc[k] \in Committer =>
       \A m \in imm : m.file # None => out[k] <= m.file
  /\ ~committing =>
       \A m \in imm : \E older \in imm : older.id <= m.id /\ ~older.done

\* No older memtable is stuck behind a flush that failed.
Reachable(m) ==
  \A older \in imm : older.id <= m.id => older.done \/ Active(older)

\* What memtables were flushed to, unless they can never be committed.
MemsHeld == \A m \in imm : m.has /\ Reachable(m) => Held(m.file)

AllNone == \A m \in imm : m.file = None

\* The one flush thread works for all memtables.
AloneOf(f) ==
  /\ pc[f] \in Unfinished => \A m \in imm : m.file = out[f]
  /\ pc[f] \in {"commit", "committing"} => \A m \in imm : m.done
  /\ pc[f] \notin Unfinished \cup {"commit", "committing"} =>
       AllNone \/ (bgError /\ pc[f] \in Purging \cup {"failed", "idle"})

Alone ==
  /\ ~AllowManifestError => \A f \in FlushJobs : pc[f] # "restored"
  /\ AllowManifestError => \A f \in FlushJobs : AloneOf(f)

\* The running process.
Serving ==
  /\ PurgeShape /\ FilesHeld /\ OutputsHeld /\ QueueHeld /\ MemsOrdered
  /\ OneCommitter /\ MemsHeld /\ Alone

\* Nothing but tables that are there has a number below the counter.
TablesSpent ==
  /\ phase \in {"open", "rekey"} =>
       \A n \in File : table[n] # NoKey => n < nextFile
  /\ phase = "replayed" =>
       \A n \in File : table[n] # NoKey => n < nextFile \/ n \in unref

\* Recovery has opened what the MANIFEST lists, and builds on it.
Recovering ==
  /\ phase \in {"down", "recovered", "replayed", "rekey"} =>
       /\ del = [h \in Holders |-> {}] /\ pins = [h \in Holders |-> {}]
       /\ ins = [j \in Jobs |-> {}] /\ obsolete = {} /\ ~committing
  /\ phase \in {"recovered", "replayed", "rekey"} =>
       \A n \in version \cup sv \cup recovered :
         Opens(KeyList, n) /\ n \notin unref
  /\ phase \in {"down", "recovered"} => unref = {} /\ recovered = {}
  /\ phase = "rekey" => sv = version /\ unref = {}

\* The inductive invariant, on top of TInv and NInv.
SInv ==
  /\ phase # "aborted" /\ TablesSpent /\ Recovering
  /\ Running => Serving

USE SstKeysAssumption DEF errVars

-----------------------------------------------------------------------------
(* What a step leaves alone *)

\* The step does not take the file.
Spared(n) ==
  ~Doomed(n) =>
    /\ ~Doomed(n)'
    /\ KeyList[n] # NoKey => KeyList'[n] = KeyList[n]
    /\ Opens(KeyList, n) => Opens(KeyList, n)'

\* The step takes nothing that a version lists or that a job shields.
Sparing ==
  \A n \in File : n \in Live' \/ (\E j \in Jobs : Shields(j, n)') => Spared(n)

\* A file that is spared stays held.
LEMMA SparedHeld ==
  ASSUME NEW n, Held(n), Spared(n)
  PROVE  Held(n)'
BY DEF Held, Spared

\* A step that gives no purge a new file, erases no key but those of purged
\* files and writes a table under its key spares everything.
LEMMA CalmStep ==
  ASSUME \A h \in Holders : del'[h] \subseteq del[h],
         \A n \in File : ~Doomed(n) =>
           /\ KeyList[n] # NoKey => KeyList'[n] = KeyList[n]
           /\ table'[n] = table[n] \/ table'[n] = KeyList[n]
  PROVE  Sparing /\ \A n \in File : Spared(n)
BY DEF Sparing, Spared, Doomed, Opens

\* The files a running process lists have numbers below the counter.
LEMMA HeldSpent ==
  ASSUME NInv, Running, NEW n, Held(n)
  PROVE  n \in File /\ n < nextFile
BY DEF Held, Opens, NInv, RamSpent, Up, Running

\* The step does not touch the purge of a thread.
SamePurge(h) ==
  /\ del'[h] = del[h]
  /\ pc[h] \in Purging => todo'[h] = todo[h]
  /\ pc'[h] \in Purging <=> pc[h] \in Purging
  /\ pc'[h] = "purge" <=> pc[h] = "purge"

\* No number is taken back, and no table that was purged appears again.
TablesStay ==
  /\ nextFile <= nextFile'
  /\ \A n \in File : Doomed(n) /\ table[n] = NoKey => table'[n] = NoKey

\* A purge that the step does not touch.
LEMMA PurgeOfKept ==
  ASSUME TInv, TInv', NEW h \in Holders, PurgeOf(h), SamePurge(h), TablesStay
  PROVE  PurgeOf(h)'
<1>1. del[h] \subseteq File /\ \A n \in del[h] : Doomed(n)
  BY DEF TInv, TypeOK, JobType, Doomed
<1>2. \A n \in del'[h] : n < nextFile'
  <2> TAKE n \in del'[h]
  <2>1. n \in del[h] /\ n \in Nat /\ n < nextFile
    BY <1>1 DEF SamePurge, PurgeOf, File
  <2>2. nextFile \in Nat /\ nextFile' \in Nat
    BY DEF TInv, TypeOK, FileType
  <2> QED
    BY <2>1, <2>2 DEF TablesStay
<1>3. \A n \in del[h] : table[n] = NoKey => table'[n] = NoKey
  BY <1>1 DEF TablesStay
<1> QED
  BY <1>2, <1>3 DEF PurgeOf, SamePurge, Purging

\* A step that touches no purge.
LEMMA PurgeKept ==
  ASSUME TInv, TInv', NInv, Running, PurgeShape, FilesHeld, TablesStay,
         \A h \in Holders : SamePurge(h), obsolete' \subseteq obsolete \cup Live
  PROVE  PurgeShape'
<1>1. \A h \in Holders : PurgeOf(h)'
  BY PurgeOfKept DEF PurgeShape
<1>2. ASSUME NEW n \in obsolete' PROVE n < nextFile'
  <2>1. n \in Nat /\ n < nextFile
    BY HeldSpent DEF PurgeShape, FilesHeld, File, TInv, TypeOK, FileType
  <2>2. nextFile \in Nat /\ nextFile' \in Nat
    BY DEF TInv, TypeOK, FileType
  <2> QED
    BY <2>1, <2>2 DEF TablesStay
<1> QED
  BY <1>1, <1>2 DEF PurgeShape

\* Versions come to list files that are held.
LEMMA FilesKept ==
  ASSUME Sparing, \A n \in Live' : Held(n),
         \A c \in CompactionJobs : ins'[c] \subseteq pins'[c]
  PROVE  FilesHeld'
<1>1. \A n \in Live' : Held(n)'
  BY SparedHeld DEF Sparing, Held
<1> QED
  BY <1>1 DEF FilesHeld

\* The step does not touch the output of a job.
SameJob(j) ==
  /\ outs'[j] = outs[j] /\ out'[j] = out[j] /\ pend'[j] = pend[j]
  /\ pc'[j] \in {"sync", "syncing"} =>
       pc[j] \in {"sync", "syncing"} /\ todo'[j] = todo[j]
  /\ pc'[j] \in WithKey => pc[j] \in WithKey
  /\ pc'[j] \in WithOutput => pc[j] \in WithOutput
  /\ pc'[j] \in {"run", "build"} => pc[j] \in {"run", "build"}
  /\ pc'[j] \in Resting => pc[j] \in Resting

\* A job that the step does not touch.
LEMMA OutputKept ==
  ASSUME TInv, TInv', NEW j \in Jobs, OutputHeld(j), SameJob(j), Sparing,
         nextFile <= nextFile'
  PROVE  OutputHeld(j)'
<1>1. \A n : Shields(j, n)' <=> Shields(j, n)
  BY DEF SameJob, Shields
<1>2. \A n \in File : Shields(j, n) => Spared(n)
  BY <1>1 DEF Sparing
<1>3. \A n \in outs'[j] : Held(n)' /\ Shields(j, n)'
  BY <1>1, <1>2, SparedHeld DEF OutputHeld, SameJob, Held
<1>4. pc'[j] \in WithOutput =>
        /\ ~Doomed(out[j]) /\ Shields(j, out[j]) /\ out[j] \in File
        /\ Spared(out[j])
  <2>1. pc'[j] \in WithOutput => out[j] \in File
    BY DEF SameJob, TInv, Shape, Building, WithOutput, WithKey, Committer
  <2> QED
    BY <1>2, <2>1 DEF OutputHeld, SameJob
<1>5. pc'[j] \in WithOutput => ~Doomed(out[j])' /\ Shields(j, out[j])'
  BY <1>1, <1>4 DEF Spared, SameJob
<1>6. pc'[j] \in WithKey => KeyList'[out'[j]] # NoKey
  BY <1>4 DEF Spared, SameJob, OutputHeld, WithOutput
<1>7. j \in CompactionJobs /\ pc'[j] \in {"run", "build"}
        => pend'[j] # None /\ pend'[j] <= nextFile'
  <2>1. nextFile \in Nat /\ nextFile' \in Nat /\ pend[j] \in Nat
    BY DEF TInv, TypeOK, FileType, JobType
  <2> QED
    BY <2>1 DEF OutputHeld, SameJob
<1> QED
  BY <1>3, <1>5, <1>6, <1>7 DEF OutputHeld, SameJob

\* The memtables of the step were there before, and are flushed if they were.
SameMems ==
  \A m \in imm' : \E l \in imm : l.id = m.id /\ (l.done => m.done)

\* A writer that stays in the queue.
LEMMA WriterKept ==
  ASSUME TInv, TInv', NEW w \in Writer, WriterHeld(w), Sparing,
         pc'[w.job] = pc[w.job], pend'[w.job] = pend[w.job],
         nextFile <= nextFile', WriterMems(w)'
  PROVE  WriterHeld(w)'
<1>0. w.job \in Jobs /\ w.edit \in Edit /\ w.mems \in SUBSET File
  BY DEF Writer
<1>1. \A n \in w.edit.add : Held(n)' /\ Shields(w.job, n)'
  <2> TAKE n \in w.edit.add
  <2>1. Held(n) /\ Shields(w.job, n) /\ n \in File
    BY DEF WriterHeld, Held
  <2>2. Shields(w.job, n)'
    BY <2>1 DEF Shields
  <2>3. Spared(n)
    BY <1>0, <2>1, <2>2 DEF Sparing
  <2> QED
    BY <2>1, <2>2, <2>3, SparedHeld
<1>2. \A n \in w.mems : n < nextFile'
  <2> TAKE n \in w.mems
  <2>1. n \in Nat /\ n < nextFile
    BY <1>0 DEF WriterHeld, File
  <2>2. nextFile \in Nat /\ nextFile' \in Nat
    BY DEF TInv, TypeOK, FileType
  <2> QED
    BY <2>1, <2>2
<1> QED
  BY <1>1, <1>2 DEF WriterHeld

\* A writer whose memtables stay as they are.
LEMMA MemsStay ==
  ASSUME NEW w, WriterMems(w), SameMems, pc'[w.job] = pc[w.job]
  PROVE  WriterMems(w)'
BY DEF WriterMems, SameMems

\* The writers of the queue have their types.
LEMMA QueueType ==
  ASSUME TInv
  PROVE  /\ \A w \in Queue : w \in Writer
         /\ \A i \in 1 .. Len(writers) : writers[i] \in Queue
         /\ writers \in Seq(Writer) /\ Len(writers) \in Nat
         /\ group.size \in Nat /\ group.size <= Len(writers)
         /\ group.done \in Nat /\ group.done <= group.size
BY SeqElement DEF Queue, TInv, TypeOK, LogType, Shape

\* The step wakes nobody and gives nobody's number back.
SameQueue ==
  /\ writers' = writers
  /\ \A j \in Jobs : pc[j] \in Waiting => pc'[j] = pc[j] /\ pend'[j] = pend[j]

\* A step that leaves the queue alone.
LEMMA QueueStays ==
  ASSUME TInv, TInv', QueueHeld, Sparing, SameQueue,
         \A w \in Queue : WriterMems(w)', nextFile <= nextFile'
  PROVE  QueueHeld'
<1>1. Queue' = Queue
  BY DEF Queue, SameQueue
<1>2. ASSUME NEW w \in Queue PROVE WriterHeld(w)'
  <2>1. w \in Writer /\ WriterHeld(w)
    BY QueueType DEF QueueHeld
  <2>2. pc'[w.job] = pc[w.job] /\ pend'[w.job] = pend[w.job]
    BY <2>1 DEF SameQueue, WriterHeld, Writer
  <2> QED
    BY <2>1, <2>2, WriterKept
<1> QED
  BY <1>1, <1>2 DEF QueueHeld, SameQueue

\* So does one that also leaves the memtables alone.
LEMMA QueueKept ==
  ASSUME TInv, TInv', QueueHeld, Sparing, SameQueue, SameMems,
         nextFile <= nextFile'
  PROVE  QueueHeld'
<1>1. ASSUME NEW w \in Queue PROVE WriterMems(w)'
  <2>1. w \in Writer /\ WriterHeld(w)
    BY QueueType DEF QueueHeld
  <2>2. pc'[w.job] = pc[w.job]
    BY <2>1 DEF SameQueue, WriterHeld, Writer
  <2> QED
    BY <2>1, <2>2, MemsStay DEF WriterHeld
<1> QED
  BY <1>1, QueueStays

\* A job that is awake queues an edit whose files are held.
LEMMA QueueAppended ==
  ASSUME TInv, TInv', QueueHeld, Sparing, imm' = imm, nextFile' = nextFile,
         NEW j \in Jobs, NEW e \in Edit, NEW mems \in SUBSET File,
         LogAndApply(j, e, mems), pc[j] \notin Waiting, pc'[j] \in Waiting,
         pend' = pend, \A k \in Jobs \ {j} : pc'[k] = pc[k],
         \A n \in e.add : Held(n) /\ Shields(j, n),
         mems # {} => j \in FlushJobs /\ pc'[j] = "committing",
         \A n \in mems : n < nextFile,
         \A m \in imm : m.id \in mems => m.done,
         AllowManifestError /\ pc'[j] = "committing" => \A m \in imm : m.id \in mems
  PROVE  QueueHeld'
<1> DEFINE v == [job |-> j, edit |-> e, mems |-> mems]
<1>1. v \in Writer /\ v.job = j /\ v.edit = e /\ v.mems = mems
  BY DEF Writer
<1>2. /\ Len(writers') = Len(writers) + 1
      /\ \A i \in 1 .. Len(writers) : writers'[i] = writers[i]
      /\ writers'[Len(writers) + 1] = v
  BY QueueType DEF LogAndApply
<1>3. \A i \in 1 .. Len(writers) : writers[i].job \in Jobs /\ writers[i].job # j
  BY QueueType DEF QueueHeld, WriterHeld, Writer
<1>4. \A n \in e.add : Held(n)' /\ Shields(j, n)'
  <2> TAKE n \in e.add
  <2>1. Held(n) /\ Shields(j, n)' /\ n \in File
    BY DEF Held, Shields
  <2>2. Spared(n)
    BY <2>1 DEF Sparing
  <2> QED
    BY <2>1, <2>2, SparedHeld
<1>5. WriterHeld(v)'
  <2> HIDE DEF v
  <2>1. /\ pc'[v.job] \in Waiting
        /\ v.mems # {} => v.job \in FlushJobs /\ pc'[v.job] = "committing"
        /\ \A n \in v.mems : n < nextFile'
    BY <1>1
  <2>2. /\ \A m \in imm' : m.id \in v.mems => m.done
        /\ AllowManifestError /\ pc'[v.job] = "committing"
             => \A m \in imm' : m.id \in v.mems
    BY <1>1
  <2> QED
    BY <1>1, <1>4, <2>1, <2>2 DEF WriterHeld, WriterMems
<1>6. ASSUME NEW i \in 1 .. Len(writers) PROVE WriterHeld(writers[i])'
  <2>1. PICK w : w = writers[i] /\ w \in Writer /\ WriterHeld(w)
    BY QueueType DEF QueueHeld
  <2>2. pc'[w.job] = pc[w.job] /\ pend'[w.job] = pend[w.job]
    BY <1>3, <2>1
  <2>3. SameMems /\ nextFile <= nextFile'
    BY DEF SameMems, TInv, TypeOK, FileType
  <2>4. WriterHeld(w)'
    BY <2>1, <2>2, <2>3, WriterKept, MemsStay DEF WriterHeld
  <2>5. writers'[i] = w
    BY <1>2, <2>1
  <2> QED
    BY <2>4, <2>5
<1>7. ASSUME NEW i \in 1 .. Len(writers') PROVE WriterHeld(writers[i])'
  <2>1. i \in 1 .. Len(writers) \/ i = Len(writers) + 1
    BY <1>2, QueueType
  <2>2. CASE i \in 1 .. Len(writers)
    BY <1>6, <2>2
  <2>3. CASE i = Len(writers) + 1
    <3>1. PICK w : w = v
      OBVIOUS
    <3>2. WriterHeld(w)' /\ writers'[i] = w
      BY <1>2, <1>5, <2>3, <3>1
    <3> QED
      BY <3>2
  <2> QED
    BY <2>1, <2>2, <2>3
<1>8. \A w \in Queue' : WriterHeld(w)'
  BY <1>7 DEF Queue
<1>9. ASSUME NEW i \in 1 .. Len(writers'), NEW k \in 1 .. Len(writers'),
             writers'[i].job = writers'[k].job
      PROVE  i = k
  <2>1. /\ i \in 1 .. Len(writers) \/ i = Len(writers) + 1
        /\ k \in 1 .. Len(writers) \/ k = Len(writers) + 1
    BY <1>2, QueueType
  <2>2. CASE i \in 1 .. Len(writers) /\ k \in 1 .. Len(writers)
    BY <1>2, <1>9, <2>2 DEF QueueHeld
  <2>3. CASE i = Len(writers) + 1 /\ k \in 1 .. Len(writers)
    BY <1>1, <1>2, <1>3, <1>9, <2>3
  <2>4. CASE k = Len(writers) + 1 /\ i \in 1 .. Len(writers)
    BY <1>1, <1>2, <1>3, <1>9, <2>4
  <2> QED
    BY <2>1, <2>2, <2>3, <2>4
<1> QED
  BY <1>8, <1>9 DEF QueueHeld

\* The step does not touch the commit loop.
SameCommitter ==
  /\ imm' = imm /\ committing' = committing
  /\ \A j \in Jobs : /\ pc'[j] \in Committer <=> pc[j] \in Committer
                     /\ pc[j] \in Committer => out'[j] = out[j]

\* A step that does not touch the commit loop.
LEMMA CommitterKept ==
  ASSUME OneCommitter, SameCommitter
  PROVE  OneCommitter'
BY DEF OneCommitter, SameCommitter

\* A flush of the step is one of before.
SameFlushes ==
  \A j \in FlushJobs :
    pc'[j] \in Unfinished => pc[j] \in Unfinished /\ out'[j] = out[j]

\* A flush that was failed by the step leaves fewer memtables reachable.
LEMMA ReachKept ==
  ASSUME imm' = imm, SameFlushes, NEW m, Reachable(m)'
  PROVE  Reachable(m)
BY DEF Reachable, Active, SameFlushes

\* The step leaves the order of the memtables alone.
LEMMA OrderKept ==
  ASSUME TInv, TInv', MemsOrdered, imm' = imm, nextFile <= nextFile',
         SameFlushes, bgError => bgError'
  PROVE  MemsOrdered'
<1>1. ASSUME NEW m \in imm PROVE m.id < nextFile'
  <2>1. m.id \in Nat /\ m.id < nextFile
    BY DEF MemsOrdered, TInv, TypeOK, MemType, Mem, File
  <2>2. nextFile \in Nat /\ nextFile' \in Nat
    BY DEF TInv, TypeOK, FileType
  <2> QED
    BY <2>1, <2>2
<1>2. \A m \in imm : Active(m)' => Active(m)
  BY DEF Active, SameFlushes
<1> QED
  BY <1>1, <1>2 DEF MemsOrdered, SameFlushes

\* A flushed memtable that can be committed is shielded by the flush of an
\* older one, or by the thread in the commit loop.
LEMMA MemShielded ==
  ASSUME TInv, OutputsHeld, MemsOrdered, OneCommitter,
         NEW m \in imm, m.has, Reachable(m)
  PROVE  \E j \in FlushJobs : /\ pc[j] \in Unfinished \cup Committer
                              /\ Shields(j, m.file) /\ m.file \in File
<1>0. m.file \in File /\ m.file # None /\ \A l \in imm : l \in Mem
  BY DEF TInv, TypeOK, MemType, Mem
<1>1. CASE \E older \in imm : older.id <= m.id /\ ~older.done
  <2>1. PICK older \in imm : older.id <= m.id /\ ~older.done
    BY <1>1
  <2>2. PICK j \in FlushJobs : out[j] = older.file /\ pc[j] \in Unfinished
    BY <2>1 DEF Reachable, Active
  <2>3. j \in Jobs /\ pc[j] \in WithOutput /\ out[j] \in File
    BY <2>2 DEF Jobs, Unfinished, WithOutput, WithKey, TInv, Shape, Building
  <2>4. Shields(j, out[j]) /\ pend[j] = out[j]
    BY <2>3 DEF OutputsHeld, OutputHeld
  <2>5. older.file # None
    BY <2>2, <2>3 DEF File, None
  <2>6. older.file <= m.file
    BY <1>0, <2>1, <2>5 DEF MemsOrdered
  <2>7. Shields(j, m.file)
    BY <2>2, <2>4, <2>6 DEF Shields
  <2> QED
    BY <1>0, <2>2, <2>7
<1>2. CASE ~ \E older \in imm : older.id <= m.id /\ ~older.done
  <2>1. committing
    BY <1>2 DEF OneCommitter
  <2>2. PICK k \in Jobs : pc[k] \in Committer
    BY <2>1 DEF OneCommitter
  <2>3. k \in FlushJobs /\ out[k] <= m.file
    BY <1>0, <2>2 DEF OneCommitter
  <2>4. pc[k] \in WithOutput
    BY <2>2 DEF WithOutput, WithKey
  <2>5. Shields(k, out[k]) /\ pend[k] = out[k]
    BY <2>2, <2>3, <2>4 DEF OutputsHeld, OutputHeld
  <2>6. Shields(k, m.file)
    BY <2>3, <2>5 DEF Shields
  <2> QED
    BY <1>0, <2>2, <2>3, <2>6
<1> QED
  BY <1>1, <1>2

\* A step that finishes no flush takes no table of a memtable.
LEMMA MemsKept ==
  ASSUME TInv, OutputsHeld, MemsOrdered, OneCommitter, MemsHeld, imm' = imm,
         SameFlushes, Sparing,
         \A j \in FlushJobs : pc[j] \in Unfinished \cup Committer =>
           pend'[j] = pend[j]
  PROVE  MemsHeld'
<1> SUFFICES ASSUME NEW m \in imm, m.has, Reachable(m)'
             PROVE  Held(m.file)'
  BY DEF MemsHeld
<1>1. Reachable(m)
  BY ReachKept
<1>2. PICK j \in FlushJobs : /\ pc[j] \in Unfinished \cup Committer
                             /\ Shields(j, m.file) /\ m.file \in File
  BY <1>1, MemShielded
<1>3. Shields(j, m.file)' /\ j \in Jobs
  BY <1>2 DEF Shields, Jobs
<1>4. Spared(m.file)
  BY <1>2, <1>3 DEF Sparing
<1>5. Held(m.file)
  BY <1>1 DEF MemsHeld
<1>6. PICK n : n = m.file
  OBVIOUS
<1> QED
  BY <1>4, <1>5, <1>6, SparedHeld

\* The step does not touch what a flush thread has to do.
SameFlushWork(f) ==
  /\ pc'[f] \in Unfinished => pc[f] \in Unfinished /\ out'[f] = out[f]
  /\ pc'[f] \in {"commit", "committing"} => pc[f] \in {"commit", "committing"}
  /\ pc'[f] \notin Unfinished \cup {"commit", "committing"} =>
       /\ pc[f] \notin Unfinished \cup {"commit", "committing"}
       /\ pc[f] \in Purging \cup {"failed", "idle"} =>
            pc'[f] \in Purging \cup {"failed", "idle"}
  /\ pc'[f] = "restored" => pc[f] = "restored"

\* A step that leaves the memtables and the work of the flush threads alone.
LEMMA AloneKept ==
  ASSUME Alone, imm' = imm, bgError => bgError',
         \A f \in FlushJobs : SameFlushWork(f)
  PROVE  Alone'
BY DEF Alone, AloneOf, AllNone, SameFlushWork

\* The memtables are the same.
LEMMA SameImm == ASSUME imm' = imm PROVE SameMems
BY DEF SameMems

\* A step of the running process.
LEMMA ServingStep ==
  ASSUME Running, Running', Serving',
         \A n \in File : table'[n] # NoKey => n < nextFile'
  PROVE  SInv'
BY DEF SInv, Running, TablesSpent, Recovering

\* The flush threads and the memtables do not notice the step.
FlushesApart ==
  /\ SameCommitter /\ SameFlushes /\ (bgError => bgError')
  /\ \A f \in FlushJobs : SameFlushWork(f)
  /\ \A f \in FlushJobs : pc[f] \in Unfinished \cup Committer =>
       pend'[f] = pend[f]

\* A step of the running process that the flush threads do not notice.
LEMMA ApartStep ==
  ASSUME TInv, TInv', SInv, Running, Running', FlushesApart, Sparing,
         TablesStay, PurgeShape', FilesHeld', OutputsHeld', QueueHeld',
         \A n \in File : table'[n] # NoKey => n < nextFile'
  PROVE  SInv'
<1>1. /\ OutputsHeld /\ MemsOrdered /\ OneCommitter /\ MemsHeld /\ Alone
      /\ imm' = imm /\ nextFile <= nextFile'
  BY DEF SInv, Serving, FlushesApart, SameCommitter, TablesStay
<1>2. MemsOrdered'
  BY <1>1, OrderKept DEF FlushesApart
<1>3. OneCommitter'
  BY <1>1, CommitterKept DEF FlushesApart
<1>4. MemsHeld'
  BY <1>1, MemsKept DEF FlushesApart
<1>5. Alone'
  BY <1>1, AloneKept DEF FlushesApart
<1> QED
  BY <1>2, <1>3, <1>4, <1>5, ServingStep DEF Serving

\* The step changes the state of one holder only.
Moves(h, to) ==
  pc'[h] = to /\ \A k \in Holders \ {h} : pc'[k] = pc[k]

\* A move that is none of a flush is not noticed by the flush threads.
LEMMA MoveApart ==
  ASSUME TInv, NEW h \in Holders, NEW to, Moves(h, to),
         \/ h \notin FlushJobs
         \/ /\ pc[h] \notin Unfinished \cup Committer
            /\ to \notin Unfinished \cup Committer
            /\ pc[h] \in Purging \cup {"failed", "idle"} =>
                 to \in Purging \cup {"failed", "idle"},
         h \in Jobs => pc[h] \notin Committer /\ to \notin Committer,
         imm' = imm, committing' = committing, bgError => bgError',
         \A k \in Jobs \ {h} : out'[k] = out[k] /\ pend'[k] = pend[k]
  PROVE  FlushesApart
<1>1. \A k \in Jobs : k \in Holders
  BY DEF Holders
<1>2. \A f \in FlushJobs : f \in Jobs
  BY DEF Jobs
<1>3. SameCommitter
  BY <1>1 DEF SameCommitter, Moves
<1>4. ASSUME NEW f \in FlushJobs
      PROVE  /\ SameFlushWork(f)
             /\ pc'[f] \in Unfinished => pc[f] \in Unfinished /\ out'[f] = out[f]
             /\ pc[f] \in Unfinished \cup Committer => pend'[f] = pend[f]
  <2>1. CASE f # h
    BY <1>1, <1>2, <2>1 DEF SameFlushWork, Moves
  <2>2. CASE f = h
    BY <1>1, <1>2, <2>2 DEF SameFlushWork, Moves, Unfinished, Committer
  <2> QED
    BY <2>1, <2>2
<1> QED
  BY <1>3, <1>4 DEF FlushesApart, SameFlushes

\* Compactions are no flushes.
LEMMA CompactionApart ==
  ASSUME NEW c \in CompactionJobs
  PROVE  c \in Jobs /\ c \in Holders /\ c \notin FlushJobs
BY DEF Jobs, Holders

\* A compaction is not in the commit loop.
LEMMA CompactionAwake ==
  ASSUME SInv, Running, NEW c \in CompactionJobs
  PROVE  pc[c] \notin Committer
BY CompactionApart DEF SInv, Serving, OneCommitter

\* One holder moves: nothing happens to the purges and the outputs of the
\* others.
LEMMA MoveParts ==
  ASSUME TInv, TInv', NInv, SInv, Running, NEW h \in Holders, NEW to,
         Moves(h, to), Sparing, TablesStay,
         obsolete' \subseteq obsolete \cup Live,
         \A k \in Holders \ {h} : del'[k] = del[k] /\ todo'[k] = todo[k],
         \A k \in Jobs \ {h} :
           outs'[k] = outs[k] /\ out'[k] = out[k] /\ pend'[k] = pend[k],
         PurgeOf(h)', h \in Jobs => OutputHeld(h)'
  PROVE  PurgeShape' /\ OutputsHeld'
<1>0. PurgeShape /\ FilesHeld /\ OutputsHeld /\ \A j \in Jobs : j \in Holders
  BY DEF SInv, Serving, Holders
<1>1. ASSUME NEW k \in Holders, k # h PROVE PurgeOf(k)'
  <2>1. SamePurge(k)
    BY <1>1 DEF SamePurge, Moves
  <2> QED
    BY <1>0, <2>1, PurgeOfKept DEF PurgeShape
<1>2. ASSUME NEW n \in obsolete' PROVE n < nextFile'
  <2>1. n \in Nat /\ n < nextFile
    BY <1>0, HeldSpent DEF PurgeShape, FilesHeld, File, TInv, TypeOK, FileType
  <2>2. nextFile \in Nat /\ nextFile' \in Nat
    BY DEF TInv, TypeOK, FileType
  <2> QED
    BY <2>1, <2>2 DEF TablesStay
<1>3. ASSUME NEW j \in Jobs, j # h PROVE OutputHeld(j)'
  <2>1. SameJob(j)
    BY <1>0, <1>3 DEF SameJob, Moves
  <2> QED
    BY <1>0, <2>1, OutputKept DEF OutputsHeld, TablesStay
<1>4. PurgeShape'
  BY <1>1, <1>2 DEF PurgeShape
<1>5. OutputsHeld'
  BY <1>3 DEF OutputsHeld
<1> QED
  BY <1>4, <1>5

\* No version changes.
LEMMA FilesSame ==
  ASSUME SInv, Running, Sparing, UNCHANGED <<version, sv, pins, ins>>
  PROVE  FilesHeld'
<1>1. Live' = Live
  BY DEF Live
<1> QED
  BY <1>1, FilesKept DEF SInv, Serving, FilesHeld

\* One job moves that is awake before and after, and nothing is queued.
LEMMA QueueSame ==
  ASSUME TInv, TInv', SInv, Running, Sparing, imm' = imm, writers' = writers,
         NEW h \in Holders, NEW to, Moves(h, to), pc[h] \notin Waiting,
         \A k \in Jobs \ {h} : pend'[k] = pend[k], nextFile <= nextFile'
  PROVE  QueueHeld'
<1>1. SameQueue
  BY DEF SameQueue, Moves, Holders
<1> QED
  BY <1>1, QueueKept, SameImm DEF SInv, Serving

\* Tables are written under numbers that are given out.
LEMMA TablesKept ==
  ASSUME TInv, TInv', SInv, Running, nextFile <= nextFile',
         \A n \in File : table'[n] # NoKey => table[n] # NoKey \/ n < nextFile
  PROVE  \A n \in File : table'[n] # NoKey => n < nextFile'
<1> SUFFICES ASSUME NEW n \in File, table'[n] # NoKey PROVE n < nextFile'
  OBVIOUS
<1>1. n < nextFile /\ n \in Nat
  BY DEF SInv, TablesSpent, Running, File
<1>2. nextFile \in Nat /\ nextFile' \in Nat
  BY DEF TInv, TypeOK, FileType
<1> QED
  BY <1>1, <1>2


\* One holder moves, and the memtables stay as they are.
Lone(h, to) ==
  /\ Moves(h, to)
  /\ imm' = imm /\ committing' = committing /\ (bgError => bgError')
  /\ obsolete' \subseteq obsolete \cup Live
  /\ \A k \in Holders \ {h} : del'[k] = del[k] /\ todo'[k] = todo[k]
  /\ \A k \in Jobs \ {h} :
       outs'[k] = outs[k] /\ out'[k] = out[k] /\ pend'[k] = pend[k]

\* The move is none of a flush that still has to do with memtables.
Aside(h, to) ==
  /\ \/ h \notin FlushJobs
     \/ /\ pc[h] \notin Unfinished \cup Committer
        /\ to \notin Unfinished \cup Committer
        /\ pc[h] \in Purging \cup {"failed", "idle"} =>
             to \in Purging \cup {"failed", "idle"}
  /\ h \in Jobs => pc[h] \notin Committer /\ to \notin Committer

\* A table is written only under a number that is given out.
TablesFit ==
  \A n \in File : table'[n] # NoKey => table[n] # NoKey \/ n < nextFile

\* A step of one holder that leaves the work of the flushes as it is.
LEMMA LoneApart ==
  ASSUME TInv, TInv', NInv, SInv, Running, Running', NEW h \in Holders, NEW to,
         Lone(h, to), FlushesApart, Sparing, TablesStay, TablesFit,
         PurgeOf(h)', h \in Jobs => OutputHeld(h)', FilesHeld', QueueHeld'
  PROVE  SInv'
<1>1. PurgeShape' /\ OutputsHeld'
  BY MoveParts DEF Lone
<1>2. \A n \in File : table'[n] # NoKey => n < nextFile'
  BY TablesKept DEF TablesFit, TablesStay
<1> QED
  BY <1>1, <1>2, ApartStep

\* A step of one holder that has nothing to do with memtables.
LEMMA LoneStep ==
  ASSUME TInv, TInv', NInv, SInv, Running, Running', NEW h \in Holders, NEW to,
         Lone(h, to), Aside(h, to), Sparing, TablesStay, TablesFit,
         PurgeOf(h)', h \in Jobs => OutputHeld(h)', FilesHeld', QueueHeld'
  PROVE  SInv'
<1>1. FlushesApart
  BY MoveApart DEF Lone, Aside
<1> QED
  BY <1>1, LoneApart

\* The jobs and the clients of the process.
LEMMA JobKinds ==
  /\ \A j \in FlushJobs : j \in Jobs /\ j \in Holders /\ j \notin CompactionJobs
  /\ \A c \in CompactionJobs : c \in Jobs /\ c \in Holders /\ c \notin FlushJobs
  /\ \A j \in Jobs : j \in Holders /\ j \notin Iterators
  /\ \A i \in Iterators : i \in Holders /\ i \notin Jobs /\ i \notin FlushJobs
BY DEF Jobs, Holders

\* The parts of the invariant that a step of one holder starts from.
LEMMA Parts ==
  ASSUME SInv, Running
  PROVE  /\ Serving /\ PurgeShape /\ FilesHeld /\ OutputsHeld /\ QueueHeld
         /\ MemsOrdered /\ OneCommitter /\ MemsHeld /\ Alone
         /\ \A h \in Holders : PurgeOf(h)
         /\ \A j \in Jobs : OutputHeld(j)
         /\ \A n \in File : table[n] # NoKey => n < nextFile
BY DEF SInv, Serving, PurgeShape, OutputsHeld, TablesSpent, Running

\* A job that keeps its outputs and goes on in another state.
LEMMA OutputMoved ==
  ASSUME TInv, TInv', SInv, Running, NEW j \in Jobs, Sparing, TablesStay,
         UNCHANGED <<outs, out, pend>>,
         pc'[j] \in {"sync", "syncing"} => todo'[j] \subseteq outs[j],
         pc'[j] \in WithKey => pc[j] \in WithKey,
         pc'[j] \in WithOutput => pc[j] \in WithOutput,
         pc'[j] \in {"run", "build"} => pc[j] \in {"run", "build"},
         pc'[j] \in Resting => pc[j] \in Resting
  PROVE  OutputHeld(j)'
<1>0. OutputHeld(j) /\ nextFile <= nextFile'
  BY Parts DEF TablesStay
<1>1. \A n : Shields(j, n)' <=> Shields(j, n)
  BY DEF Shields
<1>2. \A n \in File : Shields(j, n) => Spared(n)
  BY <1>1 DEF Sparing
<1>3. \A n \in outs'[j] : Held(n)' /\ Shields(j, n)'
  BY <1>0, <1>1, <1>2, SparedHeld DEF OutputHeld, Held
<1>4. pc'[j] \in WithOutput =>
        /\ ~Doomed(out[j]) /\ Shields(j, out[j]) /\ out[j] \in File
        /\ Spared(out[j])
  <2>1. pc'[j] \in WithOutput => out[j] \in File
    BY DEF TInv, Shape, Building, WithOutput, WithKey, Committer
  <2> QED
    BY <1>0, <1>2, <2>1 DEF OutputHeld
<1>5. pc'[j] \in WithOutput => ~Doomed(out[j])' /\ Shields(j, out[j])'
  BY <1>1, <1>4 DEF Spared
<1>6. pc'[j] \in WithKey => KeyList'[out'[j]] # NoKey
  BY <1>0, <1>4 DEF Spared, OutputHeld, WithOutput
<1>7. j \in CompactionJobs /\ pc'[j] \in {"run", "build"}
        => pend'[j] # None /\ pend'[j] <= nextFile'
  <2>1. nextFile \in Nat /\ nextFile' \in Nat /\ pend[j] \in Nat
    BY DEF TInv, TypeOK, FileType, JobType
  <2> QED
    BY <1>0, <2>1 DEF OutputHeld
<1> QED
  BY <1>0, <1>3, <1>5, <1>6, <1>7 DEF OutputHeld

\* The purge of a job that moves on outside its purge.
LEMMA PurgeIdle ==
  ASSUME TInv, TInv', SInv, Running, NEW h \in Holders, pc[h] \notin Purging,
         pc'[h] \notin Purging, del' = del
  PROVE  PurgeOf(h)'
BY Parts DEF PurgeOf

-----------------------------------------------------------------------------
(* Compaction jobs *)

\* CompactionStart keeps the invariant: the inputs are files of the version it
\* holds, and its pending output is below every output to come.
LEMMA CompactionStartSafe ==
  ASSUME TInv, TInv', NInv, SInv, NEW c \in CompactionJobs, CompactionStart(c)
  PROVE  SInv'
<1>0. c \in Jobs /\ c \in Holders /\ c \notin FlushJobs /\ pc[c] \notin Committer
  BY CompactionApart, CompactionAwake DEF CompactionStart
<1>1. /\ Running /\ Running' /\ pc[c] = "idle" /\ Serving
      /\ UNCHANGED <<KeyList, table, version, sv, nextFile, obsolete, imm,
                     committing, writers, del, todo, outs, out, bgError>>
  BY DEF CompactionStart, SInv, Running, disk, fileVars, logVars, memVars,
         bootVars
<1>2. /\ Moves(c, "run") /\ pend'[c] = nextFile /\ pins'[c] = version
      /\ ins'[c] \subseteq version
      /\ \A k \in Jobs \ {c} : pend'[k] = pend[k] /\ ins'[k] = ins[k]
      /\ \A k \in Holders \ {c} : pins'[k] = pins[k]
  BY <1>0 DEF CompactionStart, Moves, TInv, TypeOK, JobType
<1>3. Sparing
  BY <1>1, CalmStep
<1>4. TablesStay
  BY <1>1 DEF TablesStay, TInv, TypeOK, FileType
<1>5. FlushesApart
  BY <1>0, <1>1, <1>2, MoveApart DEF Committer
<1>6. PurgeOf(c)'
  BY <1>0, <1>1, <1>2 DEF Serving, PurgeShape, PurgeOf, Moves, Purging
<1>7. OutputHeld(c)'
  <2>1. outs[c] = {}
    BY <1>0, <1>1 DEF Serving, OutputsHeld, OutputHeld, Resting
  <2> QED
    BY <1>0, <1>1, <1>2, <2>1
       DEF OutputHeld, Moves, WithOutput, WithKey, Committer, TInv, TypeOK,
           FileType, None
<1>8. PurgeShape' /\ OutputsHeld'
  BY <1>0, <1>1, <1>2, <1>3, <1>4, <1>6, <1>7, MoveParts
<1>9. FilesHeld'
  <2>1. \A n \in Live' : n \in Live
    BY <1>0, <1>1, <1>2 DEF Live
  <2>2. \A n \in Live' : Held(n)
    BY <1>1, <2>1 DEF Serving, FilesHeld
  <2>3. \A d \in CompactionJobs : ins'[d] \subseteq pins'[d]
    BY <1>1, <1>2, JobKinds DEF Serving, FilesHeld
  <2> QED
    BY <1>3, <2>2, <2>3, FilesKept
<1>10. QueueHeld'
  BY <1>0, <1>1, <1>2, <1>3, <1>4, QueueSame DEF Waiting, TablesStay
<1> QED
  BY <1>1, <1>3, <1>4, <1>5, <1>8, <1>9, <1>10, TablesKept, ApartStep
     DEF TablesStay

\* OpenCompactionOutputFile keeps the invariant: the number is new, so no purge
\* has it, and its key is there from now on.
LEMMA OpenCompactionOutputFileSafe ==
  ASSUME TInv, TInv', NInv, SInv, NEW c \in CompactionJobs,
         OpenCompactionOutputFile(c)
  PROVE  SInv'
<1>0. c \in Jobs /\ c \in Holders /\ c \notin FlushJobs /\ pc[c] \notin Committer
  BY CompactionApart, CompactionAwake DEF OpenCompactionOutputFile
<1>1. /\ Running /\ Running' /\ pc[c] = "run" /\ Serving
      /\ nextFile \in File /\ nextFile' = nextFile + 1 /\ nextFile \in Nat
      /\ UNCHANGED <<table, version, sv, obsolete, imm, committing, writers,
                     pend, pins, ins, del, todo, outs, bgError>>
  BY DEF OpenCompactionOutputFile, SInv, Running, disk, fileVars, logVars,
         memVars, bootVars, TInv, TypeOK, FileType, File
<1>2. /\ Moves(c, "build") /\ out'[c] = nextFile
      /\ \A k \in Jobs \ {c} : out'[k] = out[k]
  BY <1>0 DEF OpenCompactionOutputFile, Moves, TInv, TypeOK, JobType
<1>k. /\ KeyList' \in [File -> Key] /\ KeyList'[nextFile] # NoKey
      /\ \A n \in File : KeyList[n] # NoKey => KeyList'[n] = KeyList[n]
  BY <1>1 DEF OpenCompactionOutputFile, AddSSTKeyToList, TInv, TypeOK, KeyType,
              BootType, Boot, NoKey
<1>3. Sparing
  BY <1>1, <1>k, CalmStep
<1>4. TablesStay
  BY <1>1 DEF TablesStay, TInv, TypeOK, FileType
<1>5. FlushesApart
  BY <1>0, <1>1, <1>2, MoveApart DEF Committer
<1>6. PurgeOf(c)'
  BY <1>0, <1>1, <1>2 DEF Serving, PurgeShape, PurgeOf, Moves, Purging
<1>7. OutputHeld(c)'
  <2>1. OutputHeld(c) /\ pend[c] \in Nat
    BY <1>0, <1>1 DEF Serving, OutputsHeld, TInv, TypeOK, JobType
  <2>2. ~Doomed(nextFile)
    BY <1>1 DEF Doomed, Serving, PurgeShape, PurgeOf
  <2>3. \A n \in outs[c] : Held(n)' /\ Shields(c, n)'
    BY <1>0, <1>1, <1>3, <2>1, SparedHeld DEF OutputHeld, Sparing, Held, Shields
  <2>4. pend[c] # None /\ pend[c] <= nextFile
    BY <1>1, <2>1 DEF OutputHeld
  <2>5. ~Doomed(out[c])' /\ Shields(c, out[c])'
    BY <1>1, <1>2, <2>2, <2>4 DEF Doomed, Shields
  <2>6. pend'[c] # None /\ pend'[c] <= nextFile'
    BY <1>1, <2>1, <2>4
  <2> QED
    BY <1>0, <1>1, <1>2, <1>k, <2>3, <2>5, <2>6
       DEF OutputHeld, Moves, Resting, Purging
<1>8. PurgeShape' /\ OutputsHeld'
  BY <1>0, <1>1, <1>2, <1>3, <1>4, <1>6, <1>7, MoveParts
<1>9. FilesHeld'
  BY <1>1, <1>3, FilesSame
<1>10. QueueHeld'
  BY <1>0, <1>1, <1>2, <1>3, <1>4, QueueSame DEF Waiting, TablesStay
<1> QED
  BY <1>1, <1>3, <1>4, <1>5, <1>8, <1>9, <1>10, TablesKept, ApartStep
     DEF TablesStay

\* FinishCompactionOutputFile keeps the invariant: the inputs are in the version
\* the compaction holds, so they can be read, and the output is written under
\* the key it has in the list.
LEMMA FinishCompactionOutputFileSafe ==
  ASSUME TInv, TInv', NInv, SInv, NEW c \in CompactionJobs,
         FinishCompactionOutputFile(c)
  PROVE  SInv'
<1>0. c \in Jobs /\ c \in Holders /\ c \notin FlushJobs /\ pc[c] \notin Committer
  BY CompactionApart, CompactionAwake DEF FinishCompactionOutputFile
<1>1. /\ Running /\ pc[c] = "build" /\ Serving /\ OutputHeld(c) /\ PurgeOf(c)
      /\ UNCHANGED <<KeyList, version, sv, obsolete, imm, committing, writers,
                     pend, pins, ins, out, del, todo, bgError, nextFile>>
  BY <1>0, Parts DEF FinishCompactionOutputFile, fileVars, logVars, memVars
<1>2. \A n \in ins[c] : Opens(KeyList, n)
  BY <1>0, <1>1 DEF Serving, FilesHeld, Live, Held
<1>3. Running'
  BY <1>1, <1>2 DEF FinishCompactionOutputFile, Running
<1>4. /\ out[c] \in File /\ KeyList[out[c]] # NoKey /\ ~Doomed(out[c])
      /\ Shields(c, out[c]) /\ out[c] < nextFile
  BY <1>0, <1>1 DEF OutputHeld, WithKey, WithOutput, TInv, Shape, Building, NInv,
                    RamSpent, Up, Running
<1>5. /\ Lone(c, "run")
      /\ \/ outs'[c] = outs[c] /\ table' = table
         \/ /\ outs'[c] = outs[c] \cup {out[c]}
            /\ \A n \in File :
                 table'[n] = IF n = out[c] THEN KeyList[out[c]] ELSE table[n]
  <2>1. \/ UNCHANGED <<table, outs>>
        \/ /\ table' = [table EXCEPT ![out[c]] = KeyList[out[c]]]
           /\ outs' = [outs EXCEPT ![c] = @ \cup {out[c]}]
    BY DEF FinishCompactionOutputFile
  <2>2. Lone(c, "run")
    BY <1>0, <1>1, <2>1 DEF FinishCompactionOutputFile, Lone, Moves, TInv,
       TypeOK, JobType
  <2> QED
    BY <1>0, <2>1, <2>2 DEF TInv, TypeOK, JobType, KeyType
<1>6. Sparing
  BY <1>1, <1>5, CalmStep
<1>7. TablesStay /\ TablesFit
  BY <1>1, <1>4, <1>5 DEF TablesStay, TablesFit, TInv, TypeOK, FileType
<1>8. PurgeOf(c)'
  BY <1>0, <1>1, <1>5, PurgeIdle DEF Purging, Lone, Moves
<1>9. OutputHeld(c)'
  <2>1. \A n \in outs[c] : Held(n)' /\ Shields(c, n)'
    BY <1>0, <1>1, <1>6, SparedHeld DEF OutputHeld, Sparing, Held, Shields
  <2>2. PICK n : n = out[c]
    OBVIOUS
  <2>3. outs'[c] = outs[c] \/ (Held(n)' /\ Shields(c, n)')
    BY <1>1, <1>4, <1>5, <2>2 DEF Held, Opens, Doomed, Shields
  <2>4. \A x \in outs'[c] : Held(x)' /\ Shields(c, x)'
    BY <1>5, <2>1, <2>2, <2>3
  <2> QED
    BY <1>0, <1>1, <1>5, <2>4
       DEF OutputHeld, Lone, Moves, Resting, Purging, WithOutput, WithKey,
           Committer
<1>10. FilesHeld'
  BY <1>1, <1>6, FilesSame
<1>11. QueueHeld'
  BY <1>0, <1>1, <1>5, <1>6, <1>7, QueueSame DEF Waiting, TablesStay, Lone
<1> QED
  BY <1>0, <1>1, <1>3, <1>5, <1>6, <1>7, <1>8, <1>9, <1>10, <1>11, LoneStep
     DEF Aside, Committer

\* CompactionFails keeps the invariant: the part of an output it may leave is
\* under the key the file has in the list.
LEMMA CompactionFailsSafe ==
  ASSUME TInv, TInv', NInv, SInv, NEW c \in CompactionJobs, CompactionFails(c)
  PROVE  SInv'
<1>0. c \in Jobs /\ c \in Holders /\ c \notin FlushJobs /\ pc[c] \notin Committer
  BY CompactionApart, CompactionAwake DEF CompactionFails
<1>1. /\ Running /\ Running' /\ pc[c] \in {"run", "build"} /\ bgError'
      /\ \/ table' = table
         \/ /\ pc[c] = "build"
            /\ table' = [table EXCEPT ![out[c]] = KeyList[out[c]]]
      /\ UNCHANGED <<KeyList, version, sv, obsolete, imm, committing,
                     writers, pend, pins, ins, out, outs, del, todo, nextFile>>
  BY DEF CompactionFails, fileVars, logVars, memVars, bootVars, Running
<1>2. Lone(c, "failed")
  BY <1>0, <1>1 DEF CompactionFails, Lone, Moves, TInv, TypeOK, JobType
<1>9. pc[c] = "build" => ~Doomed(out[c]) /\ out[c] < nextFile
  BY <1>0, <1>1, Parts DEF OutputHeld, WithKey, WithOutput, NInv, RamSpent, Up,
     Running
<1>10. \A n \in File :
         \/ table'[n] = table[n]
         \/ /\ table'[n] = KeyList[n] /\ ~Doomed(n) /\ n < nextFile
  BY <1>1, <1>9 DEF TInv, TypeOK, KeyType
<1>3. Sparing
  BY <1>1, <1>10, CalmStep
<1>4. TablesStay /\ TablesFit
  BY <1>1, <1>10 DEF TablesStay, TablesFit, TInv, TypeOK, FileType
<1>5. PurgeOf(c)'
  BY <1>0, <1>1, <1>2, PurgeIdle DEF Purging, Lone, Moves
<1>6. OutputHeld(c)'
  BY <1>0, <1>1, <1>2, <1>3, <1>4, OutputMoved
     DEF Lone, Moves, WithKey, WithOutput, Committer, Resting, Purging
<1>7. FilesHeld'
  BY <1>1, <1>3, FilesSame
<1>8. QueueHeld'
  BY <1>0, <1>1, <1>2, <1>3, <1>4, QueueSame DEF Waiting, TablesStay, Lone
<1> QED
  BY <1>0, <1>1, <1>2, <1>3, <1>4, <1>5, <1>6, <1>7, <1>8, LoneStep
     DEF Aside, Committer

\* InstallCompactionResults keeps the invariant.
LEMMA InstallCompactionResultsSafe ==
  ASSUME TInv, TInv', NInv, SInv, NEW c \in CompactionJobs,
         InstallCompactionResults(c)
  PROVE  SInv'
<1>0. c \in Jobs /\ c \in Holders /\ c \notin FlushJobs /\ pc[c] \notin Committer
  BY CompactionApart, CompactionAwake DEF InstallCompactionResults
<1>1. /\ Running /\ Running' /\ pc[c] = "run"
      /\ UNCHANGED <<KeyList, table, version, sv, obsolete, imm, committing,
                     writers, pend, pins, ins, out, outs, del, bgError, nextFile>>
  BY DEF InstallCompactionResults, fileVars, logVars, memVars, bootVars, disk,
         Running
<1>2. Lone(c, "sync") /\ todo'[c] = outs[c]
  BY <1>0, <1>1 DEF InstallCompactionResults, Lone, Moves, TInv, TypeOK, JobType
<1>3. Sparing
  BY <1>1, CalmStep
<1>4. TablesStay /\ TablesFit
  BY <1>1 DEF TablesStay, TablesFit, TInv, TypeOK, FileType
<1>5. PurgeOf(c)'
  BY <1>0, <1>1, <1>2, PurgeIdle DEF Purging, Lone, Moves
<1>6. OutputHeld(c)'
  BY <1>0, <1>1, <1>2, <1>3, <1>4, OutputMoved
     DEF Lone, Moves, WithKey, WithOutput, Committer, Resting, Purging
<1>7. FilesHeld'
  BY <1>1, <1>3, FilesSame
<1>8. QueueHeld'
  BY <1>0, <1>1, <1>2, <1>3, <1>4, QueueSame DEF Waiting, TablesStay, Lone
<1> QED
  BY <1>0, <1>1, <1>2, <1>3, <1>4, <1>5, <1>6, <1>7, <1>8, LoneStep
     DEF Aside, Committer

\* LogCompactionKey keeps the invariant: an output has its key until it is
\* recorded, so the process does not exit here.
LEMMA LogCompactionKeySafe ==
  ASSUME TInv, TInv', NInv, SInv, NEW c \in CompactionJobs, LogCompactionKey(c)
  PROVE  SInv'
<1>0. c \in Jobs /\ c \in Holders /\ c \notin FlushJobs /\ pc[c] \notin Committer
  BY CompactionApart, CompactionAwake DEF LogCompactionKey
<1>1. /\ Running /\ pc[c] = "sync" /\ OutputHeld(c) /\ QueueHeld
      /\ UNCHANGED <<KeyList, table, version, sv, obsolete, imm, committing,
                     pend, pins, ins, out, outs, del, bgError, nextFile>>
  BY <1>0, Parts DEF LogCompactionKey, fileVars, memVars, disk
<1>2. PICK n \in todo[c] :
        /\ todo' = [todo EXCEPT ![c] = @ \ {n}]
        /\ phase' = IF KeyList[n] = NoKey THEN "aborted" ELSE phase
        /\ LogAndApply(c, AddSSTKey(n, KeyList[n]), {})
  BY DEF LogCompactionKey
<1>3. n \in File /\ KeyList[n] # NoKey /\ KeyList[n] \in Key
  BY <1>1, <1>2 DEF OutputHeld, Held, Opens, TInv, TypeOK, KeyType
<1>4. Running'
  BY <1>1, <1>2, <1>3 DEF Running
<1>5. Lone(c, "syncing") /\ todo'[c] \subseteq todo[c]
  BY <1>0, <1>1, <1>2 DEF LogCompactionKey, Lone, Moves, TInv, TypeOK, JobType
<1>6. Sparing
  BY <1>1, CalmStep
<1>7. TablesStay /\ TablesFit
  BY <1>1 DEF TablesStay, TablesFit, TInv, TypeOK, FileType
<1>8. PurgeOf(c)'
  BY <1>0, <1>1, <1>5, PurgeIdle DEF Purging, Lone, Moves
<1>9. OutputHeld(c)'
  <2>1. todo'[c] \subseteq outs[c]
    BY <1>1, <1>5 DEF OutputHeld
  <2> QED
    BY <1>0, <1>1, <1>5, <1>6, <1>7, <2>1, OutputMoved
       DEF Lone, Moves, WithKey, WithOutput, Committer, Resting, Purging
<1>10. FilesHeld'
  BY <1>1, <1>6, FilesSame
<1>11. QueueHeld'
  <2>1. PICK e \in Edit : e = AddSSTKey(n, KeyList[n]) /\ e.add = {}
    BY <1>3, EditFields
  <2>2. LogAndApply(c, e, {}) /\ pc'[c] = "syncing"
    BY <1>2, <1>5, <2>1 DEF Lone, Moves
  <2>3. \A k \in Jobs \ {c} : pc'[k] = pc[k]
    BY <1>5, JobKinds DEF Lone, Moves
  <2> QED
    BY <1>0, <1>1, <1>6, <2>1, <2>2, <2>3, QueueAppended DEF Waiting
<1> QED
  BY <1>0, <1>1, <1>4, <1>5, <1>6, <1>7, <1>8, <1>9, <1>10, <1>11, LoneStep
     DEF Aside, Committer

\* ApplyCompaction keeps the invariant: what it installs are its outputs.
LEMMA ApplyCompactionSafe ==
  ASSUME TInv, TInv', NInv, SInv, NEW c \in CompactionJobs, ApplyCompaction(c)
  PROVE  SInv'
<1>0. c \in Jobs /\ c \in Holders /\ c \notin FlushJobs /\ pc[c] \notin Committer
  BY CompactionApart, CompactionAwake DEF ApplyCompaction
<1>1. /\ Running /\ Running' /\ pc[c] = "sync" /\ OutputHeld(c) /\ QueueHeld
      /\ UNCHANGED <<KeyList, table, version, sv, obsolete, imm, committing,
                     pend, pins, ins, out, outs, del, todo, bgError, nextFile>>
  BY <1>0, Parts DEF ApplyCompaction, fileVars, memVars, disk, bootVars, Running
<1>2. Lone(c, "applying")
  BY <1>0, <1>1 DEF ApplyCompaction, Lone, Moves, TInv, TypeOK, JobType
<1>3. Sparing
  BY <1>1, CalmStep
<1>4. TablesStay /\ TablesFit
  BY <1>1 DEF TablesStay, TablesFit, TInv, TypeOK, FileType
<1>5. PurgeOf(c)'
  BY <1>0, <1>1, <1>2, PurgeIdle DEF Purging, Lone, Moves
<1>6. OutputHeld(c)'
  BY <1>0, <1>1, <1>2, <1>3, <1>4, OutputMoved
     DEF Lone, Moves, WithKey, WithOutput, Committer, Resting, Purging
<1>7. FilesHeld'
  BY <1>1, <1>3, FilesSame
<1>8. QueueHeld'
  <2>0. outs[c] \in SUBSET File /\ ins[c] \in SUBSET File
    BY <1>0 DEF TInv, TypeOK, JobType
  <2>1. PICK e \in Edit : /\ e = [EmptyEdit EXCEPT !.add = outs[c], !.del = ins[c]]
                          /\ e.add = outs[c]
    <3>1. [EmptyEdit EXCEPT !.add = outs[c], !.del = ins[c]] \in Edit
      BY <2>0, EditType
    <3>2. [EmptyEdit EXCEPT !.add = outs[c], !.del = ins[c]].add = outs[c]
      BY DEF EmptyEdit
    <3> QED
      BY <3>1, <3>2
  <2>2. LogAndApply(c, e, {}) /\ pc'[c] = "applying"
    BY <1>2, <2>1 DEF Lone, Moves, ApplyCompaction
  <2>3. \A k \in Jobs \ {c} : pc'[k] = pc[k]
    BY <1>2, JobKinds DEF Lone, Moves
  <2>4. \A n \in e.add : Held(n) /\ Shields(c, n)
    BY <1>1, <2>1 DEF OutputHeld
  <2> QED
    BY <1>0, <1>1, <1>3, <2>2, <2>3, <2>4, QueueAppended DEF Waiting
<1> QED
  BY <1>0, <1>1, <1>2, <1>3, <1>4, <1>5, <1>6, <1>7, <1>8, LoneStep
     DEF Aside, Committer

-----------------------------------------------------------------------------
(* Flush jobs after the commit *)

\* LogFlushKey keeps the invariant: the key of the flush's file is there from
\* its GenerateKey on, so the process does not exit here.
LEMMA LogFlushKeySafe ==
  ASSUME TInv, TInv', NInv, SInv, NEW j \in FlushJobs, LogFlushKey(j)
  PROVE  SInv'
<1>0. j \in Jobs /\ j \in Holders
  BY JobKinds
<1>1. /\ Running /\ pc[j] \in {"key", "keyio", "keyerr"}
      /\ OutputHeld(j) /\ QueueHeld
      /\ UNCHANGED <<KeyList, table, version, sv, obsolete, imm, committing,
                     pend, pins, ins, out, outs, del, todo, bgError, nextFile>>
  BY <1>0, Parts DEF LogFlushKey, fileVars, memVars, disk
<1>2. out[j] \in File /\ KeyList[out[j]] # NoKey /\ KeyList[out[j]] \in Key
  BY <1>0, <1>1 DEF OutputHeld, WithKey, TInv, TypeOK, KeyType, Shape, Building
<1>3. Running'
  BY <1>1, <1>2 DEF Running, LogFlushKey
<1>4. PICK to : to \in {"keying", "keyingio", "keyingerr"} /\ Lone(j, to)
  <2>1. pc'[j] \in {"keying", "keyingio", "keyingerr"}
    BY <1>0, <1>1 DEF LogFlushKey, TInv, TypeOK, JobType
  <2>2. Lone(j, pc'[j])
    BY <1>0, <1>1 DEF LogFlushKey, Lone, Moves, TInv, TypeOK, JobType
  <2> QED
    BY <2>1, <2>2
<1>5. Sparing
  BY <1>1, CalmStep
<1>6. TablesStay /\ TablesFit
  BY <1>1 DEF TablesStay, TablesFit, TInv, TypeOK, FileType
<1>7. PurgeOf(j)'
  BY <1>0, <1>1, <1>4, PurgeIdle DEF Purging, Lone, Moves
<1>8. OutputHeld(j)'
  BY <1>0, <1>1, <1>4, <1>5, <1>6, OutputMoved
     DEF Lone, Moves, WithKey, WithOutput, Committer, Resting, Purging
<1>9. FilesHeld'
  BY <1>1, <1>5, FilesSame
<1>10. QueueHeld'
  <2>1. PICK e \in Edit : e = AddSSTKey(out[j], KeyList[out[j]]) /\ e.add = {}
    BY <1>2, EditFields
  <2>2. LogAndApply(j, e, {}) /\ pc'[j] = to
    BY <1>4, <2>1 DEF Lone, Moves, LogFlushKey
  <2>3. \A k \in Jobs \ {j} : pc'[k] = pc[k]
    BY <1>4, JobKinds DEF Lone, Moves
  <2> QED
    BY <1>0, <1>1, <1>4, <1>5, <2>1, <2>2, <2>3, QueueAppended DEF Waiting
<1> QED
  BY <1>0, <1>1, <1>3, <1>4, <1>5, <1>6, <1>7, <1>8, <1>9, <1>10, LoneStep
     DEF Aside, Committer, Unfinished, Purging

-----------------------------------------------------------------------------
(* Purges *)

\* LogKeyDeletion keeps the invariant.
LEMMA LogKeyDeletionSafe ==
  ASSUME TInv, TInv', NInv, SInv, NEW j \in Jobs, LogKeyDeletion(j)
  PROVE  SInv'
<1>0. j \in Holders
  BY JobKinds
<1>1. /\ Running /\ Running' /\ pc[j] = "drop" /\ PurgeOf(j) /\ QueueHeld
      /\ UNCHANGED <<KeyList, table, version, sv, obsolete, imm, committing,
                     pend, pins, ins, out, outs, del, bgError, nextFile>>
  BY <1>0, Parts DEF LogKeyDeletion, fileVars, memVars, disk, bootVars, Running
<1>2. PICK n \in todo[j] : /\ todo' = [todo EXCEPT ![j] = @ \ {n}]
                           /\ LogAndApply(j, DeleteSSTKey(n), {})
  BY DEF LogKeyDeletion
<1>3. Lone(j, "dropping") /\ todo'[j] \subseteq todo[j] /\ n \in File
  BY <1>0, <1>1, <1>2 DEF LogKeyDeletion, Lone, Moves, TInv, TypeOK, JobType
<1>4. Sparing
  BY <1>1, CalmStep
<1>5. TablesStay /\ TablesFit
  BY <1>1 DEF TablesStay, TablesFit, TInv, TypeOK, FileType
<1>6. PurgeOf(j)'
  BY <1>1, <1>3 DEF PurgeOf, Lone, Moves, Purging
<1>7. OutputHeld(j)'
  BY <1>0, <1>1, <1>3, <1>4, <1>5, OutputMoved
     DEF Lone, Moves, WithKey, WithOutput, Committer, Resting, Purging
<1>8. FilesHeld'
  BY <1>1, <1>4, FilesSame
<1>9. QueueHeld'
  <2>1. PICK e \in Edit : e = DeleteSSTKey(n) /\ e.add = {}
    BY <1>3, EditFields
  <2>2. LogAndApply(j, e, {}) /\ pc'[j] = "dropping"
    BY <1>2, <1>3, <2>1 DEF Lone, Moves
  <2>3. \A k \in Jobs \ {j} : pc'[k] = pc[k]
    BY <1>3, JobKinds DEF Lone, Moves
  <2> QED
    BY <1>0, <1>1, <1>4, <2>1, <2>2, <2>3, QueueAppended DEF Waiting
<1> QED
  BY <1>0, <1>1, <1>3, <1>4, <1>5, <1>6, <1>7, <1>8, <1>9, LoneStep
     DEF Aside, Committer, Unfinished, Purging

\* EraseKeys keeps the invariant: it erases keys of files a purge has in hand.
LEMMA EraseKeysSafe ==
  ASSUME TInv, TInv', NInv, SInv, NEW j \in Jobs, EraseKeys(j)
  PROVE  SInv'
<1>0. j \in Holders
  BY JobKinds
<1>1. /\ Running /\ Running' /\ pc[j] = "drop"
      /\ UNCHANGED <<table, version, sv, obsolete, imm, committing, writers,
                     pend, pins, ins, out, outs, todo, bgError, nextFile>>
  BY DEF EraseKeys, fileVars, memVars, disk, bootVars, logVars, Running
<1>2. Lone(j, "idle") /\ del'[j] = {}
  BY <1>0, <1>1 DEF EraseKeys, Lone, Moves, TInv, TypeOK, JobType
<1>3. Sparing
  <2>1. \A h \in Holders : del'[h] \subseteq del[h]
    BY <1>2 DEF Lone
  <2>2. \A n \in File : ~Doomed(n) => KeyList'[n] = KeyList[n]
    BY <1>0 DEF EraseKeys, Doomed
  <2> QED
    BY <1>1, <2>1, <2>2, CalmStep
<1>4. TablesStay /\ TablesFit
  BY <1>1 DEF TablesStay, TablesFit, TInv, TypeOK, FileType
<1>5. PurgeOf(j)'
  BY <1>2 DEF PurgeOf, Lone, Moves, Purging
<1>6. OutputHeld(j)'
  BY <1>0, <1>1, <1>2, <1>3, <1>4, OutputMoved
     DEF Lone, Moves, WithKey, WithOutput, Committer, Resting, Purging
<1>7. FilesHeld'
  BY <1>1, <1>3, FilesSame
<1>8. QueueHeld'
  BY <1>0, <1>1, <1>2, <1>3, <1>4, QueueSame DEF Waiting, TablesStay, Lone
<1> QED
  BY <1>0, <1>1, <1>2, <1>3, <1>4, <1>5, <1>6, <1>7, <1>8, LoneStep
     DEF Aside, Committer, Unfinished, Purging

\* DeleteObsoleteFile keeps the invariant.
LEMMA DeleteObsoleteFileSafe ==
  ASSUME TInv, TInv', NInv, SInv, NEW h \in Holders, DeleteObsoleteFile(h)
  PROVE  SInv'
<1>1. /\ Running /\ Running' /\ pc[h] = "purge" /\ PurgeOf(h)
      /\ UNCHANGED <<KeyList, version, sv, obsolete, imm, committing, writers,
                     pc, pend, pins, ins, out, outs, del, bgError, nextFile>>
  BY Parts DEF DeleteObsoleteFile, fileVars, memVars, bootVars, logVars, Running
<1>2. PICK n \in todo[h] : /\ table' = [table EXCEPT ![n] = NoKey]
                           /\ todo' = [todo EXCEPT ![h] = @ \ {n}]
  BY DEF DeleteObsoleteFile
<1>3. /\ n \in File /\ n \in del[h] /\ todo'[h] = todo[h] \ {n}
      /\ \A f \in File : table'[f] = IF f = n THEN NoKey ELSE table[f]
  BY <1>1, <1>2 DEF PurgeOf, Purging, TInv, TypeOK, JobType, KeyType
<1>4. Lone(h, "purge")
  BY <1>1, <1>2 DEF Lone, Moves, TInv, TypeOK, JobType
<1>5. Sparing
  <2>1. \A f \in File : ~Doomed(f) => table'[f] = table[f]
    BY <1>3 DEF Doomed
  <2> QED
    BY <1>1, <2>1, CalmStep
<1>6. TablesStay /\ TablesFit
  BY <1>1, <1>3 DEF TablesStay, TablesFit, TInv, TypeOK, FileType
<1>7. PurgeOf(h)'
  <2>1. \A f \in del[h] \ todo'[h] : table'[f] = NoKey
    BY <1>1, <1>3 DEF PurgeOf, TInv, TypeOK, JobType
  <2> QED
    BY <1>1, <1>3, <2>1 DEF PurgeOf, Purging
<1>8. h \in Jobs => OutputHeld(h)'
  BY <1>1, <1>4, <1>5, <1>6, OutputMoved
     DEF Lone, Moves, WithKey, WithOutput, Committer, Resting, Purging
<1>9. FilesHeld'
  BY <1>1, <1>5, FilesSame
<1>10. QueueHeld'
  BY <1>1, <1>4, <1>5, <1>6, QueueSame DEF Waiting, TablesStay, Lone
<1> QED
  BY <1>1, <1>4, <1>5, <1>6, <1>7, <1>8, <1>9, <1>10, LoneStep
     DEF Aside, Committer, Unfinished, Purging

\* PurgeDone keeps the invariant: the keys are dropped when no table is left.
LEMMA PurgeDoneSafe ==
  ASSUME TInv, TInv', NInv, SInv, NEW h \in Holders, PurgeDone(h)
  PROVE  SInv'
<1>1. /\ Running /\ Running' /\ pc[h] = "purge" /\ PurgeOf(h) /\ todo[h] = {}
      /\ UNCHANGED <<KeyList, table, version, sv, obsolete, imm, committing,
                     writers, pend, pins, ins, out, outs, bgError, nextFile>>
  BY Parts DEF PurgeDone, fileVars, memVars, bootVars, logVars, Running, disk
<1> DEFINE to == IF h \in Jobs THEN "drop" ELSE "idle"
<1>2. Lone(h, to)
  BY <1>1 DEF PurgeDone, Lone, Moves, TInv, TypeOK, JobType
<1>3. /\ del'[h] = IF h \in Jobs THEN del[h] ELSE {}
      /\ todo'[h] = IF h \in Jobs THEN del[h] ELSE {}
  BY DEF PurgeDone, TInv, TypeOK, JobType
<1>4. Sparing
  <2>1. \A k \in Holders : del'[k] \subseteq del[k]
    BY <1>2, <1>3 DEF Lone
  <2> QED
    BY <1>1, <2>1, CalmStep
<1>5. TablesStay /\ TablesFit
  BY <1>1 DEF TablesStay, TablesFit, TInv, TypeOK, FileType
<1>6. PurgeOf(h)'
  BY <1>1, <1>2, <1>3 DEF PurgeOf, Lone, Moves, Purging
<1>7. h \in Jobs => OutputHeld(h)'
  BY <1>1, <1>2, <1>4, <1>5, OutputMoved
     DEF Lone, Moves, WithKey, WithOutput, Committer, Resting, Purging
<1>8. FilesHeld'
  BY <1>1, <1>4, FilesSame
<1>9. QueueHeld'
  BY <1>1, <1>2, <1>4, <1>5, QueueSame DEF Waiting, TablesStay, Lone
<1> QED
  BY <1>1, <1>2, <1>4, <1>5, <1>6, <1>7, <1>8, <1>9, LoneStep
     DEF Aside, Committer, Unfinished, Purging

\* FindObsoleteFiles chooses files that no version lists any more and that no
\* pending output shields, all of them with numbers that are given out.
LEMMA FindSpares ==
  ASSUME TInv, TInv', NInv, SInv, Running, NEW h \in Holders,
         NEW full \in BOOLEAN, FindObsoleteFiles(h, full),
         UNCHANGED <<KeyList, table>>, pc[h] \notin Purging, Live' \subseteq Live
  PROVE  /\ Sparing
         /\ obsolete' \subseteq obsolete \cup Live
         /\ \A k \in Holders \ {h} : del'[k] = del[k] /\ todo'[k] = todo[k]
         /\ \E to \in {"idle", "purge"} :
              Moves(h, to) /\ (to = "idle" => del'[h] = {})
         /\ todo'[h] = del'[h]
         /\ \A n \in del'[h] : n < nextFile
<1> DEFINE found   == obsolete \cup (Live \ Live')
           enabled == ~disable_delete_obsolete_files_
           deletes == {n \in found : enabled /\ BelowPending(n, pend')}
           scanned == IF full /\ enabled
                      THEN {n \in File : table[n] # NoKey} \ grabbed ELSE {}
           purged == {n \in deletes \cup scanned : n \notin Live'
                                                   /\ BelowPending(n, pend')}
           to == IF purged = {} THEN "idle" ELSE "purge"
<1>1. /\ obsolete' = found \ deletes
      /\ del'  = [del EXCEPT ![h] = purged]
      /\ todo' = [todo EXCEPT ![h] = purged]
      /\ pc'   = [pc EXCEPT ![h] = to]
  BY DEF FindObsoleteFiles
<1>2. /\ obsolete \subseteq File /\ \A n \in obsolete : n < nextFile
      /\ \A n \in Live : n \in File /\ n < nextFile
      /\ \A n \in File : table[n] # NoKey => n < nextFile
  BY Parts, HeldSpent DEF TInv, TypeOK, FileType, PurgeShape, FilesHeld
<1>3. /\ \A n \in purged : /\ n \in File /\ n < nextFile
                           /\ n \notin Live' /\ BelowPending(n, pend')
      /\ deletes \subseteq found /\ found \subseteq obsolete \cup Live
  BY <1>2
<1>4. /\ to \in {"idle", "purge"} /\ (to = "idle" => purged = {})
  OBVIOUS
<1> HIDE DEF found, enabled, deletes, scanned, purged, to
<1>5. /\ del'[h] = purged /\ todo'[h] = purged /\ pc'[h] = to
      /\ \A k \in Holders \ {h} : /\ del'[k] = del[k] /\ todo'[k] = todo[k]
                                  /\ pc'[k] = pc[k]
  BY <1>1 DEF TInv, TypeOK, JobType
<1>6. \A n \in File : Doomed(n)' => Doomed(n) \/ n \in purged
  BY <1>5 DEF Doomed
<1>7. ASSUME NEW n \in File, NEW j \in Jobs, Shields(j, n)'
      PROVE  n \notin purged
  <2>1. n \in Nat /\ pend'[j] \in Nat /\ pend'[j] # None /\ pend'[j] <= n
    BY <1>7 DEF Shields, File, TInv, TypeOK, JobType
  <2>2. ~BelowPending(n, pend')
    BY <2>1 DEF BelowPending
  <2> QED
    BY <1>3, <2>2
<1>8. Sparing
  <2> SUFFICES ASSUME NEW n \in File,
                      n \in Live' \/ \E j \in Jobs : Shields(j, n)'
               PROVE  Spared(n)
    BY DEF Sparing
  <2>1. n \notin purged
    BY <1>3, <1>7
  <2> QED
    BY <1>6, <2>1 DEF Spared, Opens
<1> QED
  BY <1>1, <1>3, <1>4, <1>5, <1>8 DEF Moves

\* ReleaseAndFind keeps the invariant: the outputs of the job are in a version
\* or shielded by another job when its pending output is released.
LEMMA ReleaseAndFindSafe ==
  ASSUME TInv, TInv', NInv, SInv, NEW j \in Jobs, ReleaseAndFind(j)
  PROVE  SInv'
<1>0. j \in Holders
  BY JobKinds
<1>1. /\ Running /\ Running' /\ pc[j] \in {"release", "failed"} /\ FilesHeld
      /\ UNCHANGED <<KeyList, table, version, imm, committing, writers,
                     bgError, nextFile>>
  BY Parts DEF ReleaseAndFind, memVars, disk, bootVars, logVars, Running
<1>2. /\ pins'[j] = {} /\ pend'[j] = None /\ ins'[j] = {} /\ outs'[j] = {}
      /\ \A k \in Jobs \ {j} : /\ outs'[k] = outs[k] /\ out'[k] = out[k]
                               /\ pend'[k] = pend[k] /\ ins'[k] = ins[k]
      /\ \A k \in Holders \ {j} : pins'[k] = pins[k]
      /\ sv' = version \/ sv' = sv
  BY <1>0 DEF ReleaseAndFind, TInv, TypeOK, JobType
<1>3. Live' \subseteq Live
  BY <1>0, <1>1, <1>2 DEF Live
<1>4. PICK full \in BOOLEAN : FindObsoleteFiles(j, full)
  BY DEF ReleaseAndFind
<1>5. pc[j] \notin Purging
  BY <1>1 DEF Purging
<1>6. PICK to \in {"idle", "purge"} :
        Moves(j, to) /\ (to = "idle" => del'[j] = {})
  BY <1>0, <1>1, <1>3, <1>4, <1>5, FindSpares
<1>7. /\ Sparing /\ Lone(j, to)
      /\ todo'[j] = del'[j] /\ \A n \in del'[j] : n < nextFile
  BY <1>0, <1>1, <1>2, <1>3, <1>4, <1>5, <1>6, FindSpares DEF Lone
<1>8. TablesStay /\ TablesFit
  BY <1>1 DEF TablesStay, TablesFit, TInv, TypeOK, FileType
<1>9. PurgeOf(j)'
  BY <1>1, <1>6, <1>7 DEF PurgeOf, Moves, Purging
<1>10. OutputHeld(j)'
  BY <1>2, <1>6 DEF OutputHeld, Moves, WithOutput, WithKey, Committer
<1>11. FilesHeld'
  BY <1>1, <1>2, <1>3, <1>7, FilesKept, JobKinds DEF FilesHeld
<1>12. QueueHeld'
  BY <1>0, <1>1, <1>2, <1>6, <1>7, <1>8, QueueSame DEF Waiting, TablesStay
<1>13. Aside(j, to)
  BY <1>1, <1>6 DEF Aside, Committer, Unfinished, Purging
<1> QED
  BY <1>0, <1>1, <1>7, <1>8, <1>9, <1>10, <1>11, <1>12, <1>13, LoneStep

\* SetBGError keeps the invariant.
LEMMA SetBGErrorSafe ==
  ASSUME TInv, TInv', NInv, SInv, NEW j \in Jobs, SetBGError(j)
  PROVE  SInv'
<1>0. j \in Holders
  BY JobKinds
<1>1. /\ Running /\ Running' /\ pc[j] \in {"err", "errio", "release"}
      /\ FilesHeld /\ bgError'
      /\ UNCHANGED <<KeyList, table, version, imm, committing, writers, pins,
                     pend, ins, out, outs, del, todo, nextFile>>
  BY Parts DEF SetBGError, memVars, disk, bootVars, logVars, Running
<1>2. (sv' = version \/ sv' = sv) /\ UnrefVersions
  BY DEF SetBGError
<1>3. Live' \subseteq Live
  BY <1>1, <1>2 DEF Live
<1>4. Lone(j, "failed")
  BY <1>0, <1>1, <1>2
     DEF SetBGError, Lone, Moves, UnrefVersions, TInv, TypeOK, JobType
<1>5. Sparing
  BY <1>1, CalmStep
<1>6. TablesStay /\ TablesFit
  BY <1>1 DEF TablesStay, TablesFit, TInv, TypeOK, FileType
<1>7. PurgeOf(j)'
  BY <1>0, <1>1, <1>4, PurgeIdle DEF Purging, Lone, Moves
<1>8. OutputHeld(j)'
  BY <1>0, <1>1, <1>4, <1>5, <1>6, OutputMoved
     DEF Lone, Moves, WithKey, WithOutput, Committer, Resting, Purging
<1>9. FilesHeld'
  BY <1>1, <1>3, <1>5, FilesKept DEF FilesHeld
<1>10. QueueHeld'
  BY <1>0, <1>1, <1>4, <1>5, <1>6, QueueSame DEF Waiting, TablesStay, Lone
<1>11. Aside(j, "failed")
  BY <1>1 DEF Aside, Committer, Unfinished, Purging
<1> QED
  BY <1>0, <1>1, <1>4, <1>5, <1>6, <1>7, <1>8, <1>9, <1>10, <1>11, LoneStep

-----------------------------------------------------------------------------
(* Clients *)

\* NewIterator keeps the invariant: the SuperVersion's files are in Live.
LEMMA NewIteratorSafe ==
  ASSUME TInv, TInv', NInv, SInv, NEW i \in Iterators, NewIterator(i)
  PROVE  SInv'
<1>0. i \in Holders /\ i \notin Jobs /\ i \notin FlushJobs
  BY JobKinds
<1>1. /\ Running /\ Running' /\ pc[i] = "idle" /\ FilesHeld
      /\ UNCHANGED <<KeyList, table, version, sv, obsolete, imm, committing,
                     writers, pend, ins, out, outs, del, todo, bgError,
                     nextFile>>
  BY Parts DEF NewIterator, memVars, disk, bootVars, logVars, fileVars, Running
<1>2. /\ Lone(i, "iterate") /\ pins'[i] = sv
      /\ \A k \in Holders \ {i} : pins'[k] = pins[k]
  BY <1>0, <1>1 DEF NewIterator, Lone, Moves, TInv, TypeOK, JobType
<1>3. Sparing
  BY <1>1, CalmStep
<1>4. TablesStay /\ TablesFit
  BY <1>1 DEF TablesStay, TablesFit, TInv, TypeOK, FileType
<1>5. PurgeOf(i)'
  BY <1>0, <1>1, <1>2, PurgeIdle DEF Purging, Lone, Moves
<1>6. FilesHeld'
  <2>1. Live' \subseteq Live
    BY <1>0, <1>1, <1>2 DEF Live
  <2> QED
    BY <1>0, <1>1, <1>2, <1>3, <2>1, FilesKept, JobKinds DEF FilesHeld
<1>7. QueueHeld'
  BY <1>0, <1>1, <1>2, <1>3, <1>4, QueueSame DEF Waiting, TablesStay, Lone
<1> QED
  BY <1>0, <1>1, <1>2, <1>3, <1>4, <1>5, <1>6, <1>7, LoneStep DEF Aside

\* DeleteIterator keeps the invariant.
LEMMA DeleteIteratorSafe ==
  ASSUME TInv, TInv', NInv, SInv, NEW i \in Iterators, DeleteIterator(i)
  PROVE  SInv'
<1>0. i \in Holders /\ i \notin Jobs /\ i \notin FlushJobs
  BY JobKinds
<1>1. /\ Running /\ Running' /\ pc[i] = "iterate" /\ FilesHeld
      /\ UNCHANGED <<KeyList, table, version, sv, imm, committing, writers,
                     pend, ins, out, outs, bgError, nextFile>>
  BY Parts DEF DeleteIterator, memVars, disk, bootVars, logVars, Running
<1>2. pins'[i] = {} /\ \A k \in Holders \ {i} : pins'[k] = pins[k]
  BY <1>0 DEF DeleteIterator, TInv, TypeOK, JobType
<1>3. Live' \subseteq Live
  BY <1>0, <1>1, <1>2 DEF Live
<1>4. pc[i] \notin Purging
  BY <1>1 DEF Purging
<1>5. \E to : Lone(i, to) /\ Sparing /\ PurgeOf(i)'
  <2>1. CASE FindObsoleteFiles(i, FALSE)
    <3>1. PICK to \in {"idle", "purge"} :
            Moves(i, to) /\ (to = "idle" => del'[i] = {})
      BY <1>0, <1>1, <1>3, <1>4, <2>1, FindSpares
    <3>2. /\ Sparing /\ Lone(i, to)
          /\ todo'[i] = del'[i] /\ \A n \in del'[i] : n < nextFile
      BY <1>0, <1>1, <1>3, <1>4, <2>1, <3>1, FindSpares DEF Lone
    <3>3. PurgeOf(i)'
      BY <1>1, <3>1, <3>2 DEF PurgeOf, Moves, Purging
    <3> QED
      BY <3>2, <3>3
  <2>2. CASE /\ pc' = [pc EXCEPT ![i] = "idle"] /\ UnrefVersions
             /\ UNCHANGED <<del, todo>>
    <3>1. Lone(i, "idle")
      BY <1>0, <1>1, <2>2
         DEF Lone, Moves, UnrefVersions, TInv, TypeOK, JobType
    <3>2. Sparing
      BY <1>1, <2>2, CalmStep
    <3>3. PurgeOf(i)'
      BY <1>0, <1>1, <1>4, <2>2, <3>1, PurgeIdle DEF Lone, Moves, Purging
    <3> QED
      BY <3>1, <3>2, <3>3
  <2> QED
    BY <2>1, <2>2 DEF DeleteIterator
<1>6. PICK to : Lone(i, to) /\ Sparing /\ PurgeOf(i)'
  BY <1>5
<1>7. TablesStay /\ TablesFit
  BY <1>1 DEF TablesStay, TablesFit, TInv, TypeOK, FileType
<1>8. FilesHeld'
  BY <1>0, <1>1, <1>2, <1>3, <1>6, FilesKept, JobKinds DEF FilesHeld
<1>9. QueueHeld'
  BY <1>0, <1>1, <1>6, <1>7, QueueSame DEF Waiting, TablesStay, Lone
<1> QED
  BY <1>0, <1>1, <1>6, <1>7, <1>8, <1>9, LoneStep DEF Aside

\* A step in which nobody moves and no file gets into a version that was in
\* none.
LEMMA StillStep ==
  ASSUME TInv, TInv', NInv, SInv, Running, Running',
         UNCHANGED <<KeyList, table, nextFile, pc, pend, pins, ins, out, outs,
                     del, todo, imm, committing, writers, bgError>>,
         obsolete' \subseteq obsolete \cup Live, version' \subseteq Live,
         sv' \subseteq Live
  PROVE  SInv'
<1>0. PurgeShape /\ FilesHeld /\ OutputsHeld /\ QueueHeld
  BY Parts
<1>1. Sparing
  BY CalmStep
<1>2. TablesStay /\ TablesFit /\ nextFile <= nextFile'
  BY DEF TablesStay, TablesFit, TInv, TypeOK, FileType
<1>3. PurgeShape'
  BY <1>0, <1>2, PurgeKept DEF SamePurge
<1>4. FilesHeld'
  <2>1. Live' \subseteq Live
    BY DEF Live
  <2> QED
    BY <1>0, <1>1, <2>1, FilesKept DEF FilesHeld
<1>5. OutputsHeld'
  BY <1>0, <1>1, <1>2, OutputKept DEF OutputsHeld, SameJob
<1>6. QueueHeld'
  BY <1>0, <1>1, <1>2, QueueKept, SameImm DEF SameQueue
<1>7. FlushesApart
  BY DEF FlushesApart, SameCommitter, SameFlushes, SameFlushWork
<1>8. \A n \in File : table'[n] # NoKey => n < nextFile'
  BY <1>2, TablesKept DEF TablesFit
<1> QED
  BY <1>1, <1>2, <1>3, <1>4, <1>5, <1>6, <1>7, <1>8, ApartStep

\* ReadBlock keeps the invariant: what an iterator reads, it references.
LEMMA ReadBlockSafe ==
  ASSUME TInv, TInv', NInv, SInv, NEW i \in Iterators, ReadBlock(i)
  PROVE  SInv'
<1>1. /\ Running /\ FilesHeld
      /\ UNCHANGED <<KeyList, table, nextFile, pc, pend, pins, ins, out, outs,
                     del, todo, imm, committing, writers, bgError, obsolete,
                     version, sv>>
  BY Parts DEF ReadBlock, disk, jobVars, logVars, memVars, fileVars
<1>2. \A n \in pins[i] : Opens(KeyList, n)
  BY <1>1, JobKinds DEF FilesHeld, Live, Held
<1>3. Running'
  BY <1>1, <1>2 DEF ReadBlock, Running
<1> QED
  BY <1>1, <1>3, StillStep DEF Live

\* SwitchMemtable keeps the invariant.
LEMMA SwitchMemtableSafe ==
  ASSUME TInv, TInv', NInv, SInv, SwitchMemtable
  PROVE  SInv'
<1>1. /\ Running /\ Running' /\ sv' = version /\ UnrefVersions
      /\ UNCHANGED <<KeyList, table, nextFile, pc, pend, pins, ins, out, outs,
                     del, todo, imm, committing, writers, bgError, version>>
  BY DEF SwitchMemtable, disk, logVars, memVars, bootVars, Running
<1>2. obsolete' \subseteq obsolete \cup Live
  BY <1>1 DEF UnrefVersions
<1> QED
  BY <1>1, <1>2, StillStep DEF Live

-----------------------------------------------------------------------------
(* The MANIFEST queue *)

\* BeginManifestWrite keeps the invariant: the tables the group adds can be
\* opened, so the process does not exit here.
LEMMA BeginManifestWriteSafe ==
  ASSUME TInv, TInv', NInv, SInv, BeginManifestWrite
  PROVE  SInv'
<1>1. /\ Running /\ QueueHeld
      /\ UNCHANGED <<KeyList, table, nextFile, pc, pend, pins, ins, out, outs,
                     del, todo, imm, committing, writers, bgError, obsolete,
                     version, sv>>
  BY Parts DEF BeginManifestWrite, disk, jobVars, memVars, fileVars
<1>2. \A i \in 1 .. Len(writers) : \A n \in writers[i].edit.add :
        Opens(KeyList, n)
  BY <1>1 DEF QueueHeld, Queue, WriterHeld, Held
<1>3. DOMAIN writers = 1 .. Len(writers)
  BY DEF TInv, TypeOK, LogType
<1>4. Running'
  BY <1>1, <1>2, <1>3 DEF BeginManifestWrite, Running
<1> QED
  BY <1>1, <1>4, StillStep DEF Live

\* AppendRecord and SetCurrentFile keep the invariant: they touch the MANIFEST
\* only.
LEMMA AppendRecordSafe ==
  ASSUME TInv, TInv', NInv, SInv, AppendRecord \/ SetCurrentFile
  PROVE  SInv'
<1>1. /\ Running /\ Running'
      /\ UNCHANGED <<KeyList, table, nextFile, pc, pend, pins, ins, out, outs,
                     del, todo, imm, committing, writers, bgError, obsolete,
                     version, sv>>
  BY DEF AppendRecord, SetCurrentFile, disk, jobVars, memVars, fileVars,
         bootVars, Running
<1> QED
  BY <1>1, StillStep DEF Live

-----------------------------------------------------------------------------
(* Flush jobs up to the commit *)

\* A step that gives every part of the invariant.
LEMMA WholeStep ==
  ASSUME TInv, TInv', SInv, Running, Running', TablesStay, TablesFit,
         PurgeShape', FilesHeld', OutputsHeld', QueueHeld', MemsOrdered',
         OneCommitter', MemsHeld', Alone'
  PROVE  SInv'
<1>1. \A n \in File : table'[n] # NoKey => n < nextFile'
  BY TablesKept DEF TablesFit, TablesStay
<1> QED
  BY <1>1, ServingStep DEF Serving

\* With one flush thread all flush jobs are the same.
LEMMA OneThread ==
  ASSUME OneFlushThread, AllowManifestError, NEW j \in FlushJobs, NEW f \in FlushJobs
  PROVE  f = j
BY DEF OneFlushThread

\* The memtables a flush picks: those without a file and a new one.
LEMMA FlushStartMems ==
  ASSUME TInv, NEW j \in FlushJobs, FlushStart(j)
  PROVE  /\ \A x \in imm' :
              \/ \E m \in imm : /\ x.id = m.id /\ x.done = m.done /\ x.has = m.has
                                /\ m.file # None => x = m
                                /\ m.file = None => x.file = nextFile
              \/ /\ x.id = nextFile /\ x.file = nextFile
                 /\ ~x.done /\ ~x.has
         /\ \A m \in imm : \E x \in imm' : /\ x.id = m.id /\ x.done = m.done
                                           /\ m.file # None => x = m
<1> DEFINE Pick(m) == IF m.file = None THEN [m EXCEPT !.file = nextFile] ELSE m
           new == [id |-> nextFile, file |-> nextFile, done |-> FALSE,
                   has |-> FALSE]
<1>1. PICK fresh \in BOOLEAN :
        imm' = {Pick(m) : m \in imm} \cup {m \in {new} : fresh}
  BY DEF FlushStart
<1>2. ASSUME NEW m \in imm
      PROVE  /\ Pick(m).id = m.id /\ Pick(m).done = m.done /\ Pick(m).has = m.has
             /\ m.file # None => Pick(m) = m
             /\ m.file = None => Pick(m).file = nextFile
  <2>1. m \in [id : File, file : File \cup {None}, done : BOOLEAN, has : BOOLEAN]
    BY DEF TInv, TypeOK, MemType, Mem
  <2> QED
    BY <2>1
<1>3. new.id = nextFile /\ new.file = nextFile /\ ~new.done /\ ~new.has
  OBVIOUS
<1> HIDE DEF Pick, new
<1>4. \A x \in imm' : (\E m \in imm : x = Pick(m)) \/ x = new
  BY <1>1
<1>5. \A m \in imm : Pick(m) \in imm'
  BY <1>1
<1>6. ASSUME NEW x \in imm'
      PROVE  \/ \E m \in imm : /\ x.id = m.id /\ x.done = m.done /\ x.has = m.has
                               /\ m.file # None => x = m
                               /\ m.file = None => x.file = nextFile
             \/ /\ x.id = nextFile /\ x.file = nextFile
                /\ ~x.done /\ ~x.has
  BY <1>2, <1>3, <1>4
<1>7. ASSUME NEW m \in imm
      PROVE  \E x \in imm' : /\ x.id = m.id /\ x.done = m.done
                             /\ m.file # None => x = m
  BY <1>2, <1>5
<1> QED
  BY <1>6, <1>7

\* FlushStart keeps the invariant: its number is newer than every file and
\* every memtable, so the order of the memtables is their age.
LEMMA FlushStartSafe ==
  ASSUME OneFlushThread, TInv, TInv', NInv, SInv, NEW j \in FlushJobs,
         FlushStart(j)
  PROVE  SInv'
<1>0. j \in Jobs /\ j \in Holders
  BY JobKinds
<1>1. /\ Running /\ Running' /\ pc[j] = "idle" /\ ~bgError /\ OutputHeld(j)
      /\ nextFile \in File /\ nextFile' = nextFile + 1 /\ nextFile \in Nat
      /\ UNCHANGED <<KeyList, table, version, sv, obsolete, committing, writers,
                     ins, outs, del, todo>>
  BY <1>0, Parts DEF FlushStart, disk, logVars, bootVars, Running, TInv, TypeOK,
                     FileType, File
<1>2. /\ Moves(j, "gen") /\ pend'[j] = nextFile /\ out'[j] = nextFile
      /\ pins'[j] = version
      /\ \A k \in Jobs \ {j} : pend'[k] = pend[k] /\ out'[k] = out[k]
      /\ \A k \in Holders \ {j} : pins'[k] = pins[k]
  BY <1>0 DEF FlushStart, Moves, TInv, TypeOK, JobType
<1>3. Sparing
  BY <1>1, CalmStep
<1>4. TablesStay /\ TablesFit /\ nextFile <= nextFile'
  BY <1>1 DEF TablesStay, TablesFit
<1>5. PurgeOf(j)'
  BY <1>0, <1>1, <1>2, PurgeIdle DEF Purging, Moves
<1>6. OutputHeld(j)'
  <2>1. outs[j] = {}
    BY <1>1 DEF OutputHeld, Resting
  <2>2. ~Doomed(nextFile)
    BY <1>1, Parts DEF Doomed, PurgeOf
  <2>3. ~Doomed(out[j])' /\ Shields(j, out[j])'
    BY <1>1, <1>2, <2>2 DEF Doomed, Shields, File, None
  <2> QED
    BY <1>0, <1>1, <1>2, <2>1, <2>3, JobKinds
       DEF OutputHeld, Moves, WithKey, Committer, Resting, Purging
<1>7. PurgeShape' /\ OutputsHeld'
  BY <1>0, <1>1, <1>2, <1>3, <1>4, <1>5, <1>6, MoveParts
<1>8. FilesHeld'
  <2>1. Live' \subseteq Live
    BY <1>0, <1>1, <1>2 DEF Live
  <2>2. \A c \in CompactionJobs : ins'[c] \subseteq pins'[c]
    BY <1>1, <1>2, Parts, JobKinds DEF FilesHeld
  <2> QED
    BY <1>1, <1>3, <2>1, <2>2, FilesKept, Parts DEF FilesHeld
<1>m. /\ \A m \in imm : /\ m \in Mem /\ m.id \in Nat /\ m.file \in Nat
                         /\ m.id < nextFile /\ m.file < nextFile
      /\ MemsOrdered /\ OneCommitter /\ MemsHeld /\ QueueHeld
  BY <1>1, Parts DEF TInv, TypeOK, MemType, Mem, File, None, MemsOrdered, NInv,
                     RamSpent, Up, Running
<1>n. \A x \in imm' :
        /\ x.id \in Nat /\ x.file \in Nat /\ x.id <= nextFile
        /\ x.file # None
        /\ x.id = nextFile => x.file = nextFile /\ ~x.done /\ ~x.has
        /\ x.id < nextFile =>
             \E m \in imm : /\ x.id = m.id /\ x.done = m.done /\ x.has = m.has
                            /\ m.file # None => x = m
                            /\ m.file = None => x.file = nextFile
  <2> TAKE x \in imm'
  <2>1. CASE \E m \in imm : /\ x.id = m.id /\ x.done = m.done /\ x.has = m.has
                            /\ m.file # None => x = m
                            /\ m.file = None => x.file = nextFile
    BY <1>1, <1>m, <2>1 DEF None, File
  <2>2. CASE x.id = nextFile /\ x.file = nextFile /\ ~x.done /\ ~x.has
    BY <1>1, <2>2 DEF None, File
  <2> QED
    BY <2>1, <2>2, FlushStartMems
<1>9. QueueHeld'
  <2>1. SameQueue
    BY <1>1, <1>2, JobKinds DEF SameQueue, Moves, Waiting
  <2>2. ASSUME NEW w \in Queue PROVE WriterMems(w)'
    <3>1. w \in Writer /\ WriterHeld(w) /\ w.job \in Jobs /\ w.mems \subseteq File
      BY <1>m, QueueType DEF QueueHeld, Writer
    <3>2. ASSUME NEW x \in imm', x.id \in w.mems PROVE x.done
      <4>1. x.id < nextFile
        BY <3>1, <3>2 DEF WriterHeld
      <4>2. PICK m \in imm : x.id = m.id /\ x.done = m.done
        BY <1>n, <4>1
      <4> QED
        BY <3>1, <3>2, <4>2 DEF WriterHeld, WriterMems
    <3>3. ~(AllowManifestError /\ pc'[w.job] = "committing")
      <4> SUFFICES ASSUME AllowManifestError, pc'[w.job] = "committing"
                   PROVE  FALSE
        OBVIOUS
      <4>1. w.job # j /\ pc[w.job] = "committing"
        BY <1>2, <3>1, JobKinds DEF Moves
      <4>2. w.job \in FlushJobs
        BY <1>m, <3>1, <4>1 DEF OneCommitter, Committer
      <4> QED
        BY <4>1, <4>2, OneThread
    <3> QED
      BY <3>2, <3>3 DEF WriterMems
  <2> QED
    BY <1>3, <1>4, <1>m, <2>1, <2>2, QueueStays
<1>10. MemsOrdered'
  <2>1. \A x \in imm' : x.id < nextFile'
    BY <1>1, <1>n
  <2>3. ASSUME NEW x \in imm', x.done PROVE ~Active(x)'
    <3> SUFFICES ASSUME NEW f \in FlushJobs, out'[f] = x.file,
                        pc'[f] \in Unfinished
                 PROVE  FALSE
      BY DEF Active
    <3>1. x.id < nextFile
      BY <1>1, <1>n, <2>3
    <3>2. PICK m \in imm : x.done = m.done /\ (m.file # None => x = m)
      BY <1>n, <3>1
    <3>3. x = m /\ ~Active(m) /\ m.file < nextFile /\ m.file \in Nat
      BY <1>m, <2>3, <3>2 DEF MemsOrdered
    <3>4. f # j
      BY <1>1, <1>2, <3>3
    <3> QED
      BY <1>2, <3>3, <3>4, JobKinds DEF Active, Moves
  <2>4. ASSUME NEW f \in FlushJobs, NEW g \in FlushJobs, pc'[f] \in Unfinished,
               pc'[g] \in Unfinished, out'[f] = out'[g]
        PROVE  f = g
    <3>1. \A k \in FlushJobs : out[k] < nextFile /\ out[k] \in Nat
      BY <1>1, JobKinds DEF TInv, TypeOK, JobType, File, None, NInv, RamSpent,
         Up, Running
    <3>2. \A k \in FlushJobs \ {j} : pc'[k] = pc[k] /\ out'[k] = out[k]
      BY <1>2, JobKinds DEF Moves
    <3>3. CASE f = j \/ g = j
      BY <1>1, <1>2, <2>4, <3>1, <3>2, <3>3
    <3>4. CASE f # j /\ g # j
      BY <1>m, <2>4, <3>2, <3>4 DEF MemsOrdered
    <3> QED
      BY <3>3, <3>4
  <2>2. ASSUME NEW x \in imm', NEW y \in imm', x.id <= y.id
        PROVE  x.file <= y.file
    <3>1. CASE x.id = nextFile
      BY <1>1, <1>n, <2>2, <3>1
    <3>2. CASE x.id < nextFile /\ y.id = nextFile
      BY <1>1, <1>m, <1>n, <3>2
    <3>3. CASE x.id < nextFile /\ y.id < nextFile
      <4>1. PICK m \in imm : /\ x.id = m.id
                             /\ m.file # None => x = m
                             /\ m.file = None => x.file = nextFile
        BY <1>n, <3>3
      <4>2. PICK l \in imm : /\ y.id = l.id
                             /\ l.file # None => y = l
                             /\ l.file = None => y.file = nextFile
        BY <1>n, <3>3
      <4>3. m.file = None <=> l.file = None
        BY <1>1, <1>m DEF MemsOrdered
      <4>4. m.file # None => m.file <= l.file
        BY <1>m, <2>2, <4>1, <4>2, <4>3 DEF MemsOrdered
      <4> QED
        BY <1>1, <4>1, <4>2, <4>3, <4>4
    <3> QED
      BY <1>1, <1>n, <3>1, <3>2, <3>3
  <2> QED
    BY <1>n, <2>1, <2>2, <2>3, <2>4 DEF MemsOrdered
<1>11. OneCommitter'
  <2>1. \A k \in Jobs : /\ pc'[k] \in Committer <=> pc[k] \in Committer
                        /\ pc[k] \in Committer => k # j /\ out'[k] = out[k]
    BY <1>0, <1>1, <1>2, JobKinds DEF Moves, Committer
  <2>2. ASSUME NEW k \in Jobs, pc[k] \in Committer, NEW x \in imm'
        PROVE  out[k] <= x.file
    <3>1. out[k] \in Nat /\ out[k] < nextFile
      BY <1>1 DEF TInv, TypeOK, JobType, File, None, NInv, RamSpent, Up, Running
    <3>2. x.file = nextFile \/ x \in imm
      BY <1>1, <1>n
    <3> QED
      BY <1>1, <1>m, <1>n, <2>2, <3>1, <3>2 DEF OneCommitter
  <2>3. ASSUME ~committing, NEW x \in imm'
        PROVE  \E older \in imm' : older.id <= x.id /\ ~older.done
    <3>1. CASE x.id = nextFile
      BY <1>1, <1>n, <3>1
    <3>2. CASE x.id < nextFile
      <4>1. PICK m \in imm : x.id = m.id
        BY <1>n, <3>2
      <4>2. PICK o \in imm : o.id <= m.id /\ ~o.done
        BY <1>m, <2>3 DEF OneCommitter
      <4>3. PICK y \in imm' : y.id = o.id /\ y.done = o.done
        BY FlushStartMems
      <4> QED
        BY <4>1, <4>2, <4>3
    <3> QED
      BY <1>1, <1>n, <3>1, <3>2
  <2> QED
    BY <1>1, <1>m, <2>1, <2>2, <2>3 DEF OneCommitter
<1>12. MemsHeld'
  <2> SUFFICES ASSUME NEW x \in imm', x.has, Reachable(x)' PROVE Held(x.file)'
    BY DEF MemsHeld
  <2>1. x \in imm /\ x.file # None
    <3>1. x.id < nextFile
      BY <1>1, <1>n
    <3>2. PICK m \in imm : /\ x.has = m.has /\ (m.file # None => x = m)
      BY <1>n, <3>1
    <3> QED
      BY <1>m, <3>2 DEF Mem
  <2>2. Reachable(x)
    <3> SUFFICES ASSUME NEW o \in imm, o.id <= x.id, ~o.done PROVE Active(o)
      BY DEF Reachable
    <3>1. o.file # None
      BY <1>1, <1>m, <2>1 DEF MemsOrdered
    <3>2. o \in imm'
      BY <3>1, FlushStartMems
    <3>3. Active(o)'
      BY <3>2 DEF Reachable
    <3>4. PICK f \in FlushJobs : out'[f] = o.file /\ pc'[f] \in Unfinished
      BY <3>3 DEF Active
    <3>5. f # j
      BY <1>1, <1>2, <1>m, <3>4
    <3> QED
      BY <1>2, <3>4, <3>5, JobKinds DEF Active, Moves
  <2>3. Held(x.file)
    BY <1>m, <2>1, <2>2 DEF MemsHeld
  <2> QED
    BY <1>1, <2>3 DEF Held, Opens, Doomed
<1>13. Alone'
  <2>0. Alone
    BY <1>1, Parts
  <2>1. ASSUME ~AllowManifestError, NEW f \in FlushJobs PROVE pc'[f] # "restored"
    BY <1>2, <2>0, <2>1, JobKinds DEF Alone, Moves
  <2>2. ASSUME AllowManifestError PROVE AloneOf(j)'
    <3>1. AllNone
      BY <1>1, <2>0, <2>2 DEF Alone, AloneOf, Unfinished
    <3>2. \A x \in imm' : x.file = out'[j]
      BY <1>1, <1>2, <1>n, <3>1 DEF AllNone
    <3> QED
      BY <1>2, <3>2 DEF AloneOf, Moves, Unfinished
  <2> QED
    BY <2>1, <2>2, OneThread DEF Alone
<1> QED
  BY <1>1, <1>4, <1>7, <1>8, <1>9, <1>10, <1>11, <1>12, <1>13, WholeStep

\* GenerateKey keeps the invariant: from here on the flush's file has a key.
LEMMA GenerateKeySafe ==
  ASSUME TInv, TInv', NInv, SInv, NEW j \in FlushJobs, GenerateKey(j)
  PROVE  SInv'
<1>0. j \in Jobs /\ j \in Holders
  BY JobKinds
<1>1. /\ Running /\ Running' /\ pc[j] = "gen" /\ OutputHeld(j)
      /\ UNCHANGED <<table, version, sv, obsolete, imm, committing, writers,
                     pend, pins, ins, out, outs, del, todo, bgError, nextFile>>
  BY <1>0, Parts DEF GenerateKey, disk, logVars, memVars, fileVars, bootVars,
                     Running
<1>2. Lone(j, "build")
  BY <1>0, <1>1 DEF GenerateKey, Lone, Moves, TInv, TypeOK, JobType
<1>3. out[j] \in File
  BY <1>0, <1>1 DEF TInv, Shape, Building
<1>4. /\ KeyList'[out[j]] # NoKey
      /\ \A n \in File : KeyList[n] # NoKey => KeyList'[n] = KeyList[n]
  BY <1>3 DEF GenerateKey, AddSSTKeyToList, TInv, TypeOK, KeyType, BootType,
              Boot, NoKey
<1>5. Sparing
  BY <1>1, <1>4, CalmStep
<1>6. TablesStay /\ TablesFit
  BY <1>1 DEF TablesStay, TablesFit, TInv, TypeOK, FileType
<1>7. FlushesApart
  BY <1>0, <1>1, <1>2, JobKinds
     DEF FlushesApart, SameCommitter, SameFlushes, SameFlushWork, Lone, Moves,
         Unfinished, Committer
<1>8. PurgeOf(j)'
  BY <1>0, <1>1, <1>2, PurgeIdle DEF Purging, Lone, Moves
<1>9. OutputHeld(j)'
  <2>1. \A n \in outs[j] : Held(n)' /\ Shields(j, n)'
    BY <1>0, <1>1, <1>5, SparedHeld DEF OutputHeld, Sparing, Held, Shields
  <2>2. ~Doomed(out[j])' /\ Shields(j, out[j])'
    BY <1>1 DEF OutputHeld, WithOutput, Doomed, Shields
  <2> QED
    BY <1>0, <1>1, <1>2, <1>4, <2>1, <2>2, JobKinds
       DEF OutputHeld, Lone, Moves, WithOutput, Resting, Purging
<1>10. FilesHeld'
  BY <1>1, <1>5, FilesSame
<1>11. QueueHeld'
  BY <1>0, <1>1, <1>2, <1>5, <1>6, QueueSame DEF Waiting, TablesStay, Lone
<1> QED
  BY <1>0, <1>1, <1>2, <1>5, <1>6, <1>7, <1>8, <1>9, <1>10, <1>11, LoneApart

\* A flush that fails leaves its memtables without a table, and makes no other
\* memtable reachable.
LEMMA FlushFailsReach ==
  ASSUME TInv, NEW j \in FlushJobs, FlushFails(j),
         NEW x \in imm', x.has, Reachable(x)'
  PROVE  x \in imm /\ Reachable(x)
<1> DEFINE failed == {m \in imm : m.file = out[j]}
<1>1. /\ \A y \in imm' : \E m \in imm : Rolled(m, y, failed)
      /\ \A m \in imm : \E y \in imm' : Rolled(m, y, failed)
  <2>1. imm' = Rollback(imm, failed)
    BY DEF FlushFails
  <2> QED
    BY <2>1, RolledBack DEF TInv, TypeOK
<1> HIDE DEF failed
<1>2. \A f \in FlushJobs :
        /\ out'[f] = out[f]
        /\ pc'[f] \in Unfinished => f # j /\ pc[f] \in Unfinished
  BY JobKinds DEF FlushFails, Unfinished, TInv, TypeOK, JobType
<1>3. x \in imm
  BY <1>1 DEF Rolled
<1>4. ASSUME NEW o \in imm, o.id <= x.id, ~o.done PROVE Active(o)
  <2>1. PICK y \in imm' : Rolled(o, y, failed)
    BY <1>1
  <2>2. Active(y)'
    BY <1>4, <2>1 DEF Reachable, Rolled
  <2>3. PICK f \in FlushJobs : out[f] = y.file /\ pc[f] \in Unfinished
    BY <1>2, <2>2 DEF Active
  <2>4. out[f] # None
    BY <2>3, JobKinds DEF TInv, Shape, Building, Unfinished, File, None
  <2> QED
    BY <2>1, <2>3, <2>4 DEF Rolled, Active
<1> QED
  BY <1>3, <1>4 DEF Reachable

\* FlushFails keeps the invariant: the memtables behind it stay unreachable.
LEMMA FlushFailsSafe ==
  ASSUME OneFlushThread, TInv, TInv', NInv, SInv, NEW j \in FlushJobs,
         FlushFails(j)
  PROVE  SInv'
<1>0. j \in Jobs /\ j \in Holders
  BY JobKinds
<1>1. /\ Running /\ Running' /\ pc[j] = "build" /\ bgError' /\ UnrefVersions
      /\ UNCHANGED <<KeyList, table, version, sv, committing, writers,
                     pend, ins, out, outs, del, todo, nextFile>>
  BY DEF FlushFails, disk, logVars, bootVars, Running
<1>2. /\ Moves(j, "failed") /\ pins'[j] = {}
      /\ \A k \in Holders \ {j} : pins'[k] = pins[k]
  BY <1>0 DEF FlushFails, Moves, TInv, TypeOK, JobType
<1>b. MemsOrdered /\ OneCommitter /\ MemsHeld /\ Alone
  BY <1>1, Parts
<1> DEFINE failed == {m \in imm : m.file = out[j]}
<1>a. /\ \A x \in imm' : \E m \in imm : Rolled(m, x, failed)
      /\ \A m \in imm : \E x \in imm' : Rolled(m, x, failed)
  <2>1. imm' = Rollback(imm, failed)
    BY DEF FlushFails
  <2> QED
    BY <2>1, RolledBack DEF TInv, TypeOK
<1>u. \A m \in failed : ~m.done
  BY <1>1, <1>b DEF MemsOrdered, Active, Unfinished
<1>f. \A m : m \in failed <=> m \in imm /\ m.file = out[j]
  OBVIOUS
<1> HIDE DEF failed
<1>s. /\ \A f \in FlushJobs :
           /\ out'[f] = out[f]
           /\ pc'[f] \in Unfinished => f # j /\ pc[f] \in Unfinished
  BY <1>1, <1>2, JobKinds DEF Moves, Unfinished
<1>3. Sparing
  BY <1>1, CalmStep
<1>4. TablesStay /\ TablesFit /\ nextFile <= nextFile'
  BY <1>1 DEF TablesStay, TablesFit, TInv, TypeOK, FileType
<1>5. PurgeOf(j)'
  BY <1>0, <1>1, <1>2, PurgeIdle DEF Purging, Moves
<1>6. OutputHeld(j)'
  BY <1>0, <1>1, <1>2, <1>3, <1>4, OutputMoved
     DEF Moves, WithKey, WithOutput, Committer, Resting, Purging
<1>7. PurgeShape' /\ OutputsHeld'
  BY <1>0, <1>1, <1>2, <1>3, <1>4, <1>5, <1>6, MoveParts DEF UnrefVersions
<1>8. FilesHeld'
  <2>1. Live' \subseteq Live
    BY <1>0, <1>1, <1>2 DEF Live
  <2> QED
    BY <1>0, <1>1, <1>2, <1>3, <2>1, FilesKept, Parts, JobKinds DEF FilesHeld
<1>9. QueueHeld'
  <2>1. SameQueue
    BY <1>0, <1>1, <1>2, JobKinds DEF SameQueue, Moves, Waiting
  <2>2. SameMems
    BY <1>a, <1>u DEF SameMems, Rolled
  <2> QED
    BY <1>1, <1>3, <1>4, <2>1, <2>2, QueueKept, Parts
<1>10. MemsOrdered'
  <2>1. ASSUME NEW x \in imm'
        PROVE  x.id < nextFile' /\ (x.done => x.file # None /\ ~Active(x)')
    <3>1. PICK m \in imm : Rolled(m, x, failed)
      BY <1>a
    <3>2. x.id < nextFile'
      BY <1>1, <1>b, <3>1 DEF Rolled, MemsOrdered
    <3>3. CASE m \in failed
      BY <3>1, <3>2, <3>3 DEF Rolled
    <3>4. CASE m \notin failed
      <4>1. x = m
        BY <3>1, <3>4 DEF Rolled
      <4>2. x.done => x.file # None /\ ~Active(m)
        BY <1>b, <4>1 DEF MemsOrdered
      <4> QED
        BY <1>s, <3>2, <4>1, <4>2 DEF Active
    <3> QED
      BY <3>3, <3>4
  <2>2. ASSUME NEW x \in imm', NEW y \in imm', x.id <= y.id, x.file # None,
               y.file # None
        PROVE  x.file <= y.file
    BY <1>a, <1>b, <2>2 DEF Rolled, MemsOrdered
  <2>3. \A f, g \in FlushJobs :
          pc'[f] \in Unfinished /\ pc'[g] \in Unfinished /\ out'[f] = out'[g]
            => f = g
    BY <1>b, <1>s DEF MemsOrdered
  <2> QED
    BY <1>1, <2>1, <2>2, <2>3 DEF MemsOrdered
<1>11. OneCommitter'
  <2>1. \A k \in Jobs : pc'[k] \in Committer <=> pc[k] \in Committer
    BY <1>0, <1>1, <1>2, JobKinds DEF Moves, Committer
  <2>2. ASSUME NEW k \in Jobs, pc[k] \in Committer, NEW x \in imm', x.file # None
        PROVE  out[k] <= x.file
    BY <1>a, <1>b, <2>2 DEF OneCommitter, Rolled
  <2>3. ASSUME ~committing, NEW x \in imm'
        PROVE  \E older \in imm' : older.id <= x.id /\ ~older.done
    <3>1. PICK m \in imm : x.id = m.id
      BY <1>a DEF Rolled
    <3>2. PICK o \in imm : o.id <= m.id /\ ~o.done
      BY <1>b, <2>3 DEF OneCommitter
    <3>3. PICK y \in imm' : y.id = o.id /\ ~y.done
      BY <1>a, <3>2 DEF Rolled
    <3> QED
      BY <3>1, <3>2, <3>3
  <2> QED
    BY <1>1, <1>b, <2>1, <2>2, <2>3 DEF OneCommitter
<1>12. MemsHeld'
  <2> SUFFICES ASSUME NEW x \in imm', x.has, Reachable(x)' PROVE Held(x.file)'
    BY DEF MemsHeld
  <2>1. x \in imm
    BY FlushFailsReach
  <2>2. Reachable(x)
    BY FlushFailsReach
  <2>3. PICK f \in FlushJobs : /\ pc[f] \in Unfinished \cup Committer
                              /\ Shields(f, x.file) /\ x.file \in File
    BY <1>1, <1>b, <2>1, <2>2, MemShielded, Parts
  <2>4. Shields(f, x.file)' /\ f \in Jobs
    BY <1>1, <2>3, JobKinds DEF Shields
  <2>5. Spared(x.file)
    BY <1>3, <2>3, <2>4 DEF Sparing
  <2>6. Held(x.file)
    BY <1>b, <2>1, <2>2 DEF MemsHeld
  <2>7. PICK n : n = x.file
    OBVIOUS
  <2> QED
    BY <2>5, <2>6, <2>7, SparedHeld
<1>13. Alone'
  <2>1. ASSUME ~AllowManifestError, NEW f \in FlushJobs PROVE pc'[f] # "restored"
    BY <1>1, <1>2, <2>1, Parts, JobKinds DEF Alone, Moves
  <2>2. AloneOf(j)'
    BY <1>1, <1>2 DEF AloneOf, Moves, Unfinished
  <2> QED
    BY <2>1, <2>2, OneThread DEF Alone
<1> QED
  BY <1>1, <1>4, <1>7, <1>8, <1>9, <1>10, <1>11, <1>12, <1>13, WholeStep

\* The memtables of a table that is built.
LEMMA BuildFlushTableMems ==
  ASSUME TInv, NEW j \in FlushJobs, NEW has \in BOOLEAN,
         imm' = {IF m.file = out[j] THEN [m EXCEPT !.has = has] ELSE m :
                 m \in imm}
  PROVE  /\ \A x \in imm' : \E m \in imm :
              /\ x.id = m.id /\ x.file = m.file /\ x.done = m.done
              /\ x.has = IF m.file = out[j] THEN has ELSE m.has
         /\ \A m \in imm : \E x \in imm' :
              x.id = m.id /\ x.file = m.file /\ x.done = m.done
<1> DEFINE Set(m) == IF m.file = out[j] THEN [m EXCEPT !.has = has] ELSE m
<1>1. ASSUME NEW m \in imm
      PROVE  /\ Set(m).id = m.id /\ Set(m).file = m.file
             /\ Set(m).done = m.done
             /\ Set(m).has = IF m.file = out[j] THEN has ELSE m.has
  <2>1. m \in [id : File, file : File \cup {None}, done : BOOLEAN, has : BOOLEAN]
    BY DEF TInv, TypeOK, MemType, Mem
  <2> QED
    BY <2>1
<1>2. imm' = {Set(m) : m \in imm}
  OBVIOUS
<1> HIDE DEF Set
<1> QED
  BY <1>1, <1>2

\* BuildFlushTable keeps the invariant: the table is written under the key of
\* the list, so its memtables have a file that can be read.
LEMMA BuildFlushTableSafe ==
  ASSUME OneFlushThread, TInv, TInv', NInv, SInv, NEW j \in FlushJobs,
         BuildFlushTable(j)
  PROVE  SInv'
<1>0. j \in Jobs /\ j \in Holders
  BY JobKinds
<1>1. /\ Running /\ Running' /\ pc[j] = "build" /\ UnrefVersions
      /\ OutputHeld(j)
      /\ UNCHANGED <<KeyList, version, sv, committing, writers,
                     pend, ins, out, outs, del, todo, nextFile, bgError>>
  BY <1>0, Parts DEF BuildFlushTable, logVars, memVars, bootVars, Running
<1>2. /\ Moves(j, "install") /\ pins'[j] = {}
      /\ \A k \in Holders \ {j} : pins'[k] = pins[k]
  BY <1>0 DEF BuildFlushTable, Moves, TInv, TypeOK, JobType
<1>3. PICK has \in BOOLEAN :
        /\ table' = IF has THEN [table EXCEPT ![out[j]] = KeyList[out[j]]]
                    ELSE table
        /\ imm' = {IF m.file = out[j] THEN [m EXCEPT !.has = has] ELSE m :
                   m \in imm}
  BY DEF BuildFlushTable
<1>4. /\ out[j] \in File /\ KeyList[out[j]] # NoKey /\ ~Doomed(out[j])
      /\ out[j] < nextFile
  BY <1>0, <1>1 DEF OutputHeld, WithKey, WithOutput, TInv, Shape, Building, NInv,
                    RamSpent, Up, Running
<1>5. \A n \in File :
        table'[n] = IF has /\ n = out[j] THEN KeyList[out[j]] ELSE table[n]
  BY <1>3, <1>4 DEF TInv, TypeOK, KeyType
<1>a. /\ \A x \in imm' : \E m \in imm :
           /\ x.id = m.id /\ x.file = m.file /\ x.done = m.done
           /\ x.has = IF m.file = out[j] THEN has ELSE m.has
      /\ \A m \in imm : \E x \in imm' :
           x.id = m.id /\ x.file = m.file /\ x.done = m.done
  BY <1>3, BuildFlushTableMems
<1>6. Sparing /\ \A n \in File : Spared(n)
  BY <1>1, <1>5, CalmStep
<1>7. TablesStay /\ TablesFit /\ nextFile <= nextFile'
  BY <1>1, <1>4, <1>5 DEF TablesStay, TablesFit, TInv, TypeOK, FileType
<1>8. PurgeOf(j)'
  BY <1>0, <1>1, <1>2, PurgeIdle DEF Purging, Moves
<1>9. OutputHeld(j)'
  BY <1>0, <1>1, <1>2, <1>6, <1>7, OutputMoved
     DEF Moves, WithKey, WithOutput, Committer, Resting, Purging
<1>10. PurgeShape' /\ OutputsHeld'
  BY <1>0, <1>1, <1>2, <1>6, <1>7, <1>8, <1>9, MoveParts DEF UnrefVersions
<1>11. FilesHeld'
  <2>1. Live' \subseteq Live
    BY <1>0, <1>1, <1>2 DEF Live
  <2> QED
    BY <1>0, <1>1, <1>2, <1>6, <2>1, FilesKept, Parts, JobKinds DEF FilesHeld
<1>12. QueueHeld'
  <2>1. SameQueue
    BY <1>0, <1>1, <1>2, JobKinds DEF SameQueue, Moves, Waiting
  <2>2. SameMems
    BY <1>a DEF SameMems
  <2> QED
    BY <1>1, <1>6, <1>7, <2>1, <2>2, QueueKept, Parts
<1>b. MemsOrdered /\ OneCommitter /\ MemsHeld /\ Alone
  BY <1>1, Parts
<1>13. MemsOrdered'
  <2>1. ASSUME NEW x \in imm'
        PROVE  x.id < nextFile' /\ (x.done => x.file # None)
    BY <1>1, <1>a, <1>b DEF MemsOrdered
  <2>2. ASSUME NEW x \in imm', NEW y \in imm'
        PROVE  /\ ~bgError /\ x.file = None => y.file = None
               /\ x.id <= y.id /\ x.file # None /\ y.file # None
                    => x.file <= y.file
    <3>1. PICK m \in imm : x.id = m.id /\ x.file = m.file
      BY <1>a
    <3>2. PICK l \in imm : y.id = l.id /\ y.file = l.file
      BY <1>a
    <3> QED
      BY <1>b, <3>1, <3>2 DEF MemsOrdered
  <2>3. \A f \in FlushJobs :
          out'[f] = out[f] /\ (pc'[f] \in Unfinished => pc[f] \in Unfinished)
    BY <1>1, <1>2, JobKinds DEF Moves, Unfinished
  <2>4. ASSUME NEW x \in imm', x.done PROVE ~Active(x)'
    <3>1. PICK m \in imm : x.file = m.file /\ x.done = m.done
      BY <1>a
    <3>2. ~Active(m)
      BY <1>b, <2>4, <3>1 DEF MemsOrdered
    <3> QED
      BY <2>3, <3>1, <3>2 DEF Active
  <2>5. \A f, g \in FlushJobs :
          pc'[f] \in Unfinished /\ pc'[g] \in Unfinished /\ out'[f] = out'[g]
            => f = g
    BY <1>b, <2>3 DEF MemsOrdered
  <2> QED
    BY <1>1, <2>1, <2>2, <2>4, <2>5 DEF MemsOrdered
<1>14. OneCommitter'
  <2>1. \A k \in Jobs : pc'[k] \in Committer <=> pc[k] \in Committer
    BY <1>0, <1>1, <1>2, JobKinds DEF Moves, Committer
  <2>2. ASSUME NEW k \in Jobs, pc[k] \in Committer, NEW x \in imm', x.file # None
        PROVE  out[k] <= x.file
    BY <1>a, <1>b, <2>2 DEF OneCommitter
  <2>3. ASSUME ~committing, NEW x \in imm'
        PROVE  \E older \in imm' : older.id <= x.id /\ ~older.done
    <3>1. PICK m \in imm : x.id = m.id
      BY <1>a
    <3>2. PICK o \in imm : o.id <= m.id /\ ~o.done
      BY <1>b, <2>3 DEF OneCommitter
    <3> QED
      BY <1>a, <3>1, <3>2
  <2> QED
    BY <1>1, <1>b, <2>1, <2>2, <2>3 DEF OneCommitter
<1>15. MemsHeld'
  <2> SUFFICES ASSUME NEW x \in imm', x.has, Reachable(x)' PROVE Held(x.file)'
    BY DEF MemsHeld
  <2>1. PICK m \in imm : /\ x.id = m.id /\ x.file = m.file
                         /\ x.has = IF m.file = out[j] THEN has ELSE m.has
    BY <1>a
  <2>2. PICK n : n = m.file
    OBVIOUS
  <2>3. CASE m.file = out[j]
    BY <1>1, <1>4, <1>5, <2>1, <2>3 DEF Held, Opens, Doomed
  <2>4. CASE m.file # out[j]
    <3>1. Reachable(m)
      <4> SUFFICES ASSUME NEW o \in imm, o.id <= m.id, ~o.done PROVE Active(o)
        BY DEF Reachable
      <4>1. PICK y \in imm' : y.id = o.id /\ y.file = o.file /\ y.done = o.done
        BY <1>a
      <4>2. Active(y)'
        BY <2>1, <4>1 DEF Reachable
      <4> QED
        BY <1>1, <1>2, <4>1, <4>2, JobKinds DEF Active, Moves, Unfinished
    <3>2. Held(n)
      BY <1>b, <2>1, <2>2, <2>4, <3>1 DEF MemsHeld
    <3>3. Held(n)'
      BY <1>6, <3>2, SparedHeld DEF Held
    <3> QED
      BY <2>1, <2>2, <3>3
  <2> QED
    BY <2>3, <2>4
<1>16. Alone'
  <2>1. ASSUME ~AllowManifestError, NEW f \in FlushJobs PROVE pc'[f] # "restored"
    BY <1>b, <1>2, <2>1, JobKinds DEF Alone, Moves
  <2>2. ASSUME AllowManifestError PROVE AloneOf(j)'
    <3>1. \A m \in imm : m.file = out[j]
      BY <1>1, <1>b, <2>2 DEF Alone, AloneOf, Unfinished
    <3> QED
      BY <1>1, <1>2, <1>a, <3>1 DEF AloneOf, Moves, Unfinished
  <2> QED
    BY <2>1, <2>2, OneThread DEF Alone
<1> QED
  BY <1>1, <1>7, <1>10, <1>11, <1>12, <1>13, <1>14, <1>15, <1>16, WholeStep

-----------------------------------------------------------------------------
(* The commit loop *)

\* The memtables of a flush that is completed.
LEMMA InstallMems ==
  ASSUME TInv, NEW j \in FlushJobs, TryInstallMemtableFlushResults(j)
  PROVE  /\ \A x \in imm' : \E m \in imm :
              /\ x.id = m.id /\ x.file = m.file /\ x.has = m.has
              /\ x.done <=> (m.done \/ m.file = out[j])
         /\ \A m \in imm : \E x \in imm' :
              /\ x.id = m.id /\ x.file = m.file
              /\ x.done <=> (m.done \/ m.file = out[j])
<1> DEFINE Set(m) == IF m.file = out[j] THEN [m EXCEPT !.done = TRUE] ELSE m
<1>1. ASSUME NEW m \in imm
      PROVE  /\ Set(m).id = m.id /\ Set(m).file = m.file
             /\ Set(m).has = m.has
             /\ Set(m).done <=> (m.done \/ m.file = out[j])
  <2>1. m \in [id : File, file : File \cup {None}, done : BOOLEAN, has : BOOLEAN]
    BY DEF TInv, TypeOK, MemType, Mem
  <2> QED
    BY <2>1
<1>2. imm' = {Set(m) : m \in imm}
  BY DEF TryInstallMemtableFlushResults
<1> HIDE DEF Set
<1> QED
  BY <1>1, <1>2

\* TryInstallMemtableFlushResults keeps the invariant: the thread that enters
\* the commit loop is the one of the oldest memtable, so its pending output
\* shields everything it commits.
LEMMA TryInstallMemtableFlushResultsSafe ==
  ASSUME OneFlushThread, TInv, TInv', NInv, SInv, NEW j \in FlushJobs,
         TryInstallMemtableFlushResults(j)
  PROVE  SInv'
<1>0. j \in Jobs /\ j \in Holders
  BY JobKinds
<1> DEFINE commits == ~committing /\ Committable(imm') # {}
           to == IF commits THEN "commit" ELSE "key"
<1>1. /\ Running /\ Running' /\ pc[j] = "install"
      /\ UNCHANGED <<KeyList, table, version, sv, obsolete, writers, pend, pins,
                     ins, out, outs, del, todo, nextFile, bgError>>
  BY DEF TryInstallMemtableFlushResults, disk, logVars, fileVars, bootVars,
         Running
<1>2. /\ Moves(j, to) /\ committing' = (committing \/ commits)
      /\ to \in {"commit", "key"} /\ (to = "commit" <=> commits)
  BY <1>0 DEF TryInstallMemtableFlushResults, Moves, TInv, TypeOK, JobType
<1>c. commits <=> (~committing /\ Committable(imm') # {})
  OBVIOUS
<1> HIDE DEF commits, to
<1>a. /\ \A x \in imm' : \E m \in imm :
           /\ x.id = m.id /\ x.file = m.file /\ x.has = m.has
           /\ x.done <=> (m.done \/ m.file = out[j])
      /\ \A m \in imm : \E x \in imm' :
           /\ x.id = m.id /\ x.file = m.file
           /\ x.done <=> (m.done \/ m.file = out[j])
  BY InstallMems
<1>b. MemsOrdered /\ OneCommitter /\ MemsHeld /\ Alone
  BY <1>1, Parts
<1>3. Sparing
  BY <1>1, CalmStep
<1>4. TablesStay /\ TablesFit /\ nextFile <= nextFile'
  BY <1>1 DEF TablesStay, TablesFit, TInv, TypeOK, FileType
<1>5. PurgeOf(j)'
  BY <1>0, <1>1, <1>2, PurgeIdle DEF Purging, Moves
<1>6. OutputHeld(j)'
  BY <1>0, <1>1, <1>2, <1>3, <1>4, OutputMoved
     DEF Moves, WithKey, WithOutput, Committer, Resting, Purging
<1>7. PurgeShape' /\ OutputsHeld'
  BY <1>0, <1>1, <1>2, <1>3, <1>4, <1>5, <1>6, MoveParts
<1>8. FilesHeld'
  BY <1>1, <1>3, FilesSame
<1>9. QueueHeld'
  <2>1. SameQueue
    BY <1>0, <1>1, <1>2, JobKinds DEF SameQueue, Moves, Waiting
  <2>2. SameMems
    BY <1>a DEF SameMems
  <2> QED
    BY <1>1, <1>3, <1>4, <2>1, <2>2, QueueKept, Parts
<1>o. out[j] \in File /\ out[j] # None
  BY <1>0, <1>1 DEF TInv, Shape, Building, File, None
<1>10. MemsOrdered'
  <2>1. ASSUME NEW x \in imm'
        PROVE  x.id < nextFile' /\ (x.done => x.file # None)
    BY <1>1, <1>a, <1>b, <1>o DEF MemsOrdered
  <2>2. ASSUME NEW x \in imm', NEW y \in imm'
        PROVE  /\ ~bgError /\ x.file = None => y.file = None
               /\ x.id <= y.id /\ x.file # None /\ y.file # None
                    => x.file <= y.file
    <3>1. PICK m \in imm : x.id = m.id /\ x.file = m.file
      BY <1>a
    <3>2. PICK l \in imm : y.id = l.id /\ y.file = l.file
      BY <1>a
    <3> QED
      BY <1>b, <3>1, <3>2 DEF MemsOrdered
  <2>3. /\ out' = out /\ pc[j] \in Unfinished /\ pc'[j] \notin Unfinished
        /\ \A f \in FlushJobs \ {j} : pc'[f] = pc[f]
    BY <1>1, <1>2, JobKinds DEF Moves, Unfinished
  <2>4. ASSUME NEW x \in imm', x.done PROVE ~Active(x)'
    <3> SUFFICES ASSUME NEW f \in FlushJobs, out[f] = x.file,
                        pc'[f] \in Unfinished
                 PROVE  FALSE
      BY <2>3 DEF Active
    <3>1. PICK m \in imm : x.file = m.file /\ (m.done \/ m.file = out[j])
      BY <1>a, <2>4
    <3>2. f # j /\ pc[f] \in Unfinished
      BY <2>3
    <3>3. m.done
      BY <1>b, <2>3, <3>1, <3>2 DEF MemsOrdered
    <3> QED
      BY <1>b, <3>1, <3>2, <3>3 DEF MemsOrdered, Active
  <2>5. \A f, g \in FlushJobs :
          pc'[f] \in Unfinished /\ pc'[g] \in Unfinished /\ out'[f] = out'[g]
            => f = g
    BY <1>b, <2>3 DEF MemsOrdered
  <2> QED
    BY <1>1, <2>1, <2>2, <2>4, <2>5 DEF MemsOrdered
<1>11. ASSUME commits, NEW x \in imm', x.file # None PROVE out[j] <= x.file
  <2>1. PICK m \in imm : x.id = m.id /\ x.file = m.file
    BY <1>a
  <2>2. PICK d \in imm' :
          \A o \in imm' : o.id <= d.id => o.done
    BY <1>11, <1>c DEF Committable
  <2>3. PICK c \in imm : c.id = d.id
    BY <1>a
  <2>4. ASSUME NEW l \in imm, ~l.done, l.id <= c.id PROVE l.file = out[j]
    <3>1. PICK y \in imm' : y.id = l.id /\ (y.done <=> (l.done \/ l.file = out[j]))
      BY <1>a
    <3>2. y.done
      BY <2>2, <2>3, <2>4, <3>1
    <3> QED
      BY <2>4, <3>1, <3>2
  <2>5. m.id \in Nat /\ c.id \in Nat /\ \A l \in imm : l.id \in Nat
    BY DEF TInv, TypeOK, MemType, Mem, File
  <2>6. PICK q \in imm : q.id <= m.id /\ ~q.done
    BY <1>11, <1>b, <1>c DEF OneCommitter
  <2>7. PICK r \in imm : r.id <= c.id /\ ~r.done
    BY <1>11, <1>b, <1>c DEF OneCommitter
  <2>8. r.file = out[j]
    BY <2>4, <2>7
  <2>9. CASE m.id <= c.id
    <3>1. q.id <= c.id
      BY <2>5, <2>6, <2>9
    <3>2. q.file = out[j]
      BY <2>4, <2>6, <3>1
    <3> QED
      BY <1>11, <1>b, <1>o, <2>1, <2>6, <3>2 DEF MemsOrdered
  <2>10. CASE ~(m.id <= c.id)
    <3>1. r.id <= m.id
      BY <2>5, <2>7, <2>10
    <3> QED
      BY <1>11, <1>b, <1>o, <2>1, <2>8, <3>1 DEF MemsOrdered
  <2> QED
    BY <2>9, <2>10
<1>12. OneCommitter'
  <2>1. \A k \in Jobs \ {j} : pc'[k] = pc[k]
    BY <1>2, JobKinds DEF Moves
  <2>2. pc[j] \notin Committer /\ (pc'[j] \in Committer <=> commits)
    BY <1>1, <1>2 DEF Committer, Moves
  <2>3. CASE commits
    <3>1. committing' /\ \A k \in Jobs : pc[k] \notin Committer
      BY <1>2, <1>b, <1>c, <2>3 DEF OneCommitter
    <3>2. \A k \in Jobs : pc'[k] \in Committer <=> k = j
      BY <1>0, <2>1, <2>2, <2>3, <3>1
    <3> QED
      BY <1>0, <1>1, <1>11, <2>3, <3>1, <3>2 DEF OneCommitter
  <2>4. CASE ~commits
    <3>0. committing \in BOOLEAN
      BY DEF TInv, TypeOK, FlagType
    <3>1. committing' = committing
      BY <1>2, <2>4, <3>0
    <3>2. \A k \in Jobs : pc'[k] \in Committer <=> pc[k] \in Committer
      BY <1>0, <2>1, <2>2, <2>4
    <3>3. ASSUME NEW k \in Jobs, pc[k] \in Committer, NEW x \in imm',
                 x.file # None
          PROVE  out[k] <= x.file
      BY <1>a, <1>b, <3>3 DEF OneCommitter
    <3>4. ASSUME ~committing, NEW x \in imm'
          PROVE  \E older \in imm' : older.id <= x.id /\ ~older.done
      BY <1>c, <2>4, <3>4 DEF Committable
    <3> QED
      BY <1>1, <1>b, <3>1, <3>2, <3>3, <3>4 DEF OneCommitter
  <2> QED
    BY <2>3, <2>4
<1>13. MemsHeld'
  <2> SUFFICES ASSUME NEW x \in imm', x.has, Reachable(x)' PROVE Held(x.file)'
    BY DEF MemsHeld
  <2>1. PICK m \in imm : x.id = m.id /\ x.file = m.file /\ x.has = m.has
    BY <1>a
  <2>2. Reachable(m)
    <3> SUFFICES ASSUME NEW o \in imm, o.id <= m.id, ~o.done PROVE Active(o)
      BY DEF Reachable
    <3>1. PICK y \in imm' : /\ y.id = o.id /\ y.file = o.file
                            /\ y.done <=> (o.done \/ o.file = out[j])
      BY <1>a
    <3>2. CASE o.file = out[j]
      BY <1>1, <3>2 DEF Active, Unfinished
    <3>3. CASE o.file # out[j]
      <4>1. Active(y)'
        BY <2>1, <3>1, <3>3 DEF Reachable
      <4> QED
        BY <1>1, <1>2, <3>1, <4>1, JobKinds DEF Active, Moves, Unfinished
    <3> QED
      BY <3>2, <3>3
  <2>3. Held(m.file)
    BY <1>b, <2>1, <2>2 DEF MemsHeld
  <2> QED
    BY <1>1, <2>1, <2>3 DEF Held, Opens, Doomed
<1>14. Alone'
  <2>1. ASSUME ~AllowManifestError, NEW f \in FlushJobs PROVE pc'[f] # "restored"
    BY <1>b, <1>2, <2>1, JobKinds DEF Alone, Moves
  <2>2. ASSUME AllowManifestError PROVE AloneOf(j)'
    <3>1. \A m \in imm : m.file = out[j]
      BY <1>1, <1>b, <2>2 DEF Alone, AloneOf, Unfinished
    <3>2. \A x \in imm' : x.done
      BY <1>a, <3>1
    <3>3. CASE commits
      BY <1>2, <3>2, <3>3 DEF AloneOf, Moves, Unfinished
    <3>4. CASE ~commits
      <4>1. ~committing
        BY <1>1, <1>b, <2>2, OneThread, JobKinds DEF OneCommitter, Committer
      <4>2. imm' = {}
        BY <1>c, <3>2, <3>4, <4>1 DEF Committable
      <4> QED
        BY <1>2, <3>4, <4>2 DEF AloneOf, AllNone, Moves, Unfinished
    <3> QED
      BY <3>3, <3>4
  <2> QED
    BY <2>1, <2>2, OneThread DEF Alone
<1> QED
  BY <1>1, <1>4, <1>7, <1>8, <1>9, <1>10, <1>12, <1>13, <1>14, WholeStep

\* CommitMemtables keeps the invariant: what it commits has no older memtable
\* that is not flushed, so its files are held.
LEMMA CommitMemtablesSafe ==
  ASSUME TInv, TInv', NInv, SInv, NEW j \in FlushJobs, CommitMemtables(j)
  PROVE  SInv'
<1>0. j \in Jobs /\ j \in Holders
  BY JobKinds
<1>1. /\ Running /\ Running' /\ pc[j] = "commit" /\ OutputHeld(j)
      /\ UNCHANGED <<KeyList, table, version, sv, obsolete, imm, committing,
                     pend, pins, ins, out, outs, del, todo, bgError, nextFile>>
  BY <1>0, Parts DEF CommitMemtables, disk, memVars, fileVars, bootVars, Running
<1>2. Lone(j, "committing")
  BY <1>0, <1>1 DEF CommitMemtables, Lone, Moves, TInv, TypeOK, JobType
<1>3. Sparing
  BY <1>1, CalmStep
<1>4. TablesStay /\ TablesFit
  BY <1>1 DEF TablesStay, TablesFit, TInv, TypeOK, FileType
<1>5. FlushesApart
  BY <1>0, <1>1, <1>2, JobKinds
     DEF FlushesApart, SameCommitter, SameFlushes, SameFlushWork, Lone, Moves,
         Unfinished, Committer
<1>6. PurgeOf(j)'
  BY <1>0, <1>1, <1>2, PurgeIdle DEF Purging, Lone, Moves
<1>7. OutputHeld(j)'
  BY <1>0, <1>1, <1>2, <1>3, <1>4, OutputMoved
     DEF Lone, Moves, WithKey, WithOutput, Committer, Resting, Purging
<1>8. FilesHeld'
  BY <1>1, <1>3, FilesSame
<1>b. MemsOrdered /\ OneCommitter /\ MemsHeld /\ Alone /\ QueueHeld
  BY <1>1, Parts
<1>9. QueueHeld'
  <2> DEFINE add == {m.file : m \in {c \in Committable(imm) : c.has}}
             mems == {m.id : m \in Committable(imm)}
  <2>0. \A m \in imm : m \in Mem /\ m.id \in File /\ (m.has => m.file \in File)
    BY DEF TInv, TypeOK, MemType, Mem
  <2>1. add \in SUBSET File /\ mems \in SUBSET File
    BY <2>0 DEF Committable
  <2>2. PICK e \in Edit : e = [EmptyEdit EXCEPT !.add = add] /\ e.add = add
    <3>1. [EmptyEdit EXCEPT !.add = add] \in Edit
      BY <2>1, EditType
    <3>2. [EmptyEdit EXCEPT !.add = add].add = add
      BY DEF EmptyEdit
    <3> QED
      BY <3>1, <3>2
  <2>3. ASSUME NEW n \in add PROVE Held(n) /\ Shields(j, n)
    <3>1. PICK m \in imm : /\ m.file = n /\ m.has
                           /\ \A o \in imm : o.id <= m.id => o.done
      BY DEF Committable
    <3>2. Held(n)
      BY <1>b, <3>1 DEF MemsHeld, Reachable
    <3>3. n # None /\ out[j] <= n
      BY <1>0, <1>1, <1>b, <2>0, <3>1 DEF OneCommitter, Committer, File, None
    <3>4. pend[j] # None /\ pend[j] = out[j]
      BY <1>0, <1>1 DEF OutputHeld, WithOutput, WithKey, Committer, Shields
    <3> QED
      BY <3>2, <3>3, <3>4 DEF Shields
  <2>4. /\ \A n \in mems : n < nextFile
        /\ \A m \in imm : m.id \in mems => m.done
    <3>1. \A c \in Committable(imm) :
            c \in imm /\ \A o \in imm : o.id <= c.id => o.done
      BY DEF Committable
    <3>2. \A m \in imm : m.id \in Nat /\ m.id < nextFile
      BY <1>b, <2>0 DEF MemsOrdered, File
    <3>3. \A m \in imm : m.id <= m.id
      BY <3>2
    <3> QED
      BY <3>1, <3>2, <3>3
  <2>5. AllowManifestError => \A m \in imm : m.id \in mems
    <3> SUFFICES ASSUME AllowManifestError PROVE \A m \in imm : m.id \in mems
      OBVIOUS
    <3>1. \A m \in imm : m.done
      BY <1>1, <1>b DEF Alone, AloneOf
    <3> QED
      BY <3>1 DEF Committable
  <2>6. LogAndApply(j, e, mems)
    BY <2>2 DEF CommitMemtables
  <2> HIDE DEF add, mems
  <2>7. /\ pc'[j] = "committing" /\ pc[j] \notin Waiting
        /\ \A k \in Jobs \ {j} : pc'[k] = pc[k]
    BY <1>1, <1>2, JobKinds DEF Lone, Moves, Waiting
  <2>8. "committing" \in Waiting
    BY DEF Waiting
  <2> QED
    BY <1>0, <1>1, <1>3, <1>b, <2>1, <2>2, <2>3, <2>4, <2>5, <2>6, <2>7, <2>8,
       QueueAppended
<1> QED
  BY <1>0, <1>1, <1>2, <1>3, <1>4, <1>5, <1>6, <1>7, <1>8, <1>9, LoneApart

\* A thread leaves the commit loop when the oldest memtable is not flushed.
LEMMA LeaveCommitSafe ==
  ASSUME OneFlushThread, TInv, TInv', NInv, SInv, NEW j \in FlushJobs,
         CommitDone(j) \/ CommitFails(j)
  PROVE  SInv'
<1>0. j \in Jobs /\ j \in Holders
  BY JobKinds
<1>1. /\ Running /\ Running' /\ pc[j] \in {"commit", "restored"} /\ ~committing'
      /\ UNCHANGED <<KeyList, table, version, sv, obsolete, imm, writers,
                     pend, pins, ins, out, outs, del, todo, bgError, nextFile>>
  BY DEF CommitDone, CommitFails, disk, logVars, fileVars, bootVars, Running
<1>2. PICK to : to \in {"key", "keyio", "keyerr"} /\ Moves(j, to)
  <2>1. pc'[j] \in {"key", "keyio", "keyerr"}
    BY <1>0 DEF CommitDone, CommitFails, TInv, TypeOK, JobType
  <2>2. Moves(j, pc'[j])
    BY <1>0 DEF CommitDone, CommitFails, Moves, TInv, TypeOK, JobType
  <2> QED
    BY <2>1, <2>2
<1>b. MemsOrdered /\ OneCommitter /\ MemsHeld /\ Alone
  BY <1>1, Parts
<1>3. Sparing
  BY <1>1, CalmStep
<1>4. TablesStay /\ TablesFit /\ nextFile <= nextFile'
  BY <1>1 DEF TablesStay, TablesFit, TInv, TypeOK, FileType
<1>5. PurgeOf(j)'
  BY <1>0, <1>1, <1>2, PurgeIdle DEF Purging, Moves
<1>6. OutputHeld(j)'
  BY <1>0, <1>1, <1>2, <1>3, <1>4, OutputMoved
     DEF Moves, WithKey, WithOutput, Committer, Resting, Purging
<1>7. PurgeShape' /\ OutputsHeld'
  BY <1>0, <1>1, <1>2, <1>3, <1>4, <1>5, <1>6, MoveParts
<1>8. FilesHeld'
  BY <1>1, <1>3, FilesSame
<1>9. QueueHeld'
  BY <1>0, <1>1, <1>2, <1>3, <1>4, QueueSame DEF Waiting
<1>10. MemsOrdered'
  <2>1. SameFlushes
    BY <1>1, <1>2, JobKinds DEF SameFlushes, Moves, Unfinished
  <2> QED
    BY <1>1, <1>4, <1>b, <2>1, OrderKept
<1>11. pc[j] = "restored" => AllowManifestError /\ AllNone
  BY <1>b DEF Alone, AloneOf, Unfinished, Purging
<1>12. \A m \in imm : \E older \in imm : older.id <= m.id /\ ~older.done
  <2>1. CASE CommitDone(j)
    BY <2>1 DEF CommitDone, Committable
  <2>2. CASE CommitFails(j)
    <3>1. AllNone
      BY <1>11, <2>2 DEF CommitFails
    <3>2. \A m \in imm : ~m.done /\ m.id \in Nat
      BY <1>b, <3>1 DEF AllNone, MemsOrdered, TInv, TypeOK, MemType, Mem, File
    <3>3. \A m \in imm : m.id <= m.id
      BY <3>2
    <3> QED
      BY <3>2, <3>3
  <2> QED
    BY <2>1, <2>2
<1>13. OneCommitter'
  <2>1. \A k \in Jobs : pc'[k] \notin Committer
    BY <1>0, <1>1, <1>2, <1>b, JobKinds DEF OneCommitter, Committer, Moves
  <2> QED
    BY <1>1, <1>12, <2>1 DEF OneCommitter
<1>14. MemsHeld'
  <2>1. SameFlushes
    BY <1>1, <1>2, JobKinds DEF SameFlushes, Moves, Unfinished
  <2> QED
    BY <1>1, <1>3, <1>b, <2>1, MemsKept, Parts
<1>15. Alone'
  <2>1. ASSUME ~AllowManifestError, NEW f \in FlushJobs PROVE pc'[f] # "restored"
    BY <1>b, <1>2, <2>1, JobKinds DEF Alone, Moves
  <2>2. ASSUME AllowManifestError PROVE AloneOf(j)'
    <3>1. AllNone
      <4>1. CASE CommitDone(j)
        <5>1. \A m \in imm : m.done
          BY <1>b, <2>2, <4>1 DEF CommitDone, Alone, AloneOf
        <5> QED
          BY <1>12, <5>1 DEF AllNone
      <4>2. CASE CommitFails(j)
        BY <1>11, <4>2 DEF CommitFails
      <4> QED
        BY <4>1, <4>2
    <3> QED
      BY <1>1, <1>2, <3>1 DEF AloneOf, AllNone, Moves, Unfinished
  <2> QED
    BY <2>1, <2>2, OneThread DEF Alone
<1> QED
  BY <1>1, <1>4, <1>7, <1>8, <1>9, <1>10, <1>13, <1>14, <1>15, WholeStep

-----------------------------------------------------------------------------
(* The end of a MANIFEST write *)

\* The leader wakes the jobs of its group, and nobody else.
LEMMA Woken ==
  ASSUME TInv, QueueHeld, NEW ok \in BOOLEAN, WakeWriters(ok)
  PROVE  /\ \A h \in Holders :
              \/ pc'[h] = pc[h] /\ h \notin {w.job : w \in Batch}
              \/ /\ h \in {w.job : w \in Batch} /\ pc[h] \in Waiting
                 /\ pc'[h] = Resume(pc[h], ok)
         /\ \A w \in Batch : w \in Queue
         /\ \A w \in Queue' : /\ w \in Queue /\ w \in Writer
                              /\ w.job \notin {v.job : v \in Batch}
                              /\ pc'[w.job] = pc[w.job]
         /\ \A i, k \in 1 .. Len(writers') :
              writers'[i].job = writers'[k].job => i = k
<1>0. /\ writers \in Seq(Writer) /\ Len(writers) \in Nat
      /\ group.size \in Nat /\ group.size <= Len(writers)
      /\ \A w \in Queue : w \in Writer
  BY QueueType
<1>w. writers' = SubSeq(writers, group.size + 1, Len(writers))
  BY DEF WakeWriters
<1>1. /\ Len(writers') = Len(writers) - group.size
      /\ \A i \in 1 .. Len(writers') : writers'[i] = writers[i + group.size]
  BY ONLY <1>0, <1>w, SeqRest, SMTT(60)
<1>2. /\ \A i \in 1 .. Len(writers') : i + group.size \in 1 .. Len(writers)
      /\ \A i \in 1 .. group.size : i \in 1 .. Len(writers)
  BY ONLY <1>0, <1>1
<1>3. \A w \in Batch : w \in Queue /\ pc[w.job] \in Waiting
  BY <1>2 DEF Batch, Queue, QueueHeld, WriterHeld
<1>4. ASSUME NEW w \in Queue'
      PROVE  /\ w \in Queue /\ w \in Writer
             /\ w.job \notin {v.job : v \in Batch}
             /\ pc'[w.job] = pc[w.job]
  <2>1. PICK i \in 1 .. Len(writers') : w = writers'[i]
    BY DEF Queue
  <2>2. w = writers[i + group.size] /\ i + group.size \in 1 .. Len(writers)
    BY <1>1, <1>2, <2>1
  <2>3. w \in Queue /\ w \in Writer /\ w.job \in Holders
    BY <1>0, <2>2, JobKinds DEF Queue, Writer
  <2>4. ASSUME NEW v \in Batch PROVE v.job # w.job
    <3>1. PICK k \in 1 .. group.size : v = writers[k]
      BY DEF Batch
    <3>2. k \in 1 .. Len(writers) /\ k # i + group.size
      BY ONLY <1>0, <1>1, <1>2, <2>1, <3>1
    <3> QED
      BY <2>2, <3>1, <3>2 DEF QueueHeld
  <2>5. w.job \notin {v.job : v \in Batch}
    BY <2>4
  <2> QED
    BY <2>3, <2>5 DEF WakeWriters
<1>5. ASSUME NEW i \in 1 .. Len(writers'), NEW k \in 1 .. Len(writers'),
             writers'[i].job = writers'[k].job
      PROVE  i = k
  <2>1. i + group.size = k + group.size
    BY <1>1, <1>2, <1>5 DEF QueueHeld
  <2> QED
    BY <1>0, <1>1, <2>1
<1>6. ASSUME NEW h \in Holders
      PROVE  \/ pc'[h] = pc[h] /\ h \notin {w.job : w \in Batch}
             \/ /\ h \in {w.job : w \in Batch} /\ pc[h] \in Waiting
                /\ pc'[h] = Resume(pc[h], ok)
  <2>1. CASE h \in {w.job : w \in Batch}
    BY <1>3, <2>1 DEF WakeWriters
  <2>2. CASE h \notin {w.job : w \in Batch}
    BY <2>2 DEF WakeWriters
  <2> QED
    BY <2>1, <2>2
<1> QED
  BY <1>3, <1>4, <1>5, <1>6

\* What the woken jobs keep: their purges, their outputs, the work of a flush.
LEMMA WokenParts ==
  ASSUME TInv, TInv', NInv, SInv, Running, NEW ok \in BOOLEAN, WakeWriters(ok),
         UNCHANGED <<KeyList, table, nextFile, pend, out, outs, del, todo>>,
         obsolete' \subseteq obsolete \cup Live,
         \A w \in Queue' : WriterMems(w)'
  PROVE  /\ Sparing /\ TablesStay /\ TablesFit
         /\ PurgeShape' /\ OutputsHeld' /\ QueueHeld'
         /\ \A k \in Jobs : pc'[k] \in Committer <=> pc[k] \in Committer
         /\ \A k \in Jobs : pc'[k] \in Unfinished <=> pc[k] \in Unfinished
<1>0. PurgeShape /\ FilesHeld /\ OutputsHeld /\ QueueHeld
  BY Parts
<1>1. Sparing
  BY CalmStep
<1>2. TablesStay /\ TablesFit /\ nextFile <= nextFile'
  BY DEF TablesStay, TablesFit, TInv, TypeOK, FileType
<1>3. \A h \in Holders : \/ pc'[h] = pc[h]
                         \/ pc[h] \in Waiting /\ pc'[h] = Resume(pc[h], ok)
  BY <1>0, Woken
<1>4. PurgeShape'
  <2>1. ASSUME NEW h \in Holders PROVE SamePurge(h)
    BY <1>3 DEF SamePurge, Purging, Waiting, Resume
  <2> QED
    BY <1>0, <1>2, <2>1, PurgeKept
<1>5. OutputsHeld'
  <2>1. ASSUME NEW j \in Jobs PROVE SameJob(j)
    <3>1. CASE pc'[j] = pc[j]
      BY <3>1 DEF SameJob
    <3>2. CASE pc[j] \in Waiting /\ pc'[j] = Resume(pc[j], ok)
      BY <3>2 DEF SameJob, Waiting, Resume, WithKey, WithOutput, Committer,
                  Resting, Purging
    <3> QED
      BY <1>3, <3>1, <3>2, JobKinds
  <2> QED
    BY <1>0, <1>1, <1>2, <2>1, OutputKept DEF OutputsHeld
<1>6. QueueHeld'
  <2>1. ASSUME NEW w \in Queue' PROVE WriterHeld(w)'
    <3>1. w \in Queue /\ w \in Writer /\ pc'[w.job] = pc[w.job]
      BY <1>0, Woken
    <3>2. WriterHeld(w) /\ pend'[w.job] = pend[w.job]
      BY <1>0, <3>1 DEF QueueHeld
    <3> QED
      BY <1>1, <1>2, <3>1, <3>2, WriterKept
  <2>2. \A i, k \in 1 .. Len(writers') :
          writers'[i].job = writers'[k].job => i = k
    BY <1>0, Woken
  <2> QED
    BY <2>1, <2>2 DEF QueueHeld
<1>7. ASSUME NEW k \in Jobs
      PROVE  /\ pc'[k] \in Committer <=> pc[k] \in Committer
             /\ pc'[k] \in Unfinished <=> pc[k] \in Unfinished
  BY <1>3, JobKinds DEF Waiting, Resume, Committer, Unfinished
<1> QED
  BY <1>1, <1>2, <1>4, <1>5, <1>6, <1>7

\* FinishManifestWrite keeps the invariant: a version lists only files that
\* were held, and only flushed memtables leave the list.
LEMMA FinishManifestWriteSafe ==
  ASSUME TInv, TInv', NInv, SInv, FinishManifestWrite
  PROVE  SInv'
<1>1. /\ Running /\ Running' /\ WakeWriters(TRUE) /\ UnrefVersions
      /\ UNCHANGED <<KeyList, table, nextFile, pend, pins, ins, out, outs, del,
                     todo, committing, bgError, sv>>
  BY DEF FinishManifestWrite, disk, bootVars, Running
<1>2. /\ version' = (version \ UNION {w.edit.del : w \in Batch})
                      \cup UNION {w.edit.add : w \in Batch}
      /\ imm' = {m \in imm : m.id \notin UNION {w.mems : w \in Batch}}
  BY DEF FinishManifestWrite
<1>b. /\ FilesHeld /\ QueueHeld /\ MemsOrdered /\ OneCommitter /\ MemsHeld
      /\ Alone
  BY <1>1, Parts
<1>3. /\ \A h \in Holders :
           \/ pc'[h] = pc[h]
           \/ pc[h] \in Waiting /\ pc'[h] = Resume(pc[h], TRUE)
      /\ \A w \in Batch : w \in Queue
      /\ \A w \in Queue' : w \in Queue /\ pc'[w.job] = pc[w.job]
  BY <1>1, <1>b, Woken
<1>4. \A w \in Batch : WriterHeld(w)
  BY <1>3, <1>b DEF QueueHeld
<1>5. imm' \subseteq imm /\ \A m \in imm : ~m.done => m \in imm'
  BY <1>2, <1>4 DEF WriterHeld, WriterMems
<1>6. \A w \in Queue' : WriterMems(w)'
  <2>1. SameMems
    BY <1>5 DEF SameMems
  <2> QED
    BY <1>3, <1>b, <2>1, MemsStay DEF QueueHeld, WriterHeld
<1>7. obsolete' \subseteq obsolete \cup Live
  BY <1>1 DEF UnrefVersions
<1>8. /\ Sparing /\ TablesStay /\ TablesFit
      /\ PurgeShape' /\ OutputsHeld' /\ QueueHeld'
      /\ \A k \in Jobs : pc'[k] \in Committer <=> pc[k] \in Committer
      /\ \A k \in Jobs : pc'[k] \in Unfinished <=> pc[k] \in Unfinished
  BY <1>1, <1>6, <1>7, WokenParts
<1>9. FilesHeld'
  <2>1. \A n \in version' : Held(n)
    BY <1>2, <1>4, <1>b DEF WriterHeld, FilesHeld, Live
  <2>2. \A n \in Live' : Held(n)
    BY <1>1, <1>b, <2>1 DEF FilesHeld, Live
  <2> QED
    BY <1>1, <1>8, <1>b, <2>2, FilesKept DEF FilesHeld
<1>10. MemsOrdered'
  <2>1. \A f \in FlushJobs : pc'[f] \in Unfinished => pc[f] \in Unfinished
    BY <1>8, JobKinds
  <2>2. \A m \in imm : Active(m)' => Active(m)
    BY <1>1, <2>1 DEF Active
  <2> QED
    BY <1>1, <1>5, <1>b, <2>1, <2>2 DEF MemsOrdered
<1>11. OneCommitter'
  BY <1>1, <1>5, <1>8, <1>b DEF OneCommitter
<1>12. MemsHeld'
  <2> SUFFICES ASSUME NEW m \in imm', m.has, Reachable(m)' PROVE Held(m.file)'
    BY DEF MemsHeld
  <2>1. Reachable(m)
    <3> SUFFICES ASSUME NEW o \in imm, o.id <= m.id, ~o.done PROVE Active(o)
      BY DEF Reachable
    <3>1. Active(o)'
      BY <1>5 DEF Reachable
    <3> QED
      BY <1>1, <1>8, <3>1, JobKinds DEF Active
  <2>2. Held(m.file)
    BY <1>5, <1>b, <2>1 DEF MemsHeld
  <2> QED
    BY <1>1, <2>2 DEF Held, Opens, Doomed
<1>13. Alone'
  <2>1. ASSUME NEW f \in FlushJobs
        PROVE  /\ pc'[f] \in Unfinished => pc[f] \in Unfinished
               /\ pc'[f] \in {"commit", "committing"} =>
                    pc[f] \in {"commit", "committing"}
               /\ pc'[f] \notin Unfinished \cup {"commit", "committing"} =>
                    /\ pc[f] \notin Unfinished \cup {"commit", "committing"}
                    /\ pc[f] \in Purging \cup {"failed", "idle"} =>
                         pc'[f] \in Purging \cup {"failed", "idle"}
               /\ pc'[f] = "restored" => pc[f] = "restored"
    <3>1. CASE pc'[f] = pc[f]
      BY <3>1
    <3>2. CASE pc[f] \in Waiting /\ pc'[f] = Resume(pc[f], TRUE)
      BY <3>2 DEF Waiting, Resume, Unfinished, Purging
    <3> QED
      BY <1>3, <3>1, <3>2, JobKinds
  <2>2. ~AllowManifestError => \A f \in FlushJobs : pc'[f] # "restored"
    BY <1>b, <2>1 DEF Alone
  <2>3. ASSUME AllowManifestError, NEW f \in FlushJobs PROVE AloneOf(f)'
    <3>1. AloneOf(f)
      BY <1>b, <2>3 DEF Alone
    <3> QED
      BY <1>1, <1>5, <2>1, <3>1 DEF AloneOf, AllNone
  <2> QED
    BY <2>2, <2>3 DEF Alone
<1> QED
  BY <1>1, <1>8, <1>9, <1>10, <1>11, <1>12, <1>13, WholeStep

\* The memtables of the writers whose group failed can be flushed again.
LEMMA RestoredMems ==
  ASSUME TInv, ManifestWriteFails
  PROVE  \A x \in imm' : \E m \in imm :
           /\ x.id = m.id
           /\ IF m.id \in UNION {w.mems : w \in Batch}
              THEN x.file = None /\ ~x.done /\ ~x.has
              ELSE x = m
<1> DEFINE failed == {m \in imm : m.id \in UNION {w.mems : w \in Batch}}
<1>1. imm' = Rollback(imm, failed)
  BY DEF ManifestWriteFails
<1>2. \A x \in imm' : \E m \in imm : Rolled(m, x, failed)
  BY <1>1, RolledBack DEF TInv, TypeOK
<1> QED
  BY <1>2 DEF Rolled

\* The MANIFEST write fails and no thread commits in it.
LEMMA OtherWriteFailsSafe ==
  ASSUME TInv, TInv', NInv, SInv, ManifestWriteFails,
         \A w \in Batch : pc[w.job] # "committing"
  PROVE  SInv'
<1>1. /\ Running /\ Running' /\ WakeWriters(FALSE)
      /\ UNCHANGED <<KeyList, table, nextFile, pend, pins, ins, out, outs, del,
                     todo, committing, bgError, sv, version, obsolete>>
  BY DEF ManifestWriteFails, bootVars, fileVars, Running
<1>b. /\ FilesHeld /\ QueueHeld /\ MemsOrdered /\ OneCommitter /\ MemsHeld
      /\ Alone
  BY <1>1, Parts
<1>3. /\ \A h \in Holders :
           \/ pc'[h] = pc[h]
           \/ /\ h \in {w.job : w \in Batch} /\ pc[h] \in Waiting
              /\ pc'[h] = Resume(pc[h], FALSE)
      /\ \A w \in Batch : w \in Queue
      /\ \A w \in Queue' : w \in Queue /\ pc'[w.job] = pc[w.job]
  BY <1>1, <1>b, Woken
<1>4. \A w \in Batch : w.mems = {}
  BY <1>3, <1>b DEF QueueHeld, WriterHeld
<1>5. imm' = imm
  <2>1. \A m \in imm : m.id \notin UNION {w.mems : w \in Batch}
    BY <1>4
  <2> QED
    BY <2>1 DEF ManifestWriteFails, Rollback
<1>6. \A w \in Queue' : WriterMems(w)'
  BY <1>3, <1>5, <1>b, MemsStay, SameImm DEF QueueHeld, WriterHeld
<1>8. /\ Sparing /\ TablesStay /\ TablesFit
      /\ PurgeShape' /\ OutputsHeld' /\ QueueHeld'
      /\ \A k \in Jobs : pc'[k] \in Committer <=> pc[k] \in Committer
      /\ \A k \in Jobs : pc'[k] \in Unfinished <=> pc[k] \in Unfinished
  BY <1>1, <1>6, WokenParts
<1>9. FilesHeld'
  BY <1>1, <1>8, FilesSame
<1>10. FlushesApart
  <2>1. \A f \in FlushJobs : SameFlushWork(f)
    <3> TAKE f \in FlushJobs
    <3>1. CASE pc'[f] = pc[f]
      BY <1>1, <3>1 DEF SameFlushWork
    <3>2. CASE /\ pc[f] \in Waiting /\ pc[f] # "committing"
               /\ pc'[f] = Resume(pc[f], FALSE)
      BY <1>1, <3>2 DEF SameFlushWork, Waiting, Resume, Unfinished, Purging
    <3> QED
      BY <1>3, <3>1, <3>2, JobKinds
  <2> QED
    BY <1>1, <1>5, <1>8, <2>1, JobKinds DEF FlushesApart, SameCommitter, SameFlushes
<1>11. \A n \in File : table'[n] # NoKey => n < nextFile'
  BY <1>1, <1>8, TablesKept DEF TablesFit, TablesStay
<1> QED
  BY <1>1, <1>8, <1>9, <1>10, <1>11, ApartStep

\* The MANIFEST write fails in which the one flush thread commits all its
\* memtables: they are without a file again, all together.
LEMMA CommitWriteFailsSafe ==
  ASSUME OneFlushThread, TInv, TInv', NInv, SInv, ManifestWriteFails,
         NEW v \in Batch, pc[v.job] = "committing"
  PROVE  SInv'
<1>1. /\ Running /\ Running' /\ WakeWriters(FALSE) /\ AllowManifestError
      /\ UNCHANGED <<KeyList, table, nextFile, pend, pins, ins, out, outs, del,
                     todo, committing, bgError, sv, version, obsolete>>
  BY DEF ManifestWriteFails, bootVars, fileVars, Running
<1>b. /\ FilesHeld /\ QueueHeld /\ MemsOrdered /\ OneCommitter /\ MemsHeld
      /\ Alone
  BY <1>1, Parts
<1>3. /\ \A h \in Holders :
           \/ pc'[h] = pc[h] /\ h \notin {w.job : w \in Batch}
           \/ /\ h \in {w.job : w \in Batch} /\ pc[h] \in Waiting
              /\ pc'[h] = Resume(pc[h], FALSE)
      /\ \A w \in Batch : w \in Queue
      /\ \A w \in Queue' : /\ w \in Queue /\ w \in Writer
                           /\ w.job \notin {u.job : u \in Batch}
                           /\ pc'[w.job] = pc[w.job]
  BY <1>1, <1>b, Woken
<1>4. /\ v.job \in Jobs /\ v.job \in FlushJobs /\ v.job \in Holders
      /\ WriterHeld(v) /\ committing
  BY <1>3, <1>b, QueueType, JobKinds
     DEF QueueHeld, Writer, OneCommitter, Committer
<1>5. \A m \in imm : m.id \in UNION {w.mems : w \in Batch}
  BY <1>1, <1>4 DEF WriterHeld, WriterMems
<1>6. \A x \in imm' : /\ x.file = None /\ ~x.done /\ ~x.has
                      /\ \E m \in imm : x.id = m.id
  BY <1>5, RestoredMems
<1>7. \A w \in Queue' : WriterMems(w)'
  <2> TAKE w \in Queue'
  <2>1. w.job # v.job /\ w.job \in Jobs /\ WriterHeld(w)
    BY <1>3, <1>b DEF Writer, QueueHeld
  <2>2. pc[w.job] # "committing"
    BY <1>4, <1>b, <2>1 DEF OneCommitter, Committer
  <2>3. w.mems = {}
    BY <2>1, <2>2 DEF WriterHeld
  <2> QED
    BY <1>3, <2>2, <2>3 DEF WriterMems
<1>8. /\ Sparing /\ TablesStay /\ TablesFit
      /\ PurgeShape' /\ OutputsHeld' /\ QueueHeld'
      /\ \A k \in Jobs : pc'[k] \in Committer <=> pc[k] \in Committer
      /\ \A k \in Jobs : pc'[k] \in Unfinished <=> pc[k] \in Unfinished
  BY <1>1, <1>7, WokenParts
<1>9. FilesHeld'
  BY <1>1, <1>8, FilesSame
<1>10. MemsOrdered'
  <2>1. \A j \in FlushJobs : pc'[j] \in Unfinished => pc[j] \in Unfinished
    BY <1>8, JobKinds
  <2> QED
    BY <1>1, <1>6, <1>b, <2>1 DEF MemsOrdered
<1>11. OneCommitter'
  BY <1>1, <1>4, <1>6, <1>8, <1>b DEF OneCommitter
<1>12. MemsHeld'
  BY <1>6 DEF MemsHeld
<1>13. Alone'
  <2>1. pc'[v.job] = "restored"
    BY <1>3, <1>4 DEF Resume
  <2>2. \A f \in FlushJobs : f = v.job
    BY <1>1, <1>4, OneThread
  <2>3. ASSUME NEW f \in FlushJobs PROVE AloneOf(f)'
    BY <1>6, <2>1, <2>2 DEF AloneOf, AllNone, Unfinished
  <2> QED
    BY <1>1, <2>3 DEF Alone
<1> QED
  BY <1>1, <1>8, <1>9, <1>10, <1>11, <1>12, <1>13, WholeStep

\* ManifestWriteFails keeps the invariant.
LEMMA ManifestWriteFailsSafe ==
  ASSUME OneFlushThread, TInv, TInv', NInv, SInv, ManifestWriteFails
  PROVE  SInv'
<1>1. CASE \A w \in Batch : pc[w.job] # "committing"
  BY <1>1, OtherWriteFailsSafe
<1>2. CASE \E w \in Batch : pc[w.job] = "committing"
  BY <1>2, CommitWriteFailsSafe
<1> QED
  BY <1>1, <1>2

-----------------------------------------------------------------------------
(* Crash and recovery *)

\* A process that is at rest and whose versions can be read.
Rests ==
  /\ TInv /\ Running
  /\ \A n \in version \cup sv : Opens(KeyList, n)
  /\ \A n \in File : table[n] # NoKey => n < nextFile
  /\ del = [h \in Holders |-> {}] /\ pins = [h \in Holders |-> {}]
  /\ ins = [j \in Jobs |-> {}] /\ outs = [j \in Jobs |-> {}]
  /\ pc = [h \in Holders |-> "idle"] /\ obsolete = {} /\ ~committing
  /\ imm = {} /\ writers = <<>>

\* It satisfies the invariant.
LEMMA Rest == Rests => SInv
<1> SUFFICES ASSUME Rests PROVE SInv
  OBVIOUS
<1> USE DEF Rests
<1>0. \A h \in Holders : del[h] = {} /\ pins[h] = {} /\ pc[h] = "idle"
  OBVIOUS
<1>1. \A j \in Jobs : ins[j] = {} /\ outs[j] = {} /\ pc[j] = "idle"
  BY <1>0, JobKinds
<1>2. PurgeShape
  BY <1>0 DEF PurgeShape, PurgeOf, Purging
<1>3. FilesHeld
  <2>1. Live = version \cup sv /\ version \cup sv \subseteq File
    BY <1>0 DEF Live, TInv, TypeOK, FileType
  <2> QED
    BY <1>0, <1>1, <2>1, JobKinds DEF FilesHeld, Held, Doomed
<1>4. OutputsHeld
  BY <1>1 DEF OutputsHeld, OutputHeld, WithKey, WithOutput, Committer
<1>5. QueueHeld
  <2>1. Len(writers) = 0
    OBVIOUS
  <2>2. \A i \in 1 .. Len(writers) : FALSE
    BY <2>1
  <2> QED
    BY <2>2 DEF QueueHeld, Queue
<1>6. MemsOrdered /\ MemsHeld
  BY <1>0, JobKinds DEF MemsOrdered, MemsHeld, Unfinished
<1>7. OneCommitter
  BY <1>1 DEF OneCommitter, Committer
<1>8. Alone
  BY <1>1, JobKinds DEF Alone, AloneOf, AllNone, Unfinished
<1> QED
  BY <1>2, <1>3, <1>4, <1>5, <1>6, <1>7, <1>8
     DEF SInv, Serving, TablesSpent, Recovering, Running

\* A new database satisfies the invariant.
LEMMA InitSafe == Init => SInv
<1> SUFFICES ASSUME Init PROVE SInv
  OBVIOUS
<1>1. TInv
  BY InitType
<1>2. /\ \A n \in version \cup sv : Opens(KeyList, n)
      /\ \A n \in File : table[n] # NoKey => n < nextFile
  BY DEF Init
<1> QED
  BY <1>1, <1>2, Rest DEF Init, Running, Rests

\* Crash keeps the invariant.
LEMMA CrashSafe ==
  ASSUME TInv, TInv', NInv, SInv, Crash
  PROVE  SInv'
BY DEF Crash, SInv, TablesSpent, Recovering, Running

\* Recover keeps the invariant: it opens every table the MANIFEST lists.
LEMMA RecoverSafe ==
  ASSUME TInv, TInv', NInv, SInv, Recover
  PROVE  SInv'
BY DEF Recover, SInv, TablesSpent, Recovering, Running, Opens, disk, jobVars,
       memVars

\* DeleteUnreferencedSstFiles keeps the invariant: what it finds above the
\* MANIFEST's number is in no version.
LEMMA DeleteUnreferencedSstFilesSafe ==
  ASSUME TInv, TInv', NInv, SInv, DeleteUnreferencedSstFiles
  PROVE  SInv'
<1>1. /\ phase = "recovered" /\ phase' = "replayed"
      /\ UNCHANGED <<KeyList, table, version, sv, recovered, del, pins, ins,
                     obsolete, committing>>
      /\ unref' = {n \in {k \in File : table[k] # NoKey} : n >= nextFile}
  BY DEF DeleteUnreferencedSstFiles, jobVars, memVars
<1>2. nextFile \in Nat /\ nextFile' \in Nat /\ nextFile <= nextFile'
  BY DEF DeleteUnreferencedSstFiles, TInv, TypeOK, FileType, File
<1>3. ASSUME NEW n \in File, table'[n] # NoKey
      PROVE  n < nextFile' \/ n \in unref'
  BY <1>1, <1>2, <1>3 DEF File
<1>4. ASSUME NEW n \in version \cup sv \cup recovered
      PROVE  Opens(KeyList, n)' /\ n \notin unref'
  <2>1. Opens(KeyList, n) /\ n \in File
    BY <1>1 DEF SInv, Recovering, TInv, TypeOK, FileType
  <2>2. n < nextFile /\ n \in Nat
    BY <1>1, <2>1 DEF Opens, NInv, RamSpent, Up, File
  <2> QED
    BY <1>1, <1>2, <2>1, <2>2 DEF Opens
<1> QED
  BY <1>1, <1>3, <1>4 DEF SInv, TablesSpent, Recovering, Running

\* DeleteUnreferencedFile keeps the invariant.
LEMMA DeleteUnreferencedFileSafe ==
  ASSUME TInv, TInv', NInv, SInv, DeleteUnreferencedFile
  PROVE  SInv'
<1>1. /\ phase = "replayed" /\ phase' = "replayed"
      /\ UNCHANGED <<KeyList, version, sv, recovered, del, pins, ins,
                     obsolete, committing, nextFile>>
  BY DEF DeleteUnreferencedFile, jobVars, memVars, fileVars
<1>2. PICK u \in unref : /\ table' = [table EXCEPT ![u] = NoKey]
                         /\ unref' = unref \ {u}
  BY DEF DeleteUnreferencedFile
<1>3. \A n \in File : table'[n] = IF n = u THEN NoKey ELSE table[n]
  BY <1>2 DEF TInv, TypeOK, KeyType
<1>4. ASSUME NEW n \in version \cup sv \cup recovered
      PROVE  Opens(KeyList, n)' /\ n \notin unref'
  <2>1. Opens(KeyList, n) /\ n \in File /\ n \notin unref
    BY <1>1 DEF SInv, Recovering, TInv, TypeOK, FileType
  <2> QED
    BY <1>1, <1>2, <1>3, <2>1 DEF Opens
<1> QED
  BY <1>1, <1>2, <1>3, <1>4 DEF SInv, TablesSpent, Recovering, Running

\* WriteLevel0TableForRecovery keeps the invariant: the number is new, so the
\* key that is drawn for it gets into the list.
LEMMA WriteLevel0TableForRecoverySafe ==
  ASSUME TInv, TInv', NInv, SInv, WriteLevel0TableForRecovery
  PROVE  SInv'
<1>1. /\ phase = "replayed" /\ phase' = "replayed" /\ unref = {}
      /\ nextFile \in File /\ nextFile \in Nat /\ nextFile' = nextFile + 1
      /\ recovered' = recovered \cup {nextFile}
      /\ UNCHANGED <<version, sv, del, pins, ins, obsolete, committing, unref>>
  BY DEF WriteLevel0TableForRecovery, jobVars, memVars, TInv, TypeOK, FileType,
         File
<1>2. /\ KeyList'[nextFile] # NoKey /\ table'[nextFile] = KeyList'[nextFile]
      /\ \A n \in File : n # nextFile =>
           KeyList'[n] = KeyList[n] /\ table'[n] = table[n]
  BY <1>1 DEF WriteLevel0TableForRecovery, AddSSTKeyToList, TInv, TypeOK,
              KeyType, BootType, Boot, NoKey
<1>3. ASSUME NEW n \in version \cup sv \cup recovered'
      PROVE  Opens(KeyList, n)' /\ n \notin unref'
  <2>1. CASE n = nextFile
    BY <1>1, <1>2, <2>1 DEF Opens
  <2>2. CASE n # nextFile
    <3>1. Opens(KeyList, n) /\ n \in File
      BY <1>1, <2>2 DEF SInv, Recovering, TInv, TypeOK, FileType
    <3> QED
      BY <1>1, <1>2, <2>2, <3>1 DEF Opens
  <2> QED
    BY <2>1, <2>2
<1>4. ASSUME NEW n \in File, table'[n] # NoKey
      PROVE  n < nextFile'
  <2>1. n \in Nat /\ (n = nextFile \/ n < nextFile)
    BY <1>1, <1>2, <1>4 DEF SInv, TablesSpent, File
  <2> QED
    BY <1>1, <2>1
<1> QED
  BY <1>1, <1>3, <1>4 DEF SInv, TablesSpent, Recovering, Running

\* RecoverLogFiles and LogRecoveredKey keep the invariant.
LEMMA RecoverLogFilesSafe ==
  ASSUME TInv, TInv', NInv, SInv, RecoverLogFiles \/ LogRecoveredKey
  PROVE  SInv'
<1>1. CASE RecoverLogFiles
  BY <1>1 DEF RecoverLogFiles, SInv, TablesSpent, Recovering, Running, Opens,
              jobVars, memVars
<1>2. CASE LogRecoveredKey
  BY <1>2 DEF LogRecoveredKey, SInv, TablesSpent, Recovering, Running, Opens,
              jobVars, memVars, fileVars
<1> QED
  BY <1>1, <1>2

\* OpenDone keeps the invariant: the full scan keeps what the version lists.
LEMMA OpenDoneSafe ==
  ASSUME TInv, TInv', NInv, SInv, OpenDone
  PROVE  SInv'
<1>1. /\ phase = "rekey" /\ Running' /\ sv = version
      /\ UNCHANGED <<KeyList, version, sv, del, pins, ins, outs, pc, obsolete,
                     committing, nextFile, imm, writers>>
      /\ \A n \in File : table'[n] = IF n \in version THEN table[n] ELSE NoKey
  BY DEF OpenDone, SInv, Recovering, jobVars, memVars, fileVars, logVars, Running
<1>2. /\ del = [h \in Holders |-> {}] /\ pins = [h \in Holders |-> {}]
      /\ ins = [j \in Jobs |-> {}] /\ obsolete = {} /\ ~committing
  BY <1>1 DEF SInv, Recovering
<1>3. /\ outs = [j \in Jobs |-> {}] /\ pc = [h \in Holders |-> "idle"]
      /\ imm = {} /\ writers = <<>>
  BY <1>1 DEF NInv, Quiet
<1>4. \A n \in version' \cup sv' : Opens(KeyList, n)'
  BY <1>1 DEF Opens, SInv, Recovering, TInv, TypeOK, FileType
<1>5. \A n \in File : table'[n] # NoKey => n < nextFile'
  BY <1>1 DEF SInv, TablesSpent
<1>6. Rests'
  BY <1>1, <1>2, <1>3, <1>4, <1>5 DEF Rests
<1> QED
  BY <1>6, Rest, PTL

\* A step in which nothing happens keeps the invariant.
LEMMA StutterSafe ==
  ASSUME TInv, TInv', NInv, SInv, UNCHANGED vars
  PROVE  SInv'
<1>1. CASE Running
  BY <1>1, StillStep DEF vars, disk, jobVars, memVars, logVars, fileVars,
                         bootVars, Running, Live
<1>2. CASE ~Running
  BY <1>2 DEF vars, disk, jobVars, memVars, fileVars, bootVars, Running, SInv,
              TablesSpent, Recovering, Opens
<1> QED
  BY <1>1, <1>2

-----------------------------------------------------------------------------
(* The specification *)

\* Every step keeps the invariant.
LEMMA NextSafe ==
  ASSUME OneFlushThread, TInv, TInv', NInv, SInv, [Next]_vars
  PROVE  SInv'
<1>1. ASSUME NEW j \in FlushJobs, FlushStep(j) PROVE SInv'
  BY <1>1, FlushStartSafe, GenerateKeySafe, BuildFlushTableSafe, FlushFailsSafe,
     TryInstallMemtableFlushResultsSafe, CommitMemtablesSafe, LeaveCommitSafe,
     LogFlushKeySafe DEF FlushStep
<1>2. ASSUME NEW c \in CompactionJobs, CompactionStep(c) PROVE SInv'
  BY <1>2, CompactionStartSafe, OpenCompactionOutputFileSafe,
     FinishCompactionOutputFileSafe, CompactionFailsSafe,
     InstallCompactionResultsSafe, LogCompactionKeySafe, ApplyCompactionSafe
     DEF CompactionStep
<1>3. ASSUME NEW j \in Jobs, PurgeStep(j) PROVE SInv'
  BY <1>3, SetBGErrorSafe, ReleaseAndFindSafe, LogKeyDeletionSafe, EraseKeysSafe
     DEF PurgeStep
<1>4. ASSUME NEW h \in Holders, DeleteObsoleteFile(h) \/ PurgeDone(h)
      PROVE  SInv'
  BY <1>4, DeleteObsoleteFileSafe, PurgeDoneSafe
<1>5. ASSUME NEW i \in Iterators, IteratorStep(i) PROVE SInv'
  BY <1>5, NewIteratorSafe, ReadBlockSafe, DeleteIteratorSafe DEF IteratorStep
<1>6. ASSUME ManifestStep PROVE SInv'
  BY <1>6, BeginManifestWriteSafe, AppendRecordSafe, FinishManifestWriteSafe,
     ManifestWriteFailsSafe DEF ManifestStep
<1>7. ASSUME RecoveryStep PROVE SInv'
  BY <1>7, RecoverSafe, DeleteUnreferencedSstFilesSafe,
     DeleteUnreferencedFileSafe, WriteLevel0TableForRecoverySafe,
     RecoverLogFilesSafe, OpenDoneSafe DEF RecoveryStep
<1>8. ASSUME Stopped \/ UNCHANGED vars PROVE SInv'
  BY <1>8, StutterSafe DEF Stopped
<1> QED
  BY <1>1, <1>2, <1>3, <1>4, <1>5, <1>6, <1>7, <1>8, SwitchMemtableSafe,
     CrashSafe DEF Next

\* The invariant holds always, for every number of jobs, iterators, files and
\* incarnations.
THEOREM Safety ==
  ASSUME OneFlushThread
  PROVE  Spec => [](NInv /\ SInv)
<1>1. Init => NInv /\ SInv
  BY InitSpent, InitSafe
<1>2. TInv /\ TInv' /\ NInv /\ SInv /\ [Next]_vars => NInv' /\ SInv'
  BY NextSpent, NextSafe
<1> QED
  BY <1>1, <1>2, Shaped, PTL DEF Spec

\* While the database is open, every file that some version in memory lists can
\* be decrypted (LiveFilesReadable): no purge, whichever thread runs it and
\* whatever the compactions, flushes and iterators beside it do, takes the table
\* or the key of a file that is still read.
THEOREM LiveFilesStayReadable ==
  ASSUME OneFlushThread
  PROVE  Spec => []LiveFilesReadable
<1>1. SInv => LiveFilesReadable
  BY DEF SInv, Serving, FilesHeld, Held, LiveFilesReadable
<1> QED
  BY <1>1, Safety, PTL

\* No exit(-1) of FlushJob::Run, InstallCompactionResults or BlockFetcher is
\* reached (NeverAborts): whenever the running process looks a key up, in a
\* flush, a compaction, a block read or a MANIFEST write, it is there and
\* decrypts the file.
THEOREM NoAbort ==
  ASSUME OneFlushThread
  PROVE  Spec => []NeverAborts
<1>1. SInv => NeverAborts
  BY DEF SInv, NeverAborts
<1> QED
  BY <1>1, Safety, PTL

-----------------------------------------------------------------------------
(* The tables the MANIFEST lists *)

\* What a version lists when the first k edits of the queue are applied to it.
After(k) ==
  (version \ UNION {writers[i].edit.del : i \in 1 .. k})
    \cup UNION {writers[i].edit.add : i \in 1 .. k}

\* A job that has met a failed MANIFEST write and will disable file deletions.
Owes == {"restored", "keyio", "keyingio", "errio"}

\* A job whose edit adds files.
Adding == {"committing", "applying"}

\* A table that stays although no version may list it: file deletions are
\* disabled, or a job that will do so shields it.
Owed(n) ==
  /\ table[n] # NoKey /\ ~Doomed(n)
  /\ \/ disable_delete_obsolete_files_ \/ n \in version
     \/ \E j \in Jobs : pc[j] \in Owes /\ Shields(j, n)

\* Only the two installs add files.
AddsFrom == \A w \in Queue : w.edit.add # {} => pc[w.job] \in Adding

\* What the MANIFESTs on disk list.  After a failed write CURRENT still names
\* the old MANIFEST, which may hold edits of no version.
FilesListed ==
  /\ rolling => newManifest.files \subseteq After(group.done)
  /\ ~rolling /\ descriptor_log_ => manifest.files \subseteq After(group.done)
  /\ rolling /\ descriptor_log_ => manifest.files \subseteq version
  /\ ~rolling /\ ~descriptor_log_ /\ group.size # 0 =>
       manifest.files \subseteq After(group.done) /\ group.done = group.size
  /\ ~descriptor_log_ =>
       \A n \in manifest.files : n \in After(group.done) \/ Owed(n)

\* The inductive invariant, on top of SInv.
LInv ==
  /\ Running => AddsFrom /\ FilesListed
  /\ phase \in {"down", "recovered", "replayed", "rekey"} => descriptor_log_
  /\ phase = "rekey" => manifest.files = version

\* A step that writes no record, changes no version, and queues an edit with
\* files for an install only.
Plain ==
  /\ UNCHANGED <<manifest, newManifest, rolling, group, version,
                 descriptor_log_>>
  /\ \A j \in Jobs : pc[j] \in Adding => pc'[j] = pc[j]
  /\ \/ writers' = writers
     \/ \E j \in Jobs, e \in Edit, mems \in SUBSET File :
          LogAndApply(j, e, mems) /\ (e.add # {} => pc'[j] \in Adding)

\* One that also takes no table a purge does not have.
Minor ==
  /\ Plain
  /\ disable_delete_obsolete_files_ => disable_delete_obsolete_files_'
  /\ \A h \in Holders : del'[h] \subseteq del[h]
  /\ \A n \in File : table[n] # NoKey /\ ~Doomed(n) => table'[n] # NoKey
  /\ \A j \in Jobs : pc[j] \in Owes =>
       \/ disable_delete_obsolete_files_' \/ descriptor_log_
       \/ pc'[j] \in Owes /\ pend'[j] = pend[j]

\* An edit that is queued does not change what the edits before it do.
LEMMA AfterAppend ==
  ASSUME TInv, NEW k \in 0 .. Len(writers), version' = version,
         \/ writers' = writers
         \/ \E j \in Jobs, e \in Edit, mems \in SUBSET File :
              LogAndApply(j, e, mems)
  PROVE  After(k)' = After(k)
<1>1. /\ writers \in Seq(Writer) /\ Len(writers) \in Nat
  BY QueueType
<1>2. \A i \in 1 .. k : writers'[i] = writers[i]
  <2>1. \A i \in 1 .. k : i \in 1 .. Len(writers)
    BY <1>1
  <2>2. ASSUME NEW j \in Jobs, NEW e \in Edit, NEW mems \in SUBSET File,
               LogAndApply(j, e, mems)
        PROVE  \A i \in 1 .. Len(writers) : writers'[i] = writers[i]
    BY <1>1, <2>2 DEF LogAndApply
  <2> QED
    BY <2>1, <2>2
<1> QED
  BY <1>2 DEF After

\* A plain step that keeps what has to stay keeps the invariant.
LEMMA PlainStep ==
  ASSUME TInv, TInv', LInv, Running, Running', Plain,
         \A n \in File : ~descriptor_log_ /\ Owed(n) => Owed(n)'
  PROVE  LInv'
<1>1. group.done \in 0 .. Len(writers)
  BY QueueType
<1>2. PICK k : k = group.done
  OBVIOUS
<1>3. After(k)' = After(k) /\ group' = group
  BY <1>1, <1>2, AfterAppend DEF Plain
<1>4. AddsFrom'
  <2>0. AddsFrom /\ \A w \in Queue : w \in Writer
    BY QueueType DEF LInv
  <2>1. CASE writers' = writers
    BY <2>0, <2>1 DEF AddsFrom, Queue, Plain, Writer
  <2>2. ASSUME NEW j \in Jobs, NEW e \in Edit, NEW mems \in SUBSET File,
               LogAndApply(j, e, mems), e.add # {} => pc'[j] \in Adding
        PROVE  AddsFrom'
    <3>1. ASSUME NEW w \in Queue', w.edit.add # {} PROVE pc'[w.job] \in Adding
      <4>1. PICK i \in 1 .. Len(writers') : w = writers'[i]
        BY DEF Queue
      <4>2. /\ Len(writers') = Len(writers) + 1
            /\ \A x \in 1 .. Len(writers) : writers'[x] = writers[x]
            /\ writers'[Len(writers) + 1] =
                 [job |-> j, edit |-> e, mems |-> mems]
        BY <2>2, QueueType DEF LogAndApply
      <4>3. CASE i \in 1 .. Len(writers)
        <5>1. w \in Queue
          BY <4>1, <4>2, <4>3 DEF Queue
        <5> QED
          BY <2>0, <3>1, <5>1 DEF AddsFrom, Plain, Writer
      <4>4. CASE i = Len(writers) + 1
        BY <2>2, <3>1, <4>1, <4>2, <4>4
      <4> QED
        BY <4>2, <4>3, <4>4, QueueType
    <3> QED
      BY <3>1 DEF AddsFrom
  <2> QED
    BY <2>1, <2>2 DEF Plain
<1>5. FilesListed'
  <2>1. \A n \in manifest.files : n \in File
    BY DEF TInv, TypeOK, KeyType, Manifest
  <2>2. FilesListed
    BY DEF LInv
  <2>3. ASSUME ~descriptor_log_, NEW n \in manifest.files
        PROVE  n \in After(k) \/ Owed(n)'
    BY <1>2, <2>1, <2>2, <2>3 DEF FilesListed
  <2>4. After(group.done)' = After(k)
    BY <1>2, <1>3
  <2> QED
    BY <1>2, <1>3, <2>2, <2>3, <2>4 DEF FilesListed, Plain
<1> QED
  BY <1>4, <1>5 DEF LInv, Running

\* A minor step keeps what has to stay.
LEMMA MinorOwed ==
  ASSUME Minor, ~descriptor_log_, NEW n \in File, Owed(n)
  PROVE  Owed(n)'
BY DEF Minor, Plain, Owed, Doomed, Shields

\* A minor step keeps the invariant.
LEMMA MinorStep ==
  ASSUME TInv, TInv', LInv, Running, Running', Minor
  PROVE  LInv'
BY MinorOwed, PlainStep DEF Minor

\* Every step of a flush is a minor one: it writes tables under keys that are
\* in the list.
LEMMA FlushStepMinor ==
  ASSUME TInv, TInv', SInv, NEW j \in FlushJobs, FlushStep(j)
  PROVE  Minor
<1>0. j \in Jobs /\ j \in Holders /\ Running
  BY JobKinds DEF FlushStep, FlushStart, GenerateKey, BuildFlushTable,
     FlushFails, TryInstallMemtableFlushResults, CommitMemtables, CommitDone,
     CommitFails, LogFlushKey
<1>1. /\ UNCHANGED <<manifest, newManifest, rolling, group, version,
                     descriptor_log_, del>>
      /\ disable_delete_obsolete_files_ => disable_delete_obsolete_files_'
  BY DEF FlushStep, FlushStart, GenerateKey, BuildFlushTable,
     FlushFails, TryInstallMemtableFlushResults, CommitMemtables, CommitDone,
     CommitFails, LogFlushKey, disk, logVars, fileVars
<1>2. \A n \in File : table[n] # NoKey => table'[n] # NoKey
  <2>1. CASE BuildFlushTable(j)
    <3>1. KeyList[out[j]] # NoKey
      BY <1>0, <2>1, Parts DEF BuildFlushTable, OutputHeld, WithKey
    <3> QED
      BY <2>1, <3>1 DEF BuildFlushTable, TInv, TypeOK, KeyType
  <2>2. CASE ~BuildFlushTable(j)
    BY <2>2 DEF FlushStep, FlushStart, GenerateKey,
       FlushFails, TryInstallMemtableFlushResults, CommitMemtables, CommitDone,
       CommitFails, LogFlushKey, disk
  <2> QED
    BY <2>1, <2>2
<1>3. /\ \A k \in Jobs \ {j} : pc'[k] = pc[k] /\ pend'[k] = pend[k]
      /\ pc[j] \in Owes => /\ pend'[j] = pend[j]
                           /\ descriptor_log_ \/ pc'[j] \in Owes
      /\ pc[j] \notin Adding
  BY <1>0, JobKinds DEF FlushStep, FlushStart, GenerateKey, BuildFlushTable,
     FlushFails, TryInstallMemtableFlushResults, CommitMemtables, CommitDone,
     CommitFails, LogFlushKey, Owes, Adding, TInv, TypeOK, JobType
<1>4. \/ writers' = writers
      \/ \E k \in Jobs, e \in Edit, mems \in SUBSET File :
           LogAndApply(k, e, mems) /\ (e.add # {} => pc'[k] \in Adding)
  <2>1. CASE CommitMemtables(j)
    <3> DEFINE add == {m.file : m \in {c \in Committable(imm) : c.has}}
               mems == {m.id : m \in Committable(imm)}
    <3>1. add \in SUBSET File /\ mems \in SUBSET File
      BY DEF Committable, TInv, TypeOK, MemType, Mem
    <3>2. [EmptyEdit EXCEPT !.add = add] \in Edit
      BY <3>1, EditType
    <3>3. pc'[j] \in Adding
      BY <1>0, <2>1 DEF CommitMemtables, Adding, TInv, TypeOK, JobType
    <3>4. LogAndApply(j, [EmptyEdit EXCEPT !.add = add], mems)
      BY <2>1 DEF CommitMemtables
    <3> HIDE DEF add, mems
    <3> QED
      BY <1>0, <3>1, <3>2, <3>3, <3>4
  <2>2. CASE LogFlushKey(j)
    <3>1. out[j] \in File /\ KeyList[out[j]] \in Key
      BY <1>0, <2>2 DEF LogFlushKey, TInv, TypeOK, KeyType, Shape, Building
    <3>2. PICK e \in Edit : e = AddSSTKey(out[j], KeyList[out[j]]) /\ e.add = {}
      BY <3>1, EditFields
    <3>3. LogAndApply(j, e, {})
      BY <2>2, <3>2 DEF LogFlushKey
    <3> QED
      BY <1>0, <3>2, <3>3
  <2>3. CASE ~CommitMemtables(j) /\ ~LogFlushKey(j)
    BY <2>3 DEF FlushStep, FlushStart, GenerateKey, BuildFlushTable, FlushFails,
       TryInstallMemtableFlushResults, CommitDone, CommitFails, logVars
  <2> QED
    BY <2>1, <2>2, <2>3
<1> QED
  BY <1>0, <1>1, <1>2, <1>3, <1>4 DEF Minor, Plain

\* So is every step of a compaction.
LEMMA CompactionStepMinor ==
  ASSUME TInv, TInv', SInv, NEW c \in CompactionJobs, CompactionStep(c)
  PROVE  Minor
<1>0. c \in Jobs /\ c \in Holders /\ Running
  BY JobKinds DEF CompactionStep, CompactionStart, OpenCompactionOutputFile,
     FinishCompactionOutputFile, CompactionFails, InstallCompactionResults,
     LogCompactionKey, ApplyCompaction
<1>1. /\ UNCHANGED <<manifest, newManifest, rolling, group, version,
                     descriptor_log_, del>>
      /\ disable_delete_obsolete_files_ => disable_delete_obsolete_files_'
  BY DEF CompactionStep, CompactionStart, OpenCompactionOutputFile,
     FinishCompactionOutputFile, CompactionFails, InstallCompactionResults,
     LogCompactionKey, ApplyCompaction, disk, logVars, fileVars
<1>2. \A n \in File : table[n] # NoKey => table'[n] # NoKey
  <2>1. CASE FinishCompactionOutputFile(c)
    <3>1. KeyList[out[c]] # NoKey
      BY <1>0, <2>1, Parts DEF FinishCompactionOutputFile, OutputHeld, WithKey
    <3> QED
      BY <2>1, <3>1 DEF FinishCompactionOutputFile, TInv, TypeOK, KeyType
  <2>2. CASE CompactionFails(c)
    <3>1. pc[c] = "build" => KeyList[out[c]] # NoKey
      BY <1>0, Parts DEF OutputHeld, WithKey
    <3> QED
      BY <2>2, <3>1 DEF CompactionFails, TInv, TypeOK, KeyType
  <2>3. CASE ~FinishCompactionOutputFile(c) /\ ~CompactionFails(c)
    BY <2>3 DEF CompactionStep, CompactionStart, OpenCompactionOutputFile,
       InstallCompactionResults, LogCompactionKey, ApplyCompaction, disk
  <2> QED
    BY <2>1, <2>2, <2>3
<1>3. /\ \A k \in Jobs \ {c} : pc'[k] = pc[k] /\ pend'[k] = pend[k]
      /\ pc[c] \notin Owes /\ pc[c] \notin Adding
  BY <1>0, JobKinds DEF CompactionStep, CompactionStart,
     OpenCompactionOutputFile, FinishCompactionOutputFile, CompactionFails,
     InstallCompactionResults, LogCompactionKey, ApplyCompaction, Owes, Adding,
     TInv, TypeOK, JobType
<1>4. \/ writers' = writers
      \/ \E k \in Jobs, e \in Edit, mems \in SUBSET File :
           LogAndApply(k, e, mems) /\ (e.add # {} => pc'[k] \in Adding)
  <2>1. CASE ApplyCompaction(c)
    <3>1. outs[c] \in SUBSET File /\ ins[c] \in SUBSET File
      BY <1>0 DEF TInv, TypeOK, JobType
    <3>2. [EmptyEdit EXCEPT !.add = outs[c], !.del = ins[c]] \in Edit
      BY <3>1, EditType
    <3>3. pc'[c] \in Adding
      BY <1>0, <2>1 DEF ApplyCompaction, Adding, TInv, TypeOK, JobType
    <3>4. LogAndApply(c, [EmptyEdit EXCEPT !.add = outs[c], !.del = ins[c]], {})
      BY <2>1 DEF ApplyCompaction
    <3> QED
      BY <1>0, <3>2, <3>3, <3>4
  <2>2. CASE LogCompactionKey(c)
    <3>1. PICK n \in todo[c] : LogAndApply(c, AddSSTKey(n, KeyList[n]), {})
      BY <2>2 DEF LogCompactionKey
    <3>2. n \in File /\ KeyList[n] \in Key
      BY <1>0 DEF TInv, TypeOK, KeyType, JobType
    <3>3. PICK e \in Edit : e = AddSSTKey(n, KeyList[n]) /\ e.add = {}
      BY <3>2, EditFields
    <3> QED
      BY <1>0, <3>1, <3>3
  <2>3. CASE ~ApplyCompaction(c) /\ ~LogCompactionKey(c)
    BY <2>3 DEF CompactionStep, CompactionStart, OpenCompactionOutputFile,
       FinishCompactionOutputFile, CompactionFails, InstallCompactionResults,
       logVars
  <2> QED
    BY <2>1, <2>2, <2>3
<1> QED
  BY <1>0, <1>1, <1>2, <1>3, <1>4 DEF Minor, Plain

\* The steps of a purge take only tables the purge has in hand.
LEMMA PurgeStepMinor ==
  ASSUME TInv, TInv', SInv, NEW h \in Holders,
         \/ h \in Jobs /\ (LogKeyDeletion(h) \/ EraseKeys(h) \/ SetBGError(h))
         \/ DeleteObsoleteFile(h) \/ PurgeDone(h)
  PROVE  Minor
<1>0. Running
  BY DEF LogKeyDeletion, EraseKeys, SetBGError, DeleteObsoleteFile, PurgeDone
<1>1. /\ UNCHANGED <<manifest, newManifest, rolling, group, version,
                     descriptor_log_>>
      /\ disable_delete_obsolete_files_ => disable_delete_obsolete_files_'
  <2>1. CASE SetBGError(h)
    BY <2>1 DEF SetBGError, disk, logVars, TInv, TypeOK, FlagType
  <2>2. CASE LogKeyDeletion(h) \/ EraseKeys(h)
    BY <2>2 DEF LogKeyDeletion, EraseKeys, disk, logVars, fileVars
  <2>3. CASE DeleteObsoleteFile(h) \/ PurgeDone(h)
    BY <2>3 DEF DeleteObsoleteFile, PurgeDone, disk, logVars, fileVars
  <2> QED
    BY <2>1, <2>2, <2>3
<1>2. \A k \in Holders : del'[k] \subseteq del[k]
  <2>1. CASE PurgeDone(h)
    BY <2>1 DEF PurgeDone, TInv, TypeOK, JobType
  <2>2. CASE EraseKeys(h)
    BY <2>2 DEF EraseKeys, TInv, TypeOK, JobType
  <2>3. CASE LogKeyDeletion(h) \/ SetBGError(h) \/ DeleteObsoleteFile(h)
    BY <2>3 DEF LogKeyDeletion, SetBGError, DeleteObsoleteFile
  <2> QED
    BY <2>1, <2>2, <2>3
<1>3. \A n \in File : table[n] # NoKey /\ ~Doomed(n) => table'[n] # NoKey
  <2>1. CASE DeleteObsoleteFile(h)
    <3>1. PICK u \in todo[h] : table' = [table EXCEPT ![u] = NoKey]
      BY <2>1 DEF DeleteObsoleteFile
    <3>2. todo[h] \subseteq del[h]
      BY <1>0, <2>1, Parts DEF PurgeOf, Purging, DeleteObsoleteFile
    <3> QED
      BY <3>1, <3>2 DEF Doomed, TInv, TypeOK, KeyType
  <2>2. CASE ~DeleteObsoleteFile(h)
    BY <2>2 DEF LogKeyDeletion, EraseKeys, SetBGError, PurgeDone, disk
  <2> QED
    BY <2>1, <2>2
<1>4. /\ \A k \in Jobs \ {h} : pc'[k] = pc[k] /\ pend'[k] = pend[k]
      /\ h \in Jobs => /\ pc[h] \in Owes => disable_delete_obsolete_files_'
                                            \/ descriptor_log_
                       /\ pc[h] \notin Adding
  BY <1>0, JobKinds DEF LogKeyDeletion, EraseKeys, SetBGError,
     DeleteObsoleteFile, PurgeDone, Owes, Adding, TInv, TypeOK, JobType
<1>5. \/ writers' = writers
      \/ \E k \in Jobs, e \in Edit, mems \in SUBSET File :
           LogAndApply(k, e, mems) /\ (e.add # {} => pc'[k] \in Adding)
  <2>1. CASE h \in Jobs /\ LogKeyDeletion(h)
    <3>1. PICK n \in todo[h] : LogAndApply(h, DeleteSSTKey(n), {})
      BY <2>1 DEF LogKeyDeletion
    <3>2. n \in File
      BY DEF TInv, TypeOK, JobType
    <3>3. PICK e \in Edit : e = DeleteSSTKey(n) /\ e.add = {}
      BY <3>2, EditFields
    <3> QED
      BY <2>1, <3>1, <3>3
  <2>2. CASE EraseKeys(h) \/ SetBGError(h) \/ DeleteObsoleteFile(h) \/ PurgeDone(h)
    BY <2>2 DEF EraseKeys, SetBGError, DeleteObsoleteFile, PurgeDone, logVars
  <2> QED
    BY <2>1, <2>2
<1> QED
  BY <1>1, <1>2, <1>3, <1>4, <1>5 DEF Minor, Plain

\* The steps of a client but the purge of an iterator are minor ones.
LEMMA ClientMinor ==
  ASSUME TInv, SInv,
         SwitchMemtable \/ \E i \in Iterators : NewIterator(i) \/ ReadBlock(i)
  PROVE  Minor
<1>1. /\ UNCHANGED <<manifest, newManifest, rolling, group, version, table,
                     descriptor_log_, disable_delete_obsolete_files_, del,
                     pend, writers>>
  BY DEF SwitchMemtable, NewIterator, ReadBlock, disk, logVars, fileVars,
         jobVars
<1>2. \A j \in Jobs : pc'[j] = pc[j]
  BY JobKinds DEF SwitchMemtable, NewIterator, ReadBlock, jobVars, TInv, TypeOK,
     JobType
<1> QED
  BY <1>1, <1>2 DEF Minor, Plain

\* A purge that begins takes nothing that has to stay.
LEMMA FindOwed ==
  ASSUME TInv, TInv', NInv, SInv, Running, NEW h \in Holders,
         NEW full \in BOOLEAN, FindObsoleteFiles(h, full),
         UNCHANGED <<KeyList, table, version, disable_delete_obsolete_files_>>,
         pc[h] \notin Purging, Live' \subseteq Live, pc[h] \notin Owes,
         \A k \in Jobs \ {h} : pend'[k] = pend[k],
         NEW n \in File, Owed(n)
  PROVE  Owed(n)'
<1>1. /\ Sparing
      /\ \A k \in Holders \ {h} : del'[k] = del[k] /\ pc'[k] = pc[k]
  BY FindSpares DEF Moves
<1>2. CASE disable_delete_obsolete_files_
  <2>1. del'[h] = {}
    BY <1>2 DEF FindObsoleteFiles, TInv, TypeOK, JobType
  <2> QED
    BY <1>1, <1>2, <2>1 DEF Owed, Doomed
<1>3. CASE n \in version
  <2>1. Spared(n)
    BY <1>1, <1>3 DEF Sparing, Live
  <2> QED
    BY <1>3, <2>1 DEF Owed, Spared
<1>4. ASSUME NEW j \in Jobs, pc[j] \in Owes, Shields(j, n) PROVE Owed(n)'
  <2>1. j # h /\ pc'[j] = pc[j] /\ Shields(j, n)'
    BY <1>1, <1>4, JobKinds DEF Shields
  <2>2. Spared(n)
    BY <1>1, <2>1 DEF Sparing
  <2> QED
    BY <1>4, <2>1, <2>2 DEF Owed, Spared
<1> QED
  BY <1>2, <1>3, <1>4 DEF Owed

\* ReleaseAndFind keeps the listed tables.
LEMMA ReleaseAndFindListed ==
  ASSUME TInv, TInv', NInv, SInv, LInv, NEW j \in Jobs, ReleaseAndFind(j)
  PROVE  LInv'
<1>0. j \in Holders
  BY JobKinds
<1>1. /\ Running /\ Running' /\ pc[j] \in {"release", "failed"}
      /\ UNCHANGED <<KeyList, table, version, manifest, newManifest, rolling,
                     group, writers, descriptor_log_,
                     disable_delete_obsolete_files_>>
  BY DEF ReleaseAndFind, disk, bootVars, logVars, Running
<1>2. /\ pins'[j] = {} /\ \A k \in Holders \ {j} : pins'[k] = pins[k]
      /\ \A k \in Jobs \ {j} : pend'[k] = pend[k]
      /\ sv' = version \/ sv' = sv
  BY <1>0 DEF ReleaseAndFind, TInv, TypeOK, JobType
<1>3. Live' \subseteq Live
  BY <1>0, <1>1, <1>2 DEF Live
<1>4. PICK full \in BOOLEAN : FindObsoleteFiles(j, full)
  BY DEF ReleaseAndFind
<1>5. pc[j] \notin Purging /\ pc[j] \notin Owes /\ pc[j] \notin Adding
  BY <1>1 DEF Purging, Owes, Adding
<1>6. \A n \in File : Owed(n) => Owed(n)'
  BY <1>0, <1>1, <1>2, <1>3, <1>4, <1>5, FindOwed
<1>7. Plain
  <2>1. \A k \in Holders \ {j} : pc'[k] = pc[k]
    BY <1>0, <1>1, <1>3, <1>4, <1>5, FindSpares DEF Moves
  <2> QED
    BY <1>1, <1>5, <2>1, JobKinds DEF Plain
<1> QED
  BY <1>1, <1>6, <1>7, PlainStep

\* DeleteIterator keeps the listed tables.
LEMMA DeleteIteratorListed ==
  ASSUME TInv, TInv', NInv, SInv, LInv, NEW i \in Iterators, DeleteIterator(i)
  PROVE  LInv'
<1>0. i \in Holders /\ i \notin Jobs
  BY JobKinds
<1>1. /\ Running /\ Running' /\ pc[i] = "iterate"
      /\ UNCHANGED <<KeyList, table, version, sv, manifest, newManifest, rolling,
                     group, writers, descriptor_log_, pend,
                     disable_delete_obsolete_files_>>
  BY DEF DeleteIterator, disk, bootVars, logVars, Running
<1>2. pins'[i] = {} /\ \A k \in Holders \ {i} : pins'[k] = pins[k]
  BY <1>0 DEF DeleteIterator, TInv, TypeOK, JobType
<1>3. Live' \subseteq Live
  BY <1>0, <1>1, <1>2 DEF Live
<1>4. pc[i] \notin Purging /\ pc[i] \notin Owes
  BY <1>1 DEF Purging, Owes
<1>5. \A k \in Jobs : pc'[k] = pc[k]
  BY <1>0, JobKinds DEF DeleteIterator, FindObsoleteFiles, TInv, TypeOK, JobType
<1>6. Plain
  BY <1>1, <1>5 DEF Plain
<1>7. ASSUME NEW n \in File, Owed(n) PROVE Owed(n)'
  <2>1. CASE FindObsoleteFiles(i, FALSE)
    BY <1>0, <1>1, <1>2, <1>3, <1>4, <1>7, <2>1, FindOwed
  <2>2. CASE UNCHANGED del
    BY <1>1, <1>5, <1>7, <2>2 DEF Owed, Doomed, Shields
  <2> QED
    BY <2>1, <2>2 DEF DeleteIterator
<1> QED
  BY <1>1, <1>6, <1>7, PlainStep

\* What one more edit of the queue does.
LEMMA AfterNext ==
  ASSUME TInv, NEW k \in Nat, k < Len(writers), NEW e,
         e = writers[k + 1].edit
  PROVE  /\ After(k) \ e.del \subseteq After(k + 1)
         /\ e.add \subseteq After(k + 1)
         /\ After(k) \ version \subseteq After(k + 1)
<1>1. /\ \A i \in 1 .. k : i \in 1 .. k + 1
      /\ \A i \in 1 .. k + 1 : i \in 1 .. k \/ i = k + 1
      /\ k + 1 \in 1 .. k + 1
  OBVIOUS
<1> QED
  BY <1>1 DEF After

\* A file is in the version, or one of the edits adds it.
LEMMA AfterFrom ==
  ASSUME TInv, NEW k \in Nat, NEW n \in After(k), n \notin version
  PROVE  \E i \in 1 .. k : n \in writers[i].edit.add
BY DEF After

\* No edit at all.
LEMMA AfterNone == After(0) = version
<1>1. \A i \in 1 .. 0 : FALSE
  OBVIOUS
<1> QED
  BY <1>1 DEF After

\* BeginManifestWrite keeps the listed tables.
LEMMA BeginManifestWriteListed ==
  ASSUME TInv, TInv', NInv, LInv, BeginManifestWrite, Running'
  PROVE  LInv'
<1>1. /\ Running /\ group.size = 0 /\ group'.done = 0
      /\ UNCHANGED <<manifest, version, writers, descriptor_log_, pc>>
      /\ UNCHANGED <<table, del, pend, disable_delete_obsolete_files_>>
      /\ rolling' => newManifest'.files = version
      /\ ~descriptor_log_ => rolling'
  BY DEF BeginManifestWrite, disk, jobVars, fileVars,
         WriteCurrentStateToManifest
<1>2. ~rolling /\ group.done = 0
  BY <1>1, QueueType DEF NInv, QueueSpent, Up, Running
<1>3. After(0)' = version /\ After(0) = version
  <2>1. (After(0) = version)'
    BY AfterNone, PTL
  <2> QED
    BY <1>1, <2>1, AfterNone
<1>4. /\ AddsFrom'
      /\ \A n : Owed(n) => Owed(n)'
  BY <1>1 DEF AddsFrom, Queue, LInv, Owed, Doomed, Shields
<1>5. FilesListed
  BY <1>1 DEF LInv
<1>6. /\ descriptor_log_ => manifest.files \subseteq version
      /\ ~descriptor_log_ => \A n \in manifest.files : n \in version \/ Owed(n)
  BY <1>2, <1>3, <1>5 DEF FilesListed
<1>7. After(group.done)' = version
  BY <1>1, <1>3
<1>8. FilesListed'
  BY <1>1, <1>4, <1>6, <1>7 DEF FilesListed
<1> QED
  BY <1>4, <1>8 DEF LInv, Running

\* AppendRecord keeps the listed tables: a table that the edit drops is one of
\* the version, so no purge has it.
LEMMA AppendRecordListed ==
  ASSUME TInv, TInv', NInv, SInv, LInv, AppendRecord
  PROVE  LInv'
<1>1. PICK k \in Nat : k = group.done
  BY QueueType
<1>2. PICK e : e = writers[k + 1].edit
  OBVIOUS
<1>3. /\ Running /\ Running' /\ k < group.size /\ group.size \in Nat
      /\ UNCHANGED <<version, writers, descriptor_log_, pc, table, del, pend,
                     disable_delete_obsolete_files_, rolling>>
      /\ group'.done = k + 1 /\ group'.size = group.size
      /\ k < Len(writers)
  BY <1>1, QueueType DEF AppendRecord, jobVars, fileVars, bootVars, Running,
     TInv, TypeOK, LogType
<1>4. /\ rolling => /\ newManifest'.files = (newManifest.files \ e.del) \cup e.add
                    /\ manifest' = manifest
      /\ ~rolling => manifest'.files = (manifest.files \ e.del) \cup e.add
  BY <1>1, <1>2 DEF AppendRecord, ApplyVersionEdit
<1>5. /\ AddsFrom'
      /\ \A n : Owed(n) => Owed(n)'
      /\ After(k + 1)' = After(k + 1)
  BY <1>3 DEF AddsFrom, Queue, LInv, Owed, Doomed, Shields, After
<1>6. /\ rolling => newManifest.files \subseteq After(k)
      /\ ~rolling /\ descriptor_log_ => manifest.files \subseteq After(k)
      /\ rolling /\ descriptor_log_ => manifest.files \subseteq version
      /\ ~rolling /\ ~descriptor_log_ => FALSE
      /\ ~descriptor_log_ =>
           \A n \in manifest.files : n \in After(k) \/ Owed(n)
  BY <1>1, <1>3 DEF LInv, FilesListed
<1>7. /\ After(k) \ e.del \subseteq After(k + 1)
      /\ e.add \subseteq After(k + 1)
      /\ After(k) \ version \subseteq After(k + 1)
  BY <1>2, <1>3, AfterNext
<1>8. ASSUME ~descriptor_log_, NEW n \in manifest.files
      PROVE  n \in After(k + 1) \/ Owed(n)'
  <2>1. CASE Owed(n)
    BY <1>5, <2>1
  <2>2. CASE n \in After(k) /\ n \notin version
    BY <1>7, <2>2
  <2>3. CASE n \in version
    <3>1. Held(n)
      BY <1>3, <2>3, Parts DEF FilesHeld, Live
    <3> QED
      BY <1>5, <2>3, <3>1 DEF Owed, Held, Opens
  <2> QED
    BY <1>6, <1>8, <2>1, <2>2, <2>3
<1>9. After(group.done)' = After(k + 1)
  BY <1>3, <1>5
<1>10. FilesListed'
  BY <1>3, <1>4, <1>6, <1>7, <1>8, <1>9 DEF FilesListed
<1> QED
  BY <1>3, <1>5, <1>10 DEF LInv, Running

\* SetCurrentFile keeps the listed tables.
LEMMA SetCurrentFileListed ==
  ASSUME TInv, TInv', LInv, SetCurrentFile
  PROVE  LInv'
<1>1. PICK k : k = group.done
  OBVIOUS
<1>2. /\ Running /\ Running' /\ rolling /\ ~rolling' /\ group.done = group.size
      /\ manifest' = newManifest
      /\ UNCHANGED <<version, writers, group, descriptor_log_, pc>>
  BY DEF SetCurrentFile, jobVars, fileVars, bootVars, Running
<1>3. AddsFrom' /\ After(k)' = After(k)
  BY <1>2 DEF AddsFrom, Queue, LInv, After
<1>4. newManifest.files \subseteq After(k)
  BY <1>1, <1>2 DEF LInv, FilesListed
<1>5. After(group.done)' = After(k)
  BY <1>1, <1>2, <1>3
<1>6. FilesListed'
  BY <1>2, <1>4, <1>5 DEF FilesListed
<1> QED
  BY <1>2, <1>3, <1>6 DEF LInv, Running

\* The jobs of the writers that stay in the queue sleep on.
LEMMA AddsWoken ==
  ASSUME TInv, SInv, LInv, Running, NEW ok \in BOOLEAN, WakeWriters(ok)
  PROVE  AddsFrom' /\ group'.size = 0 /\ group'.done = 0
<1>1. AddsFrom /\ QueueHeld
  BY Parts DEF LInv
<1>2. \A w \in Queue' : w \in Queue /\ pc'[w.job] = pc[w.job]
  BY <1>1, Woken
<1> QED
  BY <1>1, <1>2 DEF AddsFrom, WakeWriters, NoGroup

\* FinishManifestWrite keeps the listed tables: the new version is what the
\* MANIFEST holds.
LEMMA FinishManifestWriteListed ==
  ASSUME TInv, TInv', SInv, LInv, FinishManifestWrite
  PROVE  LInv'
<1>1. PICK k \in Nat : k = group.size
  BY QueueType
<1>2. /\ Running /\ Running' /\ ~rolling /\ ~rolling' /\ group.done = k /\ k # 0
      /\ WakeWriters(TRUE) /\ descriptor_log_' /\ manifest' = manifest
      /\ version' = (version \ UNION {w.edit.del : w \in Batch})
                      \cup UNION {w.edit.add : w \in Batch}
  BY <1>1 DEF FinishManifestWrite, disk, bootVars, Running
<1>3. version' = After(k)
  BY <1>1, <1>2 DEF After, Batch
<1>4. descriptor_log_ \in BOOLEAN
  BY DEF TInv, TypeOK, FlagType
<1>5. manifest.files \subseteq After(k)
  BY <1>1, <1>2, <1>4 DEF LInv, FilesListed
<1>6. AddsFrom' /\ group'.size = 0 /\ group'.done = 0
  BY <1>2, AddsWoken
<1>7. (After(0) = version)'
  BY AfterNone, PTL
<1>8. After(group.done)' = version'
  BY <1>6, <1>7
<1>9. FilesListed'
  BY <1>2, <1>3, <1>5, <1>8 DEF FilesListed
<1> QED
  BY <1>2, <1>6, <1>9 DEF LInv, Running

\* The table an edit adds stays when the write fails: the job of the edit still
\* shields it, and disables file deletions before it lets it go.
LEMMA FailedOwed ==
  ASSUME TInv, SInv, LInv, Running, WakeWriters(FALSE),
         UNCHANGED <<KeyList, table, pend, del>>,
         NEW k \in Nat, k <= group.size, NEW n \in After(k), n \notin version
  PROVE  Owed(n)'
<1>1. PICK i \in 1 .. k : n \in writers[i].edit.add
  BY AfterFrom
<1>2. i \in 1 .. group.size /\ group.size <= Len(writers)
  BY QueueType
<1>3. PICK w \in Batch : w = writers[i] /\ n \in w.edit.add
  BY <1>1, <1>2 DEF Batch
<1>4. QueueHeld /\ AddsFrom
  BY Parts DEF LInv
<1>5. w \in Queue /\ w \in Writer
  BY <1>3, <1>4, Woken, QueueType
<1>6. /\ Held(n) /\ Shields(w.job, n) /\ pc[w.job] \in Adding
      /\ w.job \in Jobs /\ w.job \in Holders
  BY <1>3, <1>4, <1>5, JobKinds DEF QueueHeld, WriterHeld, AddsFrom, Writer
<1>7. pc'[w.job] \in Owes
  BY <1>6 DEF WakeWriters, Resume, Adding, Owes
<1>8. Shields(w.job, n)'
  BY <1>6 DEF Shields
<1>9. PICK j \in Jobs : pc'[j] \in Owes /\ Shields(j, n)'
  <2>1. PICK j \in Jobs : j = w.job
    BY <1>6
  <2> QED
    BY <1>6, <1>7, <2>1 DEF Shields
<1> QED
  BY <1>6, <1>9 DEF Owed, Held, Opens, Doomed

\* ManifestWriteFails keeps the listed tables.
LEMMA ManifestWriteFailsListed ==
  ASSUME TInv, TInv', SInv, LInv, ManifestWriteFails
  PROVE  LInv'
<1>1. PICK k \in Nat : k = group.done
  BY QueueType
<1>2. PICK e : e = writers[k + 1].edit
  OBVIOUS
<1>3. /\ Running /\ Running' /\ k < group.size /\ group.size \in Nat
      /\ k < Len(writers) /\ k + 1 <= group.size /\ k <= group.size
      /\ WakeWriters(FALSE) /\ ~rolling' /\ ~descriptor_log_'
      /\ UNCHANGED <<KeyList, table, version, del, pend,
                     disable_delete_obsolete_files_>>
  <2>1. k < group.size
    BY <1>1 DEF ManifestWriteFails
  <2>2. group.size \in Nat /\ Len(writers) \in Nat /\ group.size <= Len(writers)
    BY QueueType
  <2>3. k < Len(writers) /\ k + 1 <= group.size /\ k <= group.size
    BY ONLY k \in Nat, <2>1, <2>2
  <2>4. /\ Running /\ Running' /\ WakeWriters(FALSE) /\ ~rolling'
        /\ ~descriptor_log_'
        /\ UNCHANGED <<KeyList, table, version, del, pend,
                       disable_delete_obsolete_files_>>
    BY DEF ManifestWriteFails, fileVars, bootVars, Running
  <2> QED
    BY <2>1, <2>2, <2>3, <2>4
<1>4. \/ manifest' = manifest
      \/ ~rolling /\ manifest'.files = (manifest.files \ e.del) \cup e.add
  <2>1. PICK landed \in BOOLEAN :
          manifest' = IF landed /\ ~rolling
                      THEN ApplyVersionEdit(manifest, e, group.next)
                      ELSE manifest
    BY <1>1, <1>2 DEF ManifestWriteFails
  <2>2. ApplyVersionEdit(manifest, e, group.next).files =
          (manifest.files \ e.del) \cup e.add
    BY DEF ApplyVersionEdit
  <2> QED
    BY <2>1, <2>2
<1>5. AddsFrom' /\ group'.size = 0 /\ group'.done = 0
  BY <1>3, AddsWoken
<1>6. (After(0) = version)'
  BY AfterNone, PTL
<1>7. After(group.done)' = version
  BY <1>3, <1>5, <1>6
<1>8. /\ ~rolling => manifest.files \subseteq After(k)
      /\ rolling => \A n \in manifest.files :
                      n \in version \/ n \in After(k) \/ Owed(n)
  BY <1>1, <1>3 DEF LInv, FilesListed
<1>9. ASSUME NEW n, Owed(n) PROVE Owed(n)'
  <2>1. \A h \in Holders : pc[h] \in Owes => pc'[h] \in Owes
    BY <1>3 DEF WakeWriters, Resume, Owes
  <2> QED
    BY <1>3, <1>9, <2>1, JobKinds DEF Owed, Doomed, Shields
<1>10. /\ After(k) \ e.del \subseteq After(k + 1)
       /\ e.add \subseteq After(k + 1)
  BY <1>2, <1>3, AfterNext
<1>11. ASSUME NEW n \in manifest'.files PROVE n \in version \/ Owed(n)'
  <2>1. n \in version \/ n \in After(k) \/ n \in After(k + 1) \/ Owed(n)
    BY <1>4, <1>8, <1>10
  <2>2. CASE n \in After(k) /\ n \notin version
    BY <1>3, <2>2, FailedOwed
  <2>3. CASE n \in After(k + 1) /\ n \notin version
    BY <1>3, <2>3, FailedOwed
  <2> QED
    BY <1>9, <2>1, <2>2, <2>3
<1>12. FilesListed'
  BY <1>3, <1>5, <1>7, <1>11 DEF FilesListed
<1> QED
  BY <1>3, <1>5, <1>12 DEF LInv, Running

\* A database that has just been opened.
Opened ==
  /\ Running /\ writers = <<>> /\ group = NoGroup /\ ~rolling
  /\ descriptor_log_ /\ manifest.files \subseteq version

\* It lists what its version lists.
LEMMA OpenListed == Opened => LInv
<1> SUFFICES ASSUME Opened PROVE LInv
  OBVIOUS
<1> USE DEF Opened
<1>1. Len(writers) = 0 /\ group.size = 0 /\ group.done = 0
  BY DEF NoGroup
<1>2. \A i \in 1 .. Len(writers) : FALSE
  BY <1>1
<1>3. After(group.done) = version
  BY <1>1, AfterNone
<1>4. AddsFrom
  BY <1>2 DEF AddsFrom, Queue
<1>5. FilesListed
  BY <1>1, <1>3 DEF FilesListed
<1> QED
  BY <1>4, <1>5 DEF LInv, Running

\* A new database lists nothing.
LEMMA InitListed == Init => LInv
BY OpenListed DEF Init, Running, EmptyManifest, Opened

\* A crash and the steps of the recovery keep the listed tables.
LEMMA RecoveryListed ==
  ASSUME TInv, NInv, LInv, Crash \/ RecoveryStep
  PROVE  LInv'
<1>1. CASE Crash \/ Recover \/ DeleteUnreferencedSstFiles
           \/ DeleteUnreferencedFile \/ WriteLevel0TableForRecovery
  BY <1>1 DEF Crash, Recover, DeleteUnreferencedSstFiles,
     DeleteUnreferencedFile, WriteLevel0TableForRecovery, LInv, Running
<1>2. CASE RecoverLogFiles
  BY <1>2 DEF RecoverLogFiles, WriteCurrentStateToManifest, LInv, Running
<1>3. CASE LogRecoveredKey
  <2>1. PICK n \in rekey :
          manifest' = ApplyVersionEdit(manifest, AddSSTKey(n, KeyList[n]),
                                       nextFile)
    BY <1>3 DEF LogRecoveredKey
  <2>2. manifest'.files = manifest.files
    BY <2>1 DEF ApplyVersionEdit, AddSSTKey, EmptyEdit
  <2> QED
    BY <1>3, <2>2 DEF LogRecoveredKey, fileVars, LInv, Running
<1>4. CASE OpenDone
  <2>1. /\ Running' /\ phase = "rekey"
        /\ UNCHANGED <<manifest, version, writers, group, rolling,
                       descriptor_log_>>
    BY <1>4 DEF OpenDone, logVars, fileVars, Running
  <2>2. writers = <<>> /\ group = NoGroup /\ ~rolling
    BY <2>1 DEF NInv, Quiet
  <2>3. descriptor_log_ /\ manifest.files = version
    BY <2>1 DEF LInv
  <2>4. Opened'
    BY <2>1, <2>2, <2>3 DEF Opened
  <2> QED
    BY <2>4, OpenListed, PTL
<1> QED
  BY <1>1, <1>2, <1>3, <1>4 DEF RecoveryStep

\* A step in which nothing happens keeps the listed tables.
LEMMA StutterListed ==
  ASSUME LInv, UNCHANGED vars
  PROVE  LInv'
<1>1. UNCHANGED <<manifest, newManifest, rolling, group, version, writers,
                  descriptor_log_, disable_delete_obsolete_files_, pc, pend,
                  del, table, phase>>
  BY DEF vars, disk, logVars, fileVars, jobVars, bootVars
<1>2. PICK k : k = group.done
  OBVIOUS
<1>3. After(k)' = After(k) /\ \A n : Owed(n)' <=> Owed(n)
  BY <1>1 DEF After, Owed, Doomed, Shields
<1>4. After(group.done)' = After(group.done)
  BY <1>1, <1>2, <1>3
<1> QED
  BY <1>1, <1>3, <1>4 DEF LInv, Running, AddsFrom, Queue, FilesListed

\* Every step keeps the listed tables.
LEMMA NextListed ==
  ASSUME TInv, TInv', NInv, SInv, SInv', LInv, [Next]_vars
  PROVE  LInv'
<1>0. phase' # "aborted"
  BY DEF SInv
<1>1. ASSUME NEW j \in FlushJobs, FlushStep(j) PROVE LInv'
  <2>1. Running /\ Running'
    BY <1>0, <1>1 DEF FlushStep, FlushStart, GenerateKey, BuildFlushTable,
       FlushFails, TryInstallMemtableFlushResults, CommitMemtables, CommitDone,
       CommitFails, LogFlushKey, bootVars, Running
  <2> QED
    BY <1>1, <2>1, FlushStepMinor, MinorStep
<1>2. ASSUME NEW c \in CompactionJobs, CompactionStep(c) PROVE LInv'
  <2>1. Running /\ Running'
    BY <1>0, <1>2 DEF CompactionStep, CompactionStart, OpenCompactionOutputFile,
       FinishCompactionOutputFile, CompactionFails, InstallCompactionResults,
       LogCompactionKey, ApplyCompaction, bootVars, Running
  <2> QED
    BY <1>2, <2>1, CompactionStepMinor, MinorStep
<1>3. ASSUME NEW h \in Holders,
             \/ h \in Jobs /\ (LogKeyDeletion(h) \/ EraseKeys(h) \/ SetBGError(h))
             \/ DeleteObsoleteFile(h) \/ PurgeDone(h)
      PROVE  LInv'
  <2>1. Running /\ Running'
    BY <1>3 DEF LogKeyDeletion, EraseKeys, SetBGError, DeleteObsoleteFile,
       PurgeDone, bootVars, Running
  <2> QED
    BY <1>3, <2>1, PurgeStepMinor, MinorStep
<1>4. ASSUME NEW j \in Jobs, PurgeStep(j) PROVE LInv'
  BY <1>3, <1>4, ReleaseAndFindListed, JobKinds DEF PurgeStep
<1>5. ASSUME SwitchMemtable \/ \E i \in Iterators : NewIterator(i) \/ ReadBlock(i)
      PROVE  LInv'
  <2>1. Running /\ Running'
    BY <1>0, <1>5 DEF SwitchMemtable, NewIterator, ReadBlock, bootVars, Running
  <2> QED
    BY <1>5, <2>1, ClientMinor, MinorStep
<1>6. ASSUME NEW i \in Iterators, IteratorStep(i) PROVE LInv'
  BY <1>5, <1>6, DeleteIteratorListed DEF IteratorStep
<1>7. ASSUME ManifestStep PROVE LInv'
  <2>1. BeginManifestWrite => Running'
    BY <1>0 DEF BeginManifestWrite, Running
  <2> QED
    BY <1>7, <2>1, BeginManifestWriteListed, AppendRecordListed,
       SetCurrentFileListed, FinishManifestWriteListed, ManifestWriteFailsListed
       DEF ManifestStep
<1>8. ASSUME Stopped \/ UNCHANGED vars PROVE LInv'
  BY <1>8, StutterListed DEF Stopped
<1> QED
  BY <1>1, <1>2, <1>3, <1>4, <1>5, <1>6, <1>7, <1>8, RecoveryListed DEF Next

\* What the MANIFEST lists is a file of the version or of a queued edit, or it
\* has to stay.
LEMMA ListedThere ==
  ASSUME TInv, SInv, LInv
  PROVE  ListedTablesExist
<1> SUFFICES ASSUME Running, NEW n \in manifest.files PROVE table[n] # NoKey
  BY DEF ListedTablesExist
<1>1. PICK k \in Nat : k = group.done /\ k <= Len(writers)
  BY QueueType
<1>2. n \in After(k) \/ n \in version \/ Owed(n)
  BY <1>1 DEF LInv, FilesListed, TInv, TypeOK, FlagType
<1>3. CASE n \in version
  BY <1>3, Parts DEF FilesHeld, Live, Held, Opens
<1>4. CASE Owed(n)
  BY <1>4 DEF Owed
<1>5. CASE n \in After(k) /\ n \notin version
  <2>1. PICK i \in 1 .. k : n \in writers[i].edit.add
    BY <1>5, AfterFrom
  <2>2. writers[i] \in Queue
    BY <1>1, QueueType
  <2>3. Held(n)
    BY <2>1, <2>2, Parts DEF QueueHeld, WriterHeld
  <2> QED
    BY <2>3 DEF Held, Opens
<1> QED
  BY <1>2, <1>3, <1>4, <1>5

\* Every table the MANIFEST on disk lists is there (ListedTablesExist), after
\* failed writes to the MANIFEST too: an edit that failed may be on disk all
\* the same, and the tables it adds are kept until SetBGError has disabled file
\* deletions.
THEOREM ListedTablesStay ==
  ASSUME OneFlushThread
  PROVE  Spec => []ListedTablesExist
<1>1. Init => LInv
  BY InitListed
<1>2. TInv /\ TInv' /\ NInv /\ SInv /\ SInv' /\ LInv /\ [Next]_vars => LInv'
  BY NextListed
<1>3. TInv /\ SInv /\ LInv => ListedTablesExist
  BY ListedThere
<1> QED
  BY <1>1, <1>2, <1>3, Shaped, Safety, PTL DEF Spec

-----------------------------------------------------------------------------
(* The key records of the MANIFEST *)

\* A MANIFEST that follows a failed write, or one that was rolled for its size,
\* has the tables without their keys.  The theorems of this part are about the
\* other case.
OneManifest == ~AllowRoll /\ ~AllowManifestError

\* The MANIFEST has the key of a file.
Recorded(n) == manifest.keys[n] # NoKey /\ manifest.keys[n] = KeyList[n]

\* A flush from the end of its table to the end of its key record.
Window == {"install", "commit", "committing", "key", "keying"}

\* The MANIFEST has the key of a file, or its flush will record it.
Windowed(n) == n \in FlushWindow \/ Recorded(n)

\* The key is recorded, or the record waits in the queue.
Logged(j, n) ==
  \/ Recorded(n)
  \/ \E i \in 1 .. Len(writers) :
       group.done < i /\ writers[i].job = j /\ writers[i].edit.sst = n

\* The key record is deleted, or the deletion waits in the queue.
Erased(j, n) ==
  \/ manifest.keys[n] = NoKey
  \/ \E i \in 1 .. Len(writers) :
       group.done < i /\ writers[i].job = j /\ writers[i].edit.drop = n

\* The key record of a flush is in the queue; its output is recorded once the
\* record is written.
KeyQueued(j) ==
  \E i \in 1 .. Len(writers) :
    /\ writers[i].job = j /\ writers[i].edit.sst = out[j]
    /\ i <= group.done => Recorded(out[j])

\* What a job has recorded of its files.
RecordsOf(j) ==
  /\ pc[j] = "keying" => KeyQueued(j)
  /\ pc[j] \in {"sync", "syncing"} => \A n \in outs[j] \ todo[j] : Logged(j, n)
  /\ pc[j] \in {"drop", "dropping"} => \A n \in del[j] \ todo[j] : Erased(j, n)

\* The edit of a writer records the key of a file that its job shields, deletes
\* the record of a file that its job has purged, or adds files whose keys are
\* recorded or about to be.
KeyEdit(j, e) ==
  /\ e.sst # None => /\ ~Doomed(e.sst) /\ e.key # NoKey
                     /\ e.key = KeyList[e.sst] /\ Shields(j, e.sst)
                     /\ e.drop = None
  /\ e.drop # None => e.drop \in del[j] /\ pc[j] = "dropping" /\ e.add = {}
  /\ \A n \in e.add : Windowed(n)

MemsWindowed == \A m \in imm : m.has /\ Reachable(m) => Windowed(m.file)

\* The keys of the MANIFEST are those of the list.
KeysAgree ==
  \A n \in File : manifest.keys[n] # NoKey => manifest.keys[n] = KeyList[n]

Recording ==
  /\ descriptor_log_ /\ ~rolling
  /\ \A n \in manifest.files : Windowed(n)
  /\ \A w \in Queue : KeyEdit(w.job, w.edit)
  /\ MemsWindowed
  /\ \A j \in Jobs : RecordsOf(j)

\* The inductive invariant, on top of SInv and LInv.
DInv ==
  /\ Up => KeysAgree
  /\ phase = "recovered" => \A n \in manifest.files : Opens(manifest.keys, n)
  /\ phase = "rekey" => \A n \in version \ rekey : Recorded(n)
  /\ Running => Recording

\* The step changes no MANIFEST, loses no key that is recorded, lets no flush
\* out of its window and leaves the sleeping jobs alone.
Kept ==
  /\ manifest' = manifest /\ group'.done = group.done
  /\ descriptor_log_' /\ ~rolling'
  /\ \A n \in File : (\E j \in Jobs : Shields(j, n)') /\ ~Doomed(n) => ~Doomed(n)'
  /\ \A n \in File : KeyList[n] # NoKey =>
       \/ KeyList'[n] = KeyList[n]
       \/ manifest.keys[n] = NoKey /\ Doomed(n)
  /\ \A j \in FlushJobs : pc[j] \in Window => pc'[j] \in Window /\ out'[j] = out[j]
  /\ \A j \in Jobs : pc[j] \in Waiting =>
       /\ pc'[j] = pc[j] /\ pend'[j] = pend[j] /\ del'[j] = del[j]
       /\ out'[j] = out[j] /\ outs'[j] = outs[j] /\ todo'[j] = todo[j]

\* What is recorded stays so.
LEMMA KeptRecorded ==
  ASSUME Kept, NEW n \in File, Recorded(n)
  PROVE  Recorded(n)'
BY DEF Kept, Recorded

\* What is recorded, or in the window of a flush that will record it, stays so.
LEMMA KeptWindowed ==
  ASSUME Kept, NEW n \in File, Windowed(n)
  PROVE  Windowed(n)'
<1>1. CASE n \in FlushWindow
  <2>1. PICK j \in FlushJobs : out[j] = n /\ pc[j] \in Window
    BY <1>1 DEF FlushWindow, Window
  <2>2. out'[j] = n /\ pc'[j] \in Window
    BY <2>1 DEF Kept
  <2> QED
    BY <2>2 DEF Windowed, FlushWindow, Window
<1>2. CASE Recorded(n)
  BY <1>2, KeptRecorded DEF Windowed
<1> QED
  BY <1>1, <1>2 DEF Windowed

\* The keys of the MANIFEST stay those of the list.
LEMMA KeptAgree ==
  ASSUME TInv, TInv', Kept, KeysAgree
  PROVE  KeysAgree'
BY DEF Kept, KeysAgree

\* So is an edit of a writer that sleeps on.
LEMMA KeptEdit ==
  ASSUME TInv, Kept, NEW j \in Jobs, pc[j] \in Waiting, NEW e \in Edit,
         KeyEdit(j, e)
  PROVE  KeyEdit(j, e)'
<1>1. /\ pc'[j] = pc[j] /\ pend'[j] = pend[j] /\ del'[j] = del[j]
  BY DEF Kept
<1>2. /\ e.sst \in File \cup {None} /\ e.add \in SUBSET File
  BY DEF Edit
<1>3. ASSUME e.sst # None
      PROVE  /\ ~Doomed(e.sst)' /\ e.key # NoKey /\ e.key = KeyList'[e.sst]
             /\ Shields(j, e.sst)' /\ e.drop = None
  <2>1. PICK n \in File : n = e.sst
    BY <1>2, <1>3
  <2>2. /\ ~Doomed(n) /\ e.key # NoKey /\ e.key = KeyList[n] /\ Shields(j, n)
        /\ e.drop = None
    BY <1>3, <2>1 DEF KeyEdit
  <2>3. Shields(j, n)'
    BY <1>1, <2>2 DEF Shields
  <2>4. ~Doomed(n)' /\ KeyList'[n] = KeyList[n]
    BY <2>2, <2>3 DEF Kept
  <2>5. Shields(j, e.sst)' /\ ~Doomed(e.sst)'
    BY <2>1, <2>3, <2>4
  <2> QED
    BY <2>1, <2>2, <2>4, <2>5
<1>4. \A n \in e.add : Windowed(n)'
  BY <1>2, KeptWindowed DEF KeyEdit
<1> QED
  BY <1>1, <1>3, <1>4 DEF KeyEdit

\* The writers keep their places.
Extends ==
  /\ Len(writers) <= Len(writers')
  /\ \A i \in 1 .. Len(writers) : i \in 1 .. Len(writers') /\ writers'[i] = writers[i]

\* So is what a job has recorded, and what it still has to record.
LEMMA KeptLogged ==
  ASSUME Kept, Extends, NEW j, NEW n \in File, Logged(j, n)
  PROVE  Logged(j, n)'
<1>1. CASE Recorded(n)
  BY <1>1, KeptRecorded DEF Logged
<1>2. CASE \E i \in 1 .. Len(writers) :
             group.done < i /\ writers[i].job = j /\ writers[i].edit.sst = n
  BY <1>2 DEF Logged, Kept, Extends
<1> QED
  BY <1>1, <1>2 DEF Logged

\* What a job has erased from the MANIFEST, or has queued for erasure, stays so.
LEMMA KeptErased ==
  ASSUME Kept, Extends, NEW j, NEW n, Erased(j, n)
  PROVE  Erased(j, n)'
<1>1. CASE manifest.keys[n] = NoKey
  BY <1>1 DEF Erased, Kept
<1>2. CASE \E i \in 1 .. Len(writers) :
             group.done < i /\ writers[i].job = j /\ writers[i].edit.drop = n
  BY <1>2 DEF Erased, Kept, Extends
<1> QED
  BY <1>1, <1>2 DEF Erased

\* The step does not touch the records of a job.
SameRecords(j) ==
  /\ pc'[j] = pc[j] /\ out'[j] = out[j] /\ outs'[j] = outs[j]
  /\ todo'[j] = todo[j] /\ del'[j] = del[j]

\* A step that leaves a job alone keeps what the job promises to record.
LEMMA KeptRecords ==
  ASSUME TInv, Kept, Extends, NEW j \in Jobs, RecordsOf(j), SameRecords(j)
  PROVE  RecordsOf(j)'
<1>0. /\ out[j] \in File \cup {None} /\ outs[j] \subseteq File
      /\ pc[j] = "keying" => out[j] \in File
  BY DEF TInv, TypeOK, JobType, Shape, Building
<1>1. ASSUME pc[j] = "keying" PROVE KeyQueued(j)'
  <2>1. PICK n \in File : n = out[j]
    BY <1>0, <1>1
  <2>2. PICK i \in 1 .. Len(writers) :
          /\ writers[i].job = j /\ writers[i].edit.sst = n
          /\ i <= group.done => Recorded(n)
    BY <1>1, <2>1 DEF RecordsOf, KeyQueued
  <2>3. i <= group'.done => Recorded(n)'
    BY <2>2, KeptRecorded DEF Kept
  <2>4. i \in 1 .. Len(writers') /\ writers'[i] = writers[i] /\ out'[j] = n
    BY <2>1 DEF Extends, SameRecords
  <2>5. i <= group'.done => Recorded(out[j])'
    BY <2>3, <2>4
  <2> QED
    BY <2>2, <2>4, <2>5 DEF KeyQueued
<1>2. ASSUME pc[j] \in {"sync", "syncing"}, NEW n \in outs[j] \ todo[j]
      PROVE  Logged(j, n)'
  BY <1>0, <1>2, KeptLogged DEF RecordsOf
<1>3. ASSUME pc[j] \in {"drop", "dropping"}, NEW n \in del[j] \ todo[j]
      PROVE  Erased(j, n)'
  BY <1>3, KeptErased DEF RecordsOf
<1> QED
  BY <1>1, <1>2, <1>3 DEF RecordsOf, SameRecords

\* A job that has nothing to record.
LEMMA NoRecords ==
  ASSUME NEW j,
         pc'[j] \notin {"keying", "sync", "syncing", "drop", "dropping"}
  PROVE  RecordsOf(j)'
BY DEF RecordsOf

\* A step that the memtables do not notice.
LEMMA KeptMems ==
  ASSUME TInv, Kept, MemsWindowed, imm' = imm, SameFlushes
  PROVE  MemsWindowed'
<1> SUFFICES ASSUME NEW m \in imm, m.has, Reachable(m)'
             PROVE  Windowed(m.file)'
  BY DEF MemsWindowed
<1>1. Reachable(m)
  BY ReachKept
<1>2. PICK n \in File : n = m.file
  BY DEF TInv, TypeOK, MemType, Mem
<1>3. Windowed(n)'
  BY <1>1, <1>2, KeptWindowed DEF MemsWindowed
<1> QED
  BY <1>2, <1>3

\* The writers that were in the queue.
LEMMA KeptWriter ==
  ASSUME TInv, SInv, DInv, Running, Kept, NEW w \in Queue
  PROVE  KeyEdit(w.job, w.edit)'
<1>1. w \in Writer /\ WriterHeld(w) /\ KeyEdit(w.job, w.edit)
  BY QueueType, Parts DEF QueueHeld, DInv, Recording
<1>2. w.job \in Jobs /\ w.edit \in Edit /\ pc[w.job] \in Waiting
  BY <1>1 DEF Writer, WriterHeld
<1> QED
  BY <1>1, <1>2, KeptEdit

\* The files the MANIFEST lists.
LEMMA KeptFiles ==
  ASSUME TInv, Recording, Kept
  PROVE  \A n \in manifest'.files : Windowed(n)'
<1>1. manifest.files \subseteq File
  BY DEF TInv, TypeOK, KeyType, Manifest
<1> QED
  BY <1>1, KeptWindowed DEF Recording, Kept

\* A step that queues nothing.
LEMMA KeptStill ==
  ASSUME TInv, TInv', SInv, DInv, Running, Running', Kept, writers' = writers,
         MemsWindowed', \A j \in Jobs : RecordsOf(j)'
  PROVE  DInv'
<1>1. KeysAgree /\ Recording
  BY DEF DInv, Up, Running
<1>2. KeysAgree'
  BY <1>1, KeptAgree
<1>3. \A w \in Queue' : KeyEdit(w.job, w.edit)'
  <2>1. Queue' = Queue
    BY DEF Queue
  <2> QED
    BY <2>1, KeptWriter
<1>4. \A n \in manifest'.files : Windowed(n)'
  BY <1>1, KeptFiles
<1>5. Recording'
  BY <1>3, <1>4 DEF Recording, Kept
<1> QED
  BY <1>2, <1>5 DEF DInv, Running

\* A step that queues an edit.
LEMMA KeptQueued ==
  ASSUME TInv, TInv', SInv, DInv, Running, Running', Kept,
         NEW j \in Jobs, NEW e \in Edit, NEW mems, LogAndApply(j, e, mems),
         KeyEdit(j, e)', MemsWindowed', \A k \in Jobs : RecordsOf(k)'
  PROVE  DInv'
<1>1. KeysAgree /\ Recording
  BY DEF DInv, Up, Running
<1>2. KeysAgree'
  BY <1>1, KeptAgree
<1>3. ASSUME NEW w \in Queue' PROVE KeyEdit(w.job, w.edit)'
  <2>1. PICK i \in 1 .. Len(writers') : w = writers'[i]
    BY DEF Queue
  <2>2. /\ Len(writers') = Len(writers) + 1
        /\ \A x \in 1 .. Len(writers) : writers'[x] = writers[x]
        /\ writers'[Len(writers) + 1] = [job |-> j, edit |-> e, mems |-> mems]
    BY QueueType DEF LogAndApply
  <2>3. CASE i \in 1 .. Len(writers)
    <3>1. w \in Queue
      BY <2>1, <2>2, <2>3 DEF Queue
    <3> QED
      BY <3>1, KeptWriter
  <2>4. CASE i = Len(writers) + 1
    <3>1. w.job = j /\ w.edit = e
      BY <2>1, <2>2, <2>4
    <3> QED
      BY <3>1
  <2> QED
    BY <2>2, <2>3, <2>4, QueueType
<1>4. \A n \in manifest'.files : Windowed(n)'
  BY <1>1, KeptFiles
<1>5. Recording'
  BY <1>3, <1>4 DEF Recording, Kept
<1> QED
  BY <1>2, <1>5 DEF DInv, Running

\* The step is one of a holder that is awake, and changes no MANIFEST.
Apart(h) ==
  /\ UNCHANGED <<manifest, group, rolling, descriptor_log_>>
  /\ \A k \in Jobs \ {h} : SameRecords(k) /\ pend'[k] = pend[k]
  /\ h \in Jobs => pc[h] \notin Waiting
  /\ h \in FlushJobs /\ pc[h] \in Window => pc'[h] \in Window /\ out'[h] = out[h]

\* Such a step keeps what is recorded when it keeps the keys and gives no purge
\* a file that a job shields.
LEMMA ApartKept ==
  ASSUME Recording, NEW h, Apart(h),
         \A n \in File :
           (\E j \in Jobs : Shields(j, n)') /\ ~Doomed(n) => ~Doomed(n)',
         \A n \in File : KeyList[n] # NoKey =>
           \/ KeyList'[n] = KeyList[n]
           \/ manifest.keys[n] = NoKey /\ Doomed(n)
  PROVE  Kept
<1>1. \A j \in FlushJobs : j \in Jobs
  BY DEF Jobs
<1>2. manifest' = manifest /\ group'.done = group.done /\ descriptor_log_' /\ ~rolling'
  BY DEF Recording, Apart
<1>3. \A j \in Jobs : pc[j] \in Waiting => SameRecords(j) /\ pend'[j] = pend[j]
  BY DEF Apart
<1>4. \A j \in FlushJobs : pc[j] \in Window => pc'[j] \in Window /\ out'[j] = out[j]
  BY <1>1 DEF Apart, SameRecords
<1> QED
  BY <1>2, <1>3, <1>4 DEF Kept, SameRecords

\* The other jobs keep what they have recorded.
LEMMA ApartRecords ==
  ASSUME TInv, Recording, NEW h, Apart(h), Kept, Extends,
         h \in Jobs => RecordsOf(h)'
  PROVE  \A k \in Jobs : RecordsOf(k)'
<1>1. ASSUME NEW k \in Jobs, k # h PROVE RecordsOf(k)'
  <2>1. RecordsOf(k) /\ SameRecords(k)
    BY <1>1 DEF Recording, Apart
  <2> QED
    BY <2>1, KeptRecords
<1> QED
  BY <1>1

\* The step keeps the invariant when it queues nothing and the memtables do not
\* notice it.
LEMMA ApartStill ==
  ASSUME TInv, TInv', SInv, DInv, Running, Running', NEW h, Apart(h), Kept,
         writers' = writers, imm' = imm, SameFlushes,
         h \in Jobs => RecordsOf(h)'
  PROVE  DInv'
<1>1. Recording
  BY DEF DInv
<1>2. Extends
  BY QueueType DEF Extends
<1>3. \A k \in Jobs : RecordsOf(k)'
  BY <1>1, <1>2, ApartRecords
<1>4. MemsWindowed'
  BY <1>1, KeptMems DEF Recording
<1> QED
  BY <1>3, <1>4, KeptStill

\* What queueing an edit does to the queue.
LEMMA Queued ==
  ASSUME TInv, NEW j, NEW e, NEW mems, LogAndApply(j, e, mems)
  PROVE  /\ Extends /\ group.done <= Len(writers) /\ group.done \in Nat
         /\ Len(writers) \in Nat /\ Len(writers') = Len(writers) + 1
         /\ writers'[Len(writers) + 1].job = j
         /\ writers'[Len(writers) + 1].edit = e
BY QueueType DEF LogAndApply, Extends

\* The step keeps the invariant when its edit is fit.
LEMMA ApartQueued ==
  ASSUME TInv, TInv', SInv, DInv, Running, Running', NEW h, Apart(h), Kept,
         imm' = imm, SameFlushes, h \in Jobs => RecordsOf(h)',
         NEW j \in Jobs, NEW e \in Edit, NEW mems, LogAndApply(j, e, mems),
         KeyEdit(j, e)'
  PROVE  DInv'
<1>1. Recording
  BY DEF DInv
<1>2. Extends
  BY Queued
<1>3. \A k \in Jobs : RecordsOf(k)'
  BY <1>1, <1>2, ApartRecords
<1>4. MemsWindowed'
  BY <1>1, KeptMems DEF Recording
<1> QED
  BY <1>3, <1>4, KeptQueued

\* The keys and the purges of a step that draws at most a key.
LEMMA CalmKept ==
  ASSUME Recording, NEW h, Apart(h), \A k \in Holders : del'[k] \subseteq del[k],
         \A n \in File : KeyList[n] # NoKey => KeyList'[n] = KeyList[n]
  PROVE  Kept
<1>1. \A n \in File : ~Doomed(n) => ~Doomed(n)'
  BY DEF Doomed
<1> QED
  BY <1>1, ApartKept

\* AddSSTKeyToList replaces no key.
LEMMA AddKeeps ==
  ASSUME TInv, NEW n, NEW k, KeyList' = AddSSTKeyToList(KeyList, n, k)
  PROVE  \A x \in File : KeyList[x] # NoKey => KeyList'[x] = KeyList[x]
BY DEF AddSSTKeyToList, TInv, TypeOK, KeyType

\* The steps of a flush between its queued records.
LEMMA FlushDurable ==
  ASSUME TInv, TInv', SInv, DInv, NEW j \in FlushJobs,
         GenerateKey(j) \/ CommitDone(j) \/ CommitFails(j)
  PROVE  DInv'
<1>0. j \in Jobs /\ j \in Holders /\ Running /\ Running' /\ Recording
  BY JobKinds DEF GenerateKey, CommitDone, CommitFails, bootVars,
     Running, DInv
<1>1. /\ UNCHANGED <<manifest, group, rolling, descriptor_log_, out, outs, todo,
                     del, pend, writers, imm>>
      /\ \A k \in Holders \ {j} : pc'[k] = pc[k]
  BY <1>0 DEF GenerateKey, CommitDone, CommitFails, disk, logVars,
     memVars, TInv, TypeOK, JobType
<1>2. /\ pc[j] \in {"gen", "commit", "restored"}
      /\ pc[j] = "gen" => pc'[j] = "build"
      /\ pc[j] = "commit" => pc'[j] = "key"
      /\ pc[j] = "restored" => pc'[j] \in {"keyerr", "keyio"}
  BY <1>0 DEF GenerateKey, CommitDone, CommitFails, TInv, TypeOK,
     JobType
<1>3. \A n \in File : KeyList[n] # NoKey => KeyList'[n] = KeyList[n]
  <2>1. CASE GenerateKey(j)
    BY <2>1, AddKeeps DEF GenerateKey
  <2>2. CASE ~GenerateKey(j)
    BY <2>2 DEF CommitDone, CommitFails
  <2> QED
    BY <2>1, <2>2
<1>4. Apart(j)
  BY <1>0, <1>1, <1>2, JobKinds DEF Apart, SameRecords, Waiting, Window
<1>5. Kept
  BY <1>0, <1>1, <1>3, <1>4, CalmKept
<1>6. SameFlushes
  BY <1>1, <1>2, JobKinds DEF SameFlushes, Unfinished
<1>7. RecordsOf(j)'
  BY <1>2, NoRecords
<1> QED
  BY <1>0, <1>1, <1>4, <1>5, <1>6, <1>7, ApartStill

\* A flush that fails keeps the records: its file has none.
LEMMA FlushFailsDurable ==
  ASSUME TInv, TInv', SInv, DInv, NEW j \in FlushJobs, FlushFails(j)
  PROVE  DInv'
<1>0. j \in Jobs /\ j \in Holders /\ Running /\ Running' /\ Recording
  BY JobKinds DEF FlushFails, bootVars, Running, DInv
<1>1. /\ UNCHANGED <<KeyList, manifest, group, rolling, descriptor_log_, del,
                     writers, out, outs, todo, pend>>
      /\ \A k \in Holders \ {j} : pc'[k] = pc[k]
      /\ pc[j] = "build" /\ pc'[j] = "failed"
  BY <1>0 DEF FlushFails, disk, logVars, TInv, TypeOK, JobType
<1>2. Apart(j)
  BY <1>0, <1>1, JobKinds DEF Apart, SameRecords, Waiting, Window
<1>3. Kept
  BY <1>0, <1>1, <1>2, CalmKept
<1>4. Extends
  BY <1>1, QueueType DEF Extends
<1>5. \A k \in Jobs : RecordsOf(k)'
  <2>1. RecordsOf(j)'
    BY <1>1, NoRecords
  <2> QED
    BY <1>0, <1>2, <1>3, <1>4, <2>1, ApartRecords
<1>6. MemsWindowed'
  <2> SUFFICES ASSUME NEW x \in imm', x.has, Reachable(x)'
               PROVE  Windowed(x.file)'
    BY DEF MemsWindowed
  <2>1. x \in imm /\ Reachable(x)
    BY FlushFailsReach
  <2>2. PICK n \in File : n = x.file
    BY <2>1 DEF TInv, TypeOK, MemType, Mem
  <2>3. Windowed(n)'
    BY <1>0, <1>3, <2>1, <2>2, KeptWindowed DEF Recording, MemsWindowed
  <2> QED
    BY <2>2, <2>3
<1> QED
  BY <1>0, <1>1, <1>3, <1>5, <1>6, KeptStill

\* The steps of a compaction between its queued records.
LEMMA CompactionDurable ==
  ASSUME TInv, TInv', SInv, DInv, Running', NEW c \in CompactionJobs,
         CompactionStart(c) \/ OpenCompactionOutputFile(c)
           \/ FinishCompactionOutputFile(c) \/ CompactionFails(c)
           \/ InstallCompactionResults(c)
  PROVE  DInv'
<1>0. /\ c \in Jobs /\ c \in Holders /\ c \notin FlushJobs /\ Running /\ Running'
      /\ Recording
  <2>1. c \in Jobs /\ c \in Holders /\ c \notin FlushJobs
    BY CompactionApart
  <2>2. Running
    BY DEF CompactionStart, OpenCompactionOutputFile,
       FinishCompactionOutputFile, CompactionFails, InstallCompactionResults
  <2> QED
    BY <2>1, <2>2 DEF DInv
<1>1. /\ UNCHANGED <<manifest, group, rolling, descriptor_log_, del, writers, imm>>
      /\ \A k \in Holders \ {c} : pc'[k] = pc[k] /\ todo'[k] = todo[k]
      /\ \A k \in Jobs \ {c} :
           out'[k] = out[k] /\ outs'[k] = outs[k] /\ pend'[k] = pend[k]
  BY <1>0 DEF CompactionStart, OpenCompactionOutputFile,
     FinishCompactionOutputFile, CompactionFails, InstallCompactionResults,
     disk, logVars, memVars, TInv, TypeOK, JobType
<1>2. /\ pc[c] \in {"idle", "run", "build"}
      /\ \/ pc'[c] \in {"run", "build", "failed"}
         \/ pc'[c] = "sync" /\ todo'[c] = outs[c] /\ outs' = outs
  BY <1>0 DEF CompactionStart, OpenCompactionOutputFile,
     FinishCompactionOutputFile, CompactionFails, InstallCompactionResults,
     TInv, TypeOK, JobType
<1>3. \A n \in File : KeyList[n] # NoKey => KeyList'[n] = KeyList[n]
  <2>1. CASE OpenCompactionOutputFile(c)
    BY <2>1, AddKeeps DEF OpenCompactionOutputFile
  <2>2. CASE ~OpenCompactionOutputFile(c)
    BY <2>2 DEF CompactionStart, FinishCompactionOutputFile, CompactionFails,
       InstallCompactionResults
  <2> QED
    BY <2>1, <2>2
<1>4. Apart(c)
  BY <1>0, <1>1, <1>2, JobKinds DEF Apart, SameRecords, Waiting
<1>5. Kept
  BY <1>0, <1>1, <1>3, <1>4, CalmKept
<1>6. SameFlushes
  BY <1>0, <1>1, JobKinds DEF SameFlushes
<1>7. RecordsOf(c)'
  <2>1. CASE pc'[c] \in {"run", "build", "failed"}
    BY <2>1, NoRecords
  <2>2. CASE pc'[c] = "sync" /\ todo'[c] = outs[c] /\ outs' = outs
    BY <2>2 DEF RecordsOf
  <2> QED
    BY <1>2, <2>1, <2>2
<1> QED
  BY <1>0, <1>1, <1>4, <1>5, <1>6, <1>7, ApartStill

\* The steps of a purge between its queued records.
LEMMA PurgeDurable ==
  ASSUME TInv, TInv', SInv, DInv, NEW h \in Holders,
         \/ h \in Jobs /\ SetBGError(h)
         \/ DeleteObsoleteFile(h) \/ PurgeDone(h)
  PROVE  DInv'
<1>0. /\ Running /\ Running' /\ Recording /\ \A k \in Jobs : k \in Holders
  BY JobKinds DEF SetBGError, DeleteObsoleteFile, PurgeDone, bootVars, Running,
     DInv
<1>1. /\ UNCHANGED <<KeyList, manifest, group, rolling, descriptor_log_, writers,
                     imm, out, outs, pend>>
      /\ \A k \in Holders \ {h} :
           pc'[k] = pc[k] /\ todo'[k] = todo[k] /\ del'[k] = del[k]
  BY DEF SetBGError, DeleteObsoleteFile, PurgeDone, disk, logVars, memVars, TInv,
     TypeOK, JobType
<1>2. /\ pc[h] \in {"err", "errio", "release", "purge"}
      /\ del'[h] \subseteq del[h]
      /\ \/ pc'[h] \in {"failed", "purge", "idle"}
         \/ pc'[h] = "drop" /\ todo'[h] = del[h]
  <2>1. CASE h \in Jobs /\ SetBGError(h)
    BY <2>1 DEF SetBGError, TInv, TypeOK, JobType
  <2>2. CASE DeleteObsoleteFile(h)
    BY <2>2 DEF DeleteObsoleteFile
  <2>3. CASE PurgeDone(h)
    BY <2>3 DEF PurgeDone, TInv, TypeOK, JobType
  <2> QED
    BY <2>1, <2>2, <2>3
<1>4. Apart(h)
  BY <1>0, <1>1, <1>2 DEF Apart, SameRecords, Waiting, Window
<1>5. Kept
  <2>1. \A k \in Holders : del'[k] \subseteq del[k]
    BY <1>1, <1>2
  <2> QED
    BY <1>0, <1>1, <1>4, <2>1, CalmKept
<1>6. SameFlushes
  BY <1>0, <1>1, <1>2, JobKinds DEF SameFlushes, Unfinished
<1>7. RecordsOf(h)'
  <2>1. CASE pc'[h] \in {"failed", "purge", "idle"}
    BY <2>1, NoRecords
  <2>2. CASE pc'[h] = "drop" /\ todo'[h] = del[h]
    BY <1>2, <2>2 DEF RecordsOf
  <2> QED
    BY <1>2, <2>1, <2>2
<1> QED
  BY <1>0, <1>1, <1>4, <1>5, <1>6, <1>7, ApartStill

\* EraseKeys takes keys whose records are deleted: its job is not in the queue
\* any more.
LEMMA EraseKeysDurable ==
  ASSUME TInv, TInv', SInv, DInv, NEW j \in Jobs, EraseKeys(j)
  PROVE  DInv'
<1>0. j \in Holders /\ Running /\ Running' /\ Recording /\ QueueHeld
  BY JobKinds, Parts DEF EraseKeys, bootVars, Running, DInv
<1>1. /\ UNCHANGED <<manifest, group, rolling, descriptor_log_, writers,
                     imm, out, outs, pend, todo>>
      /\ \A k \in Holders \ {j} : pc'[k] = pc[k] /\ del'[k] = del[k]
      /\ pc[j] = "drop" /\ todo[j] = {} /\ pc'[j] = "idle" /\ del'[j] = {}
      /\ \A n \in File : KeyList'[n] = IF n \in del[j] THEN NoKey ELSE KeyList[n]
  BY <1>0 DEF EraseKeys, disk, logVars, memVars, TInv, TypeOK, JobType
<1>2. ASSUME NEW n \in del[j] PROVE manifest.keys[n] = NoKey /\ Doomed(n)
  <2>1. Erased(j, n)
    BY <1>0, <1>1, <1>2 DEF Recording, RecordsOf
  <2>2. \A i \in 1 .. Len(writers) : writers[i].job # j
    BY <1>0, <1>1, QueueType DEF QueueHeld, WriterHeld, Waiting
  <2> QED
    BY <1>0, <1>2, <2>1, <2>2 DEF Erased, Doomed
<1>4. Apart(j)
  BY <1>0, <1>1, JobKinds DEF Apart, SameRecords, Waiting, Window
<1>5. Kept
  <2>1. \A n \in File : ~Doomed(n) => ~Doomed(n)'
    BY <1>1 DEF Doomed
  <2> QED
    BY <1>0, <1>1, <1>2, <1>4, <2>1, ApartKept
<1>6. SameFlushes
  BY <1>0, <1>1, JobKinds DEF SameFlushes, Unfinished
<1>7. RecordsOf(j)'
  BY <1>1, NoRecords
<1> QED
  BY <1>0, <1>1, <1>4, <1>5, <1>6, <1>7, ApartStill

\* The steps of clients.
LEMMA ClientDurable ==
  ASSUME TInv, TInv', SInv, DInv, Running',
         SwitchMemtable \/ \E i \in Iterators : NewIterator(i) \/ ReadBlock(i)
  PROVE  DInv'
<1>0. Running /\ Recording
  BY DEF SwitchMemtable, NewIterator, ReadBlock, DInv
<1>1. /\ UNCHANGED <<KeyList, manifest, group, rolling, descriptor_log_, writers,
                     imm, out, outs, pend, del, todo>>
      /\ \A k \in Jobs : pc'[k] = pc[k]
  BY JobKinds DEF SwitchMemtable, NewIterator, ReadBlock, disk, logVars, memVars,
     jobVars, TInv, TypeOK, JobType
<1>2. \A n : Doomed(n)' <=> Doomed(n)
  BY <1>1 DEF Doomed
<1>3. Kept
  BY <1>0, <1>1, <1>2, JobKinds DEF Kept, Recording
<1>4. Extends
  BY <1>1, QueueType DEF Extends
<1>5. ASSUME NEW k \in Jobs PROVE RecordsOf(k)'
  <2>1. RecordsOf(k) /\ SameRecords(k)
    BY <1>0, <1>1 DEF Recording, SameRecords
  <2> QED
    BY <1>3, <1>4, <2>1, KeptRecords
<1>6. SameFlushes
  BY <1>1, JobKinds DEF SameFlushes
<1>7. MemsWindowed'
  BY <1>0, <1>1, <1>3, <1>6, KeptMems DEF Recording
<1> QED
  BY <1>0, <1>1, <1>3, <1>5, <1>7, KeptStill

\* A purge begins: it takes no file that a job shields.
LEMMA FindDurable ==
  ASSUME TInv, TInv', SInv, DInv, Running, Running', NEW h \in Holders,
         NEW full \in BOOLEAN, FindObsoleteFiles(h, full), Sparing,
         UNCHANGED <<KeyList, manifest, group, rolling, descriptor_log_,
                     writers, imm>>,
         h \in Jobs => pc[h] \in {"release", "failed"},
         \A k \in Jobs \ {h} : pend'[k] = pend[k] /\ out'[k] = out[k]
                               /\ outs'[k] = outs[k]
  PROVE  DInv'
<1>0. Recording /\ \A k \in Jobs : k \in Holders
  BY JobKinds DEF DInv
<1>1. /\ \A k \in Holders \ {h} :
           pc'[k] = pc[k] /\ todo'[k] = todo[k] /\ del'[k] = del[k]
      /\ pc'[h] \in {"idle", "purge"}
  BY DEF FindObsoleteFiles, TInv, TypeOK, JobType
<1>2. Apart(h)
  BY <1>0, <1>1, JobKinds DEF Apart, SameRecords, Waiting, Window
<1>3. Kept
  <2>1. \A n \in File :
          (\E j \in Jobs : Shields(j, n)') /\ ~Doomed(n) => ~Doomed(n)'
    BY DEF Sparing, Spared
  <2> QED
    BY <1>0, <1>2, <2>1, ApartKept
<1>4. SameFlushes
  BY <1>0, <1>1, JobKinds DEF SameFlushes, Unfinished
<1>5. RecordsOf(h)'
  BY <1>1, NoRecords
<1> QED
  BY <1>2, <1>3, <1>4, <1>5, ApartStill

\* FlushStart keeps the records: what it picks again has no table.
LEMMA FlushStartDurable ==
  ASSUME TInv, TInv', NInv, SInv, DInv, NEW j \in FlushJobs, FlushStart(j)
  PROVE  DInv'
<1>0. /\ j \in Jobs /\ j \in Holders /\ Running /\ Running' /\ Recording
      /\ \A m \in imm : m \in Mem
  BY JobKinds DEF FlushStart, bootVars, Running, DInv, TInv, TypeOK, MemType
<1>1. /\ UNCHANGED <<KeyList, manifest, group, rolling, descriptor_log_, del,
                     writers, outs, todo>>
      /\ \A k \in Holders \ {j} : pc'[k] = pc[k]
      /\ \A k \in Jobs \ {j} : out'[k] = out[k] /\ pend'[k] = pend[k]
      /\ pc[j] = "idle" /\ pc'[j] = "gen" /\ out'[j] = nextFile
      /\ nextFile \in Nat /\ nextFile > 0
  BY <1>0 DEF FlushStart, disk, logVars, TInv, TypeOK, JobType, FileType
<1>2. Apart(j)
  BY <1>0, <1>1, JobKinds DEF Apart, SameRecords, Waiting, Window
<1>3. Kept
  BY <1>0, <1>1, <1>2, CalmKept
<1>4. Extends
  BY <1>1, QueueType DEF Extends
<1>5. \A k \in Jobs : RecordsOf(k)'
  <2>1. RecordsOf(j)'
    BY <1>1, NoRecords
  <2> QED
    BY <1>0, <1>2, <1>3, <1>4, <2>1, ApartRecords
<1>6. MemsWindowed'
  <2> SUFFICES ASSUME NEW x \in imm', x.has, Reachable(x)'
               PROVE  Windowed(x.file)'
    BY DEF MemsWindowed
  <2>1. x \in imm /\ x.file # None
    <3>1. PICK m \in imm : x.has = m.has /\ (m.file # None => x = m)
      BY FlushStartMems
    <3> QED
      BY <1>0, <3>1 DEF Mem
  <2>2. Reachable(x)
    <3> SUFFICES ASSUME NEW o \in imm, o.id <= x.id, ~o.done PROVE Active(o)
      BY DEF Reachable
    <3>0. o.file < nextFile /\ o.file \in Nat
      BY <1>0 DEF NInv, RamSpent, Up, Running, Mem, File, None
    <3>1. o.file # None /\ o.file # nextFile
      BY <1>0, <1>1, <2>1, <3>0, Parts DEF MemsOrdered, FlushStart
    <3>2. o \in imm'
      BY <3>1, FlushStartMems
    <3>3. Active(o)'
      BY <3>2 DEF Reachable
    <3>4. PICK f \in FlushJobs : out'[f] = o.file /\ pc'[f] \in Unfinished
      BY <3>3 DEF Active
    <3>5. f # j
      BY <1>1, <3>1, <3>4
    <3> QED
      BY <1>1, <3>4, <3>5, JobKinds DEF Active
  <2>3. PICK n \in File : n = x.file
    BY <1>0, <2>1 DEF Mem
  <2>4. Windowed(n)'
    BY <1>0, <1>3, <2>1, <2>2, <2>3, KeptWindowed DEF Recording, MemsWindowed
  <2> QED
    BY <2>3, <2>4
<1> QED
  BY <1>0, <1>1, <1>3, <1>5, <1>6, KeptStill

\* BuildFlushTable keeps the records: its flush enters the window.
LEMMA BuildFlushTableDurable ==
  ASSUME TInv, TInv', SInv, DInv, NEW j \in FlushJobs, BuildFlushTable(j)
  PROVE  DInv'
<1>0. j \in Jobs /\ j \in Holders /\ Running /\ Running' /\ Recording
  BY JobKinds DEF BuildFlushTable, bootVars, Running, DInv
<1>1. /\ UNCHANGED <<KeyList, manifest, group, rolling, descriptor_log_, del,
                     writers, out, outs, todo, pend>>
      /\ \A k \in Holders \ {j} : pc'[k] = pc[k]
      /\ pc[j] = "build" /\ pc'[j] = "install"
  BY <1>0 DEF BuildFlushTable, logVars, TInv, TypeOK, JobType
<1>2. Apart(j)
  BY <1>0, <1>1, JobKinds DEF Apart, SameRecords, Waiting, Window
<1>3. Kept
  BY <1>0, <1>1, <1>2, CalmKept
<1>4. Extends
  BY <1>1, QueueType DEF Extends
<1>5. \A k \in Jobs : RecordsOf(k)'
  <2>1. RecordsOf(j)'
    BY <1>1, NoRecords
  <2> QED
    BY <1>0, <1>2, <1>3, <1>4, <2>1, ApartRecords
<1>6. MemsWindowed'
  <2> SUFFICES ASSUME NEW x \in imm', x.has, Reachable(x)'
               PROVE  Windowed(x.file)'
    BY DEF MemsWindowed
  <2>0. PICK has \in BOOLEAN :
          imm' = {IF m.file = out[j] THEN [m EXCEPT !.has = has] ELSE m :
                  m \in imm}
    BY DEF BuildFlushTable
  <2>a. /\ \A y \in imm' : \E m \in imm :
             /\ y.id = m.id /\ y.file = m.file /\ y.done = m.done
             /\ y.has = IF m.file = out[j] THEN has ELSE m.has
        /\ \A m \in imm : \E y \in imm' :
             y.id = m.id /\ y.file = m.file /\ y.done = m.done
    BY <2>0, BuildFlushTableMems
  <2>1. PICK m \in imm : /\ x.id = m.id /\ x.file = m.file
                         /\ x.has = IF m.file = out[j] THEN has ELSE m.has
    BY <2>a
  <2>2. PICK n \in File : n = x.file
    BY DEF TInv, TypeOK, MemType, Mem
  <2>3. CASE m.file = out[j]
    <3>1. n \in FlushWindow'
      BY <1>1, <2>1, <2>2, <2>3 DEF FlushWindow
    <3> QED
      BY <2>2, <3>1 DEF Windowed
  <2>4. CASE m.file # out[j]
    <3>1. Reachable(m)
      <4> SUFFICES ASSUME NEW o \in imm, o.id <= m.id, ~o.done PROVE Active(o)
        BY DEF Reachable
      <4>1. PICK y \in imm' : y.id = o.id /\ y.file = o.file /\ y.done = o.done
        BY <2>a
      <4>2. Active(y)'
        BY <2>1, <4>1 DEF Reachable
      <4> QED
        BY <1>1, <4>1, <4>2, JobKinds DEF Active, Unfinished
    <3>2. Windowed(n)'
      BY <1>0, <1>3, <2>1, <2>2, <2>4, <3>1, KeptWindowed
         DEF Recording, MemsWindowed
    <3> QED
      BY <2>2, <3>2
  <2> QED
    BY <2>3, <2>4
<1> QED
  BY <1>0, <1>1, <1>3, <1>5, <1>6, KeptStill

\* TryInstallMemtableFlushResults keeps the records.
LEMMA TryInstallDurable ==
  ASSUME TInv, TInv', SInv, DInv, NEW j \in FlushJobs,
         TryInstallMemtableFlushResults(j)
  PROVE  DInv'
<1>0. j \in Jobs /\ j \in Holders /\ Running /\ Running' /\ Recording
  BY JobKinds DEF TryInstallMemtableFlushResults, bootVars, Running, DInv
<1>1. /\ UNCHANGED <<KeyList, manifest, group, rolling, descriptor_log_, del,
                     writers, out, outs, todo, pend>>
      /\ \A k \in Holders \ {j} : pc'[k] = pc[k]
      /\ pc[j] = "install" /\ pc'[j] \in {"commit", "key"}
  BY <1>0 DEF TryInstallMemtableFlushResults, disk, logVars, TInv, TypeOK, JobType
<1>2. Apart(j)
  BY <1>0, <1>1, JobKinds DEF Apart, SameRecords, Waiting, Window
<1>3. Kept
  BY <1>0, <1>1, <1>2, CalmKept
<1>4. Extends
  BY <1>1, QueueType DEF Extends
<1>5. \A k \in Jobs : RecordsOf(k)'
  <2>1. RecordsOf(j)'
    BY <1>1, NoRecords
  <2> QED
    BY <1>0, <1>2, <1>3, <1>4, <2>1, ApartRecords
<1>6. MemsWindowed'
  <2> SUFFICES ASSUME NEW x \in imm', x.has, Reachable(x)'
               PROVE  Windowed(x.file)'
    BY DEF MemsWindowed
  <2>1. PICK m \in imm : x.id = m.id /\ x.file = m.file /\ x.has = m.has
    BY InstallMems
  <2>2. PICK n \in File : n = x.file
    BY DEF TInv, TypeOK, MemType, Mem
  <2>3. Reachable(m)
    <3> SUFFICES ASSUME NEW o \in imm, o.id <= m.id, ~o.done PROVE Active(o)
      BY DEF Reachable
    <3>1. PICK y \in imm' : /\ y.id = o.id /\ y.file = o.file
                            /\ y.done <=> (o.done \/ o.file = out[j])
      BY InstallMems
    <3>2. CASE o.file = out[j]
      BY <1>1, <3>2 DEF Active, Unfinished
    <3>3. CASE o.file # out[j]
      <4>1. Active(y)'
        BY <2>1, <3>1, <3>3 DEF Reachable
      <4> QED
        BY <1>1, <3>1, <4>1, JobKinds DEF Active, Unfinished
    <3> QED
      BY <3>2, <3>3
  <2>4. Windowed(n)'
    BY <1>0, <1>3, <2>1, <2>2, <2>3, KeptWindowed DEF Recording, MemsWindowed
  <2> QED
    BY <2>2, <2>4
<1> QED
  BY <1>0, <1>1, <1>3, <1>5, <1>6, KeptStill

\* CommitMemtables keeps the records: what it commits is in its window or has
\* left it recorded.
LEMMA CommitMemtablesDurable ==
  ASSUME TInv, TInv', SInv, DInv, NEW j \in FlushJobs, CommitMemtables(j)
  PROVE  DInv'
<1>0. /\ j \in Jobs /\ j \in Holders /\ Running /\ Running' /\ Recording
      /\ \A m \in imm : m \in Mem
  BY JobKinds DEF CommitMemtables, bootVars, Running, DInv, TInv, TypeOK, MemType
<1>1. /\ UNCHANGED <<KeyList, manifest, group, rolling, descriptor_log_, del,
                     out, outs, todo, pend, imm>>
      /\ \A k \in Holders \ {j} : pc'[k] = pc[k]
      /\ pc[j] = "commit" /\ pc'[j] = "committing"
  BY <1>0 DEF CommitMemtables, disk, memVars, TInv, TypeOK, JobType
<1>2. Apart(j)
  BY <1>0, <1>1, JobKinds DEF Apart, SameRecords, Waiting, Window
<1>3. Kept
  BY <1>0, <1>1, <1>2, CalmKept
<1>4. SameFlushes
  BY <1>1, JobKinds DEF SameFlushes, Unfinished
<1>5. RecordsOf(j)'
  BY <1>1, NoRecords
<1> DEFINE add == {m.file : m \in {c \in Committable(imm) : c.has}}
           mems == {m.id : m \in Committable(imm)}
<1>6. ASSUME NEW n \in add PROVE n \in File /\ Windowed(n)
  <2>1. PICK m \in imm : /\ m.file = n /\ m.has
                         /\ \A o \in imm : o.id <= m.id => o.done
    BY DEF Committable
  <2>2. Reachable(m)
    BY <2>1 DEF Reachable
  <2> QED
    BY <1>0, <2>1, <2>2 DEF Recording, MemsWindowed, Mem
<1>7. add \in SUBSET File
  BY <1>6
<1>8. PICK e \in Edit : /\ e = [EmptyEdit EXCEPT !.add = add]
                        /\ e.add = add /\ e.sst = None /\ e.drop = None
  <2>1. [EmptyEdit EXCEPT !.add = add] \in Edit
    BY <1>7, EditType
  <2>2. /\ [EmptyEdit EXCEPT !.add = add].add = add
        /\ [EmptyEdit EXCEPT !.add = add].sst = None
        /\ [EmptyEdit EXCEPT !.add = add].drop = None
    BY DEF EmptyEdit
  <2> QED
    BY <2>1, <2>2
<1>9. LogAndApply(j, e, mems)
  BY <1>8 DEF CommitMemtables
<1>10. KeyEdit(j, e)'
  <2>1. \A n \in e.add : Windowed(n)'
    BY <1>3, <1>6, <1>8, KeptWindowed
  <2> QED
    BY <1>8, <2>1 DEF KeyEdit
<1> HIDE DEF add, mems
<1> QED
  BY <1>0, <1>1, <1>2, <1>3, <1>4, <1>5, <1>9, <1>10, ApartQueued

\* An edit that only records or deletes a key.
LEMMA KeyEdits ==
  /\ \A n \in File, k \in Key : \E e \in Edit :
       /\ e = AddSSTKey(n, k) /\ e.sst = n /\ e.key = k /\ e.drop = None
       /\ e.add = {}
  /\ \A n \in File : \E e \in Edit :
       e = DeleteSSTKey(n) /\ e.sst = None /\ e.drop = n /\ e.add = {}
<1>1. ASSUME NEW n \in File, NEW k \in Key
      PROVE  \E e \in Edit : /\ e = AddSSTKey(n, k) /\ e.sst = n /\ e.key = k
                             /\ e.drop = None /\ e.add = {}
  <2>1. AddSSTKey(n, k) \in Edit
    BY EditType
  <2>2. /\ AddSSTKey(n, k).sst = n /\ AddSSTKey(n, k).key = k
        /\ AddSSTKey(n, k).drop = None /\ AddSSTKey(n, k).add = {}
    BY DEF AddSSTKey, EmptyEdit
  <2> QED
    BY <2>1, <2>2
<1>2. ASSUME NEW n \in File
      PROVE  \E e \in Edit : /\ e = DeleteSSTKey(n) /\ e.sst = None
                             /\ e.drop = n /\ e.add = {}
  <2>1. DeleteSSTKey(n) \in Edit
    BY EditType
  <2>2. /\ DeleteSSTKey(n).sst = None /\ DeleteSSTKey(n).drop = n
        /\ DeleteSSTKey(n).add = {}
    BY DEF DeleteSSTKey, EmptyEdit
  <2> QED
    BY <2>1, <2>2
<1> QED
  BY <1>1, <1>2

\* LogFlushKey queues the key record of its output.
LEMMA LogFlushKeyDurable ==
  ASSUME TInv, TInv', SInv, DInv, Running', NEW j \in FlushJobs, LogFlushKey(j)
  PROVE  DInv'
<1>0. j \in Jobs /\ j \in Holders /\ Running /\ Recording
  BY JobKinds DEF LogFlushKey, DInv
<1>1. /\ UNCHANGED <<KeyList, manifest, group, rolling, descriptor_log_, del,
                     out, outs, todo, pend, imm>>
      /\ \A k \in Holders \ {j} : pc'[k] = pc[k]
  BY <1>0 DEF LogFlushKey, disk, memVars, TInv, TypeOK, JobType
<1>p. /\ pc[j] \in {"key", "keyio", "keyerr"}
      /\ pc'[j] \in {"keying", "keyingio", "keyingerr"}
      /\ pc[j] = "key" => pc'[j] = "keying"
  BY <1>0 DEF LogFlushKey, TInv, TypeOK, JobType
<1>2. Apart(j)
  BY <1>0, <1>1, <1>p, JobKinds DEF Apart, SameRecords, Waiting, Window
<1>3. Kept
  BY <1>0, <1>1, <1>2, CalmKept
<1>4. SameFlushes
  BY <1>1, <1>p, JobKinds DEF SameFlushes, Unfinished
<1>5. PICK n \in File : n = out[j]
  BY <1>0, <1>p DEF TInv, Shape, Building
<1>6. KeyList[n] \in Key
  BY <1>5 DEF TInv, TypeOK, KeyType
<1>7. PICK e \in Edit : /\ e = AddSSTKey(n, KeyList[n]) /\ e.sst = n
                        /\ e.key = KeyList[n] /\ e.drop = None /\ e.add = {}
  BY <1>6, KeyEdits
<1>8. LogAndApply(j, e, {})
  BY <1>5, <1>7 DEF LogFlushKey
<1>9. ~Doomed(n) /\ Shields(j, n) /\ KeyList[n] # NoKey
  BY <1>0, <1>5, <1>p, Parts DEF OutputHeld, WithOutput, WithKey
<1>10. KeyEdit(j, e)'
  <2>1. ~Doomed(n)' /\ Shields(j, n)'
    BY <1>1, <1>9 DEF Doomed, Shields
  <2>2. ~Doomed(e.sst)' /\ Shields(j, e.sst)'
    BY <1>7, <2>1
  <2>3. e.key # NoKey /\ e.key = KeyList'[e.sst]
    BY <1>1, <1>7, <1>9
  <2> QED
    BY <1>7, <2>2, <2>3 DEF KeyEdit
<1>11. RecordsOf(j)'
  <2>1. /\ group'.done <= Len(writers) /\ Len(writers) \in Nat
        /\ group'.done \in Nat
        /\ Len(writers') = Len(writers) + 1
        /\ writers'[Len(writers) + 1].job = j
        /\ writers'[Len(writers) + 1].edit.sst = out'[j]
    BY <1>1, <1>5, <1>7, <1>8, Queued
  <2>2. PICK i \in 1 .. Len(writers') :
          /\ writers'[i].job = j /\ writers'[i].edit.sst = out'[j]
          /\ ~(i <= group'.done)
    BY <2>1
  <2>3. KeyQueued(j)'
    BY <2>2 DEF KeyQueued
  <2> QED
    BY <1>p, <2>3 DEF RecordsOf
<1> QED
  BY <1>0, <1>1, <1>2, <1>3, <1>4, <1>8, <1>10, <1>11, ApartQueued

\* LogCompactionKey queues the key record of one output.
LEMMA LogCompactionKeyDurable ==
  ASSUME TInv, TInv', SInv, DInv, Running', NEW c \in CompactionJobs,
         LogCompactionKey(c)
  PROVE  DInv'
<1>0. /\ c \in Jobs /\ c \in Holders /\ c \notin FlushJobs /\ Running /\ Recording
  BY CompactionApart DEF LogCompactionKey, DInv
<1>1. PICK n \in todo[c] : /\ todo' = [todo EXCEPT ![c] = @ \ {n}]
                           /\ LogAndApply(c, AddSSTKey(n, KeyList[n]), {})
  BY DEF LogCompactionKey
<1>2. /\ UNCHANGED <<KeyList, manifest, group, rolling, descriptor_log_, del,
                     out, outs, pend, imm>>
      /\ \A k \in Holders \ {c} : pc'[k] = pc[k] /\ todo'[k] = todo[k]
      /\ pc[c] = "sync" /\ pc'[c] = "syncing" /\ todo'[c] = todo[c] \ {n}
  BY <1>0, <1>1 DEF LogCompactionKey, disk, memVars, TInv, TypeOK, JobType
<1>3. Apart(c)
  BY <1>0, <1>2, JobKinds DEF Apart, SameRecords, Waiting
<1>4. Kept
  BY <1>0, <1>2, <1>3, CalmKept
<1>5. SameFlushes
  BY <1>0, <1>2, JobKinds DEF SameFlushes
<1>6. n \in outs[c] /\ Held(n) /\ Shields(c, n) /\ n \in File
  BY <1>0, <1>2, Parts DEF OutputHeld, Held
<1>7. KeyList[n] \in Key
  BY <1>6 DEF TInv, TypeOK, KeyType
<1>8. PICK e \in Edit : /\ e = AddSSTKey(n, KeyList[n]) /\ e.sst = n
                        /\ e.key = KeyList[n] /\ e.drop = None /\ e.add = {}
  BY <1>6, <1>7, KeyEdits
<1>9. LogAndApply(c, e, {})
  BY <1>1, <1>8
<1>10. KeyEdit(c, e)'
  <2>1. ~Doomed(n)' /\ Shields(c, n)'
    BY <1>2, <1>6 DEF Doomed, Shields, Held
  <2>2. ~Doomed(e.sst)' /\ Shields(c, e.sst)'
    BY <1>8, <2>1
  <2>3. e.key # NoKey /\ e.key = KeyList'[e.sst]
    BY <1>2, <1>6, <1>8 DEF Held, Opens
  <2> QED
    BY <1>8, <2>2, <2>3 DEF KeyEdit
<1>11. RecordsOf(c)'
  <2>1. /\ group'.done <= Len(writers) /\ Len(writers) \in Nat
        /\ group'.done \in Nat
        /\ Len(writers') = Len(writers) + 1 /\ Extends
        /\ writers'[Len(writers) + 1].job = c
        /\ writers'[Len(writers) + 1].edit.sst = n
    BY <1>2, <1>8, <1>9, Queued
  <2>2. PICK i \in 1 .. Len(writers') :
          /\ writers'[i].job = c /\ writers'[i].edit.sst = n
          /\ group'.done < i
    BY <2>1
  <2>3. Logged(c, n)'
    BY <2>2 DEF Logged
  <2>4. ASSUME NEW x \in outs[c] \ todo[c] PROVE Logged(c, x)'
    <3>1. x \in File /\ Logged(c, x)
      BY <1>0, <1>2 DEF Recording, RecordsOf, TInv, TypeOK, JobType
    <3> QED
      BY <1>4, <2>1, <3>1, KeptLogged
  <2>5. \A x \in outs'[c] \ todo'[c] : Logged(c, x)'
    BY <1>2, <2>3, <2>4
  <2> QED
    BY <1>2, <2>5 DEF RecordsOf
<1> QED
  BY <1>0, <1>2, <1>3, <1>4, <1>5, <1>9, <1>10, <1>11, ApartQueued

\* A job that is awake has no edit in the queue, so what it has logged is
\* recorded.
LEMMA AwakeLogged ==
  ASSUME TInv, SInv, Running, NEW j \in Jobs, pc[j] \notin Waiting, NEW n,
         Logged(j, n)
  PROVE  Recorded(n)
<1>1. \A i \in 1 .. Len(writers) : writers[i].job # j
  BY QueueType, Parts DEF QueueHeld, WriterHeld
<1> QED
  BY <1>1 DEF Logged

\* ApplyCompaction installs outputs whose keys are recorded.
LEMMA ApplyCompactionDurable ==
  ASSUME TInv, TInv', SInv, DInv, NEW c \in CompactionJobs, ApplyCompaction(c)
  PROVE  DInv'
<1>0. /\ c \in Jobs /\ c \in Holders /\ c \notin FlushJobs /\ Running /\ Running'
      /\ Recording
  BY CompactionApart DEF ApplyCompaction, DInv, bootVars, Running
<1>1. /\ UNCHANGED <<KeyList, manifest, group, rolling, descriptor_log_, del,
                     out, outs, pend, imm, todo>>
      /\ \A k \in Holders \ {c} : pc'[k] = pc[k]
      /\ pc[c] = "sync" /\ pc'[c] = "applying" /\ todo[c] = {}
      /\ outs[c] \in SUBSET File /\ ins[c] \in SUBSET File
  BY <1>0 DEF ApplyCompaction, disk, memVars, TInv, TypeOK, JobType
<1>3. Apart(c)
  BY <1>0, <1>1, JobKinds DEF Apart, SameRecords, Waiting
<1>4. Kept
  BY <1>0, <1>1, <1>3, CalmKept
<1>5. SameFlushes
  BY <1>0, <1>1, JobKinds DEF SameFlushes
<1>6. PICK e \in Edit :
        /\ e = [EmptyEdit EXCEPT !.add = outs[c], !.del = ins[c]]
        /\ e.add = outs[c] /\ e.sst = None /\ e.drop = None
  <2>1. [EmptyEdit EXCEPT !.add = outs[c], !.del = ins[c]] \in Edit
    BY <1>1, EditType
  <2> QED
    BY <2>1 DEF EmptyEdit
<1>7. LogAndApply(c, e, {})
  BY <1>6 DEF ApplyCompaction
<1>8. ASSUME NEW n \in outs[c] PROVE Windowed(n)'
  <2>1. n \in File /\ Logged(c, n) /\ pc[c] \notin Waiting
    BY <1>0, <1>1 DEF Recording, RecordsOf, Waiting
  <2>2. Windowed(n)
    BY <1>0, <2>1, AwakeLogged DEF Windowed
  <2> QED
    BY <1>4, <2>1, <2>2, KeptWindowed
<1>9. KeyEdit(c, e)'
  BY <1>6, <1>8 DEF KeyEdit
<1>10. RecordsOf(c)'
  BY <1>1, NoRecords
<1> QED
  BY <1>0, <1>1, <1>3, <1>4, <1>5, <1>7, <1>9, <1>10, ApartQueued

\* LogKeyDeletion queues the deletion of one key record.
LEMMA LogKeyDeletionDurable ==
  ASSUME TInv, TInv', SInv, DInv, NEW j \in Jobs, LogKeyDeletion(j)
  PROVE  DInv'
<1>0. j \in Holders /\ Running /\ Running' /\ Recording
  BY JobKinds DEF LogKeyDeletion, DInv, bootVars, Running
<1>1. PICK n \in todo[j] : /\ todo' = [todo EXCEPT ![j] = @ \ {n}]
                           /\ LogAndApply(j, DeleteSSTKey(n), {})
  BY DEF LogKeyDeletion
<1>2. /\ UNCHANGED <<KeyList, manifest, group, rolling, descriptor_log_, del,
                     out, outs, pend, imm>>
      /\ \A k \in Holders \ {j} : pc'[k] = pc[k] /\ todo'[k] = todo[k]
      /\ pc[j] = "drop" /\ pc'[j] = "dropping" /\ todo'[j] = todo[j] \ {n}
  BY <1>0, <1>1 DEF LogKeyDeletion, disk, memVars, TInv, TypeOK, JobType
<1>3. Apart(j)
  BY <1>0, <1>2, JobKinds DEF Apart, SameRecords, Waiting, Window
<1>4. Kept
  BY <1>0, <1>2, <1>3, CalmKept
<1>5. SameFlushes
  BY <1>2, JobKinds DEF SameFlushes, Unfinished
<1>6. n \in del[j] /\ n \in File
  BY <1>0, <1>2, Parts DEF PurgeOf, Purging, TInv, TypeOK, JobType
<1>8. PICK e \in Edit : /\ e = DeleteSSTKey(n) /\ e.sst = None
                        /\ e.drop = n /\ e.add = {}
  BY <1>6, KeyEdits
<1>9. LogAndApply(j, e, {})
  BY <1>1, <1>8
<1>10. KeyEdit(j, e)'
  BY <1>2, <1>6, <1>8 DEF KeyEdit
<1>11. RecordsOf(j)'
  <2>1. /\ group'.done <= Len(writers) /\ Len(writers) \in Nat
        /\ group'.done \in Nat
        /\ Len(writers') = Len(writers) + 1 /\ Extends
        /\ writers'[Len(writers) + 1].job = j
        /\ writers'[Len(writers) + 1].edit.drop = n
    BY <1>2, <1>8, <1>9, Queued
  <2>2. PICK i \in 1 .. Len(writers') :
          /\ writers'[i].job = j /\ writers'[i].edit.drop = n
          /\ group'.done < i
    BY <2>1
  <2>3. Erased(j, n)'
    BY <2>2 DEF Erased
  <2>4. ASSUME NEW x \in del[j] \ todo[j] PROVE Erased(j, x)'
    <3>1. Erased(j, x)
      BY <1>0, <1>2 DEF Recording, RecordsOf
    <3> QED
      BY <1>4, <2>1, <3>1, KeptErased
  <2>5. \A x \in del'[j] \ todo'[j] : Erased(j, x)'
    BY <1>2, <2>3, <2>4
  <2> QED
    BY <1>2, <2>5 DEF RecordsOf
<1> QED
  BY <1>0, <1>2, <1>3, <1>4, <1>5, <1>9, <1>10, <1>11, ApartQueued

\* ReleaseAndFind keeps the records.
LEMMA ReleaseAndFindDurable ==
  ASSUME TInv, TInv', NInv, SInv, DInv, NEW j \in Jobs, ReleaseAndFind(j)
  PROVE  DInv'
<1>0. j \in Holders
  BY JobKinds
<1>1. /\ Running /\ Running' /\ pc[j] \in {"release", "failed"}
      /\ UNCHANGED <<KeyList, table, version, manifest, group, rolling, writers,
                     descriptor_log_, imm>>
  BY DEF ReleaseAndFind, disk, bootVars, logVars, memVars, Running
<1>2. /\ pins'[j] = {} /\ \A k \in Holders \ {j} : pins'[k] = pins[k]
      /\ \A k \in Jobs \ {j} : pend'[k] = pend[k] /\ out'[k] = out[k]
                               /\ outs'[k] = outs[k]
      /\ sv' = version \/ sv' = sv
  BY <1>0 DEF ReleaseAndFind, TInv, TypeOK, JobType
<1>3. Live' \subseteq Live
  BY <1>0, <1>1, <1>2 DEF Live
<1>4. PICK full \in BOOLEAN : FindObsoleteFiles(j, full)
  BY DEF ReleaseAndFind
<1>5. pc[j] \notin Purging
  BY <1>1 DEF Purging
<1>6. Sparing
  BY <1>0, <1>1, <1>3, <1>4, <1>5, FindSpares
<1> QED
  BY <1>0, <1>1, <1>2, <1>4, <1>6, FindDurable

\* DeleteIterator keeps the records.
LEMMA DeleteIteratorDurable ==
  ASSUME TInv, TInv', NInv, SInv, DInv, NEW i \in Iterators, DeleteIterator(i)
  PROVE  DInv'
<1>0. i \in Holders /\ i \notin Jobs /\ i \notin FlushJobs
  BY JobKinds
<1>1. /\ Running /\ Running' /\ pc[i] = "iterate" /\ Recording
      /\ UNCHANGED <<KeyList, table, version, sv, manifest, group, rolling,
                     writers, descriptor_log_, imm, pend, out, outs>>
  BY DEF DeleteIterator, disk, bootVars, logVars, memVars, Running, DInv
<1>2. pins'[i] = {} /\ \A k \in Holders \ {i} : pins'[k] = pins[k]
  BY <1>0 DEF DeleteIterator, TInv, TypeOK, JobType
<1>3. Live' \subseteq Live
  BY <1>0, <1>1, <1>2 DEF Live
<1>4. CASE FindObsoleteFiles(i, FALSE)
  <2>1. pc[i] \notin Purging
    BY <1>1 DEF Purging
  <2>2. Sparing
    BY <1>0, <1>1, <1>3, <1>4, <2>1, FindSpares
  <2> QED
    BY <1>0, <1>1, <1>4, <2>2, FindDurable
<1>5. CASE pc' = [pc EXCEPT ![i] = "idle"] /\ UNCHANGED <<del, todo>>
  <2>1. \A k \in Jobs : pc'[k] = pc[k]
    BY <1>0, <1>5, JobKinds DEF TInv, TypeOK, JobType
  <2>2. Apart(i)
    BY <1>0, <1>1, <1>5, <2>1 DEF Apart, SameRecords
  <2>3. Kept
    BY <1>1, <1>5, <2>2, CalmKept
  <2>4. SameFlushes
    BY <1>1, <2>1, JobKinds DEF SameFlushes
  <2> QED
    BY <1>0, <1>1, <2>2, <2>3, <2>4, ApartStill
<1> QED
  BY <1>4, <1>5 DEF DeleteIterator

\* BeginManifestWrite keeps the records: it goes on with the same MANIFEST.
LEMMA BeginManifestWriteDurable ==
  ASSUME OneManifest, TInv, TInv', SInv, DInv, Running', BeginManifestWrite
  PROVE  DInv'
<1>0. Running /\ Recording
  BY DEF BeginManifestWrite, DInv
<1>1. /\ UNCHANGED <<KeyList, manifest, descriptor_log_, writers, imm, pc, out,
                     outs, pend, del, todo>>
      /\ group.size = 0 /\ group'.done = 0
  BY DEF BeginManifestWrite, disk, jobVars, memVars
<1>2. ~rolling'
  BY <1>0 DEF BeginManifestWrite, OneManifest, Recording
<1>3. group.done = 0
  BY <1>1, QueueType
<1>4. \A n : Doomed(n)' <=> Doomed(n)
  BY <1>1 DEF Doomed
<1>5. Kept
  BY <1>0, <1>1, <1>2, <1>3, <1>4 DEF Kept, Recording
<1>6. Extends
  BY <1>1, QueueType DEF Extends
<1>7. ASSUME NEW k \in Jobs PROVE RecordsOf(k)'
  <2>1. RecordsOf(k) /\ SameRecords(k)
    BY <1>0, <1>1 DEF Recording, SameRecords
  <2> QED
    BY <1>5, <1>6, <2>1, KeptRecords
<1>8. SameFlushes
  BY <1>1, JobKinds DEF SameFlushes
<1>9. MemsWindowed'
  BY <1>0, <1>1, <1>5, <1>8, KeptMems DEF Recording
<1> QED
  BY <1>0, <1>1, <1>5, <1>7, <1>9, KeptStill

\* What the MANIFEST lists is in the version or in an edit of the queue, so no
\* purge has it.
LEMMA ListedHeld ==
  ASSUME TInv, SInv, LInv, Running, Recording, NEW n \in manifest.files
  PROVE  Held(n)
<1>1. PICK k \in Nat : k = group.done /\ k <= Len(writers)
  BY QueueType
<1>2. n \in After(k)
  BY <1>1 DEF LInv, FilesListed, Recording
<1>3. CASE n \in version
  BY <1>3, Parts DEF FilesHeld, Live
<1>4. CASE n \notin version
  <2>1. PICK i \in 1 .. k : n \in writers[i].edit.add
    BY <1>2, <1>4, AfterFrom
  <2>2. i \in 1 .. Len(writers)
    BY <1>1, QueueType
  <2>3. writers[i] \in Queue
    BY <2>2, QueueType
  <2> QED
    BY <2>1, <2>3, Parts DEF QueueHeld, WriterHeld
<1> QED
  BY <1>3, <1>4

\* The record that is written next.
LEMMA NextRecord ==
  ASSUME TInv, SInv, DInv, AppendRecord
  PROVE  \E w \in Queue, e \in Edit :
           /\ w = writers[group.done + 1] /\ e = w.edit /\ w.job \in Jobs
           /\ KeyEdit(w.job, e) /\ WriterHeld(w)
           /\ manifest'.files = (manifest.files \ e.del) \cup e.add
           /\ \A n \in File :
                manifest'.keys[n] =
                  IF n = e.drop THEN NoKey
                  ELSE IF n = e.sst /\ manifest.keys[n] = NoKey THEN e.key
                  ELSE manifest.keys[n]
<1>1. Running /\ Recording /\ ~rolling
  BY DEF AppendRecord, DInv, Recording
<1>2. PICK i \in 1 .. Len(writers) : i = group.done + 1
  BY QueueType DEF AppendRecord
<1>3. PICK w \in Queue : w = writers[i] /\ w \in Writer
  BY QueueType
<1>4. PICK e \in Edit : e = w.edit
  BY <1>3 DEF Writer
<1>5. w.job \in Jobs /\ KeyEdit(w.job, e) /\ WriterHeld(w)
  BY <1>1, <1>3, <1>4, Parts DEF Writer, Recording, QueueHeld
<1>6. manifest' = ApplyVersionEdit(manifest, e, group.next)
  BY <1>1, <1>2, <1>3, <1>4 DEF AppendRecord
<1> DEFINE added == IF e.sst = None THEN manifest.keys
                    ELSE AddSSTKeyToList(manifest.keys, e.sst, e.key)
<1>7. /\ manifest'.files = (manifest.files \ e.del) \cup e.add
      /\ manifest'.keys = IF e.drop = None THEN added
                          ELSE DeleteSSTKeyFromList(added, e.drop)
  BY <1>6 DEF ApplyVersionEdit
<1>8. manifest.keys \in [File -> Key] /\ e.sst \in File \cup {None} /\ e.key \in Key
  BY DEF TInv, TypeOK, KeyType, Manifest, Edit
<1>9. /\ added \in [File -> Key]
      /\ \A n \in File : added[n] = IF n = e.sst /\ manifest.keys[n] = NoKey
                                    THEN e.key ELSE manifest.keys[n]
  <2>1. CASE e.sst = None
    BY <1>8, <2>1 DEF File, None
  <2>2. CASE e.sst # None
    BY <1>8, <2>2 DEF AddSSTKeyToList
  <2> QED
    BY <2>1, <2>2
<1> HIDE DEF added
<1>10. \A n \in File : manifest'.keys[n] = IF n = e.drop THEN NoKey ELSE added[n]
  <2>1. CASE e.drop = None
    BY <1>7, <1>9, <2>1 DEF File, None
  <2>2. CASE e.drop # None
    BY <1>7, <1>9, <2>2 DEF DeleteSSTKeyFromList
  <2> QED
    BY <2>1, <2>2
<1> QED
  BY <1>2, <1>3, <1>4, <1>5, <1>7, <1>9, <1>10

\* AppendRecord keeps the records: it deletes the key of a purged file only.
LEMMA AppendRecordDurable ==
  ASSUME TInv, TInv', SInv, LInv, DInv, AppendRecord
  PROVE  DInv'
<1>0. Running /\ Running' /\ Recording /\ KeysAgree /\ QueueHeld /\ MemsHeld
  BY Parts DEF AppendRecord, bootVars, Running, DInv, Up
<1>1. PICK k \in Nat : k = group.done
  BY QueueType
<1>2. /\ UNCHANGED <<KeyList, pc, pend, out, outs, del, todo, writers, rolling,
                     imm, descriptor_log_>>
      /\ group'.done = k + 1
  BY <1>1 DEF AppendRecord, jobVars, memVars, TInv, TypeOK, LogType
<1>3. PICK w \in Queue, e \in Edit :
        /\ w = writers[k + 1] /\ e = w.edit /\ w.job \in Jobs
        /\ KeyEdit(w.job, e) /\ WriterHeld(w)
        /\ manifest'.files = (manifest.files \ e.del) \cup e.add
        /\ \A n \in File :
             manifest'.keys[n] =
               IF n = e.drop THEN NoKey
               ELSE IF n = e.sst /\ manifest.keys[n] = NoKey THEN e.key
               ELSE manifest.keys[n]
  BY <1>1, NextRecord
<1>4. /\ e.sst # None => /\ ~Doomed(e.sst) /\ e.key # NoKey
                         /\ e.key = KeyList[e.sst] /\ e.drop = None
                         /\ e.sst \in File
      /\ e.drop # None => Doomed(e.drop)
  BY <1>3, JobKinds DEF KeyEdit, Doomed, Edit
<1>5. KeysAgree'
  BY <1>0, <1>2, <1>3, <1>4 DEF KeysAgree, File, None
<1>6. ASSUME NEW n \in File, Recorded(n), n # e.drop PROVE Recorded(n)'
  BY <1>2, <1>3, <1>6 DEF Recorded
<1>7. ASSUME NEW n \in File, n # e.drop, n = e.sst PROVE Recorded(n)'
  <2>1. n # None
    BY DEF File, None
  <2>2. manifest.keys[n] # NoKey => manifest.keys[n] = KeyList[n]
    BY <1>0 DEF KeysAgree
  <2> QED
    BY <1>2, <1>3, <1>4, <1>7, <2>1, <2>2 DEF Recorded
<1>8. ASSUME NEW n \in File, ~Doomed(n) PROVE n # e.drop
  BY <1>4, <1>8 DEF File, None
<1>9. ASSUME NEW n \in File, Windowed(n), ~Doomed(n) PROVE Windowed(n)'
  <2>1. CASE n \in FlushWindow
    BY <1>2, <2>1 DEF Windowed, FlushWindow
  <2>2. CASE Recorded(n)
    BY <1>6, <1>8, <1>9, <2>2 DEF Windowed
  <2> QED
    BY <1>9, <2>1, <2>2 DEF Windowed
<1>10. ASSUME NEW n \in manifest'.files PROVE Windowed(n)'
  <2>1. CASE n \in manifest.files
    <3>1. Held(n) /\ Windowed(n)
      BY <1>0, <2>1, ListedHeld DEF Recording
    <3> QED
      BY <1>9, <3>1 DEF Held
  <2>2. CASE n \in e.add
    <3>1. Held(n) /\ Windowed(n)
      BY <1>3, <2>2 DEF WriterHeld, KeyEdit
    <3> QED
      BY <1>9, <3>1 DEF Held
  <2> QED
    BY <1>3, <2>1, <2>2
<1>11. ASSUME NEW v \in Queue' PROVE KeyEdit(v.job, v.edit)'
  <2>1. v \in Queue
    BY <1>2 DEF Queue
  <2>2. KeyEdit(v.job, v.edit) /\ WriterHeld(v)
    BY <1>0, <2>1 DEF Recording, QueueHeld
  <2>3. \A n \in v.edit.add : Windowed(n)'
    BY <1>9, <2>2 DEF KeyEdit, WriterHeld, Held
  <2>4. /\ \A n : Doomed(n)' <=> Doomed(n)
        /\ \A j, n : Shields(j, n)' <=> Shields(j, n)
    BY <1>2 DEF Doomed, Shields
  <2>5. PICK x : x = v.edit.sst
    OBVIOUS
  <2>6. PICK j : j = v.job
    OBVIOUS
  <2>7. v.edit.sst # None => ~Doomed(v.edit.sst)' /\ Shields(v.job, v.edit.sst)'
    BY <2>2, <2>4, <2>5, <2>6 DEF KeyEdit
  <2> QED
    BY <1>2, <2>2, <2>3, <2>7 DEF KeyEdit
<1>12. MemsWindowed'
  <2> SUFFICES ASSUME NEW m \in imm, m.has, Reachable(m)'
               PROVE  Windowed(m.file)'
    BY <1>2 DEF MemsWindowed
  <2>1. Reachable(m)
    BY <1>2 DEF Reachable, Active
  <2>2. PICK n : n = m.file
    OBVIOUS
  <2>3. Held(n) /\ Windowed(n)
    BY <1>0, <2>1, <2>2 DEF MemsHeld, Recording, MemsWindowed
  <2>4. Windowed(n)'
    BY <1>9, <2>3 DEF Held
  <2> QED
    BY <2>2, <2>4
<1>13. ASSUME NEW j \in Jobs, pc[j] = "keying" PROVE KeyQueued(j)'
  <2>1. PICK n \in File : n = out[j]
    BY <1>13 DEF TInv, Shape, Building
  <2>2. PICK i \in 1 .. Len(writers) :
          /\ writers[i].job = j /\ writers[i].edit.sst = n
          /\ i <= k => Recorded(n)
    BY <1>0, <1>1, <1>13, <2>1 DEF Recording, RecordsOf, KeyQueued
  <2>3. writers[i] \in Queue /\ n # None
    BY QueueType DEF File, None
  <2>4. ~Doomed(n)
    BY <1>0, <2>2, <2>3 DEF Recording, KeyEdit
  <2>5. n # e.drop
    BY <1>8, <2>4
  <2>6. i <= k => Recorded(n)'
    BY <1>6, <2>2, <2>5
  <2>7. i = k + 1 => Recorded(n)'
    BY <1>3, <1>7, <2>2, <2>5
  <2>8. i <= k + 1 => i <= k \/ i = k + 1
    OBVIOUS
  <2>9. i <= group'.done => Recorded(n)'
    BY <1>2, <2>6, <2>7, <2>8
  <2>10. i <= group'.done => Recorded(out[j])'
    BY <1>2, <2>1, <2>9
  <2> QED
    BY <1>2, <2>1, <2>2, <2>10 DEF KeyQueued
<1>14. ASSUME NEW j \in Jobs, NEW n \in outs[j], Logged(j, n) PROVE Logged(j, n)'
  <2>1. n \in File /\ n # e.drop
    BY <1>0, <1>8, Parts DEF OutputHeld, Held
  <2>2. CASE Recorded(n)
    BY <1>6, <2>1, <2>2 DEF Logged
  <2>3. CASE \E i \in 1 .. Len(writers) :
               k < i /\ writers[i].job = j /\ writers[i].edit.sst = n
    <3>1. PICK i \in 1 .. Len(writers) :
            k < i /\ writers[i].job = j /\ writers[i].edit.sst = n
      BY <2>3
    <3>2. CASE i = k + 1
      <4>1. Recorded(n)'
        BY <1>3, <1>7, <2>1, <3>1, <3>2
      <4> QED
        BY <4>1 DEF Logged
    <3>3. CASE k + 1 < i
      BY <1>2, <3>1, <3>3 DEF Logged
    <3> QED
      BY <3>1, <3>2, <3>3
  <2> QED
    BY <1>1, <1>14, <2>2, <2>3 DEF Logged
<1>15. ASSUME NEW j \in Jobs, NEW n \in del[j], Erased(j, n) PROVE Erased(j, n)'
  <2>1. n \in File /\ Doomed(n)
    BY JobKinds DEF Doomed, TInv, TypeOK, JobType
  <2>2. n # e.sst
    BY <1>4, <2>1 DEF File, None
  <2>3. CASE manifest.keys[n] = NoKey
    BY <1>3, <2>1, <2>2, <2>3 DEF Erased
  <2>4. CASE \E i \in 1 .. Len(writers) :
               k < i /\ writers[i].job = j /\ writers[i].edit.drop = n
    <3>1. PICK i \in 1 .. Len(writers) :
            k < i /\ writers[i].job = j /\ writers[i].edit.drop = n
      BY <2>4
    <3>2. CASE i = k + 1
      BY <1>3, <2>1, <3>1, <3>2 DEF Erased
    <3>3. CASE k + 1 < i
      BY <1>2, <3>1, <3>3 DEF Erased
    <3> QED
      BY <3>1, <3>2, <3>3
  <2> QED
    BY <1>1, <1>15, <2>3, <2>4 DEF Erased
<1>16. ASSUME NEW j \in Jobs PROVE RecordsOf(j)'
  BY <1>0, <1>2, <1>13, <1>14, <1>15 DEF Recording, RecordsOf
<1>17. Recording'
  BY <1>0, <1>2, <1>10, <1>11, <1>12, <1>16 DEF Recording
<1> QED
  BY <1>0, <1>5, <1>17 DEF DInv, Running

\* FinishManifestWrite keeps the records: a flush leaves its window when its
\* key is recorded.
LEMMA FinishManifestWriteDurable ==
  ASSUME TInv, TInv', NInv, SInv, DInv, FinishManifestWrite
  PROVE  DInv'
<1>0. Running /\ Running' /\ Recording /\ KeysAgree /\ QueueHeld
  BY Parts DEF FinishManifestWrite, bootVars, Running, DInv, Up
<1>1. PICK s \in Nat : s = group.size /\ s <= Len(writers)
  BY QueueType
<1>2. /\ UNCHANGED <<KeyList, manifest, pend, out, outs, del, todo, rolling>>
      /\ descriptor_log_' /\ group.done = s /\ group'.done = 0
      /\ WakeWriters(TRUE)
      /\ imm' = {m \in imm : m.id \notin UNION {w.mems : w \in Batch}}
  BY <1>1 DEF FinishManifestWrite, WakeWriters, NoGroup, disk
<1>3. /\ \A h \in Holders :
           \/ pc'[h] = pc[h] /\ h \notin {w.job : w \in Batch}
           \/ /\ h \in {w.job : w \in Batch} /\ pc[h] \in Waiting
              /\ pc'[h] = Resume(pc[h], TRUE)
      /\ \A w \in Batch : w \in Queue
      /\ \A w \in Queue' : w \in Queue /\ w \in Writer /\ pc'[w.job] = pc[w.job]
  BY <1>0, <1>2, Woken
<1>4. \A i \in 1 .. Len(writers) : i > s =>
        /\ i - s \in 1 .. Len(writers') /\ writers'[i - s] = writers[i]
        /\ i - s > 0
  <2>1. /\ Len(writers') = Len(writers) - s
        /\ \A i \in 1 .. Len(writers) - s : writers'[i] = writers[i + s]
    BY <1>1, <1>2, QueueType, SeqRest DEF WakeWriters
  <2>2. Len(writers) \in Nat
    BY QueueType
  <2> SUFFICES ASSUME NEW i \in 1 .. Len(writers), i > s
               PROVE  /\ i - s \in 1 .. Len(writers')
                      /\ writers'[i - s] = writers[i] /\ i - s > 0
    OBVIOUS
  <2>3. i - s \in 1 .. Len(writers) - s /\ (i - s) + s = i /\ i - s > 0
    BY ONLY <2>2, s \in Nat, i \in 1 .. Len(writers), i > s
  <2>4. writers'[i - s] = writers[(i - s) + s]
    BY <2>1, <2>3
  <2> QED
    BY <2>1, <2>3, <2>4
<1>5. \A i \in 1 .. Len(writers) : i <= s => writers[i] \in Batch
  BY <1>1 DEF Batch
<1>6. \A n : Recorded(n)' <=> Recorded(n)
  BY <1>2 DEF Recorded
<1>7. ASSUME NEW j \in Jobs, pc[j] = "keying", j \in {w.job : w \in Batch}
      PROVE  Recorded(out[j])
  <2>1. PICK i \in 1 .. Len(writers) :
          /\ writers[i].job = j
          /\ i <= group.done => Recorded(out[j])
    BY <1>0, <1>7 DEF Recording, RecordsOf, KeyQueued
  <2>2. PICK b \in 1 .. s : writers[b].job = j
    BY <1>1, <1>7 DEF Batch
  <2>3. b \in 1 .. Len(writers)
    BY <1>1, QueueType
  <2>4. i = b
    BY <1>0, <2>1, <2>2, <2>3 DEF QueueHeld
  <2> QED
    BY <1>2, <2>1, <2>4
<1>8. ASSUME NEW n, Windowed(n) PROVE Windowed(n)'
  <2>1. CASE Recorded(n)
    BY <1>6, <2>1 DEF Windowed
  <2>2. CASE n \in FlushWindow
    <3>1. PICK j \in FlushJobs : n \in File /\ out[j] = n /\ pc[j] \in Window
      BY <2>2 DEF FlushWindow, Window
    <3>2. j \in Jobs /\ j \in Holders
      BY JobKinds
    <3>3. CASE pc'[j] = pc[j]
      BY <1>2, <3>1, <3>3 DEF Windowed, FlushWindow, Window
    <3>4. CASE /\ j \in {w.job : w \in Batch} /\ pc[j] \in Waiting
               /\ pc'[j] = Resume(pc[j], TRUE)
      <4>1. CASE pc[j] = "keying"
        BY <1>6, <1>7, <3>1, <3>2, <3>4, <4>1 DEF Windowed
      <4>2. CASE pc[j] = "committing"
        <5>1. pc'[j] = "commit"
          BY <3>4, <4>2 DEF Resume
        <5> QED
          BY <1>2, <3>1, <5>1 DEF Windowed, FlushWindow
      <4> QED
        BY <3>1, <3>4, <4>1, <4>2 DEF Window, Waiting
    <3> QED
      BY <1>3, <3>2, <3>3, <3>4
  <2> QED
    BY <1>8, <2>1, <2>2 DEF Windowed
<1>9. \A n \in manifest'.files : Windowed(n)'
  BY <1>0, <1>2, <1>8 DEF Recording
<1>10. ASSUME NEW w \in Queue' PROVE KeyEdit(w.job, w.edit)'
  <2>1. w \in Queue /\ pc'[w.job] = pc[w.job]
    BY <1>3
  <2>2. KeyEdit(w.job, w.edit)
    BY <1>0, <2>1 DEF Recording
  <2>3. /\ \A n : Doomed(n)' <=> Doomed(n)
        /\ \A j, n : Shields(j, n)' <=> Shields(j, n)
    BY <1>2 DEF Doomed, Shields
  <2>4. PICK x : x = w.edit.sst
    OBVIOUS
  <2>5. PICK j : j = w.job
    OBVIOUS
  <2>6. w.edit.sst # None => ~Doomed(w.edit.sst)' /\ Shields(w.job, w.edit.sst)'
    BY <2>2, <2>3, <2>4, <2>5 DEF KeyEdit
  <2> QED
    BY <1>2, <1>8, <2>1, <2>2, <2>6 DEF KeyEdit
<1>11. MemsWindowed'
  <2> SUFFICES ASSUME NEW m \in imm', m.has, Reachable(m)' PROVE Windowed(m.file)'
    BY DEF MemsWindowed
  <2>1. \A v \in Batch : WriterHeld(v)
    BY <1>0, <1>3 DEF QueueHeld
  <2>2. imm' \subseteq imm /\ \A o \in imm : ~o.done => o \in imm'
    BY <1>2, <2>1 DEF WriterHeld, WriterMems
  <2>3. Reachable(m)
    <3> SUFFICES ASSUME NEW o \in imm, o.id <= m.id, ~o.done PROVE Active(o)
      BY DEF Reachable
    <3>1. PICK f \in FlushJobs : out'[f] = o.file /\ pc'[f] \in Unfinished
      BY <2>2 DEF Reachable, Active
    <3>2. pc[f] \in Unfinished
      <4>1. f \in Holders
        BY JobKinds
      <4>2. CASE pc[f] \in Waiting /\ pc'[f] = Resume(pc[f], TRUE)
        BY <3>1, <4>2 DEF Waiting, Resume, Unfinished
      <4> QED
        BY <1>3, <3>1, <4>1, <4>2
    <3> QED
      BY <1>2, <3>1, <3>2 DEF Active
  <2>4. PICK n : n = m.file
    OBVIOUS
  <2>5. Windowed(n)'
    BY <1>0, <1>8, <2>2, <2>3, <2>4 DEF Recording, MemsWindowed
  <2> QED
    BY <2>4, <2>5
<1>12. ASSUME NEW j \in Jobs PROVE RecordsOf(j)'
  <2>0. /\ RecordsOf(j) /\ j \in Holders
        /\ pc'[j] = "keying" =>
             pc[j] = "keying" /\ j \notin {w.job : w \in Batch}
        /\ pc'[j] \in {"sync", "syncing"} => pc[j] \in {"sync", "syncing"}
        /\ pc'[j] \in {"drop", "dropping"} => pc[j] \in {"drop", "dropping"}
    <3>1. RecordsOf(j) /\ j \in Holders
      BY <1>0, JobKinds DEF Recording
    <3>2. CASE pc'[j] = pc[j] /\ j \notin {w.job : w \in Batch}
      BY <3>1, <3>2
    <3>3. CASE pc[j] \in Waiting /\ pc'[j] = Resume(pc[j], TRUE)
      BY <3>1, <3>3 DEF Waiting, Resume
    <3> QED
      BY <1>3, <3>1, <3>2, <3>3
  <2>1. ASSUME pc'[j] = "keying" PROVE KeyQueued(j)'
    <3>1. PICK i \in 1 .. Len(writers) :
            writers[i].job = j /\ writers[i].edit.sst = out[j]
      BY <2>0, <2>1 DEF RecordsOf, KeyQueued
    <3>2. i > s
      BY <1>5, <2>0, <2>1, <3>1
    <3>3. PICK l \in 1 .. Len(writers') : writers'[l] = writers[i] /\ l > 0
      BY <1>4, <3>2
    <3>4. ~(l <= group'.done)
      BY <1>2, <3>3
    <3> QED
      BY <1>2, <3>1, <3>3, <3>4 DEF KeyQueued
  <2>2. ASSUME NEW n, Logged(j, n) PROVE Logged(j, n)'
    <3>1. CASE Recorded(n)
      BY <1>6, <3>1 DEF Logged
    <3>2. CASE \E i \in 1 .. Len(writers) :
                 s < i /\ writers[i].job = j /\ writers[i].edit.sst = n
      <4>1. PICK i \in 1 .. Len(writers) :
              s < i /\ writers[i].job = j /\ writers[i].edit.sst = n
        BY <3>2
      <4>2. PICK l \in 1 .. Len(writers') : writers'[l] = writers[i] /\ 0 < l
        BY <1>4, <4>1
      <4> QED
        BY <1>2, <4>1, <4>2 DEF Logged
    <3> QED
      BY <1>2, <2>2, <3>1, <3>2 DEF Logged
  <2>3. ASSUME NEW n, Erased(j, n) PROVE Erased(j, n)'
    <3>1. CASE manifest.keys[n] = NoKey
      BY <1>2, <3>1 DEF Erased
    <3>2. CASE \E i \in 1 .. Len(writers) :
                 s < i /\ writers[i].job = j /\ writers[i].edit.drop = n
      <4>1. PICK i \in 1 .. Len(writers) :
              s < i /\ writers[i].job = j /\ writers[i].edit.drop = n
        BY <3>2
      <4>2. PICK l \in 1 .. Len(writers') : writers'[l] = writers[i] /\ 0 < l
        BY <1>4, <4>1
      <4> QED
        BY <1>2, <4>1, <4>2 DEF Erased
    <3> QED
      BY <1>2, <2>3, <3>1, <3>2 DEF Erased
  <2> QED
    BY <1>2, <2>0, <2>1, <2>2, <2>3 DEF RecordsOf
<1>13. KeysAgree'
  BY <1>0, <1>2 DEF KeysAgree
<1>14. Recording'
  BY <1>0, <1>2, <1>9, <1>10, <1>11, <1>12 DEF Recording
<1> QED
  BY <1>0, <1>13, <1>14 DEF DInv, Running

-----------------------------------------------------------------------------
(* Recovery and the specification *)

\* A crash and the steps of the recovery keep the records: what recovery will
\* list is recorded again before the database is open.
LEMMA CrashDurable ==
  ASSUME DInv, Crash
  PROVE  DInv'
BY DEF Crash, DInv, Up, Running

\* What Recover finds in the MANIFEST it puts in the list.
LEMMA RecoverDurable ==
  ASSUME TInv, DInv, Recover
  PROVE  DInv'
<1>1. /\ KeyList' = manifest.keys /\ manifest' = manifest /\ table' = table
      /\ phase' = "recovered" => \A n \in manifest.files : Opens(manifest.keys, n)
      /\ phase' \in {"recovered", "unopenable"}
  BY DEF Recover, disk
<1>2. KeysAgree'
  BY <1>1 DEF KeysAgree
<1>3. (\A n \in manifest.files : Opens(manifest.keys, n)) =>
        (\A n \in manifest.files : Opens(manifest.keys, n))'
  BY <1>1 DEF Opens
<1> QED
  BY <1>1, <1>2, <1>3 DEF DInv, Up, Running

\* The MANIFEST of DeleteUnreferencedSstFiles has no keys, so it agrees with
\* any list.
LEMMA DeleteUnreferencedDurable ==
  ASSUME TInv, DInv, DeleteUnreferencedSstFiles \/ DeleteUnreferencedFile
  PROVE  DInv'
<1>1. CASE DeleteUnreferencedSstFiles
  <2>1. \A n \in File : manifest'.keys[n] = NoKey
    BY <1>1 DEF DeleteUnreferencedSstFiles, WriteCurrentStateToManifest
  <2>2. KeysAgree' /\ phase' = "replayed"
    BY <1>1, <2>1 DEF DeleteUnreferencedSstFiles, KeysAgree
  <2> QED
    BY <2>2 DEF DInv, Running
<1>2. CASE DeleteUnreferencedFile
  <2>1. phase' = "replayed" /\ phase = "replayed" /\ UNCHANGED <<KeyList, manifest>>
    BY <1>2 DEF DeleteUnreferencedFile
  <2> QED
    BY <2>1 DEF DInv, Up, Running, KeysAgree
<1> QED
  BY <1>1, <1>2

\* A table written from a WAL gets a key that the list did not have.
LEMMA WriteLevel0Durable ==
  ASSUME TInv, DInv, WriteLevel0TableForRecovery
  PROVE  DInv'
<1>1. phase' = "replayed" /\ phase = "replayed" /\ manifest' = manifest
  BY DEF WriteLevel0TableForRecovery
<1>2. \A n \in File : KeyList[n] # NoKey => KeyList'[n] = KeyList[n]
  BY AddKeeps DEF WriteLevel0TableForRecovery
<1>3. KeysAgree'
  BY <1>1, <1>2 DEF KeysAgree, DInv, Up
<1> QED
  BY <1>1, <1>3 DEF DInv, Running

\* The MANIFEST of RecoverLogFiles has no keys either; all that the list has
\* are to be recorded again.
LEMMA RecoverLogFilesDurable ==
  ASSUME TInv, SInv, DInv, RecoverLogFiles
  PROVE  DInv'
<1>1. /\ phase' = "rekey" /\ phase = "replayed" /\ version' = version \cup recovered
      /\ rekey' = {n \in File : KeyList[n] # NoKey}
  BY DEF RecoverLogFiles
<1>2. \A n \in File : manifest'.keys[n] = NoKey
  BY DEF RecoverLogFiles, WriteCurrentStateToManifest
<1>3. \A n \in version \cup recovered : n \in File /\ KeyList[n] # NoKey
  BY <1>1 DEF SInv, Recovering, Opens, TInv, TypeOK, FileType
<1>4. KeysAgree'
  BY <1>2 DEF KeysAgree
<1>5. version' \ rekey' = {}
  BY <1>1, <1>3
<1> QED
  BY <1>1, <1>4, <1>5 DEF DInv, Running

\* A key that is recorded again agrees with the list.
LEMMA LogRecoveredKeyDurable ==
  ASSUME TInv, SInv, DInv, LogRecoveredKey
  PROVE  DInv'
<1>1. PICK x \in rekey :
        /\ manifest' = ApplyVersionEdit(manifest, AddSSTKey(x, KeyList[x]),
                                        nextFile)
        /\ rekey' = rekey \ {x}
  BY DEF LogRecoveredKey
<1>2. /\ phase' = "rekey" /\ phase = "rekey" /\ KeyList' = KeyList
      /\ version' = version /\ x \in File /\ rekey \subseteq File
      /\ manifest.keys \in [File -> Key] /\ KeyList \in [File -> Key]
  BY DEF LogRecoveredKey, fileVars, TInv, TypeOK, FileType, KeyType, Manifest
<1>3. manifest'.keys = AddSSTKeyToList(manifest.keys, x, KeyList[x])
  BY <1>1, <1>2 DEF ApplyVersionEdit, AddSSTKey, EmptyEdit, File, None
<1>4. \A n \in File : manifest'.keys[n] =
        IF n = x /\ manifest.keys[n] = NoKey THEN KeyList[n] ELSE manifest.keys[n]
  BY <1>2, <1>3 DEF AddSSTKeyToList
<1>5. KeysAgree
  BY <1>2 DEF DInv, Up
<1>6. KeysAgree'
  BY <1>2, <1>4, <1>5 DEF KeysAgree
<1>7. ASSUME NEW n \in version \ rekey' PROVE Recorded(n)'
  <2>1. n \in File /\ KeyList[n] # NoKey
    BY <1>2 DEF SInv, Recovering, Opens, TInv, TypeOK, FileType
  <2>2. CASE n = x
    BY <1>2, <1>4, <1>5, <2>1, <2>2 DEF KeysAgree, Recorded
  <2>3. CASE n # x
    <3>1. Recorded(n)
      BY <1>1, <1>2, <2>3 DEF DInv
    <3> QED
      BY <1>2, <1>4, <2>1, <2>3, <3>1 DEF Recorded
  <2> QED
    BY <2>2, <2>3
<1> QED
  BY <1>2, <1>6, <1>7 DEF DInv, Running

\* A database that has just been opened and has recorded all keys.
LEMMA OpenDurable ==
  Opened /\ imm = {} /\ KeysAgree /\ (\A j \in Jobs : pc[j] = "idle")
    /\ (\A n \in manifest.files : Recorded(n)) => DInv
<1> SUFFICES ASSUME Opened, imm = {}, KeysAgree, \A j \in Jobs : pc[j] = "idle",
                    \A n \in manifest.files : Recorded(n)
             PROVE  DInv
  OBVIOUS
<1>1. Queue = {}
  BY DEF Opened, Queue
<1>2. MemsWindowed /\ \A j \in Jobs : RecordsOf(j)
  BY DEF MemsWindowed, RecordsOf
<1>3. Recording
  BY <1>1, <1>2 DEF Recording, Opened, Windowed
<1> QED
  BY <1>3 DEF DInv, Opened, Running

\* When all keys are recorded again, every file of the version has its record.
LEMMA OpenDoneDurable ==
  ASSUME TInv, NInv, SInv, LInv, DInv, OpenDone
  PROVE  DInv'
<1>1. /\ Running' /\ phase = "rekey" /\ rekey = {}
      /\ UNCHANGED <<manifest, version, writers, group, rolling, pc, imm,
                     descriptor_log_, KeyList>>
  BY DEF OpenDone, logVars, fileVars, jobVars, memVars, Running
<1>2. /\ writers = <<>> /\ group = NoGroup /\ ~rolling /\ imm = {}
      /\ pc = [h \in Holders |-> "idle"]
  BY <1>1 DEF NInv, Quiet
<1>3. descriptor_log_ /\ manifest.files = version
  BY <1>1 DEF LInv
<1>4. Opened'
  BY <1>1, <1>2, <1>3 DEF Opened
<1>5. KeysAgree /\ \A n \in version : Recorded(n)
  BY <1>1 DEF DInv, Up
<1>6. KeysAgree' /\ (\A n \in manifest.files : Recorded(n))'
  BY <1>1, <1>3, <1>5 DEF KeysAgree, Recorded
<1>7. (imm = {})' /\ (\A j \in Jobs : pc[j] = "idle")'
  BY <1>1, <1>2, JobKinds
<1> QED
  BY <1>4, <1>6, <1>7, OpenDurable, PTL

\* A new database has no records.
LEMMA InitDurable == Init => DInv
<1> SUFFICES ASSUME Init PROVE DInv
  OBVIOUS
<1>1. Opened
  BY DEF Init, Running, EmptyManifest, Opened
<1>2. KeysAgree /\ \A n \in manifest.files : Recorded(n)
  BY DEF Init, EmptyManifest, KeysAgree
<1>3. imm = {} /\ \A j \in Jobs : pc[j] = "idle"
  BY JobKinds DEF Init
<1> QED
  BY <1>1, <1>2, <1>3, OpenDurable

\* A step in which nothing happens keeps the records.
LEMMA StutterDurable ==
  ASSUME TInv, TInv', SInv, DInv, UNCHANGED vars
  PROVE  DInv'
<1>1. UNCHANGED <<KeyList, table, manifest, rolling, group, version, writers,
                  descriptor_log_, rekey, imm, pc, pend, out, outs, del, todo,
                  phase>>
  BY DEF vars, disk, logVars, fileVars, memVars, jobVars, bootVars
<1>2. CASE ~Running
  BY <1>1, <1>2 DEF DInv, Up, Running, KeysAgree, Recorded, Opens
<1>3. CASE Running
  <2>0. Running' /\ Recording
    BY <1>1, <1>3 DEF Running, DInv
  <2>1. \A n : Doomed(n)' <=> Doomed(n)
    BY <1>1 DEF Doomed
  <2>2. Kept
    BY <1>1, <2>0, <2>1 DEF Kept, Recording
  <2>3. Extends
    BY <1>1, QueueType DEF Extends
  <2>4. ASSUME NEW k \in Jobs PROVE RecordsOf(k)'
    <3>1. RecordsOf(k) /\ SameRecords(k)
      BY <1>1, <2>0 DEF Recording, SameRecords
    <3> QED
      BY <2>2, <2>3, <3>1, KeptRecords
  <2>5. SameFlushes
    BY <1>1 DEF SameFlushes
  <2>6. MemsWindowed'
    BY <1>1, <2>0, <2>2, <2>5, KeptMems DEF Recording
  <2> QED
    BY <1>1, <1>3, <2>0, <2>2, <2>4, <2>6, KeptStill
<1> QED
  BY <1>2, <1>3

\* Every step keeps the records.
LEMMA NextDurable ==
  ASSUME OneManifest, TInv, TInv', NInv, SInv, SInv', LInv, DInv, [Next]_vars
  PROVE  DInv'
<1>0. phase' # "aborted"
  BY DEF SInv
<1>1. ASSUME NEW j \in FlushJobs, FlushStep(j) PROVE DInv'
  <2>1. LogFlushKey(j) => Running'
    BY <1>0 DEF LogFlushKey, Running
  <2> QED
    BY <1>1, <2>1, FlushStartDurable, BuildFlushTableDurable, FlushDurable,
       FlushFailsDurable, TryInstallDurable, CommitMemtablesDurable,
       LogFlushKeyDurable DEF FlushStep
<1>2. ASSUME NEW c \in CompactionJobs, CompactionStep(c) PROVE DInv'
  <2>1. Running'
    BY <1>0, <1>2 DEF CompactionStep, CompactionStart, OpenCompactionOutputFile,
       FinishCompactionOutputFile, CompactionFails, InstallCompactionResults,
       LogCompactionKey, ApplyCompaction, bootVars, Running
  <2> QED
    BY <1>2, <2>1, CompactionDurable, LogCompactionKeyDurable,
       ApplyCompactionDurable DEF CompactionStep
<1>3. ASSUME NEW j \in Jobs, PurgeStep(j) PROVE DInv'
  BY <1>3, PurgeDurable, ReleaseAndFindDurable, LogKeyDeletionDurable,
     EraseKeysDurable, JobKinds DEF PurgeStep
<1>4. ASSUME NEW h \in Holders, DeleteObsoleteFile(h) \/ PurgeDone(h)
      PROVE  DInv'
  BY <1>4, PurgeDurable
<1>5. ASSUME SwitchMemtable \/ \E i \in Iterators : NewIterator(i) \/ ReadBlock(i)
      PROVE  DInv'
  <2>1. Running'
    BY <1>0, <1>5 DEF SwitchMemtable, NewIterator, ReadBlock, bootVars, Running
  <2> QED
    BY <1>5, <2>1, ClientDurable
<1>6. ASSUME NEW i \in Iterators, IteratorStep(i) PROVE DInv'
  BY <1>5, <1>6, DeleteIteratorDurable DEF IteratorStep
<1>7. ASSUME ManifestStep PROVE DInv'
  <2>1. CASE BeginManifestWrite
    <3>1. Running'
      BY <1>0, <2>1 DEF BeginManifestWrite, Running
    <3> QED
      BY <2>1, <3>1, BeginManifestWriteDurable
  <2>2. CASE SetCurrentFile \/ ManifestWriteFails
    <3>1. Running => ~rolling
      BY DEF DInv, Recording
    <3> QED
      BY <2>2, <3>1 DEF SetCurrentFile, ManifestWriteFails, OneManifest
  <2> QED
    BY <1>7, <2>1, <2>2, AppendRecordDurable, FinishManifestWriteDurable
       DEF ManifestStep
<1>8. ASSUME Stopped \/ UNCHANGED vars PROVE DInv'
  BY <1>8, StutterDurable DEF Stopped
<1>9. ASSUME RecoveryStep PROVE DInv'
  BY <1>9, RecoverDurable, DeleteUnreferencedDurable, WriteLevel0Durable,
     RecoverLogFilesDurable, LogRecoveredKeyDurable, OpenDoneDurable
     DEF RecoveryStep
<1> QED
  BY <1>1, <1>2, <1>3, <1>4, <1>5, <1>6, <1>7, <1>8, <1>9, CrashDurable DEF Next

\* One MANIFEST is one without failed writes, so any number of flush threads
\* may run.
LEMMA OneManifestThreads == OneManifest => OneFlushThread
BY DEF OneManifest, OneFlushThread

\* The invariants of the three parts hold always.
LEMMA DurableInvariant ==
  ASSUME OneManifest
  PROVE  Spec => [](TInv /\ NInv /\ SInv /\ LInv /\ DInv)
<1>0. OneFlushThread
  BY OneManifestThreads
<1>1. Init => LInv /\ DInv
  BY InitListed, InitDurable
<1>2. TInv /\ TInv' /\ NInv /\ SInv /\ SInv' /\ LInv /\ DInv /\ [Next]_vars
        => LInv' /\ DInv'
  BY NextListed, NextDurable
<1> QED
  BY <1>0, <1>1, <1>2, Shaped, Safety, PTL DEF Spec

\* What the MANIFEST lists and no flush will record has its key there.
LEMMA ListedDurable ==
  ASSUME TInv, SInv, LInv, DInv
  PROVE  DurableKeysOutsideWindows
<1> SUFFICES ASSUME phase \in {"open", "recovered", "rekey"},
                    NEW n \in manifest.files, n \notin FlushWindow \cup rekey
             PROVE  Opens(manifest.keys, n)
  BY DEF DurableKeysOutsideWindows
<1>1. CASE phase = "open"
  <2>1. Running /\ Recording
    BY <1>1 DEF DInv, Running
  <2>2. Held(n) /\ Recorded(n)
    BY <2>1, ListedHeld DEF Recording, Windowed
  <2> QED
    BY <2>2 DEF Held, Opens, Recorded
<1>2. CASE phase = "recovered"
  BY <1>2 DEF DInv
<1>3. CASE phase = "rekey"
  <2>1. n \in version
    BY <1>3 DEF LInv
  <2>2. Recorded(n) /\ Opens(KeyList, n)
    BY <1>3, <2>1 DEF DInv, SInv, Recovering
  <2> QED
    BY <2>2 DEF Opens, Recorded
<1> QED
  BY <1>1, <1>2, <1>3

\* Every file the MANIFEST lists has its key there as well
\* (DurableKeysOutsideWindows), but for the files of a flush that has not come
\* to its key record and for those recovery has still to record again: a crash
\* at any other point leaves a database that can be opened.
THEOREM KeysAreDurable ==
  ASSUME OneManifest
  PROVE  Spec => []DurableKeysOutsideWindows
<1>1. TInv /\ SInv /\ LInv /\ DInv => DurableKeysOutsideWindows
  BY ListedDurable
<1> QED
  BY <1>1, DurableInvariant, PTL

\* The record that deletes a key is written when the file is gone.
LEMMA RecordErased ==
  ASSUME OneManifest, TInv, SInv, LInv, DInv, [Next]_vars, Running,
         NEW n \in File, manifest.keys[n] # NoKey, manifest'.keys[n] = NoKey
  PROVE  n \notin manifest'.files /\ table[n] = NoKey
<1>0. Recording /\ ~rolling
  BY DEF DInv, Recording
<1>1. AppendRecord
  <2>1. manifest' # manifest
    OBVIOUS
  <2>2. CASE UNCHANGED vars \/ Stopped
    BY <2>1, <2>2 DEF Stopped, vars, disk
  <2>3. CASE \E j \in FlushJobs : FlushStep(j)
    BY <2>1, <2>3 DEF FlushStep, FlushStart, GenerateKey, BuildFlushTable,
       FlushFails, TryInstallMemtableFlushResults, CommitMemtables, CommitDone,
       CommitFails, LogFlushKey, disk
  <2>4. CASE \E c \in CompactionJobs : CompactionStep(c)
    BY <2>1, <2>4 DEF CompactionStep, CompactionStart, OpenCompactionOutputFile,
       FinishCompactionOutputFile, CompactionFails, InstallCompactionResults,
       LogCompactionKey, ApplyCompaction, disk
  <2>5. CASE \E j \in Jobs : PurgeStep(j)
    BY <2>1, <2>5 DEF PurgeStep, SetBGError, ReleaseAndFind, LogKeyDeletion,
       EraseKeys, disk
  <2>6. CASE \/ \E h \in Holders : DeleteObsoleteFile(h) \/ PurgeDone(h)
             \/ \E i \in Iterators : IteratorStep(i)
             \/ SwitchMemtable \/ Crash
    BY <2>1, <2>6 DEF DeleteObsoleteFile, PurgeDone, IteratorStep, NewIterator,
       ReadBlock, DeleteIterator, SwitchMemtable, Crash, disk
  <2>7. CASE RecoveryStep
    BY <2>7 DEF RecoveryStep, Recover, DeleteUnreferencedSstFiles,
       DeleteUnreferencedFile, WriteLevel0TableForRecovery, RecoverLogFiles,
       LogRecoveredKey, OpenDone, Running
  <2>8. CASE ManifestStep
    BY <1>0, <2>1, <2>8 DEF ManifestStep, BeginManifestWrite, SetCurrentFile,
       FinishManifestWrite, ManifestWriteFails, OneManifest, disk
  <2> QED
    BY <2>2, <2>3, <2>4, <2>5, <2>6, <2>7, <2>8 DEF Next
<1>2. PICK w \in Queue, e \in Edit :
        /\ w.job \in Jobs /\ KeyEdit(w.job, e)
        /\ manifest'.files = (manifest.files \ e.del) \cup e.add
        /\ \A x \in File :
             manifest'.keys[x] =
               IF x = e.drop THEN NoKey
               ELSE IF x = e.sst /\ manifest.keys[x] = NoKey THEN e.key
               ELSE manifest.keys[x]
  BY <1>1, NextRecord
<1>3. n = e.drop /\ n # None
  BY <1>2 DEF File, None
<1>4. n \in del[w.job] /\ pc[w.job] = "dropping" /\ e.add = {}
  BY <1>2, <1>3 DEF KeyEdit
<1>5. w.job \in Holders /\ Doomed(n)
  BY <1>2, <1>4, JobKinds DEF Doomed
<1>6. table[n] = NoKey
  BY <1>4, <1>5, Parts DEF PurgeOf
<1>7. n \notin manifest.files
  BY <1>0, <1>5, ListedHeld DEF Held
<1> QED
  BY <1>2, <1>4, <1>6, <1>7

\* A key record is deleted only when the file is neither listed by the MANIFEST
\* nor on disk (KeyRecordOutlivesFile): a crash between two steps of a purge
\* leaves a key too many and never one too few.
THEOREM RecordsOutliveFiles ==
  ASSUME OneManifest
  PROVE  Spec => KeyRecordOutlivesFile
<1> DEFINE Late ==
      Running => \A n \in File :
        manifest.keys[n] # NoKey /\ manifest'.keys[n] = NoKey
          => n \notin manifest'.files /\ table[n] = NoKey
<1>1. TInv /\ SInv /\ LInv /\ DInv /\ [Next]_vars => Late
  BY RecordErased
<1>2. KeyRecordOutlivesFile <=> [][Late]_vars
  BY DEF KeyRecordOutlivesFile
<1> HIDE DEF Late
<1> QED
  BY <1>1, <1>2, DurableInvariant, PTL DEF Spec

=============================================================================
