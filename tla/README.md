# TLA+ specifications of Tweezer

Tweezer is a fork of RocksDB 6.14.5 that runs inside an SGX enclave
(`src/Docker/tweezer`; paths below are relative to it). What it adds to the
engine: every SST file is encrypted with a key of its own, every log file (WAL
or MANIFEST) with a secret of its own and a chain of MACs, values of memtables
live encrypted outside the enclave, and the keys and secrets are kept in the
MANIFEST as extra version-edit records. This directory models those additions
together with the parts of the engine that decide whether they work: who
draws, records, looks up and drops a key, in which order, beside which other
threads, and what a crash leaves behind.

## 1. Inventory

| Part | State | Operations | Hard behaviour |
|---|---|---|---|
| SST keys: `sgx/enc_dec.cc`, `db/flush_job.cc`, `db/compaction/compaction_job.cc`, `db/db_impl/db_impl_compaction_flush.cc` | `KeyList` (global map under `key_lock`), key records of the MANIFEST, tables on disk | GenerateKey, FilenameToKey, AddSSTKey / DeleteSSTKey records, purge | jobs, iterators and purges interleave without the DB mutex; key and file become durable in different records; crash between them |
| Flush commit order: `db/memtable_list.cc` | immutable memtables, `commit_in_progress_` | TryInstallMemtableFlushResults, rollback | one thread commits for others; a failed commit is flushed again |
| MANIFEST queue: `db/version_set.cc` | `manifest_writers_`, `descriptor_log_`, the file | LogAndApply, group commit, roll | group leader, mutex released while writing, failure starts a new file |
| Log format: `db/log_writer.cc`, `db/log_reader.cc`, `sgx/enc_dec.cc` | block offset, `previous_mac`; buffer, `scratch` | AddRecord, EmitPhysicalRecord, ReadRecord, ReadPhysicalRecord | block boundaries, torn tails, MAC chain |
| WAL secrets: `db/db_impl/db_impl_open.cc` (CreateWAL, RecoverLogFiles), `db/version_set.h` | `log_secret`, secret records of the MANIFEST | CreateWAL, AddReadSecret, DeleteSecret | file before secret; every recovery starts MANIFESTs without secrets |
| Write path, WAL life cycle: `db/db_impl/db_impl_write.cc`, `db/db_impl/db_impl_files.cc` | memtables, `logfile_number_`, `alive_log_files_`, log numbers | WriteToWAL, SwitchWAL, SwitchMemtable, FindObsoleteFiles, PurgeObsoleteFiles | which WAL is still needed, by which column family, now and after a crash |
| Recovery: `db/db_impl/db_impl_open.cc` | replay state | Recover, DeleteUnreferencedSstFiles, RecoverLogFiles, Open | crash during recovery |
| Block reads: `table/block_fetcher.cc` | the buffer of a block | look-up of the key, digest check, decryption | a missing or wrong key ends the process |
| Encrypted block and table reader: `table/block_based/block_builder.cc`, `sgx/encryptedblock.cc`, `table/block_based/block_based_table_{builder,iterator,reader}.cc` | keys and sealed values of a block, restart points; position and status of an iterator | Add, Finish; Seek, SeekForPrev, Next, Prev, value, Get | offsets into a block that is not laid out as upstream's; empty values; a failed read between two calls |
| Untrusted arena: `memory/untrusted_concurrent_arena.h`, `memory/untrusted_arena.cc` | one arena, its free rest, a shard per core | AllocateAligned | spin mutexes, refills, counters read before and written after |
| Memtable values: `db/memtable.cc`, `db/write_thread.cc`, `db/memtable_list.cc`, `db/db_impl/db_impl.cc` | entries inside, values outside the enclave, SuperVersions | Add, switch, flush, Get, iterator, Unref | parallel writers; a reader holds memtables that are flushed meanwhile |

The parts talk to each other through the MANIFEST (all records of keys,
secrets, tables and log numbers go through one writer queue), through
`KeyList`, and through log numbers, which tie flushes to WALs.

Correctness, in one sentence each: a file some reader may open has its key; a
file the MANIFEST lists has its key there; a number with a key is never reused;
a log gives back a prefix of what was written, and everything acknowledged; a
WAL that is needed exists and has its secret; an open database has every
acknowledged batch, once and whole; a table gives back, in order, what was put
into it, and says so when it cannot; two values never share memory, and a value
stays where it is as long as somebody may read it.

`PROJECT.json` lists every part with its status, and every hazard at its line.

## 2. Modules

| Module | Models | Extends / uses |
|---|---|---|
| `SstKeys` | keys of SST files, flush and compaction jobs, iterators, purge, MANIFEST queue, recovery | |
| `MCSstKeys` | instance for TLC of `SstKeys`; flush threads and iterators are interchangeable, a symmetry `sst_keys_jobs` uses (safety only) | `SstKeys` |
| `SstKeysTypeProofs` | typing of `SstKeys` | `SstKeys`, TLAPS |
| `SstKeysNumberProofs` | file numbers with a key are spent | `SstKeysTypeProofs` |
| `SstKeysSafetyProofs` | what is read has its table and its key; what the MANIFEST lists too | `SstKeysNumberProofs` |
| `RecordLog` | what a log promises: records go in, a prefix with everything acknowledged comes out | |
| `SecureLog` | log::Writer and log::Reader with LOG_ENC | refines `RecordLog` |
| `SecureLogProofs` | typing, block layout, prefix property; how far the reader gets; the refinement of `RecordLog` | `SecureLog`, TLAPS |
| `WalSecrets` | WALs, their secrets, log numbers, flush edits, replay | |
| `WalSecretsProofs` | no batch lost, doubled or split; secrets outside the windows | `WalSecrets`, TLAPS |
| `EncryptedTable` | an SST with BLOCK_ENC, from the calls that build it to iterator and Get | |
| `MCEncryptedTable` | keys and values for TLC | `EncryptedTable` |
| `EncryptedTableProofs` | blocks decode to what was added; where iterators stand; what they show and what Get finds | `EncryptedTable`, TLAPS |
| `UntrustedArena` | allocation of the memory of values | |
| `UntrustedArenaProofs` | allocations are apart | `UntrustedArena`, TLAPS |
| `MemValues` | memtables: write groups, switch, flush, deletion, readers | composes `UntrustedArena` |
| `MemValuesProofs` | values stay where they are read; answers are current | `MemValues`, `UntrustedArenaProofs`, TLAPS |

Mutants (operators with a comment "Mutant: ...") stand before the definition
they would replace. They are plausible slips of the code, and each is known to
break the property it is paired with in `PROJECT.json`.

### 2.1 SstKeys

One action per stretch of a thread between two points at which the DB mutex is
free. A flush goes FlushStart (PickMemTable), GenerateKey, BuildFlushTable,
TryInstallMemtableFlushResults, CommitMemtables / CommitDone (the loop of the
one committing thread, CommitFails when its write failed), LogFlushKey; a compaction CompactionStart,
OpenCompactionOutputFile and FinishCompactionOutputFile per output,
InstallCompactionResults, LogCompactionKey per output, ApplyCompaction. Both
end, after SetBGError if there was an error, in ReleaseAndFind
(FindObsoleteFiles), DeleteObsoleteFile per file,
PurgeDone, LogKeyDeletion, EraseKeys. The MANIFEST queue is BeginManifestWrite,
AppendRecord per record, SetCurrentFile (roll), FinishManifestWrite or
ManifestWriteFails. Iterators
pin a version, read and purge. Crash keeps the disk; recovery is Recover,
DeleteUnreferencedSstFiles, DeleteUnreferencedFile,
WriteLevel0TableForRecovery, RecoverLogFiles, LogRecoveredKey per key,
OpenDone.

Facts about the code that the model makes visible:

- the thread that commits flush results is the one that owns the oldest
  memtable; its entry in `pending_outputs_` is what protects finished,
  uncommitted tables of newer memtables from a full scan;
- recovery writes two MANIFESTs without keys (DeleteUnreferencedSstFiles,
  RecoverLogFiles) before it records the keys again one by one;
- keys leak, harmlessly, in three places: the purge of an iterator, the last
  scan of Open, and a flush with empty output;
- after a failed MANIFEST write `disable_delete_obsolete_files_` is what keeps
  the tables that the failed record lists;
- RecoverLogFiles runs at every reopen, because a WAL always exists after the
  first open.

Abstractions: one column family and one directory; a random key is the
incarnation that drew it; the MANIFEST is what its records replay to; WAL and
MANIFEST files take no numbers. A failing write or sync of the MANIFEST (with
AllowManifestError) may leave its record on disk; a flush that fails, or whose
commit fails, resets its memtables (Rollback); a compaction (with AllowFailure)
may fail between two outputs or leave a part of one, and an output that turns
out empty is deleted with its key left in KeyList. Left out are a failure after
CURRENT is renamed, retryable errors and the automatic or manual resume
after an error. Recovery's own MANIFEST writes do not fail, as Open would only
return.

### 2.2 SecureLog and RecordLog

The writer cuts a record into fragments (FragBlk, FragOff, FragLen, FragType
are the loop of AddRecord), seals each with the MAC of the previous one, and
flushes at the end of a record unless `manual_wal_flush`. A crash keeps every
flushed byte and any number of the bytes after them. The reader walks blocks
(ReadMore), verifies (Authentic), puts records together (ReadRecord), and ends
at the end of the file or exits (LogDigestFail). MACs are fragment numbers,
so a fragment verifies exactly when the reader is where the writer was; bytes
beyond a torn tail are old contents of the reader's buffer, which never
verify. `RecordLog` is the abstract log; `ImplementsRecordLog` is the
refinement, with the reader's state hidden. The flush mode and the recovery
mode are options of an instance: both are chosen in Init and never change.

### 2.3 WalSecrets

The leader of the write thread appends a batch to the WAL (WriteToWAL), then
inserts it in the memtables of every family of the batch and acknowledges it
(InsertInto). SwitchWAL or ScheduleFlushes (also HandleWriteBufferFull and
FlushMemTable) choose families; each is switched by CreateWAL (the file),
AddLogSecret (the record, with the mutex released; AddLogSecretFails when that
write fails, its record in the MANIFEST or not) and SwitchMemtable (the new
WAL is current, log numbers of families with nothing unflushed move, the
memtable is sealed), or by SwitchMemtable alone when the current WAL is empty.
A flush is PickMemTable, LogFlush (MANIFEST record: table and log number),
InstallFlush, FindObsoleteFiles; DeleteWal runs outside the mutex. At most one
group is between append and install (ManifestFree). A roll of the MANIFEST
keeps tables and log numbers and drops the secrets. Recovery is Recover (with
the MANIFEST of DeleteUnreferencedSstFiles), OpenLog per WAL, ReplayRecord per
batch with an optional table for full memtables, FinishRecovery, CreateWAL and
AddLogSecret, OpenDatabase (last scan), OpenReturns.

The set of WALs below MinLogNumberToKeep is a predicate (BelowMinLog) instead
of a minimum. A batch is a number; data is a set of batches.

### 2.4 EncryptedTable

A client builds a table (Add, FlushAndAdd, Finish) and then makes any sequence
of calls on one iterator (SeekToFirst, SeekToLast, Seek, SeekForPrev,
NextEntry, PrevEntry, Value) and of Gets. The layers are operators, in the
order in which the code calls them:

- BuilderAdd, Finished: a block of sealed values, an offset per entry, and a
  list of keys that are cut at what they share with the key before;
- Decoded: what EncryptedDataBlockIter::Ready makes of that list, with the
  offset `current_` behind the HMAC of the entry;
- NextImpl, PrevImpl, SeekImpl, SeekToFirstImpl, SeekToLastImpl,
  SeekForPrevImpl over the decoded list;
- IndexSeek, InitDataBlock, FindKeyForward, FindKeyBackward, TableSeek and so
  on: BlockBasedTableIterator under the index;
- GetBlock, SaveValue, GetResult: BlockBasedTable::Get, which looks at an entry
  once per step of NextImpl.

The loops (Ready, FindBlockForward, the scan of a block, the loop over the
index, Entries) are recursive functions over their positions. What is promised
is stated over sets of keys and the order of keys (`FirstOf`, `LastOf`,
`Right`), never over the blocks the code goes through.

A place at which the code reads out of bounds, uses a null pointer, does not
end or exits is a value of `fault`. `BackwardInBlock` and `GetCorrect` say at
which calls the code gets there; the other properties are about iterators
without one. Reading a block may fail once. The properties name the tables they are
about: `NoEmptyEnd`, in which no block ends in an empty value (`ForwardContract`,
`BackwardInBlock`), and `Regular`, in which in addition no block ends in a value
above Skip bytes (`GetCorrect`). These are no restrictions of the instance: all
tables are built, and what happens to an empty value at the end of a block is
the finding of `encrypted_table_tombstone`. An entry at the end of a block above
Skip bytes may be shown again by Next, and a Get of it may apply a merge operand
twice; `ForwardContract` says that nothing worse happens. `BackwardInBlock`
allows Prev to repeat the first entry of a block, and SeekForPrev to fail at a
target with no key of its block on one side, and never a wrong key.

Facts about the code that the model makes visible: an iterator is Valid while
its offset is below the end of the values, so an entry with an empty value
at the end of a block is not seen; NextImpl leaves a block by adding a
constant, so a value longer than the constant is seen again; Prev at the first
entry of a block stays there; after a failed read only the status tells that
the entry shown is that of an older block (`StatusTellsStaleBlock`).

### 2.5 UntrustedArena and MemValues

AllocateImpl has one action per step between two memory accesses that another
thread can see: Enter (which path), TryArena, LockArena, FromArena; PickShard,
LockShard, LockReload, Refill, FromShard; Exit for a request above a block. What a mutex
protects is read when it is taken (`saw`, `avail`) and written, from what was
read, in a later step; exclusion is therefore something to be shown. Memory is
counted in words.

MemValues puts memtables on top. JoinBatchGroup gives a group its sequence
numbers; each parallel writer goes AddAllocate, AllocateImpl, AddSeal,
AddInsert; CompleteParallelMemTableWriter publishes. SwitchMemtable,
WriteLevel0Table, InstallMemtableFlushResults and DeleteMemTable are the rest of
the life of a memtable. A reader takes the SuperVersion (GetSuperVersion),
after that the snapshot (TakeSnapshot), and looks up (Lookup): everything else
may happen in between. A word of memory holds a piece of the value of one
write, and whether it is encrypted; the copy of MemTableIterator keeps that
bit, the decryption of SaveValue turns it over.

## 3. What is checked

Passing runs:

| Run | Bounds | States | Shows |
|---|---|---|---|
| `sst_keys_crash` | 1 flush, 1 compaction, 1 iterator, 3 files, compactions of 1 or 2 inputs, 2 incarnations | 366,890 | what is read has its key; no exit call is reached; keys durable outside the two windows; numbers spent; key records outlive files |
| `sst_keys_jobs` | 2 flushes, 1 compaction, 1 iterator, 3 files, compactions of 1 input, failures, no crash | 1,619,148 | a purge never takes what somebody reads; concurrent flushes committed by one thread; no exit call |
| `sst_keys_live` | 1 flush, 1 compaction, 3 files, compactions of 1 input, MANIFEST rolls, failing MANIFEST writes | 338,283 | every job ends; tables that the MANIFEST lists, by a failed record too, exist; no exit call |
| `secure_log` | blocks of 8, headers 2 and 3, MAC 2, lengths 0,1,3,4,5,9, 3 records, both flush modes, two recovery modes, read errors | 796,714 | layout, prefix, untorn and acknowledged records read, what is dropped is reported, termination, refinement |
| `wal_secrets` | 2 families, 2 batches, switches up to WAL 6, 3 incarnations | 544,122 | batches visible, once, whole; reopen outside windows; asserted orders of log numbers; current WAL kept; obsolete WALs deleted |
| `wal_secrets_options` | the same to WAL 4, with avoid_flush_during_recovery, rolls, failing secret records | 1,796,963 | the database may fail to open, never opens with data missing or doubled |
| `encrypted_table` | 2 user keys that share a byte, 2 user keys between and behind, 2 sequence numbers, 3 entries in any blocks, MAC 1, Skip 3, merges of 2 and 4, any one failed read | 272,754 | forward iteration and Get agree with the list of entries; backward iteration does inside a block and shows no wrong key at its ends; a stale block comes with a status |
| `mem_values` | 2 writer threads, 2 shards, blocks of 8 words, refills of 4, alignment 2, sizes 1, 3, 9, 2 writes, 1 reader, 1 key | 228,781 | allocations apart, values kept while readable, answers current, groups published unless a value of the group itself is above a block, memory returned |

Runs that TLC must refute (each is a finding in `PROJECT.json`, with the line
of the repository it contradicts):

| Run | Behaviour of the code |
|---|---|
| `secure_log_torn` | a torn tail fails the MAC check before the length check and ends the process |
| `wal_secrets_reopen` | crash between the WAL file and its secret's record: every open exits |
| `encrypted_table_tombstone` | a deletion at the end of a block is not seen by Get, so an older value below it is |
| `mem_values_flushed` | a flush copies the ciphertext of the memtable, and reading the SST takes off the SST's encryption only |

Some properties fail under one more constant or as one more invariant. They
have no run of their own; each change below shows the behaviour in seconds to
minutes:

| Change | Property that fails | Behaviour of the code |
|---|---|---|
| `INVARIANT ReopensAfterCrash` added to `SstKeysCrash.cfg` | `ReopensAfterCrash` | a crash between the table's record (`db/flush_job.cc:253`) and the key's (`:271`), or between a recovery's MANIFEST and the keys recorded again (`db/db_impl/db_impl_open.cc:1258-1273`): the next open stops |
| `avoid_flush_during_recovery = TRUE` in `WalSecrets.cfg` | `ReopensOutsideWindows` | the WALs that a recovery keeps have no secrets in its new MANIFEST (`db/db_impl/db_impl_open.cc:1258`); `include/rocksdb/options.h:1051` offers the option |
| `AllowRoll = TRUE` in `SstKeysCrash.cfg` | `KeyRecordOutlivesFile`, `DurableKeysOutsideWindows` | a MANIFEST rolled for its size (`max_manifest_file_size`) has the tables and none of their keys (`db/version_set.cc:5173`) |
| `AllowManifestError = TRUE` in `SstKeysCrash.cfg` | `DurableKeysOutsideWindows` | the MANIFEST that follows a failed write (`db/version_set.cc:4278`) has no keys either |
| a second flush thread and no compaction thread in `SstKeysLive.cfg` | `NeverAborts` | the key record of a flush whose commit failed (`db/flush_job.cc:271`) succeeds, so the MANIFEST is no longer in error and file deletions go on (`db/db_impl/db_impl_compaction_flush.cc:260`); the full scan takes the finished table of a newer memtable, which the other thread then commits. Needs `max_background_flushes` above its default of 1 |
| `AllowRoll = TRUE` in `WalSecrets.cfg` | `ReopensOutsideWindows` | the same MANIFEST has no secrets |
| `AllowManifestError = TRUE` in `WalSecrets.cfg` | `ReopensOutsideWindows` | CreateWAL ignores the status of the secret's record (`db/db_impl/db_impl_open.cc:1550`) and writes go on |
| `recycle_log_files_ = TRUE` in `SecureLog.cfg` | `UntornLogReads` | the writer uses the long header, the reader the short one (`db/log_reader.cc:375`) |

Why the bounds are enough. SstKeys: three files let a compaction have an input,
an output and a concurrent flush, with a reader that holds on to the input;
with failing writes, a table that is committed, one whose record failed and one
flushed again.
SecureLog: the lengths are those around the room of a block (4)
and of two, 0 and 1, and one record after another starts at every offset of a
block; three records give a record before, across and after a boundary.
WalSecrets: two families make a WAL needed by one and not by the other; two
batches make a WAL with something flushed and something not; three
incarnations give a crash during a recovery from a crash, and WAL 6 lets each
incarnation switch. EncryptedTable: three entries give a block before, at and
behind the one of a call, two versions of one user key on both sides of a block
boundary, and a key that shares a byte with its predecessor; Skip lies between
the two lengths of merge operands. MemValues: two threads contend for the arena
and for a shard, a block holds two refills, so the third range comes from a new
block, size 3 goes past the shards and 9 past a block; two writes give two
memtables, one of which is flushed and deleted under a reader. The safety
properties also hold with three writes (6.67 million states, too many for a
regular run); allocation is proved for all bounds.

Fairness. `sst_keys_live`: weak fairness of each background thread and of the
MANIFEST leader, which the thread pool and the queue (the leader wakes the next
one) give. `wal_secrets`: the same for flushes and purges, and for the
steps of a switch or a write already begun; clients owe no writes. `secure_log`:
the reader, one loop of one thread, goes on. `mem_values`: a writer that has
joined a group runs on. The spin locks are unfair, but a thread adds once per
group and then waits for the others, so it is passed a bounded number of times
and weak fairness is enough; a flush is scheduled whenever there is
an immutable memtable, and a reader that holds a SuperVersion finishes. Nobody
has to write, to switch or to read. Crashes, clients and failures have no
fairness.

Deadlock is checked where a module has an action Stopped (or a final phase) for
a process that has exited or has nothing to do; `mem_values` says
CHECK_DEADLOCK FALSE, because its process has exited after a value above a
block.

## 4. What is proved

All theorems hold for every value of the constants that satisfies the ASSUME
of the module (sizes are natural numbers, a header and a MAC fit in a block,
thread sets are disjoint, and finite in `MemValues`).

- `SstKeysTypeProofs!Typing`: Spec => []TypeOK. The inductive invariant `TInv`
  adds `Shape`, relations the types alone do not keep: the size of a group is
  at most the length of the queue, a job that builds has an output file, and
  a process that is down may still start once more.
- `SstKeysNumberProofs!NumbersSpent`: Spec => []KeyedNumbersSpent. `NInv` says
  that the replayed MANIFEST fits its own next number (`ManifestFits`), that
  everything in memory is below the counter (`RamSpent`), that every queued
  edit is below the number its group will record (`QueueSpent`), and that
  nothing is queued or running while down or in recovery (`Quiet`). It is needed because
  the counter in the MANIFEST is an older one than the one in memory: an edit
  of a key must bring a number that is above it.
- `SstKeysSafetyProofs!LiveFilesStayReadable`, `NoAbort`, `ListedTablesStay`:
  Spec => [](LiveFilesReadable, NeverAborts, ListedTablesExist), under
  `OneFlushThread`: with two flush threads a failing MANIFEST write costs a
  table that is needed (section 3), so either such writes do not fail or there
  is one thread. `SInv` follows a file from hand to hand, from the job that
  builds it to the memtable, the outputs of a compaction, the edit in the
  MANIFEST queue and the version: each hand holds its files (key and table
  match, and no purge has them), and each but the last has a pending_outputs_
  entry that shields them from the purges to come. The hard case is a flushed
  memtable whose job has gone: the job of an older memtable shields it, or the
  thread in the commit loop (`OneCommitter`). `LInv` adds that the tables the
  MANIFEST lists, or will list by the edits in its queue, are those of the
  version in memory, or are still owed to an error that disables file
  deletions (`FilesListed`, `Owed`).
- `SstKeysSafetyProofs!KeysAreDurable`, `RecordsOutliveFiles`:
  Spec => []DurableKeysOutsideWindows, Spec => []KeyRecordOutlivesFile,
  under `OneManifest` (no MANIFEST is rolled for its size and no write to it
  fails), without which the new MANIFEST has the files and not the keys
  (section 3). `DInv` says that the key of every table the MANIFEST lists, or
  will list, is there as well unless its flush has still to record it
  (`Windowed`) or recovery has to record it again, and that the MANIFEST agrees
  with KeyList (`KeysAgree`).
- `SecureLogProofs!LogTyped`, `LogFits`, `LogReadsPrefix`: typing (no
  subtraction of lengths and offsets goes below zero), layout of fragments, and
  the prefix property, for all block, header and MAC sizes, all lengths, cuts
  and read errors. `LInv` has the position of the writer (`WriterAt`), the MAC
  chain (`Chain`: the i-th fragment has MAC i), the grammar of fragments
  (`Grammar`: first, middles, last, in order and contiguous), how far the
  writer is in its record (`Progress`), and for the reader which fragment it is
  at (`Fetched`, `ReaderAt`). The argument: a fragment that verifies is the
  next of the chain, and by the grammar it continues exactly the record that
  `scratch` holds.

- `UntrustedArenaProofs!NoOverlap`: ArenaSpec => []AllocationsApart, for any
  number of threads, shards and allocations, any sizes, block and refill
  lengths. That allocations are apart says nothing about the next one:
  `ArenaInv` (theorem `ArenaInvariant`) adds that the free rest of the arena
  and of every shard are apart from each other and from all allocations
  (`FreeApart`) and below the end of the memory in use (`BelowTop`), that the
  owner of a mutex is the thread whose step says so and that what it read is
  still there (`MutexesHeld`), and that what is carved fits (`SizesFit`). The
  free words of a shard whose mutex is held are those its owner read, not the
  counter: that is what makes the invariant hold between a refill and the
  store of the new counter.

- `SecureLogProofs!UntornRead`, `AckedRead`, `DropsReported`: the other
  half of the reader, that it does not stop early. `RInv` adds to `LInv` how
  the fragments tile the blocks (`Layout`, `Ordered`, `Counted`), that the cut
  keeps every acknowledged record (`AckedKept`), which bytes a buffer holds
  (`Sized`, `Buffered`), and where the reader is in terms of fragments: all
  before `Place` are taken (`Taken`), and at the end of the file none is left
  that is whole (`AtEnd`), while an exit has met a fragment that is not
  (`AtExit`). Only `UntornRead` has a hypothesis, that logs are not recycled:
  with recycled logs the writer and the reader use different headers and the
  property is false (section 3).
- `SecureLogProofs!LogRefines`: Spec => ImplementsRecordLog, proved step
  by step. Each action of the detailed log is one of `RecordLog` or a stutter:
  the last fragment of a record appends it, the flush acknowledges it, the cut
  of the file cuts the list of records, the last fragment that verifies returns
  a record. That the number of records returned is the number the abstract
  reader owes at its end is `Counts`, which follows from `RInv`.
- `WalSecretsProofs`: `WalTypes`, `AckedStay`, `BatchesAtomic`,
  `NothingAppliedTwice`, `FlushLogNumbers` and `CurrentWalStays` for all
  families, batches, WALs, incarnations and options, and
  `ReopensUnlessInWindow`. The inductive invariant `WalInv` follows a batch:
  it is in one WAL as long as that exists and, family by family, in the
  memtable, in a sealed memtable or in the tables, on the right side of the
  log numbers each of these has (`MemIn`, `SealedIn`, `TablesIn`). From that
  the disk alone is enough to rebuild the families in every step a crash may
  come in (`DiskDurable`), and the replay does so (`Replayed`, `ReplayedFrom`).
  The least log number, which decides which WALs go, exists by the least-number
  principle (`WFMin` over the order of the naturals). `ReopensUnlessInWindow` needs in addition
  `SecretsInv` (a WAL that the next open would read has its secret in the
  MANIFEST, or the process is in one of the two windows) and the hypothesis
  `SecretsStay == ~avoid_flush_during_recovery /\ ~AllowRoll /\
  ~AllowManifestError`. Each of the three options makes the property false
  (section 3), so it cannot be dropped.
- `MemValuesProofs`: `MemValuesTypes`, `MemValuesKept` and `MemValuesAnswers`
  (Spec => []TypeOK, []ValuesKept, []AnswersCurrent) for any finite set of
  threads and any readers, keys and sizes. `MInv` builds on `ArenaInv` and has
  three groups. `Stored`: what an entry or a writer owns is an allocation
  (`OwnedLive`), no two own the same words (`OwnedApart`), everything allocated
  for a memtable lies in its blocks and the blocks of two memtables are apart
  (`ArenaWithin`, `EntriesWithin`, `BlocksApart`), so that a deletion frees no
  word of another memtable, and the words hold the sealed value (`Contents`).
  `Known`: a number identifies a write, the numbers above last_sequence are the
  group's, and memtables are ordered by age. `Views`: the current SuperVersion
  covers every published write, in a memtable or by a newer entry of its key in
  the files (`CurrentView`); a reader's covers all up to some moment since it
  began, which is last_sequence until its memtable is switched (`Sees`); a
  running flush has the newest entries of the oldest memtables (`Flushing`).
  The moment is what the theorem about answers needs: GetImpl takes the
  SuperVersion before the snapshot, so the state an answer shows may be older
  than the snapshot, but never older than the start of the read.

- `EncryptedTableProofs!TypeCorrect`, `ReadsVerify`: Spec => []TypeOK, Spec =>
  []StatusTellsStaleBlock, for any set of user keys, any lengths of values, any
  blocks. The first half of the invariant (`BInv`) is about the builder: every
  block decodes to its entries (`BlocksEncoded`; lemma `DecodedIsBuffer`, an
  induction over the positions of the list: an offset is the sum of the lengths
  and HMACs before it, and a key is what it shares with its predecessor and the
  rest), and the keys go up through the blocks with the index between them
  (`BlocksOrdered`). The second half (`Rested`) is about the iterator between
  two calls: its map is that of the block it was read from, `current_` belongs
  to its position, and it is in the block of its index entry unless its status
  reports a failed read.
- `EncryptedTableProofs!ReadsForward`, `ReadsBackward`: Spec =>
  []ForwardContract, Spec => []BackwardInBlock, for every table in which no block
  ends in an empty value. Next shows the next key, or once more a last entry that
  is longer than what NextImpl adds; Prev shows the key before, or once more the
  first entry of its block; SeekForPrev is right, or all keys of the block the
  index names are on one side of the target. A key knows its place
  (`KeyAt`, `Places`) and keys go up from place to place (`KeysGoUp`); the
  index leads to a block before which all keys are before the target and behind
  which all are past it (`LeadsTo`), for an index of internal keys and for one
  of user keys, and a reseek that does not ask the index is in such a block
  already.
- `EncryptedTableProofs!GetFinds`: Spec => []GetCorrect. The scan of a Get is
  followed key by key (`Progress`): until it is done it has seen the keys at or
  past the target up to some place (`Segment`), all of them merge operands of
  the user key; the next call of SaveValue sees the next key (`SaveProgress`),
  `BlockProgress` carries this over one round of the loop and `GetAnswers` over
  the index. A table that is not `Regular` is not in the statement: there the
  code visits an entry twice or never (section 3).

One step per action, one lemma per action of `SstKeys`, of `WalSecrets`, of
`MemValues` and of the log; facts on sequences, edits and records are lemmas of their own.

Only model-checked: the liveness properties (`JobsFinish`, `ReaderEnds`,
`ObsoleteWalsGo`, `GroupsComplete`, `MemoryReturned`), which rest on fairness
and ENABLED. Every other property that a passing run checks is stated by a
theorem.

## 5. Not modelled

- Cryptography: a seal opens with its key and with no other.
- The engine RocksDB provides (caches, skip list, filters, pickers, options):
  unchanged code, present where Tweezer calls it or is called by it.
- Machine crashes: `SstKeys` and `WalSecrets` have process crashes only, where
  every record AddRecord returned from survives; `SecureLog` has any cut after
  the last flush.
- 2PC, atomic flush, pipelined and unordered writes, two write queues,
  disableWAL, WAL archiving and recycling in `WalSecrets`; column family
  creation and removal; read-only, best-effort and secondary opens;
  FragmentBufferedReader and Reader::UnmarkEOF.
- In `EncryptedTable`: filters, partitioned and hash indexes, iterate bounds,
  MultiGet, parallel compression; range tombstones, whose block is read
  without decryption and therefore ignored; blocks read through
  `cache_index_and_filter_blocks`, which are not decrypted either.
- The prefetch buffer of `table/block_fetcher.cc:70-98`, in which a block is
  decrypted in place. A second read of the block would compute the digest over
  plaintext, but there is none: BLOCK_ENC decrypts here the metaindex, the
  properties and an index block outside the cache only, and Open reads each of
  them once from a buffer of its own.
- In `MemValues`: more than one flush job at a time, as one flush
  thread is the default (a quarter of `max_background_jobs` = 2, at least 1,
  `db/db_impl/db_impl_compaction_flush.cc`, GetBGJobLimits), and a flush that fails, after which the
  memtable is flushed again; both are in `SstKeys`. Also registered snapshots and memtable history; the WAL, which is
  `WalSecrets`; in-place updates (`db/memtable.cc:1106` writes the plain value
  over the descriptor of the old one) and merges (`db/memtable.cc:855` pins an
  operand in a local slice), each of which one call shows, without any
  interleaving.
- `TransactionLogIterator`: it reads WALs without a secret, so every record
  fails its MAC; there is no state to explore.
- `speicher_V1` (a baseline for comparison), benchmark drivers, the SGX driver.

The repository holds three copies of RocksDB (Tweezer, Speicher and the
unmodified 6.14.5) with their tests, tools and Java bindings. The models
are about the files that Tweezer changed and what these call, a small part of
all lines.

## 6. Plan

Done: `SstKeys`, `SecureLog` with `RecordLog`, `WalSecrets`, as the loss of a
key or a secret is the failure the additions can cause and a test can hardly
reach; then `EncryptedTable`, `UntrustedArena` and `MemValues`, the two places
in which data is kept encrypted; then failing MANIFEST writes in `SstKeys`.

Next, models:

1. An abstract durable store that both `SstKeys` and `WalSecrets` implement
   outside their windows.

Next, theorems:

1. `SstKeys` with a rolled MANIFEST: which keys survive (`KeysAreDurable` has the
   hypothesis that there is none).
