----------------------------- MODULE MemValues -----------------------------
(***************************************************************************)
(* The values of the memtables.  MemTable::Add copies a value to memory    *)
(* outside the enclave (UntrustedArena), encrypts it there with the        *)
(* memtable key and keeps size, tag and address inside.  Write groups add  *)
(* in parallel and publish their sequence numbers together; a full         *)
(* memtable becomes immutable, is flushed to an SST, and returns its       *)
(* memory once no reader's SuperVersion refers to it.                      *)
(*                                                                         *)
(* Abstractions:                                                           *)
(*  - the lifetime of one process: the WAL and recovery are WalSecrets;    *)
(*  - one column family, no registered snapshots, no memtable history; a   *)
(*    group has no merges, so that its writers are parallel;               *)
(*  - a word holds a piece of the value of one write, in clear or under    *)
(*    the memtable key; what an SST adds and removes is EncryptedTable;    *)
(*  - the thread-local SuperVersion of an idle reader is the current one   *)
(*    (InstallSuperVersion scrapes the others).                            *)
(***************************************************************************)
EXTENDS UntrustedArena, FiniteSets, Sequences, SequencesExt

CONSTANTS
  Readers,
  UserKeys,
  Ops           \* what readers do: "get", "iterate"

ASSUME MemValuesAssumption == IsFiniteSet(Threads)

VARIABLES
  writer,       \* of each thread: its write, and how far it is
  last_sequence,
  tables,       \* id -> entries and blocks of the memtables that exist
  mem,          \* id of the active memtable
  imm,          \* ids of the immutable memtables, newest first
  memory,       \* the words that hold something
  flush,        \* memtables and output of the running flush job
  files,        \* the entries of the SSTs of the current version
  reader,       \* of each reader: operation, SuperVersion, snapshot, answer
  written       \* history: every write with a sequence number

memVars == <<writer, last_sequence, tables, mem, imm, memory, flush, files,
             reader, written>>
vars == <<arenaVars, memVars>>

Types == {"kTypeValue", "kTypeDeletion"}
NewTable == [entries |-> {}, blocks |-> {}]
NoWrite == [stage |-> "none"]
NoRead == [pc |-> "idle"]
NoFlush == [mems |-> <<>>, output |-> {}]

Init ==
  /\ ArenaInit
  /\ writer = [t \in Threads |-> NoWrite] /\ last_sequence = 0
  /\ tables = [m \in {0} |-> NewTable] /\ mem = 0 /\ imm = <<>>
  /\ memory = <<>> /\ flush = NoFlush /\ files = {}
  /\ reader = [r \in Readers |-> NoRead] /\ written = {}

-----------------------------------------------------------------------------
(* Writers *)

Group == {t \in Threads : writer[t] # NoWrite}

\* The writes a thread can bring: a deletion has an empty value.
Batches ==
  [key : UserKeys, type : {"kTypeValue"}, len : Sizes \ {0}]
    \cup [key : UserKeys, type : {"kTypeDeletion"}, len : {0}]

\* A leader forms a group, gives every writer its sequence number and starts
\* the parallel writers.
JoinBatchGroup ==
  /\ ~exited /\ Group = {}
  /\ \E W \in SUBSET Threads \ {{}} :
       /\ Cardinality(written) + Cardinality(W) <= MaxAllocs
       /\ \E batch \in [W -> Batches],
             seq \in Bijection(W, last_sequence + 1
                                    .. last_sequence + Cardinality(W)) :
            /\ writer' = [t \in Threads |->
                            IF t \in W
                            THEN [stage |-> "assigned", key |-> batch[t].key,
                                  type |-> batch[t].type,
                                  len |-> batch[t].len, seq |-> seq[t]]
                            ELSE NoWrite]
            /\ written' = written \cup
                 {[key |-> batch[t].key, type |-> batch[t].type,
                   len |-> batch[t].len, seq |-> seq[t]] : t \in W}
  /\ UNCHANGED <<arenaVars, last_sequence, tables, mem, imm, memory, flush,
                 files, reader>>

\* MemTable::Add asks for the memory of the value ...
AddAllocate(t) ==
  /\ writer[t].stage = "assigned"
  /\ Request(t, writer[t].len)
  /\ writer' = [writer EXCEPT ![t].stage = "allocating"]
  /\ UNCHANGED <<last_sequence, tables, mem, imm, memory, flush, files,
                 reader, written>>

AllocateImpl(t) == Allocate(t) /\ UNCHANGED memVars

\* ... copies the value there and encrypts it in place ...
AddSeal(t) ==
  /\ writer[t].stage = "allocating" /\ At(t, "done")
  /\ LET value == call[t].rv .. call[t].rv + writer[t].len - 1
     IN memory' = [a \in DOMAIN memory \cup value |->
                     IF a \in value
                     THEN [seq |-> writer[t].seq, enc |-> TRUE]
                     ELSE memory[a]]
  /\ writer' = [writer EXCEPT ![t].stage = "sealed"]
  /\ UNCHANGED <<arenaVars, last_sequence, tables, mem, imm, flush, files,
                 reader, written>>

\* ... and inserts the entry, which refers to it.
AddInsert(t) ==
  /\ writer[t].stage = "sealed" /\ Return(t)
  /\ tables' = [tables EXCEPT ![mem].entries = @ \cup
                  {[key |-> writer[t].key, type |-> writer[t].type,
                    seq |-> writer[t].seq, ptr |-> call[t].rv,
                    len |-> writer[t].len]}]
  /\ writer' = [writer EXCEPT ![t].stage = "inserted"]
  /\ UNCHANGED <<last_sequence, mem, imm, memory, flush, files, reader,
                 written>>

\* The last writer of the group publishes the sequence numbers of all.
CompleteParallelMemTableWriter ==
  /\ ~exited /\ Group # {}
  /\ \A t \in Group : writer[t].stage = "inserted"
  /\ last_sequence' = last_sequence + Cardinality(Group)
  /\ writer' = [t \in Threads |-> NoWrite]
  /\ UNCHANGED <<arenaVars, tables, mem, imm, memory, flush, files, reader,
                 written>>

-----------------------------------------------------------------------------
(* Memtables and SSTs *)

\* Mutant: the counter of the old arena is kept.
SwitchKeepsCounter ==
  /\ ~exited /\ Group = {} /\ tables[mem].entries # {}
  /\ tables' = [m \in DOMAIN tables \cup {mem + 1} |->
                  IF m = mem + 1 THEN NewTable
                  ELSE IF m = mem THEN [tables[m] EXCEPT
                                          !.blocks = arena_.blocks]
                  ELSE tables[m]]
  /\ mem' = mem + 1 /\ imm' = <<mem>> \o imm
  /\ arena_' = NewArena /\ shards_' = [c \in Cores |-> NewShard]
  /\ UNCHANGED <<arena_mutex_, arena_allocated_and_unused_, tls_cpuid, call,
                 live, allocs, top, exited, writer, last_sequence, memory,
                 flush, files, reader, written>>

\* Between two groups, a memtable with entries becomes immutable, and a new
\* one, with an arena of its own, is installed.
SwitchMemtable ==
  /\ ~exited /\ Group = {} /\ tables[mem].entries # {}
  /\ tables' = [m \in DOMAIN tables \cup {mem + 1} |->
                  IF m = mem + 1 THEN NewTable
                  ELSE IF m = mem THEN [tables[m] EXCEPT
                                          !.blocks = arena_.blocks]
                  ELSE tables[m]]
  /\ mem' = mem + 1 /\ imm' = <<mem>> \o imm
  /\ arena_' = NewArena /\ arena_allocated_and_unused_' = 0
  /\ shards_' = [c \in Cores |-> NewShard]
  /\ UNCHANGED <<arena_mutex_, tls_cpuid, call, live, allocs, top, exited,
                 writer, last_sequence, memory, flush, files, reader, written>>

\* The words of an entry's value.
Words(e) == {memory[a] : a \in e.ptr .. e.ptr + e.len - 1}

\* MemTableIterator::value copies what is outside the enclave.
IteratorValue(e) == Words(e)

\* The newest of some entries with a key, up to a sequence number.
Newest(entries, key, snapshot) ==
  {e \in entries : /\ e.key = key /\ e.seq <= snapshot
                   /\ \A f \in entries :
                        f.key = key /\ f.seq <= snapshot => f.seq <= e.seq}

\* A flush job picks the immutable memtables and writes the newest entry of
\* each key: without snapshots CompactionIterator drops the others.
WriteLevel0Table ==
  /\ ~exited /\ flush = NoFlush /\ imm # <<>>
  /\ LET entries == UNION {tables[m].entries : m \in ToSet(imm)}
         kept == UNION {Newest(entries, k, last_sequence) : k \in UserKeys}
     IN flush' = [mems |-> imm,
                  output |-> {[key |-> e.key, type |-> e.type, seq |-> e.seq,
                               value |-> IteratorValue(e)] : e \in kept}]
  /\ UNCHANGED <<arenaVars, writer, last_sequence, tables, mem, imm, memory,
                 files, reader, written>>

\* Mutant: the flushed memtables stay in the list.
InstallKeepsMems ==
  /\ ~exited /\ flush # NoFlush
  /\ files' = files \cup flush.output
  /\ flush' = NoFlush
  /\ UNCHANGED <<arenaVars, writer, last_sequence, tables, mem, imm, memory,
                 reader, written>>

\* The SST enters the version in the step in which its memtables leave the
\* list, from its end (both are under the mutex of the database).
InstallMemtableFlushResults ==
  /\ ~exited /\ flush # NoFlush
  /\ files' = files \cup flush.output
  /\ imm' = SubSeq(imm, 1, Len(imm) - Len(flush.mems))
  /\ flush' = NoFlush
  /\ UNCHANGED <<arenaVars, writer, last_sequence, tables, mem, memory,
                 reader, written>>

\* The memtables that a reader's SuperVersion refers to.
Referenced ==
  UNION {{reader[r].mem} \cup ToSet(reader[r].imm)
           : r \in {q \in Readers :
                     reader[q].pc \in {"super_version", "snapshot"}}}

\* Mutant: a SuperVersion keeps the memtable that was active, not the list.
DeleteUnlisted(m) ==
  /\ ~exited /\ m # mem /\ m \notin ToSet(imm)
  /\ \A r \in Readers : reader[r].pc \in {"super_version", "snapshot"}
                          => m # reader[r].mem
  /\ memory' = [a \in DOMAIN memory
                        \ UNION {b .. b + kBlockSize - 1
                                   : b \in tables[m].blocks} |-> memory[a]]
  /\ tables' = [n \in DOMAIN tables \ {m} |-> tables[n]]
  /\ UNCHANGED <<arenaVars, writer, last_sequence, mem, imm, flush, files,
                 reader, written>>

\* The last Unref deletes a memtable: ~Untrusted_Arena frees its blocks.
DeleteMemTable(m) ==
  /\ ~exited /\ m # mem /\ m \notin ToSet(imm) \cup Referenced
  /\ memory' = [a \in DOMAIN memory
                        \ UNION {b .. b + kBlockSize - 1
                                   : b \in tables[m].blocks} |-> memory[a]]
  /\ tables' = [n \in DOMAIN tables \ {m} |-> tables[n]]
  /\ UNCHANGED <<arenaVars, writer, last_sequence, mem, imm, flush, files,
                 reader, written>>

-----------------------------------------------------------------------------
(* Readers *)

\* GetImpl takes the SuperVersion (began is history) ...
GetSuperVersion(r) ==
  /\ ~exited /\ reader[r].pc \in {"idle", "answered"}
  /\ \E op \in Ops, key \in UserKeys :
       reader' = [reader EXCEPT ![r] =
                    [pc |-> "super_version", op |-> op, key |-> key,
                     began |-> last_sequence, mem |-> mem, imm |-> imm,
                     files |-> files]]
  /\ UNCHANGED <<arenaVars, writer, last_sequence, tables, mem, imm, memory,
                 flush, files, written>>

\* ... and, after that, the snapshot.
TakeSnapshot(r) ==
  /\ ~exited /\ reader[r].pc = "super_version"
  /\ reader' = [reader EXCEPT ![r] =
                  [pc |-> "snapshot", op |-> @.op, key |-> @.key,
                   began |-> @.began, mem |-> @.mem, imm |-> @.imm,
                   files |-> @.files, snapshot |-> last_sequence]]
  /\ UNCHANGED <<arenaVars, writer, last_sequence, tables, mem, imm, memory,
                 flush, files, written>>

\* Decryption of a copy: AES-GCM is its own inverse.
Decryption(value) == {[w EXCEPT !.enc = ~@] : w \in value}

\* SaveValue for an entry that Get found in a memtable.
SaveValue(e) == IF e.type = "kTypeValue" THEN Decryption(Words(e)) ELSE {}

\* What an operation reads from an entry of a memtable.
FromMemtable(op, e) ==
  [seq |-> e.seq, type |-> e.type, where |-> "memtable",
   value |-> IF op = "get" THEN SaveValue(e) ELSE IteratorValue(e)]

FromFile(e) ==
  [seq |-> e.seq, type |-> e.type, where |-> "file", value |-> e.value]

NotFound ==
  [seq |-> 0, type |-> "kTypeDeletion", where |-> "none", value |-> {}]

\* Mutant: the immutable memtables are searched from the oldest on.
AnswersOldest(r) ==
  LET R == reader[r]
      Found(m) == Newest(tables[m].entries, R.key, R.snapshot)
      list == <<R.mem>> \o Reverse(R.imm)
      hits == {i \in DOMAIN list : Found(list[i]) # {}}
  IN IF hits # {} THEN {FromMemtable(R.op, e) : e \in Found(list[Min(hits)])}
     ELSE LET old == Newest(R.files, R.key, R.snapshot)
          IN IF old # {} THEN {FromFile(e) : e \in old} ELSE {NotFound}

\* The memtable, the immutable ones from the newest on, the SSTs: the first
\* that has an entry gives the answer.
Answers(r) ==
  LET R == reader[r]
      Found(m) == Newest(tables[m].entries, R.key, R.snapshot)
      list == <<R.mem>> \o R.imm
      hits == {i \in DOMAIN list : Found(list[i]) # {}}
  IN IF hits # {} THEN {FromMemtable(R.op, e) : e \in Found(list[Min(hits)])}
     ELSE LET old == Newest(R.files, R.key, R.snapshot)
          IN IF old # {} THEN {FromFile(e) : e \in old} ELSE {NotFound}

\* The lookup copies the value and returns the SuperVersion.
Lookup(r) ==
  /\ ~exited /\ reader[r].pc = "snapshot"
  /\ \E answer \in Answers(r) :
       reader' = [reader EXCEPT ![r] =
                    [pc |-> "answered", op |-> @.op, key |-> @.key,
                     began |-> @.began, snapshot |-> @.snapshot,
                     answer |-> answer]]
  /\ UNCHANGED <<arenaVars, writer, last_sequence, tables, mem, imm, memory,
                 flush, files, written>>

-----------------------------------------------------------------------------

Next ==
  \/ JoinBatchGroup \/ CompleteParallelMemTableWriter
  \/ \E t \in Threads : AddAllocate(t) \/ AllocateImpl(t) \/ AddSeal(t)
                        \/ AddInsert(t)
  \/ SwitchMemtable \/ WriteLevel0Table \/ InstallMemtableFlushResults
  \/ \E m \in DOMAIN tables : DeleteMemTable(m)
  \/ \E r \in Readers : GetSuperVersion(r) \/ TakeSnapshot(r) \/ Lookup(r)

Spec == Init /\ [][Next]_vars

\* A thread that has begun runs on, and a flush is scheduled whenever there is
\* an immutable memtable.  Nobody has to write, to switch or to read.
Fairness ==
  /\ \A t \in Threads :
       WF_vars(AddAllocate(t) \/ AllocateImpl(t) \/ AddSeal(t) \/ AddInsert(t))
  /\ WF_vars(CompleteParallelMemTableWriter)
  /\ WF_vars(WriteLevel0Table) /\ WF_vars(InstallMemtableFlushResults)
  /\ WF_vars(\E m \in DOMAIN tables : DeleteMemTable(m))
  /\ \A r \in Readers : WF_vars(TakeSnapshot(r) \/ Lookup(r))

FairSpec == Spec /\ Fairness

-----------------------------------------------------------------------------
(* Properties *)

Word == [seq : Nat, enc : BOOLEAN]

TypeOK ==
  /\ ArenaTypeOK
  /\ \A t \in Threads :
       writer[t].stage \in {"none", "assigned", "allocating", "sealed",
                            "inserted"}
  /\ last_sequence \in Nat /\ mem \in DOMAIN tables
  /\ \A m \in DOMAIN tables :
       /\ tables[m].entries \subseteq [key : UserKeys, type : Types, seq : Nat,
                                       ptr : Nat, len : Nat]
       /\ tables[m].blocks \subseteq Nat
  /\ ToSet(imm) \cup ToSet(flush.mems) \subseteq DOMAIN tables \ {mem}
  /\ \A a \in DOMAIN memory : memory[a] \in Word
  /\ \A e \in files \cup flush.output :
       e.key \in UserKeys /\ e.type \in Types /\ e.value \subseteq Word
  /\ \A r \in Readers :
       reader[r].pc \in {"idle", "super_version", "snapshot", "answered"}

\* As long as a memtable can be read or flushed, the words of each of its
\* entries are allocated and hold the encrypted value of that entry: nobody
\* has freed them or written over them.
ValuesKept ==
  \A m \in {mem} \cup ToSet(imm) \cup Referenced :
    /\ m \in DOMAIN tables
    /\ \A e \in tables[m].entries : \A a \in e.ptr .. e.ptr + e.len - 1 :
         a \in DOMAIN memory /\ memory[a] = [seq |-> e.seq, enc |-> TRUE]

\* The last write of a key up to a snapshot.
LastWrite(key, snapshot) ==
  LET W == Newest(written, key, snapshot)
  IN IF W = {} THEN [seq |-> 0, type |-> "kTypeDeletion"]
     ELSE LET w == CHOOSE w \in W : TRUE
          IN [seq |-> w.seq, type |-> w.type]

Answered == {r \in Readers : reader[r].pc = "answered"}

\* An answer is what the database held at some moment while the reader worked,
\* whatever was written, switched, flushed and deleted in the meantime, and Get
\* decrypts what it finds in a memtable.
AnswersCurrent ==
  \A r \in Answered :
    LET R == reader[r]
    IN /\ \E s \in R.began .. R.snapshot :
            LastWrite(R.key, s) = [seq |-> R.answer.seq,
                                   type |-> R.answer.type]
       /\ R.op = "get" /\ R.answer.where = "memtable"
            /\ R.answer.type = "kTypeValue"
          => R.answer.value = {[seq |-> R.answer.seq, enc |-> FALSE]}

\* A group that has been formed is published.  Only a writer with a value larger
\* than a block ends the process first, though the WAL has the group by then.
GroupsComplete ==
  Group # {} ~> \/ Group = {}
                \/ exited /\ \E t \in Group : writer[t].len > kBlockSize

\* The memory of a memtable that is no longer written is returned.
MemoryReturned ==
  \A m \in 0 .. MaxAllocs - 1 :
    (m \in DOMAIN tables /\ m # mem) ~> (m \notin DOMAIN tables \/ exited)

\* db.h on Get: "If the database contains an entry for "key" store the
\* corresponding value in *value and return OK."
GetReturnsValue ==
  \A r \in Answered :
    LET R == reader[r]
    IN R.op = "get" /\ R.answer.type = "kTypeValue"
         => R.answer.value = {[seq |-> R.answer.seq, enc |-> FALSE]}
=============================================================================
