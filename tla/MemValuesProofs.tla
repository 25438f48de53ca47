-------------------------- MODULE MemValuesProofs --------------------------
(***************************************************************************)
(* Whatever the threads, readers, keys and sizes: the value of an entry    *)
(* stays in the untrusted memory, sealed, as long as somebody can read or  *)
(* flush it, and every answer is the last write up to a moment of the read.*)
(*                                                                         *)
(* Neither is inductive.  The invariant has three groups of parts:         *)
(*  - Stored: every range that an entry or a writer owns is an allocation, *)
(*    ranges of different owners are apart, the allocations of a memtable  *)
(*    lie in its blocks and blocks of two memtables are apart, so that a   *)
(*    deletion frees no word of another memtable (over ArenaInv, the       *)
(*    invariant of the allocator);                                         *)
(*  - Known: numbers identify writes, those above last_sequence are the    *)
(*    group's, entries are writes, and memtables are ordered by age;       *)
(*  - Views: the current SuperVersion covers all that is published, that   *)
(*    of a reader all up to some moment since it began, and a flush has    *)
(*    the newest entries of the oldest memtables of the list.              *)
(***************************************************************************)
EXTENDS MemValues, UntrustedArenaProofs, FiniteSetTheorems, SequenceTheorems,
        WellFoundedInduction

\* The types of the variables.
Entry == [key : UserKeys, type : Types, seq : Nat, ptr : Nat, len : Nat]
Table == [entries : SUBSET Entry, blocks : SUBSET Nat]
Written == [key : UserKeys, type : Types, len : Nat, seq : Nat]
FileEntry == [key : UserKeys, type : Types, seq : Nat, value : SUBSET Word]

Writing ==
  [stage : {"assigned", "allocating", "sealed", "inserted"}, key : UserKeys,
   type : Types, len : Nat, seq : Nat]

AnswerOf ==
  [seq : Nat, type : Types, where : {"memtable", "file", "none"},
   value : SUBSET Word]

WithSuperVersion ==
  [pc : {"super_version"}, op : Ops, key : UserKeys, began : Nat, mem : Nat,
   imm : Seq(Nat), files : SUBSET FileEntry]

WithSnapshot ==
  [pc : {"snapshot"}, op : Ops, key : UserKeys, began : Nat, mem : Nat,
   imm : Seq(Nat), files : SUBSET FileEntry, snapshot : Nat]

WithAnswer ==
  [pc : {"answered"}, op : Ops, key : UserKeys, began : Nat, snapshot : Nat,
   answer : AnswerOf]

WriterTypes ==
  /\ writer \in [Threads -> Writing \cup {NoWrite}]
  /\ last_sequence \in Nat /\ written \subseteq Written

TableTypes ==
  /\ mem \in Nat /\ mem \in DOMAIN tables /\ DOMAIN tables \subseteq 0 .. mem
  /\ \A m \in DOMAIN tables : tables[m] \in Table
  /\ imm \in Seq(Nat)
  /\ flush \in [mems : Seq(Nat), output : SUBSET FileEntry]
  /\ files \subseteq FileEntry
  /\ \A a \in DOMAIN memory : memory[a] \in Word

ReaderTypes ==
  reader \in [Readers ->
    {NoRead} \cup WithSuperVersion \cup WithSnapshot \cup WithAnswer]

\* A thread is in AllocateImpl while its write asks for memory.
Coupled ==
  \A t \in Threads :
    /\ writer[t].stage \in {"none", "assigned", "inserted"}
         <=> call[t].pc = "idle"
    /\ writer[t].stage = "sealed" => call[t].pc = "done"
    /\ writer[t].stage \in {"allocating", "sealed"}
         => call[t].bytes = writer[t].len

\* A write by its number; the writes above last_sequence are the group's.
WritesKnown ==
  /\ \A w \in written : w.type = "kTypeValue" => w.len # 0
  /\ \A w \in written : 0 < w.seq
  /\ \A v, w \in written : v.seq = w.seq => v = w
  /\ \A w \in written : last_sequence < w.seq
       => \E t \in Group : writer[t].seq = w.seq

WriteOf(e) == [key |-> e.key, type |-> e.type, len |-> e.len, seq |-> e.seq]

GroupKnown ==
  /\ \A t \in Group :
       /\ WriteOf(writer[t]) \in written
       /\ last_sequence < writer[t].seq
       /\ writer[t].seq <= last_sequence + Cardinality(Group)
  /\ \A t, u \in Group : t # u => writer[t].seq # writer[u].seq
  /\ \A t \in Threads : writer[t].stage = "inserted"
       => \E e \in tables[mem].entries : e.seq = writer[t].seq

EntriesKnown ==
  \A m \in DOMAIN tables : \A e \in tables[m].entries :
    /\ WriteOf(e) \in written
    /\ last_sequence < e.seq =>
         m = mem /\ \E t \in Threads : /\ writer[t].stage = "inserted"
                                       /\ writer[t].seq = e.seq

TablesOrdered ==
  \A m, n \in DOMAIN tables : m < n =>
    \A e \in tables[m].entries, f \in tables[n].entries : e.seq < f.seq

\* What somebody owns is an allocation, and what two own is apart.
Done(t) == call[t].pc = "done"

OwnedLive ==
  /\ \A m \in DOMAIN tables : \A e \in tables[m].entries :
       \E a \in live : a.ptr = e.ptr /\ a.len = e.len
  /\ \A t \in Threads : Done(t) =>
       \E a \in live : a.ptr = call[t].rv /\ a.len = call[t].bytes

OwnedApart ==
  /\ \A m, n \in DOMAIN tables :
       \A e \in tables[m].entries, f \in tables[n].entries :
         m # n \/ e # f => Apart(e.ptr, e.len, f.ptr, f.len)
  /\ \A t \in Threads : Done(t) =>
       \A m \in DOMAIN tables : \A e \in tables[m].entries :
         Apart(call[t].rv, call[t].bytes, e.ptr, e.len)
  /\ \A t, u \in Threads : Done(t) /\ Done(u) /\ t # u =>
       Apart(call[t].rv, call[t].bytes, call[u].rv, call[u].bytes)

\* Everything that is allocated for a memtable lies in its blocks.
Within(p, n, B) == n = 0 \/ \E b \in B : b <= p /\ p + n <= b + kBlockSize

Blocks(m) == IF m = mem THEN arena_.blocks ELSE tables[m].blocks

ArenaWithin ==
  /\ Within(arena_.aligned, arena_.remaining, arena_.blocks)
  /\ \A c \in Cores : Within(shards_[c].begin, Free(c), arena_.blocks)
  /\ \A t \in Threads :
       Done(t) => Within(call[t].rv, call[t].bytes, arena_.blocks)

EntriesWithin ==
  \A m \in DOMAIN tables : \A e \in tables[m].entries :
    Within(e.ptr, e.len, Blocks(m))

BlocksApart ==
  /\ \A m \in DOMAIN tables : \A b \in Blocks(m) : b + kBlockSize <= top
  /\ \A m, n \in DOMAIN tables : m # n =>
       \A b \in Blocks(m), d \in Blocks(n) :
         b + kBlockSize <= d \/ d + kBlockSize <= b

\* The words of a range hold the sealed value of a write.
Holds(p, n, s) ==
  \A a \in p .. p + n - 1 :
    a \in DOMAIN memory /\ memory[a] = [seq |-> s, enc |-> TRUE]

Contents ==
  /\ \A m \in DOMAIN tables : \A e \in tables[m].entries :
       Holds(e.ptr, e.len, e.seq)
  /\ \A t \in Threads : writer[t].stage = "sealed" =>
       Holds(call[t].rv, writer[t].len, writer[t].seq)

\* What a reader goes through: a memtable, immutable ones from the newest on,
\* and files with older entries.
View(m0, s, F) ==
  /\ m0 \in DOMAIN tables
  /\ \A i \in DOMAIN s : s[i] \in DOMAIN tables /\ s[i] < m0
  /\ \A i, j \in DOMAIN s : i < j => s[j] < s[i]
  /\ \A f \in F : /\ f.seq <= last_sequence
                  /\ \E w \in written : /\ w.key = f.key /\ w.type = f.type
                                        /\ w.seq = f.seq
  /\ \A f \in F : \A e \in tables[m0].entries : f.seq < e.seq
  /\ \A f \in F : \A i \in DOMAIN s : \A e \in tables[s[i]].entries :
       f.seq < e.seq

\* Every write up to x is there, or a newer one of its key in the files.
Covered(m0, s, F, x) ==
  \A w \in written : w.seq <= x =>
    \/ \E e \in tables[m0].entries : e.seq = w.seq
    \/ \E i \in DOMAIN s : \E e \in tables[s[i]].entries : e.seq = w.seq
    \/ \E f \in F : f.key = w.key /\ w.seq <= f.seq

CurrentView ==
  View(mem, imm, files) /\ Covered(mem, imm, files, last_sequence)

Reading == {r \in Readers : reader[r].pc \in {"super_version", "snapshot"}}

\* What a SuperVersion lets its reader see.  Once its memtable is switched, it
\* does not see more than was published before.
Sees(R) ==
  /\ View(R.mem, R.imm, R.files) /\ R.began <= last_sequence
  /\ \A f \in R.files : f.seq <= R.began
  /\ \A i \in DOMAIN R.imm : \A e \in tables[R.imm[i]].entries :
       e.seq <= R.began
  /\ R.mem = mem => Covered(R.mem, R.imm, R.files, last_sequence)
  /\ R.mem # mem => \E x \in R.began .. last_sequence :
                      /\ Covered(R.mem, R.imm, R.files, x)
                      /\ \A e \in tables[R.mem].entries : e.seq <= x

ReaderViews ==
  /\ \A r \in Reading : Sees(reader[r])
  /\ \A r \in Readers : reader[r].pc \in {"snapshot", "answered"} =>
       reader[r].began <= reader[r].snapshot
         /\ reader[r].snapshot <= last_sequence

\* A flush has the oldest memtables of the list and the newest of their entries.
Flushing ==
  /\ Len(flush.mems) <= Len(imm)
  /\ \A i \in DOMAIN flush.mems :
       flush.mems[i] = imm[Len(imm) - Len(flush.mems) + i]
  /\ \A o \in flush.output :
       \E i \in DOMAIN flush.mems : \E e \in tables[flush.mems[i]].entries :
         e.seq = o.seq /\ e.key = o.key /\ e.type = o.type
  /\ \A i \in DOMAIN flush.mems : \A e \in tables[flush.mems[i]].entries :
       \E o \in flush.output : o.key = e.key /\ e.seq <= o.seq

MInv ==
  /\ ArenaInv /\ WriterTypes /\ TableTypes /\ ReaderTypes
  /\ Coupled /\ WritesKnown /\ GroupKnown /\ EntriesKnown /\ TablesOrdered
  /\ OwnedLive /\ OwnedApart /\ ArenaWithin /\ EntriesWithin /\ BlocksApart
  /\ Contents /\ CurrentView /\ ReaderViews /\ Flushing /\ AnswersCurrent

-----------------------------------------------------------------------------
(* What the types say *)

\* What the write of a thread looks like at each stage.
LEMMA WriterRecord ==
  ASSUME WriterTypes, NEW t \in Threads
  PROVE  /\ t \in Group <=> writer[t].stage # "none"
         /\ writer[t].stage # "none" =>
              /\ writer[t] \in Writing
              /\ writer[t].stage \in {"assigned", "allocating", "sealed",
                                      "inserted"}
              /\ writer[t].key \in UserKeys /\ writer[t].type \in Types
              /\ writer[t].len \in Nat /\ writer[t].seq \in Nat
<1>1. writer[t] \in Writing \/ writer[t] = NoWrite
  BY DEF WriterTypes
<1>2. CASE writer[t] = NoWrite
  BY <1>2 DEF NoWrite, Group
<1>3. CASE writer[t] \in Writing
  <2>1. /\ writer[t].stage \in {"assigned", "allocating", "sealed", "inserted"}
        /\ writer[t].key \in UserKeys /\ writer[t].type \in Types
        /\ writer[t].len \in Nat /\ writer[t].seq \in Nat
    BY <1>3 DEF Writing
  <2>2. writer[t] # NoWrite
    BY <2>1 DEF NoWrite
  <2> QED
    BY <1>3, <2>1, <2>2 DEF Group
<1> QED
  BY <1>1, <1>2, <1>3

\* The fields of an entry have their types.
LEMMA EntryRecord ==
  ASSUME TableTypes, NEW m \in DOMAIN tables, NEW e \in tables[m].entries
  PROVE  /\ e \in Entry /\ m \in Nat /\ m <= mem /\ mem \in Nat
         /\ e.key \in UserKeys /\ e.type \in Types /\ e.seq \in Nat
         /\ e.ptr \in Nat /\ e.len \in Nat
<1>1. tables[m] \in Table /\ m \in 0 .. mem /\ mem \in Nat
  BY DEF TableTypes
<1>2. e \in Entry
  BY <1>1 DEF Table
<1> QED
  BY <1>1, <1>2 DEF Entry

\* The local variables of AllocateImpl have their types.
LEMMA CallRecord ==
  ASSUME ArenaTypeOK, NEW t \in Threads
  PROVE  /\ call[t] \in CallState /\ call[t].bytes \in Nat /\ call[t].rv \in Nat
         /\ call[t].pc \in Step /\ call[t].shard \in Cores
         /\ call[t].avail \in Nat /\ call[t].saw \in ArenaState
BY DEF ArenaTypeOK, CallState

-----------------------------------------------------------------------------
(* The allocator *)

\* A range within some blocks is within more of them.
LEMMA WithinGrows ==
  ASSUME NEW p, NEW n, NEW B, NEW C, B \subseteq C, Within(p, n, B)
  PROVE  Within(p, n, C)
BY DEF Within

\* Both parts of a range within some blocks are within them.
LEMMA WithinCut ==
  ASSUME NEW p \in Nat, NEW n \in Nat, NEW k \in Nat, k <= n,
         NEW B \in SUBSET Nat, Within(p, n, B)
  PROVE  Within(p, k, B) /\ Within(p + k, n - k, B)
<1>1. kBlockSize \in Nat
  BY ArenaAssumption
<1>2. CASE n = 0
  BY <1>2 DEF Within
<1>3. CASE n # 0
  <2>1. PICK b \in B : b <= p /\ p + n <= b + kBlockSize
    BY <1>3 DEF Within
  <2>2. b \in Nat
    OBVIOUS
  <2>3. /\ b <= p /\ p + k <= b + kBlockSize
        /\ b <= p + k /\ (p + k) + (n - k) <= b + kBlockSize
    BY <1>1, <2>1, <2>2
  <2> QED
    BY <2>3 DEF Within
<1> QED
  BY <1>2, <1>3

\* AllocateAligned stays in the blocks of the arena, with a new one if need be.
LEMMA AlignedWithin ==
  ASSUME NEW a \in ArenaState, NEW bytes \in Nat, ~TooLarge(a, bytes),
         top \in Nat, Within(a.aligned, a.remaining, a.blocks),
         NEW r, r = AllocateAligned(a, bytes)
  PROVE  /\ Within(r.rv, bytes, r.arena.blocks)
         /\ Within(r.arena.aligned, r.arena.remaining, r.arena.blocks)
         /\ \/ r.arena.blocks = a.blocks /\ r.top = top
            \/ r.arena.blocks = a.blocks \cup {top} /\ r.top = top + kBlockSize
<1>1. /\ a.aligned \in Nat /\ a.remaining \in Nat /\ slop(a) \in Nat
      /\ a.blocks \in SUBSET Nat /\ kBlockSize \in Nat
  BY SlopNat, ArenaAssumption DEF ArenaState
<1>2. CASE Fits(a, bytes)
  <2>1. /\ r.rv = a.aligned + slop(a) /\ r.top = top
        /\ r.arena.aligned = a.aligned + (bytes + slop(a))
        /\ r.arena.remaining = a.remaining - (bytes + slop(a))
        /\ r.arena.blocks = a.blocks
    BY <1>2 DEF AllocateAligned
  <2>2. bytes + slop(a) <= a.remaining
    BY <1>2 DEF Fits
  <2>3. /\ Within(a.aligned + (bytes + slop(a)),
                  a.remaining - (bytes + slop(a)), a.blocks)
        /\ Within(a.aligned, bytes + slop(a), a.blocks)
    BY <1>1, <2>2, WithinCut
  <2>4. Within(a.aligned + slop(a), (bytes + slop(a)) - slop(a), a.blocks)
    BY <1>1, <2>3, WithinCut
  <2>5. (bytes + slop(a)) - slop(a) = bytes
    BY <1>1
  <2> QED
    BY <2>1, <2>3, <2>4, <2>5
<1>3. CASE ~Fits(a, bytes)
  <2>1. /\ r.rv = top /\ r.top = top + kBlockSize
        /\ r.arena.aligned = top + bytes
        /\ r.arena.remaining = kBlockSize - bytes
        /\ r.arena.blocks = a.blocks \cup {top}
    BY <1>3 DEF AllocateAligned
  <2>2. bytes <= kBlockSize
    BY <1>1, <1>3 DEF TooLarge
  <2>3. Within(top, kBlockSize, a.blocks \cup {top})
    <3>1. top \in a.blocks \cup {top} /\ top <= top
          /\ top + kBlockSize <= top + kBlockSize
      BY <1>1
    <3> QED
      BY <3>1 DEF Within
  <2>4. a.blocks \cup {top} \in SUBSET Nat
    BY <1>1
  <2>5. /\ Within(top, bytes, a.blocks \cup {top})
        /\ Within(top + bytes, kBlockSize - bytes, a.blocks \cup {top})
    BY <1>1, <2>2, <2>3, <2>4, WithinCut
  <2> QED
    BY <2>1, <2>5
<1> QED
  BY <1>2, <1>3

\* What a step of AllocateImpl does to the other threads and to its result.
Advances(t) ==
  /\ \A u \in Threads \ {t} : call'[u] = call[u]
  /\ call'[t].bytes = call[t].bytes
  /\ call[t].pc \notin {"idle", "done"} /\ call'[t].pc # "idle"
  /\ IF call'[t].pc = "done"
     THEN live' = live \cup {[id |-> allocs, ptr |-> call'[t].rv,
                              len |-> call'[t].bytes]}
     ELSE live' = live
  /\ \/ arena_'.blocks = arena_.blocks /\ top' = top
     \/ arena_'.blocks = arena_.blocks \cup {top} /\ top' = top + kBlockSize

\* The arena's ranges stay in its blocks when none of them moves.
LEMMA WithinKept ==
  ASSUME ArenaWithin, UNCHANGED arena_,
         \A c \in Cores : shards_'[c].begin = shards_[c].begin
                          /\ Free(c)' = Free(c),
         \A u \in Threads : call'[u].pc = "done" => call'[u] = call[u]
  PROVE  ArenaWithin'
<1>1. Within(arena_.aligned, arena_.remaining, arena_.blocks)'
  BY DEF ArenaWithin, Within
<1>2. \A c \in Cores : Within(shards_[c].begin, Free(c), arena_.blocks)'
  BY DEF ArenaWithin, Within
<1>3. \A u \in Threads :
        Done(u)' => Within(call[u].rv, call[u].bytes, arena_.blocks)'
  BY DEF ArenaWithin, Done, Within
<1> QED
  BY <1>1, <1>2, <1>3 DEF ArenaWithin

\* Locking a shard, with or without repicking, moves no range.
LEMMA TakeShardWithin ==
  ASSUME ArenaInv, ArenaWithin, NEW t \in Threads, NEW c \in Cores,
         TakeShard(t, c), call[t].pc \in {"shard", "spin"}, UNCHANGED arena_
  PROVE  /\ ArenaWithin' /\ call'[t].pc \in {"reload", "carve"}
         /\ call'[t].bytes = call[t].bytes
         /\ \A u \in Threads \ {t} : call'[u] = call[u]
<1>1. /\ call \in [Threads -> CallState] /\ MutexesHeld
      /\ shards_ \in [Cores -> ShardState] /\ NoThread \notin Threads
  BY ArenaAssumption DEF ArenaInv, ArenaTypeOK
<1>2. /\ \A u \in Threads \ {t} : call'[u] = call[u]
      /\ call'[t].avail = shards_[c].unused
      /\ call'[t].pc \in {"reload", "carve"} /\ call'[t].bytes = call[t].bytes
  BY <1>1 DEF TakeShard, CallState
<1>3. /\ shards_[c].mutex = NoThread /\ shards_'[c].mutex = t
      /\ shards_'[c].begin = shards_[c].begin
      /\ \A d \in Cores \ {c} : shards_'[d] = shards_[d]
  BY <1>1 DEF TakeShard, ShardState
<1>4. \A d \in Cores \ {c} : shards_[d].mutex # t
  BY <1>1 DEF MutexesHeld, HoldsShard
<1>5. \A d \in Cores \ {c} : Free(d)' = Free(d)
  BY <1>2, <1>3, <1>4, FreeKept
<1>6. Free(c)' = Free(c)
  BY <1>1, <1>2, <1>3 DEF Free
<1>7. \A d \in Cores : shards_'[d].begin = shards_[d].begin
                       /\ Free(d)' = Free(d)
  BY <1>3, <1>5, <1>6
<1>8. \A u \in Threads : call'[u].pc = "done" => call'[u] = call[u]
  BY <1>2
<1> QED
  BY <1>2, <1>7, <1>8, WithinKept

USE DEF Goto, At

\* An allocation from the arena lies in a block of the active memtable.
LEMMA FromArenaWithin ==
  ASSUME ArenaInv, ArenaWithin, NEW t \in Threads, FromArena(t)
  PROVE  ArenaWithin' /\ Advances(t)
<1>1. PICK r : r = AllocateAligned(call[t].saw, call[t].bytes)
  OBVIOUS
<1>2. /\ call[t].pc = "arena" /\ ~TooLarge(call[t].saw, call[t].bytes)
      /\ ArenaAfter(r) /\ Returned(t, r.rv) /\ shards_' = shards_
  BY <1>1 DEF FromArena
<1>3. /\ call[t].saw = arena_ /\ arena_ \in ArenaState /\ top \in Nat
      /\ call[t].bytes \in Nat /\ call \in [Threads -> CallState]
  BY <1>2, HolderReads DEF HoldsArena, ArenaInv, ArenaTypeOK
<1>4. /\ Within(r.rv, call[t].bytes, r.arena.blocks)
      /\ Within(r.arena.aligned, r.arena.remaining, r.arena.blocks)
      /\ \/ r.arena.blocks = arena_.blocks /\ r.top = top
         \/ r.arena.blocks = arena_.blocks \cup {top}
            /\ r.top = top + kBlockSize
  BY <1>1, <1>2, <1>3, AlignedWithin DEF ArenaWithin
<1>5. /\ arena_' = r.arena /\ top' = r.top
      /\ call' = [call EXCEPT ![t].pc = "done", ![t].rv = r.rv]
      /\ live' = live \cup {[id |-> allocs, ptr |-> r.rv,
                             len |-> call[t].bytes]}
  BY <1>2 DEF ArenaAfter, Returned
<1>6. /\ call'[t].pc = "done" /\ call'[t].rv = r.rv
      /\ call'[t].bytes = call[t].bytes /\ call'[t].avail = call[t].avail
      /\ \A u \in Threads \ {t} : call'[u] = call[u]
  BY <1>3, <1>5 DEF CallState
<1>7. \A c \in Cores : shards_'[c] = shards_[c] /\ Free(c)' = Free(c)
  BY <1>2, <1>6, FreeKept
<1>8. arena_.blocks \subseteq arena_'.blocks
  BY <1>4, <1>5
<1>9. ArenaWithin'
  <2>1. Within(arena_.aligned, arena_.remaining, arena_.blocks)'
    BY <1>4, <1>5 DEF Within
  <2>2. \A c \in Cores : Within(shards_[c].begin, Free(c), arena_.blocks)'
    BY <1>7, <1>8 DEF ArenaWithin, Within
  <2>3. \A u \in Threads :
          Done(u)' => Within(call[u].rv, call[u].bytes, arena_.blocks)'
    <3> SUFFICES ASSUME NEW u \in Threads, call'[u].pc = "done"
                 PROVE  Within(call'[u].rv, call'[u].bytes, arena_'.blocks)
      BY DEF Done, Within
    <3>1. CASE u = t
      BY <1>4, <1>5, <1>6, <3>1
    <3>2. CASE u # t
      BY <1>6, <1>8, <3>2, WithinGrows DEF ArenaWithin, Done
    <3> QED
      BY <3>1, <3>2
  <2> QED
    BY <2>1, <2>2, <2>3 DEF ArenaWithin
<1> QED
  BY <1>2, <1>4, <1>5, <1>6, <1>9 DEF Advances

\* A shard is refilled with words of a block of the active memtable.
LEMMA RefillWithin ==
  ASSUME ArenaInv, ArenaWithin, NEW t \in Threads, Refill(t)
  PROVE  ArenaWithin' /\ Advances(t)
<1>0. PICK s : s = call[t].shard
  OBVIOUS
<1>1. PICK r : r = AllocateAligned(call[t].saw, RefillSize)
  OBVIOUS
<1>2. /\ call[t].pc = "refill" /\ ArenaAfter(r)
      /\ shards_' = [shards_ EXCEPT ![s].begin = r.rv]
      /\ call' = [call EXCEPT ![t].pc = "carve", ![t].avail = RefillSize]
      /\ live' = live
  BY <1>0, <1>1 DEF Refill
<1>3. HoldsArena(t) /\ HoldsShard(t)
  BY <1>2 DEF HoldsArena, HoldsShard
<1>4. /\ call[t].saw = arena_ /\ arena_ \in ArenaState /\ top \in Nat
      /\ call \in [Threads -> CallState] /\ s \in Cores
      /\ shards_ \in [Cores -> ShardState] /\ MutexesHeld
  BY <1>0, <1>3, HolderReads DEF ArenaInv, ArenaTypeOK, CallState
<1>5. ~TooLarge(call[t].saw, RefillSize) /\ RefillSize \in Nat
  BY <1>3, RefillAllocates
<1>6. /\ Within(r.rv, RefillSize, r.arena.blocks)
      /\ Within(r.arena.aligned, r.arena.remaining, r.arena.blocks)
      /\ \/ r.arena.blocks = arena_.blocks /\ r.top = top
         \/ r.arena.blocks = arena_.blocks \cup {top}
            /\ r.top = top + kBlockSize
  BY <1>1, <1>4, <1>5, AlignedWithin DEF ArenaWithin
<1>7. arena_' = r.arena /\ top' = r.top
  BY <1>2 DEF ArenaAfter
<1>8. /\ call'[t].pc = "carve" /\ call'[t].avail = RefillSize
      /\ call'[t].bytes = call[t].bytes
      /\ \A u \in Threads \ {t} : call'[u] = call[u]
  BY <1>2, <1>4 DEF CallState
<1>9. /\ shards_'[s].begin = r.rv /\ shards_'[s].mutex = shards_[s].mutex
      /\ \A c \in Cores \ {s} : shards_'[c] = shards_[c]
  BY <1>2, <1>4 DEF ShardState
<1>10. shards_[s].mutex = t /\ \A c \in Cores \ {s} : shards_[c].mutex # t
  BY <1>0, <1>3, <1>4 DEF MutexesHeld
<1>11. \A c \in Cores \ {s} : Free(c)' = Free(c)
  BY <1>8, <1>9, <1>10, FreeKept
<1>12. Free(s)' = RefillSize
  BY <1>8, <1>9, <1>10, ArenaAssumption DEF Free
<1>13. arena_.blocks \subseteq arena_'.blocks
  BY <1>6, <1>7
<1>14. ArenaWithin'
  <2>1. Within(arena_.aligned, arena_.remaining, arena_.blocks)'
    BY <1>6, <1>7 DEF Within
  <2>2. \A c \in Cores : Within(shards_[c].begin, Free(c), arena_.blocks)'
    <3> SUFFICES ASSUME NEW c \in Cores
                 PROVE  Within(shards_'[c].begin, Free(c)', arena_'.blocks)
      BY DEF Within
    <3>1. CASE c = s
      BY <1>6, <1>7, <1>9, <1>12, <3>1
    <3>2. CASE c # s
      <4>1. shards_'[c] = shards_[c] /\ Free(c)' = Free(c)
        BY <1>9, <1>11, <3>2
      <4>2. Within(shards_[c].begin, Free(c), arena_.blocks)
        BY DEF ArenaWithin
      <4> QED
        BY <1>13, <4>1, <4>2, WithinGrows
    <3> QED
      BY <3>1, <3>2
  <2>3. \A u \in Threads :
          Done(u)' => Within(call[u].rv, call[u].bytes, arena_.blocks)'
    <3> SUFFICES ASSUME NEW u \in Threads, call'[u].pc = "done"
                 PROVE  Within(call'[u].rv, call'[u].bytes, arena_'.blocks)
      BY DEF Done, Within
    <3>1. u # t
      BY <1>8
    <3> QED
      BY <1>8, <1>13, <3>1, WithinGrows DEF ArenaWithin, Done
  <2> QED
    BY <2>1, <2>2, <2>3 DEF ArenaWithin
<1> QED
  BY <1>2, <1>6, <1>7, <1>8, <1>14 DEF Advances

\* An allocation carved from a shard lies in a block of the active memtable.
LEMMA FromShardWithin ==
  ASSUME ArenaInv, ArenaWithin, NEW t \in Threads, FromShard(t)
  PROVE  ArenaWithin' /\ Advances(t)
<1>0. PICK s : s = call[t].shard
  OBVIOUS
<1>1. /\ call[t].pc = "carve"
      /\ shards_' = [shards_ EXCEPT
                       ![s] = [begin |-> @.begin + call[t].bytes,
                               unused |-> call[t].avail - call[t].bytes,
                               mutex |-> NoThread]]
      /\ Returned(t, shards_[s].begin) /\ UNCHANGED <<arena_, top>>
  BY <1>0 DEF FromShard
<1>2. /\ HoldsShard(t) /\ call \in [Threads -> CallState] /\ MutexesHeld
      /\ shards_ \in [Cores -> ShardState] /\ s \in Cores /\ SizesFit
  BY <1>0, <1>1 DEF HoldsShard, ArenaInv, ArenaTypeOK, CallState
<1>3. /\ call[t].bytes \in Nat /\ call[t].avail \in Nat
      /\ shards_[s].begin \in Nat /\ arena_.blocks \in SUBSET Nat
      /\ call[t].bytes <= call[t].avail
  BY <1>1, <1>2 DEF CallState, ShardState, SizesFit, ArenaInv, ArenaTypeOK,
                    ArenaState
<1>4. shards_[s].mutex = t /\ \A c \in Cores \ {s} : shards_[c].mutex # t
  BY <1>0, <1>2 DEF MutexesHeld
<1>5. Free(s) = call[t].avail
  BY <1>4, ArenaAssumption DEF Free
<1>6. /\ live' = live \cup {[id |-> allocs, ptr |-> shards_[s].begin,
                             len |-> call[t].bytes]}
      /\ call'[t].pc = "done" /\ call'[t].rv = shards_[s].begin
      /\ call'[t].bytes = call[t].bytes
      /\ \A u \in Threads \ {t} : call'[u] = call[u]
  BY <1>1, <1>2 DEF Returned, CallState
<1>7. \A c \in Cores \ {s} : shards_'[c] = shards_[c] /\ Free(c)' = Free(c)
  BY <1>1, <1>2, <1>4, <1>6, FreeKept
<1>8. /\ shards_'[s].begin = shards_[s].begin + call[t].bytes
      /\ Free(s)' = call[t].avail - call[t].bytes
  <2>1. shards_'[s] = [begin |-> shards_[s].begin + call[t].bytes,
                       unused |-> call[t].avail - call[t].bytes,
                       mutex |-> NoThread]
    BY <1>1, <1>2
  <2> QED
    BY <2>1 DEF Free
<1>9. /\ Within(shards_[s].begin, call[t].bytes, arena_.blocks)
      /\ Within(shards_[s].begin + call[t].bytes,
                call[t].avail - call[t].bytes, arena_.blocks)
  <2>1. Within(shards_[s].begin, call[t].avail, arena_.blocks)
    BY <1>2, <1>5 DEF ArenaWithin
  <2> QED
    BY <1>3, <2>1, WithinCut
<1>10. ArenaWithin'
  <2>1. Within(arena_.aligned, arena_.remaining, arena_.blocks)'
    BY <1>1 DEF Within, ArenaWithin
  <2>2. \A c \in Cores : Within(shards_[c].begin, Free(c), arena_.blocks)'
    <3> SUFFICES ASSUME NEW c \in Cores
                 PROVE  Within(shards_'[c].begin, Free(c)', arena_.blocks)
      BY <1>1 DEF Within
    <3>1. CASE c = s
      BY <1>8, <1>9, <3>1
    <3>2. CASE c # s
      BY <1>7, <3>2 DEF ArenaWithin
    <3> QED
      BY <3>1, <3>2
  <2>3. \A u \in Threads :
          Done(u)' => Within(call[u].rv, call[u].bytes, arena_.blocks)'
    <3> SUFFICES ASSUME NEW u \in Threads, call'[u].pc = "done"
                 PROVE  Within(call'[u].rv, call'[u].bytes, arena_.blocks)
      BY <1>1 DEF Done, Within
    <3>1. CASE u = t
      BY <1>6, <1>9, <3>1
    <3>2. CASE u # t
      BY <1>6, <3>2 DEF ArenaWithin, Done
    <3> QED
      BY <3>1, <3>2
  <2> QED
    BY <2>1, <2>2, <2>3 DEF ArenaWithin
<1> QED
  BY <1>1, <1>6, <1>10 DEF Advances

\* A step of AllocateImpl, whatever its path: it exits or it advances.
LEMMA AllocateAdvances ==
  ASSUME ArenaInv, ArenaWithin, NEW t \in Threads, Allocate(t)
  PROVE  /\ ArenaInv' /\ ArenaWithin'
         /\ \/ Advances(t)
            \/ UNCHANGED <<arena_, call, live, top>>
<1>0. /\ call \in [Threads -> CallState] /\ MutexesHeld
      /\ shards_ \in [Cores -> ShardState]
  BY DEF ArenaInv, ArenaTypeOK
<1>1. ArenaInv'
  <2>1. ArenaNext
    BY DEF ArenaNext
  <2> QED
    BY <2>1, TypeStep, MutexStep, SizesStep, RangesStep DEF ArenaInv, Ranges
<1>2. ASSUME \A u \in Threads \ {t} : call'[u] = call[u],
             call'[t].bytes = call[t].bytes, ~HoldsShard(t)
               \/ call'[t].avail = call[t].avail,
             call[t].pc \notin {"idle", "done"},
             call'[t].pc \notin {"idle", "done"},
             UNCHANGED <<arena_, shards_, live, top>>
      PROVE  ArenaWithin' /\ Advances(t)
  <2>1. \A c \in Cores :
          shards_[c].mutex = t => call'[t].avail = call[t].avail
    BY <1>0, <1>2 DEF MutexesHeld
  <2>2. \A c \in Cores : Free(c)' = Free(c)
    BY <1>2, <2>1, FreeKept
  <2>3. \A u \in Threads : call'[u].pc = "done" => call'[u] = call[u]
    BY <1>2
  <2>4. ArenaWithin'
    BY <1>2, <2>2, <2>3, WithinKept
  <2> QED
    BY <1>2, <2>4 DEF Advances
<1>3. CASE Enter(t)
  <2>1. /\ call[t].pc = "enter" /\ call'[t].pc \in {"lock", "try", "shard"}
        /\ call'[t].bytes = call[t].bytes /\ call'[t].avail = call[t].avail
        /\ \A u \in Threads \ {t} : call'[u] = call[u]
    BY <1>0, <1>3 DEF Enter, CallState
  <2> QED
    BY <1>1, <1>2, <1>3, <2>1 DEF Enter
<1>4. CASE TryArena(t) \/ LockArena(t) \/ LockReload(t)
  <2>1. /\ call[t].pc \in {"try", "lock", "reload"}
        /\ call'[t].pc \in {"arena", "refill", "shard"}
        /\ call'[t].bytes = call[t].bytes /\ call'[t].avail = call[t].avail
        /\ \A u \in Threads \ {t} : call'[u] = call[u]
    BY <1>0, <1>4 DEF TryArena, LockArena, LockReload, TakeArena, CallState
  <2> QED
    BY <1>1, <1>2, <1>4, <2>1 DEF TryArena, LockArena, LockReload
<1>5. ASSUME NEW c \in Cores, TakeShard(t, c), call[t].pc \in {"shard", "spin"},
             UNCHANGED <<arena_, live, top>>
      PROVE  ArenaWithin' /\ Advances(t)
  BY <1>5, TakeShardWithin DEF Advances
<1>6. CASE PickShard(t)
  <2>1. tls_cpuid[t] % NumShards \in Cores
    BY ArenaAssumption DEF ArenaInv, ArenaTypeOK, Cores
  <2>2. call[t].pc = "shard" /\ UNCHANGED <<arena_, live, allocs, top>>
    BY <1>6 DEF PickShard
  <2>3. CASE TakeShard(t, tls_cpuid[t] % NumShards)
    BY <1>1, <1>5, <2>1, <2>2, <2>3
  <2>4. CASE \E c \in Cores :
               /\ call' = [call EXCEPT ![t].pc = "spin", ![t].shard = c]
               /\ UNCHANGED shards_
    <3>1. /\ call'[t].pc = "spin" /\ call'[t].bytes = call[t].bytes
          /\ call'[t].avail = call[t].avail /\ UNCHANGED shards_
          /\ \A u \in Threads \ {t} : call'[u] = call[u]
      BY <1>0, <2>4 DEF CallState
    <3> QED
      BY <1>1, <1>2, <2>2, <3>1
  <2> QED
    BY <1>6, <2>3, <2>4 DEF PickShard
<1>7. CASE LockShard(t)
  <2>1. call[t].shard \in Cores
    BY <1>0 DEF CallState
  <2> QED
    BY <1>1, <1>5, <1>7, <2>1 DEF LockShard
<1>8. CASE Exit(t)
  <2>1. UNCHANGED <<arena_, shards_, call, live, top>>
    BY <1>8 DEF Exit
  <2>2. \A c \in Cores : Free(c)' = Free(c)
    BY <2>1 DEF Free
  <2>3. ArenaWithin'
    BY <2>1, <2>2, WithinKept
  <2> QED
    BY <1>1, <2>1, <2>3
<1>9. CASE FromArena(t)
  BY <1>1, <1>9, FromArenaWithin
<1>10. CASE Refill(t)
  BY <1>1, <1>10, RefillWithin
<1>11. CASE FromShard(t)
  BY <1>1, <1>11, FromShardWithin
<1> QED
  BY <1>3, <1>4, <1>6, <1>7, <1>8, <1>9, <1>10, <1>11 DEF Allocate

\* A request of any length, that of a deletion too, begins a call.
LEMMA RequestKeeps ==
  ASSUME ArenaInv, ArenaWithin, NEW t \in Threads, NEW bytes \in Nat,
         Request(t, bytes)
  PROVE  /\ ArenaInv' /\ ArenaWithin'
         /\ call'[t].pc = "enter" /\ call'[t].bytes = bytes
         /\ call[t].pc = "idle"
         /\ \A u \in Threads \ {t} : call'[u] = call[u]
<1>0. /\ call \in [Threads -> CallState] /\ MutexesHeld /\ ArenaTypeOK
      /\ shards_ \in [Cores -> ShardState] /\ SizesFit /\ Ranges
  BY DEF ArenaInv, ArenaTypeOK, Ranges
<1>1. Calling("enter", bytes) \in CallState
  <2>1. NewArena \in ArenaState /\ 0 \in Cores
    BY ArenaAssumption DEF NewArena, ArenaState, Cores
  <2> QED
    BY <2>1 DEF Calling, CallState, Step
<1>2. /\ call' \in [Threads -> CallState] /\ call[t].pc = "idle"
      /\ call'[t].pc = "enter" /\ call'[t].bytes = bytes
      /\ \A u \in Threads \ {t} : call'[u] = call[u]
      /\ UNCHANGED <<arena_, arena_mutex_, arena_allocated_and_unused_,
                     shards_, tls_cpuid, live, allocs, top, exited>>
  BY <1>0, <1>1 DEF Request, Calling
<1>3. ArenaTypeOK'
  BY <1>0, <1>2 DEF ArenaTypeOK
<1>4. MutexesHeld'
  BY <1>0, <1>2 DEF MutexesHeld, HoldsArena, HoldsShard
<1>5. SizesFit'
  BY <1>0, <1>2 DEF SizesFit
<1>6. \A c \in Cores : shards_[c].mutex # t
  BY <1>0, <1>2 DEF MutexesHeld, HoldsShard
<1>7. \A c \in Cores : Free(c)' = Free(c)
  BY <1>2, <1>6, FreeKept
<1>8. Ranges'
  BY <1>0, <1>2, <1>7, RangesKept
<1>9. ArenaWithin'
  BY <1>2, <1>7, WithinKept
<1> QED
  BY <1>2, <1>3, <1>4, <1>5, <1>8, <1>9 DEF ArenaInv, Ranges

\* The result is taken.
LEMMA ReturnKeeps ==
  ASSUME ArenaInv, ArenaWithin, NEW t \in Threads, Return(t)
  PROVE  /\ ArenaInv' /\ ArenaWithin'
         /\ call[t].pc = "done" /\ call'[t].pc = "idle"
         /\ \A u \in Threads \ {t} : call'[u] = call[u]
<1>0. /\ call \in [Threads -> CallState] /\ MutexesHeld
  BY DEF ArenaInv, ArenaTypeOK
<1>1. ArenaInv'
  <2>1. ArenaNext
    BY DEF ArenaNext
  <2> QED
    BY <2>1, TypeStep, MutexStep, SizesStep, RangesStep DEF ArenaInv, Ranges
<1>2. /\ call[t].pc = "done" /\ call'[t].pc = "idle"
      /\ \A u \in Threads \ {t} : call'[u] = call[u]
      /\ UNCHANGED <<arena_, shards_>>
  BY <1>0 DEF Return, Idle, Calling
<1>3. \A c \in Cores : shards_[c].mutex # t
  BY <1>0, <1>2 DEF MutexesHeld, HoldsShard
<1>4. \A c \in Cores : Free(c)' = Free(c)
  BY <1>2, <1>3, FreeKept
<1>5. ArenaWithin'
  BY <1>2, <1>4, WithinKept
<1> QED
  BY <1>1, <1>2, <1>5

\* A new memtable has an arena of its own: nobody is in the old one.
LEMMA NewArenaKeeps ==
  ASSUME ArenaInv, \A t \in Threads : call[t].pc = "idle",
         arena_' = NewArena, arena_allocated_and_unused_' = 0,
         shards_' = [c \in Cores |-> NewShard],
         UNCHANGED <<arena_mutex_, tls_cpuid, call, live, allocs, top, exited>>
  PROVE  ArenaInv' /\ ArenaWithin'
<1>0. /\ ArenaTypeOK /\ MutexesHeld /\ SizesFit /\ BelowTop
      /\ AllocationsApart /\ NoThread \notin Threads
  BY ArenaAssumption DEF ArenaInv
<1>1. NewArena \in ArenaState /\ NewShard \in ShardState
  BY DEF NewArena, ArenaState, NewShard, ShardState
<1>2. \A c \in Cores : shards_'[c].begin = 0 /\ shards_'[c].mutex = NoThread
                       /\ Free(c)' = 0
  BY DEF NewShard, Free
<1>3. /\ arena_'.aligned = 0 /\ arena_'.remaining = 0 /\ arena_'.blocks = {}
      /\ top \in Nat
  BY <1>0 DEF NewArena, ArenaTypeOK
<1>4. ArenaTypeOK'
  BY <1>0, <1>1, <1>3 DEF ArenaTypeOK
<1>5. MutexesHeld'
  BY <1>0, <1>2 DEF MutexesHeld, HoldsArena, HoldsShard
<1>6. SizesFit'
  BY <1>0 DEF SizesFit
<1>7. BelowTop'
  BY <1>0, <1>2, <1>3 DEF BelowTop
<1>8. FreeApart'
  BY <1>2, <1>3 DEF FreeApart, Apart
<1>9. AllocationsApart'
  BY <1>0 DEF AllocationsApart
<1>10. ArenaWithin'
  BY <1>2, <1>3 DEF ArenaWithin, Within, Done
<1> QED
  BY <1>4, <1>5, <1>6, <1>7, <1>8, <1>9, <1>10 DEF ArenaInv

-----------------------------------------------------------------------------
(* Where the values are *)

Stored ==
  /\ Coupled /\ OwnedLive /\ OwnedApart /\ ArenaWithin /\ EntriesWithin
  /\ BlocksApart /\ Contents

\* Steps of a group, a flush or a reader that leave the memory alone.
LEMMA StoredKept ==
  ASSUME ArenaInv, Stored, UNCHANGED <<arenaVars, tables, mem, memory>>,
         Coupled',
         \A t \in Threads : writer'[t].stage = "sealed"
                              => writer'[t] = writer[t]
  PROVE  ArenaInv' /\ Stored'
<1>0. UNCHANGED <<arena_, arena_mutex_, arena_allocated_and_unused_, shards_,
                  tls_cpuid, call, live, allocs, top, exited>>
  BY DEF arenaVars
<1>f. \A c \in Cores : Free(c)' = Free(c)
  BY <1>0 DEF Free
<1>1. ArenaInv'
  <2>1. ArenaTypeOK'
    BY <1>0 DEF ArenaInv, ArenaTypeOK
  <2>2. MutexesHeld' /\ SizesFit'
    BY <1>0 DEF ArenaInv, MutexesHeld, SizesFit, HoldsArena, HoldsShard
  <2>3. Ranges'
    BY <1>0, <1>f, RangesKept DEF ArenaInv, Ranges
  <2> QED
    BY <2>1, <2>2, <2>3 DEF ArenaInv, Ranges
<1>2. OwnedLive' /\ OwnedApart'
  BY <1>0 DEF Stored, OwnedLive, OwnedApart, Done
<1>3. ArenaWithin'
  BY <1>0, <1>f, WithinKept DEF Stored
<1>4. \A m \in DOMAIN tables : Blocks(m)' = Blocks(m)
  BY <1>0 DEF Blocks
<1>5. EntriesWithin' /\ BlocksApart'
  BY <1>0, <1>4 DEF Stored, EntriesWithin, BlocksApart, Within
<1>6. Contents'
  BY <1>0 DEF Stored, Contents, Holds
<1> QED
  BY <1>1, <1>2, <1>3, <1>5, <1>6 DEF Stored

\* Asking for memory leaves all that is stored where it is.
LEMMA AddAllocateStored ==
  ASSUME ArenaInv, Stored, WriterTypes, TableTypes, NEW t \in Threads,
         AddAllocate(t)
  PROVE  ArenaInv' /\ Stored'
<1>0. /\ writer[t].stage = "assigned" /\ Request(t, writer[t].len)
      /\ writer' = [writer EXCEPT ![t].stage = "allocating"]
      /\ UNCHANGED <<arena_, live, top, tables, mem, memory>>
  BY DEF AddAllocate, Request
<1>1. /\ writer'[t].stage = "allocating" /\ writer'[t].len = writer[t].len
      /\ \A u \in Threads \ {t} : writer'[u] = writer[u]
      /\ writer[t].len \in Nat
  <2>1. writer[t] \in Writing /\ writer[t].len \in Nat
    BY <1>0, WriterRecord
  <2>2. DOMAIN writer = Threads
    BY DEF WriterTypes
  <2> QED
    BY <1>0, <2>1, <2>2 DEF Writing
<1>2. /\ ArenaInv' /\ ArenaWithin'
      /\ call'[t].pc = "enter" /\ call'[t].bytes = writer[t].len
      /\ \A u \in Threads \ {t} : call'[u] = call[u]
  BY <1>0, <1>1, RequestKeeps DEF Stored
<1>3. Coupled'
  BY <1>1, <1>2 DEF Stored, Coupled
<1>4. OwnedLive'
  BY <1>0, <1>2 DEF Stored, OwnedLive, Done
<1>5. OwnedApart'
  BY <1>0, <1>2 DEF Stored, OwnedApart, Done
<1>6. \A m \in DOMAIN tables : Blocks(m)' = Blocks(m)
  BY <1>0 DEF Blocks
<1>7. EntriesWithin' /\ BlocksApart'
  BY <1>0, <1>6 DEF Stored, EntriesWithin, BlocksApart, Within
<1>8. Contents'
  BY <1>0, <1>1, <1>2 DEF Stored, Contents, Holds
<1> QED
  BY <1>2, <1>3, <1>4, <1>5, <1>7, <1>8 DEF Stored

\* A new allocation is apart from everything somebody owns.
LEMMA AllocateImplStored ==
  ASSUME ArenaInv, Stored, WriterTypes, TableTypes, NEW t \in Threads,
         AllocateImpl(t)
  PROVE  ArenaInv' /\ Stored'
<1>0. Allocate(t) /\ UNCHANGED <<writer, tables, mem, memory>>
  BY DEF AllocateImpl, memVars
<1>1. /\ ArenaInv' /\ ArenaWithin'
      /\ Advances(t) \/ UNCHANGED <<arena_, call, live, top>>
  BY <1>0, AllocateAdvances DEF Stored
<1>2. CASE UNCHANGED <<arena_, call, live, top>>
  <2>1. Coupled' /\ OwnedLive' /\ OwnedApart'
    BY <1>0, <1>2 DEF Stored, Coupled, OwnedLive, OwnedApart, Done
  <2>2. \A m \in DOMAIN tables : Blocks(m)' = Blocks(m)
    BY <1>0, <1>2 DEF Blocks
  <2>3. EntriesWithin' /\ BlocksApart'
    BY <1>0, <1>2, <2>2 DEF Stored, EntriesWithin, BlocksApart, Within
  <2>4. Contents'
    BY <1>0, <1>2 DEF Stored, Contents, Holds
  <2> QED
    BY <1>1, <2>1, <2>3, <2>4 DEF Stored
<1>3. CASE Advances(t)
  <2>1. /\ \A u \in Threads \ {t} : call'[u] = call[u]
        /\ call'[t].bytes = call[t].bytes
        /\ call[t].pc \notin {"idle", "done"} /\ call'[t].pc # "idle"
        /\ live \subseteq live'
        /\ arena_.blocks \subseteq arena_'.blocks
    BY <1>3 DEF Advances
  <2>2. writer[t].stage # "sealed"
    BY <2>1 DEF Stored, Coupled
  <2>3. Coupled'
    BY <1>0, <2>1, <2>2 DEF Stored, Coupled
  <2>4. call'[t].pc = "done" =>
          [id |-> allocs, ptr |-> call'[t].rv, len |-> call'[t].bytes] \in live'
    BY <1>3 DEF Advances
  <2>5. OwnedLive'
    <3>1. \A m \in DOMAIN tables : \A e \in tables[m].entries :
            \E a \in live' : a.ptr = e.ptr /\ a.len = e.len
      BY <2>1 DEF Stored, OwnedLive
    <3>2. ASSUME NEW u \in Threads, call'[u].pc = "done"
          PROVE  \E a \in live' : a.ptr = call'[u].rv /\ a.len = call'[u].bytes
      <4>1. CASE u = t
        BY <2>4, <3>2, <4>1
      <4>2. CASE u # t
        BY <2>1, <3>2, <4>2 DEF Stored, OwnedLive, Done
      <4> QED
        BY <4>1, <4>2
    <3> QED
      BY <1>0, <3>1, <3>2 DEF OwnedLive, Done
  <2>6. ASSUME call'[t].pc = "done", NEW a \in live
        PROVE  /\ Apart(call'[t].rv, call'[t].bytes, a.ptr, a.len)
               /\ Apart(a.ptr, a.len, call'[t].rv, call'[t].bytes)
    <3>1. PICK n \in live' : n = [id |-> allocs, ptr |-> call'[t].rv,
                                  len |-> call'[t].bytes]
      BY <2>4, <2>6
    <3>2. a.id < allocs /\ a.id \in Nat /\ allocs \in Nat
      BY RangesTyped DEF ArenaInv, BelowTop
    <3>3. a # n /\ n # a /\ a \in live' /\ n \in live'
      BY <2>1, <3>1, <3>2
    <3>4. Apart(n.ptr, n.len, a.ptr, a.len) /\ Apart(a.ptr, a.len, n.ptr, n.len)
      BY <1>1, <3>3 DEF ArenaInv, AllocationsApart
    <3> QED
      BY <3>1, <3>4
  <2>7. OwnedApart'
    <3>1. \A m, n \in DOMAIN tables :
            \A e \in tables[m].entries, f \in tables[n].entries :
              m # n \/ e # f => Apart(e.ptr, e.len, f.ptr, f.len)
      BY DEF Stored, OwnedApart
    <3>2. ASSUME NEW u \in Threads, call'[u].pc = "done",
                 NEW m \in DOMAIN tables, NEW e \in tables[m].entries
          PROVE  Apart(call'[u].rv, call'[u].bytes, e.ptr, e.len)
      <4>1. CASE u = t
        <5>1. PICK a \in live : a.ptr = e.ptr /\ a.len = e.len
          BY DEF Stored, OwnedLive
        <5> QED
          BY <2>6, <3>2, <4>1, <5>1
      <4>2. CASE u # t
        BY <2>1, <3>2, <4>2 DEF Stored, OwnedApart, Done
      <4> QED
        BY <4>1, <4>2
    <3>3. ASSUME NEW u \in Threads, NEW v \in Threads, u # v,
                 call'[u].pc = "done", call'[v].pc = "done"
          PROVE  Apart(call'[u].rv, call'[u].bytes,
                       call'[v].rv, call'[v].bytes)
      <4>1. ASSUME NEW w \in Threads, w # t, call'[w].pc = "done"
            PROVE  \E a \in live : a.ptr = call'[w].rv /\ a.len = call'[w].bytes
        BY <2>1, <4>1 DEF Stored, OwnedLive, Done
      <4>2. CASE u = t
        BY <2>6, <3>3, <4>1, <4>2
      <4>3. CASE v = t
        BY <2>6, <3>3, <4>1, <4>3
      <4>4. CASE u # t /\ v # t
        BY <2>1, <3>3, <4>4 DEF Stored, OwnedApart, Done
      <4> QED
        BY <4>2, <4>3, <4>4
    <3> QED
      BY <1>0, <3>1, <3>2, <3>3 DEF OwnedApart, Done
  <2>8. \A m \in DOMAIN tables : Blocks(m) \subseteq Blocks(m)'
    BY <1>0, <2>1 DEF Blocks
  <2>9. EntriesWithin'
    <3> SUFFICES ASSUME NEW m \in DOMAIN tables, NEW e \in tables[m].entries
                 PROVE  Within(e.ptr, e.len, Blocks(m)')
      BY <1>0 DEF EntriesWithin, Within
    <3> QED
      BY <2>8, WithinGrows DEF Stored, EntriesWithin
  <2>10. BlocksApart'
    <3>0. top \in Nat /\ kBlockSize \in Nat /\ mem \in DOMAIN tables
      BY ArenaAssumption DEF ArenaInv, ArenaTypeOK, TableTypes
    <3>1. ASSUME NEW m \in DOMAIN tables, NEW b \in Blocks(m)
          PROVE  b \in Nat /\ b + kBlockSize <= top
      BY <3>1 DEF Stored, BlocksApart, Blocks, ArenaInv, ArenaTypeOK,
                  ArenaState, TableTypes, Table
    <3>2. CASE arena_'.blocks = arena_.blocks /\ top' = top
      <4>1. \A m \in DOMAIN tables : Blocks(m)' = Blocks(m)
        BY <1>0, <3>2 DEF Blocks
      <4> QED
        BY <1>0, <3>2, <4>1 DEF Stored, BlocksApart
    <3>3. CASE arena_'.blocks = arena_.blocks \cup {top}
               /\ top' = top + kBlockSize
      <4>1. \A m \in DOMAIN tables \ {mem} : Blocks(m)' = Blocks(m)
        BY <1>0, <3>3 DEF Blocks
      <4>u. ASSUME NEW m \in DOMAIN tables, NEW b \in Blocks(m)'
            PROVE  b \in Blocks(m) \/ (m = mem /\ b = top)
        <5>1. CASE m = mem
          BY <1>0, <3>3, <4>u, <5>1 DEF Blocks
        <5>2. CASE m # mem
          <6>1. Blocks(m)' = Blocks(m)
            BY <4>1, <5>2
          <6> QED
            BY <6>1
        <5> QED
          BY <5>1, <5>2
      <4>2. ASSUME NEW m \in DOMAIN tables, NEW b \in Blocks(m)'
            PROVE  b + kBlockSize <= top'
        <5>1. CASE b \in Blocks(m)
          BY <3>0, <3>1, <3>3, <5>1
        <5>2. CASE b = top
          BY <3>0, <3>3, <5>2
        <5> QED
          BY <4>u, <5>1, <5>2
      <4>3. ASSUME NEW m \in DOMAIN tables, NEW n \in DOMAIN tables, m # n,
                   NEW b \in Blocks(m)', NEW d \in Blocks(n)'
            PROVE  b + kBlockSize <= d \/ d + kBlockSize <= b
        <5>1. CASE b \in Blocks(m) /\ d \in Blocks(n)
          BY <4>3, <5>1 DEF Stored, BlocksApart
        <5>2. CASE b \notin Blocks(m)
          <6>1. m = mem /\ b = top /\ d \in Blocks(n)
            BY <4>u, <4>3, <5>2
          <6> QED
            BY <3>1, <6>1
        <5>3. CASE d \notin Blocks(n)
          <6>1. n = mem /\ d = top /\ b \in Blocks(m)
            BY <4>u, <4>3, <5>3
          <6> QED
            BY <3>1, <6>1
        <5> QED
          BY <5>1, <5>2, <5>3
      <4> QED
        BY <1>0, <4>2, <4>3 DEF BlocksApart
    <3> QED
      BY <1>3, <3>2, <3>3 DEF Advances
  <2>11. Contents'
    <3>1. \A u \in Threads : writer[u].stage = "sealed" => call'[u] = call[u]
      BY <2>1, <2>2
    <3> QED
      BY <1>0, <3>1 DEF Stored, Contents, Holds
  <2> QED
    BY <1>1, <2>3, <2>5, <2>7, <2>9, <2>10, <2>11 DEF Stored
<1> QED
  BY <1>1, <1>2, <1>3

\* The words of the value are nobody else's.
LEMMA AddSealStored ==
  ASSUME ArenaInv, Stored, WriterTypes, TableTypes, NEW t \in Threads,
         AddSeal(t)
  PROVE  ArenaInv' /\ Stored'
<1>1. PICK p, n, s : p = call[t].rv /\ n = writer[t].len /\ s = writer[t].seq
  OBVIOUS
<1>0. /\ writer[t].stage = "allocating" /\ call[t].pc = "done"
      /\ memory' = [a \in DOMAIN memory \cup (p .. p + n - 1) |->
                      IF a \in p .. p + n - 1
                      THEN [seq |-> s, enc |-> TRUE] ELSE memory[a]]
      /\ writer' = [writer EXCEPT ![t].stage = "sealed"]
      /\ UNCHANGED <<arenaVars, tables, mem>>
  BY <1>1 DEF AddSeal
<1>u. UNCHANGED <<arena_, arena_mutex_, arena_allocated_and_unused_, shards_,
                  tls_cpuid, call, live, allocs, top, exited>>
  BY <1>0 DEF arenaVars
<1>2. /\ writer'[t].stage = "sealed" /\ writer'[t].len = n
      /\ writer'[t].seq = s
      /\ \A u \in Threads \ {t} : writer'[u] = writer[u]
      /\ n \in Nat /\ p \in Nat /\ call[t].bytes = n
  <2>1. writer[t] \in Writing /\ writer[t].len \in Nat
    BY <1>0, WriterRecord
  <2>2. DOMAIN writer = Threads
    BY DEF WriterTypes
  <2>3. call[t].rv \in Nat
    BY CallRecord DEF ArenaInv
  <2>4. call[t].bytes = n
    BY <1>0, <1>1 DEF Stored, Coupled
  <2> QED
    BY <1>0, <1>1, <2>1, <2>2, <2>3, <2>4 DEF Writing
<1>3. /\ \A a \in p .. p + n - 1 : a \in DOMAIN memory'
            /\ memory'[a] = [seq |-> s, enc |-> TRUE]
      /\ \A a \in DOMAIN memory : a \in DOMAIN memory'
            /\ (a \notin p .. p + n - 1 => memory'[a] = memory[a])
  BY <1>0
<1>4. ASSUME NEW q \in Nat, NEW k \in Nat, NEW x, Holds(q, k, x),
             Apart(p, n, q, k)
      PROVE  Holds(q, k, x)'
  <2> SUFFICES ASSUME NEW a \in q .. q + k - 1
               PROVE  a \in DOMAIN memory'
                      /\ memory'[a] = [seq |-> x, enc |-> TRUE]
    BY DEF Holds
  <2>1. a \in DOMAIN memory /\ memory[a] = [seq |-> x, enc |-> TRUE]
    BY <1>4 DEF Holds
  <2>2. a \notin p .. p + n - 1
    <3>1. a \in Int /\ q <= a /\ a < q + k
      OBVIOUS
    <3> QED
      BY <1>2, <1>4, <3>1 DEF Apart
  <2> QED
    BY <1>3, <2>1, <2>2
<1>5. Coupled'
  BY <1>0, <1>u, <1>2 DEF Stored, Coupled
<1>6. Contents'
  <2>1. ASSUME NEW m \in DOMAIN tables, NEW e \in tables[m].entries
        PROVE  Holds(e.ptr, e.len, e.seq)'
    <3>1. /\ Holds(e.ptr, e.len, e.seq) /\ e.ptr \in Nat /\ e.len \in Nat
          /\ Apart(p, n, e.ptr, e.len)
      BY <1>0, <1>1, <1>2, EntryRecord
      DEF Stored, Contents, OwnedApart, Done
    <3> QED
      BY <1>4, <3>1
  <2>2. ASSUME NEW u \in Threads, writer'[u].stage = "sealed"
        PROVE  Holds(call[u].rv, writer[u].len, writer[u].seq)'
    <3>1. CASE u = t
      BY <1>1, <1>2, <1>3, <1>u, <3>1 DEF Holds
    <3>2. CASE u # t
      <4>1. /\ writer'[u] = writer[u] /\ call'[u] = call[u]
            /\ writer[u].stage = "sealed"
        BY <1>2, <1>u, <2>2, <3>2
      <4>2. call[u].pc = "done" /\ call[u].bytes = writer[u].len
        BY <4>1 DEF Stored, Coupled
      <4>3. PICK q, k, x :
              q = call[u].rv /\ k = writer[u].len /\ x = writer[u].seq
        OBVIOUS
      <4>4. q \in Nat /\ k \in Nat
        BY <4>1, <4>3, CallRecord, WriterRecord DEF ArenaInv
      <4>5. Holds(q, k, x) /\ Apart(p, n, q, k)
        BY <1>0, <1>1, <1>2, <3>2, <4>1, <4>2, <4>3
        DEF Stored, Contents, OwnedApart, Done
      <4>6. Holds(q, k, x)'
        BY <1>4, <4>4, <4>5
      <4> QED
        BY <4>1, <4>3, <4>6 DEF Holds
    <3> QED
      BY <3>1, <3>2
  <2> QED
    BY <1>0, <2>1, <2>2 DEF Contents
<1>7. \A c \in Cores : Free(c)' = Free(c)
  BY <1>u DEF Free
<1>8. ArenaInv'
  <2>1. ArenaTypeOK'
    BY <1>u DEF ArenaInv, ArenaTypeOK
  <2>2. MutexesHeld' /\ SizesFit'
    BY <1>u DEF ArenaInv, MutexesHeld, SizesFit, HoldsArena, HoldsShard
  <2>3. Ranges'
    BY <1>u, <1>7, RangesKept DEF ArenaInv, Ranges
  <2> QED
    BY <2>1, <2>2, <2>3 DEF ArenaInv, Ranges
<1>9. OwnedLive' /\ OwnedApart'
  BY <1>0, <1>u DEF Stored, OwnedLive, OwnedApart, Done
<1>10. ArenaWithin'
  BY <1>u, <1>7, WithinKept DEF Stored
<1>11. \A m \in DOMAIN tables : Blocks(m)' = Blocks(m)
  BY <1>0, <1>u DEF Blocks
<1>12. EntriesWithin' /\ BlocksApart'
  BY <1>0, <1>u, <1>11 DEF Stored, EntriesWithin, BlocksApart, Within
<1> QED
  BY <1>5, <1>6, <1>8, <1>9, <1>10, <1>12 DEF Stored

\* The entry that a writer inserts, and what the insertion does.
NewEntry(t) ==
  [key |-> writer[t].key, type |-> writer[t].type, seq |-> writer[t].seq,
   ptr |-> call[t].rv, len |-> writer[t].len]

\* MemTable::Add inserts one entry, for the range that it has filled.
LEMMA AddInsertEffect ==
  ASSUME ArenaInv, WriterTypes, TableTypes, Coupled, NEW t \in Threads,
         AddInsert(t)
  PROVE  /\ writer[t].stage = "sealed" /\ Return(t)
         /\ writer'[t].stage = "inserted" /\ writer'[t].seq = writer[t].seq
         /\ writer'[t].key = writer[t].key /\ writer'[t].type = writer[t].type
         /\ writer'[t].len = writer[t].len
         /\ \A u \in Threads \ {t} : writer'[u] = writer[u]
         /\ DOMAIN tables' = DOMAIN tables
         /\ \A m \in DOMAIN tables \ {mem} : tables'[m] = tables[m]
         /\ tables'[mem].blocks = tables[mem].blocks
         /\ tables'[mem].entries = tables[mem].entries \cup {NewEntry(t)}
         /\ NewEntry(t) \in Entry
         /\ writer' \in [Threads -> Writing \cup {NoWrite}]
         /\ UNCHANGED <<arena_, live, top, mem, memory>>
<1>0. /\ writer[t].stage = "sealed" /\ Return(t)
      /\ tables' = [tables EXCEPT ![mem].entries = @ \cup {NewEntry(t)}]
      /\ writer' = [writer EXCEPT ![t].stage = "inserted"]
      /\ UNCHANGED <<arena_, live, top, mem, memory>>
  BY DEF AddInsert, Return, NewEntry
<1>1. /\ writer[t] \in Writing /\ writer[t].len \in Nat
      /\ writer[t].key \in UserKeys /\ writer[t].type \in Types
      /\ writer[t].seq \in Nat /\ call[t].rv \in Nat
  BY <1>0, WriterRecord, CallRecord DEF ArenaInv
<1>2. /\ writer'[t].stage = "inserted" /\ writer'[t].seq = writer[t].seq
      /\ writer'[t].key = writer[t].key /\ writer'[t].type = writer[t].type
      /\ writer'[t].len = writer[t].len
      /\ \A u \in Threads \ {t} : writer'[u] = writer[u]
      /\ writer' \in [Threads -> Writing \cup {NoWrite}]
  <2>1. writer \in [Threads -> Writing \cup {NoWrite}]
    BY DEF WriterTypes
  <2>2. [writer[t] EXCEPT !.stage = "inserted"] \in Writing
    BY <1>1 DEF Writing
  <2>3. writer' = [writer EXCEPT ![t] = [writer[t] EXCEPT !.stage = "inserted"]]
    BY <1>0, <2>1
  <2>4. /\ writer'[t] = [writer[t] EXCEPT !.stage = "inserted"]
        /\ \A u \in Threads \ {t} : writer'[u] = writer[u]
        /\ writer' \in [Threads -> Writing \cup {NoWrite}]
    BY <2>1, <2>2, <2>3
  <2> QED
    BY <1>1, <2>4 DEF Writing
<1>3. NewEntry(t) \in Entry
  BY <1>1 DEF NewEntry, Entry
<1>4. mem \in DOMAIN tables /\ tables[mem] \in Table
  BY DEF TableTypes
<1>5. /\ DOMAIN tables' = DOMAIN tables
      /\ \A m \in DOMAIN tables \ {mem} : tables'[m] = tables[m]
      /\ tables'[mem] = [tables[mem] EXCEPT !.entries = @ \cup {NewEntry(t)}]
  BY <1>0, <1>4
<1>6. /\ tables'[mem].blocks = tables[mem].blocks
      /\ tables'[mem].entries = tables[mem].entries \cup {NewEntry(t)}
  BY <1>4, <1>5 DEF Table
<1> QED
  BY <1>0, <1>2, <1>3, <1>5, <1>6

\* An entry of the tables after the insertion is an old one or the new one.
LEMMA InsertedEntries ==
  ASSUME ArenaInv, WriterTypes, TableTypes, Coupled, NEW t \in Threads,
         AddInsert(t), NEW m \in DOMAIN tables, NEW e \in tables'[m].entries
  PROVE  e \in tables[m].entries \/ (m = mem /\ e = NewEntry(t))
<1>1. CASE m = mem
  BY <1>1, AddInsertEffect
<1>2. CASE m # mem
  <2>1. tables'[m] = tables[m]
    BY <1>2, AddInsertEffect
  <2> QED
    BY <2>1
<1> QED
  BY <1>1, <1>2

\* The range of the writer becomes the range of its entry.
LEMMA AddInsertStored ==
  ASSUME ArenaInv, Stored, WriterTypes, TableTypes, NEW t \in Threads,
         AddInsert(t)
  PROVE  ArenaInv' /\ Stored'
<1>0. Coupled
  BY DEF Stored
<1>1. /\ writer[t].stage = "sealed" /\ Return(t)
      /\ writer'[t].stage = "inserted"
      /\ \A u \in Threads \ {t} : writer'[u] = writer[u]
      /\ DOMAIN tables' = DOMAIN tables
      /\ \A m \in DOMAIN tables \ {mem} : tables'[m] = tables[m]
      /\ tables'[mem].blocks = tables[mem].blocks
      /\ NewEntry(t) \in Entry
      /\ UNCHANGED <<arena_, live, top, mem, memory>>
  BY <1>0, AddInsertEffect
<1>2. /\ ArenaInv' /\ ArenaWithin'
      /\ call[t].pc = "done" /\ call'[t].pc = "idle"
      /\ \A u \in Threads \ {t} : call'[u] = call[u]
  BY <1>1, ReturnKeeps DEF Stored
<1>3. call[t].bytes = writer[t].len
  BY <1>0, <1>1 DEF Coupled
<1>4. PICK n : n = NewEntry(t)
  OBVIOUS
<1>5. /\ n.ptr = call[t].rv /\ n.len = call[t].bytes /\ n.seq = writer[t].seq
      /\ n.len = writer[t].len /\ n.ptr \in Nat /\ n.len \in Nat
  BY <1>1, <1>3, <1>4 DEF NewEntry, Entry
<1>6. ASSUME NEW m \in DOMAIN tables, NEW e \in tables'[m].entries
      PROVE  e \in tables[m].entries \/ (m = mem /\ e = n)
  BY <1>0, <1>4, InsertedEntries
<1>7. Coupled'
  BY <1>0, <1>1, <1>2 DEF Coupled
<1>8. OwnedLive'
  <2>1. ASSUME NEW m \in DOMAIN tables, NEW e \in tables'[m].entries
        PROVE  \E a \in live : a.ptr = e.ptr /\ a.len = e.len
    <3>1. CASE e \in tables[m].entries
      BY <3>1 DEF Stored, OwnedLive
    <3>2. CASE e = n
      BY <1>2, <1>5, <3>2, ZenonT(60) DEF Stored, OwnedLive, Done
    <3> QED
      BY <1>6, <3>1, <3>2
  <2>2. \A u \in Threads : call'[u].pc = "done" =>
          \E a \in live : a.ptr = call'[u].rv /\ a.len = call'[u].bytes
    BY <1>2 DEF Stored, OwnedLive, Done
  <2> QED
    BY <1>1, <2>1, <2>2 DEF OwnedLive, Done
<1>9. ASSUME NEW m \in DOMAIN tables, NEW e \in tables[m].entries
      PROVE  /\ Apart(n.ptr, n.len, e.ptr, e.len)
             /\ Apart(e.ptr, e.len, n.ptr, n.len)
  <2>1. Apart(n.ptr, n.len, e.ptr, e.len)
    BY <1>2, <1>5 DEF Stored, OwnedApart, Done
  <2>2. e.ptr \in Nat /\ e.len \in Nat
    BY EntryRecord
  <2> QED
    BY <1>5, <2>1, <2>2, ApartSymmetric
<1>10. OwnedApart'
  <2>1. ASSUME NEW m \in DOMAIN tables, NEW k \in DOMAIN tables,
               NEW e \in tables'[m].entries, NEW f \in tables'[k].entries,
               m # k \/ e # f
        PROVE  Apart(e.ptr, e.len, f.ptr, f.len)
    <3>1. CASE e \in tables[m].entries /\ f \in tables[k].entries
      BY <2>1, <3>1 DEF Stored, OwnedApart
    <3>2. CASE e \in tables[m].entries /\ k = mem /\ f = n
      BY <1>9, <3>2
    <3>3. CASE f \in tables[k].entries /\ m = mem /\ e = n
      BY <1>9, <3>3
    <3> QED
      BY <1>6, <2>1, <3>1, <3>2, <3>3
  <2>2. ASSUME NEW u \in Threads, call'[u].pc = "done",
               NEW m \in DOMAIN tables, NEW e \in tables'[m].entries
        PROVE  Apart(call'[u].rv, call'[u].bytes, e.ptr, e.len)
    <3>1. u # t /\ call'[u] = call[u]
      BY <1>2, <2>2
    <3>2. CASE e \in tables[m].entries
      BY <2>2, <3>1, <3>2 DEF Stored, OwnedApart, Done
    <3>3. CASE e = n
      BY <1>2, <1>5, <2>2, <3>1, <3>3 DEF Stored, OwnedApart, Done
    <3> QED
      BY <1>6, <3>2, <3>3
  <2>3. ASSUME NEW u \in Threads, NEW v \in Threads, u # v,
               call'[u].pc = "done", call'[v].pc = "done"
        PROVE  Apart(call'[u].rv, call'[u].bytes, call'[v].rv, call'[v].bytes)
    BY <1>2, <2>3 DEF Stored, OwnedApart, Done
  <2> QED
    BY <1>1, <2>1, <2>2, <2>3 DEF OwnedApart, Done
<1>11. \A m \in DOMAIN tables : Blocks(m)' = Blocks(m)
  <2>1. \A m \in DOMAIN tables : tables'[m].blocks = tables[m].blocks
    BY <1>1
  <2> QED
    BY <1>1, <2>1 DEF Blocks
<1>12. EntriesWithin'
  <2> SUFFICES ASSUME NEW m \in DOMAIN tables, NEW e \in tables'[m].entries
               PROVE  Within(e.ptr, e.len, Blocks(m))
    BY <1>1, <1>11 DEF EntriesWithin, Within
  <2>1. CASE e \in tables[m].entries
    BY <2>1 DEF Stored, EntriesWithin
  <2>2. CASE m = mem /\ e = n
    BY <1>2, <1>5, <2>2 DEF Stored, ArenaWithin, Done, Blocks
  <2> QED
    BY <1>6, <2>1, <2>2
<1>13. BlocksApart'
  BY <1>1, <1>11 DEF Stored, BlocksApart
<1>14. Contents'
  <2>1. ASSUME NEW m \in DOMAIN tables, NEW e \in tables'[m].entries
        PROVE  Holds(e.ptr, e.len, e.seq)
    <3>1. CASE e \in tables[m].entries
      BY <3>1 DEF Stored, Contents
    <3>2. CASE e = n
      BY <1>1, <1>5, <3>2 DEF Stored, Contents
    <3> QED
      BY <1>6, <3>1, <3>2
  <2>2. ASSUME NEW u \in Threads, writer'[u].stage = "sealed"
        PROVE  Holds(call'[u].rv, writer'[u].len, writer'[u].seq)
    <3>1. u # t
      BY <1>1, <2>2
    <3> QED
      BY <1>1, <1>2, <2>2, <3>1 DEF Stored, Contents
  <2> QED
    BY <1>1, <2>1, <2>2 DEF Contents, Holds
<1> QED
  BY <1>2, <1>7, <1>8, <1>10, <1>12, <1>13, <1>14 DEF Stored

\* Between two groups nobody is in AllocateImpl.
LEMMA NoGroup ==
  ASSUME WriterTypes, Coupled, Group = {}, NEW t \in Threads
  PROVE  writer[t].stage = "none" /\ writer[t] = NoWrite /\ call[t].pc = "idle"
<1>1. writer[t].stage = "none"
  BY WriterRecord
<1>2. writer[t] = NoWrite
  BY DEF Group
<1> QED
  BY <1>1, <1>2 DEF Coupled

\* SwitchMemtable keeps the entries and gives the old memtable its blocks.
LEMMA SwitchEffect ==
  ASSUME TableTypes, SwitchMemtable
  PROVE  /\ mem' = mem + 1 /\ mem \in Nat /\ mem + 1 \notin DOMAIN tables
         /\ mem \in DOMAIN tables /\ Group = {} /\ tables[mem].entries # {}
         /\ DOMAIN tables' = DOMAIN tables \cup {mem + 1}
         /\ tables'[mem + 1] = NewTable
         /\ tables'[mem].entries = tables[mem].entries
         /\ tables'[mem].blocks = arena_.blocks
         /\ \A m \in DOMAIN tables \ {mem} : tables'[m] = tables[m]
         /\ \A m \in DOMAIN tables : tables'[m].entries = tables[m].entries
         /\ imm' = <<mem>> \o imm
<1>0. /\ mem \in Nat /\ mem \in DOMAIN tables
      /\ DOMAIN tables \subseteq 0 .. mem
      /\ tables[mem] \in Table
  BY DEF TableTypes
<1>1. mem + 1 \notin DOMAIN tables
  BY <1>0
<1>2. /\ mem' = mem + 1 /\ Group = {} /\ tables[mem].entries # {}
      /\ tables' = [m \in DOMAIN tables \cup {mem + 1} |->
                     IF m = mem + 1 THEN NewTable
                     ELSE IF m = mem THEN [tables[m] EXCEPT
                                             !.blocks = arena_.blocks]
                     ELSE tables[m]]
      /\ imm' = <<mem>> \o imm
  BY DEF SwitchMemtable
<1>3. /\ DOMAIN tables' = DOMAIN tables \cup {mem + 1}
      /\ tables'[mem + 1] = NewTable
      /\ tables'[mem] = [tables[mem] EXCEPT !.blocks = arena_.blocks]
      /\ \A m \in DOMAIN tables \ {mem} : tables'[m] = tables[m]
  BY <1>0, <1>1, <1>2
<1>4. /\ tables'[mem].entries = tables[mem].entries
      /\ tables'[mem].blocks = arena_.blocks
  BY <1>0, <1>3 DEF Table
<1> QED
  BY <1>0, <1>1, <1>2, <1>3, <1>4

\* The arena of the old memtable, with all its blocks, is kept with it.
LEMMA SwitchStored ==
  ASSUME ArenaInv, Stored, WriterTypes, TableTypes, SwitchMemtable
  PROVE  ArenaInv' /\ Stored'
<1>0. /\ arena_' = NewArena /\ arena_allocated_and_unused_' = 0
      /\ shards_' = [c \in Cores |-> NewShard]
      /\ UNCHANGED <<arena_mutex_, tls_cpuid, call, live, allocs, top, exited,
                     writer, memory>>
  BY DEF SwitchMemtable
<1>1. /\ mem' = mem + 1 /\ mem \in Nat /\ mem + 1 \notin DOMAIN tables
      /\ mem \in DOMAIN tables /\ Group = {}
      /\ DOMAIN tables' = DOMAIN tables \cup {mem + 1}
      /\ tables'[mem + 1] = NewTable
      /\ tables'[mem].blocks = arena_.blocks
      /\ \A m \in DOMAIN tables \ {mem} : tables'[m] = tables[m]
      /\ \A m \in DOMAIN tables : tables'[m].entries = tables[m].entries
  BY SwitchEffect
<1>2. \A t \in Threads : call[t].pc = "idle" /\ writer[t].stage = "none"
  BY <1>1, NoGroup DEF Stored
<1>3. ArenaInv' /\ ArenaWithin'
  BY <1>0, <1>2, NewArenaKeeps
<1>4. tables'[mem + 1].entries = {}
  BY <1>1 DEF NewTable
<1>5. \A m \in DOMAIN tables' : \A e \in tables'[m].entries :
        m \in DOMAIN tables /\ e \in tables[m].entries
  BY <1>1, <1>4
<1>6. Coupled' /\ OwnedLive' /\ OwnedApart'
  <2>1. Coupled'
    BY <1>0 DEF Stored, Coupled
  <2>2. OwnedLive'
    BY <1>0, <1>2, <1>5 DEF Stored, OwnedLive, Done
  <2>3. OwnedApart'
    BY <1>0, <1>2, <1>5 DEF Stored, OwnedApart, Done
  <2> QED
    BY <2>1, <2>2, <2>3
<1>7. \A m \in DOMAIN tables : Blocks(m)' = Blocks(m)
  BY <1>1 DEF Blocks
<1>8. \A m \in DOMAIN tables' : m \notin DOMAIN tables => Blocks(m)' = {}
  <2>1. arena_'.blocks = {}
    BY <1>0 DEF NewArena
  <2> QED
    BY <1>1, <2>1 DEF Blocks
<1>9. EntriesWithin'
  <2> SUFFICES ASSUME NEW m \in DOMAIN tables', NEW e \in tables'[m].entries
               PROVE  Within(e.ptr, e.len, Blocks(m)')
    BY DEF EntriesWithin, Within
  <2> QED
    BY <1>5, <1>7 DEF Stored, EntriesWithin
<1>10. BlocksApart'
  <2>1. \A m \in DOMAIN tables' : \A b \in Blocks(m)' :
          m \in DOMAIN tables /\ b \in Blocks(m)
    BY <1>7, <1>8
  <2> QED
    BY <1>0, <2>1 DEF Stored, BlocksApart
<1>11. Contents'
  BY <1>0, <1>2, <1>5 DEF Stored, Contents, Holds
<1> QED
  BY <1>3, <1>6, <1>9, <1>10, <1>11 DEF Stored

\* Freeing the blocks of a memtable takes no word of another one.
LEMMA DeleteStored ==
  ASSUME ArenaInv, Stored, WriterTypes, TableTypes, NEW k \in DOMAIN tables,
         DeleteMemTable(k)
  PROVE  ArenaInv' /\ Stored'
<1>1. PICK freed :
        freed = UNION {b .. b + kBlockSize - 1 : b \in tables[k].blocks}
  OBVIOUS
<1>0. /\ k # mem
      /\ memory' = [a \in DOMAIN memory \ freed |-> memory[a]]
      /\ tables' = [n \in DOMAIN tables \ {k} |-> tables[n]]
      /\ UNCHANGED <<arenaVars, writer, mem>>
  BY <1>1 DEF DeleteMemTable
<1>u. UNCHANGED <<arena_, arena_mutex_, arena_allocated_and_unused_, shards_,
                  tls_cpuid, call, live, allocs, top, exited>>
  BY <1>0 DEF arenaVars
<1>2. /\ DOMAIN tables' = DOMAIN tables \ {k}
      /\ \A n \in DOMAIN tables \ {k} : tables'[n] = tables[n]
      /\ mem \in DOMAIN tables \ {k} /\ kBlockSize \in Nat
      /\ Blocks(k) = tables[k].blocks
  BY <1>0, ArenaAssumption DEF TableTypes, Blocks
<1>3. ASSUME NEW m \in DOMAIN tables, NEW b \in Blocks(m)
      PROVE  b \in Nat
  BY <1>3 DEF Blocks, ArenaInv, ArenaTypeOK, ArenaState, TableTypes, Table
<1>4. ASSUME NEW n \in DOMAIN tables \ {k}, NEW p \in Nat, NEW l \in Nat,
             NEW s, Within(p, l, Blocks(n)), Holds(p, l, s)
      PROVE  Holds(p, l, s)'
  <2> SUFFICES ASSUME NEW a \in p .. p + l - 1
               PROVE  a \in DOMAIN memory'
                      /\ memory'[a] = [seq |-> s, enc |-> TRUE]
    BY DEF Holds
  <2>1. a \in DOMAIN memory /\ memory[a] = [seq |-> s, enc |-> TRUE]
    BY <1>4 DEF Holds
  <2>2. ASSUME NEW d \in Blocks(k) PROVE a \notin d .. d + kBlockSize - 1
    <3>1. a \in Int /\ p <= a /\ a < p + l
      OBVIOUS
    <3>2. l # 0
      BY <3>1
    <3>3. PICK b \in Blocks(n) : b <= p /\ p + l <= b + kBlockSize
      BY <1>4, <3>2 DEF Within
    <3>4. b + kBlockSize <= d \/ d + kBlockSize <= b
      BY <3>3 DEF Stored, BlocksApart
    <3>5. b \in Nat /\ d \in Nat
      BY <1>3
    <3> QED
      BY <1>2, <3>1, <3>3, <3>4, <3>5
  <2>3. a \notin freed
    BY <1>1, <1>2, <2>2
  <2> QED
    BY <1>0, <2>1, <2>3
<1>5. \A c \in Cores : Free(c)' = Free(c)
  BY <1>u DEF Free
<1>6. ArenaInv'
  <2>1. ArenaTypeOK'
    BY <1>u DEF ArenaInv, ArenaTypeOK
  <2>2. MutexesHeld' /\ SizesFit'
    BY <1>u DEF ArenaInv, MutexesHeld, SizesFit, HoldsArena, HoldsShard
  <2>3. Ranges'
    BY <1>u, <1>5, RangesKept DEF ArenaInv, Ranges
  <2> QED
    BY <2>1, <2>2, <2>3 DEF ArenaInv, Ranges
<1>7. Coupled' /\ ArenaWithin'
  <2>1. Coupled'
    BY <1>0, <1>u DEF Stored, Coupled
  <2> QED
    BY <1>u, <1>5, <2>1, WithinKept DEF Stored
<1>8. OwnedLive' /\ OwnedApart'
  BY <1>0, <1>u, <1>2 DEF Stored, OwnedLive, OwnedApart, Done
<1>9. \A m \in DOMAIN tables \ {k} : Blocks(m)' = Blocks(m)
  BY <1>0, <1>u, <1>2 DEF Blocks
<1>10. EntriesWithin' /\ BlocksApart'
  BY <1>2, <1>u, <1>9 DEF Stored, EntriesWithin, BlocksApart, Within
<1>11. Contents'
  <2>1. ASSUME NEW m \in DOMAIN tables \ {k}, NEW e \in tables[m].entries
        PROVE  Holds(e.ptr, e.len, e.seq)'
    <3>1. /\ Holds(e.ptr, e.len, e.seq) /\ e.ptr \in Nat /\ e.len \in Nat
          /\ Within(e.ptr, e.len, Blocks(m))
      BY EntryRecord DEF Stored, Contents, EntriesWithin
    <3> QED
      BY <1>4, <3>1
  <2>2. ASSUME NEW t \in Threads, writer[t].stage = "sealed"
        PROVE  Holds(call[t].rv, writer[t].len, writer[t].seq)'
    <3>1. PICK p, l, s :
            p = call[t].rv /\ l = writer[t].len /\ s = writer[t].seq
      OBVIOUS
    <3>2. p \in Nat /\ l \in Nat
      BY <2>2, <3>1, CallRecord, WriterRecord DEF ArenaInv
    <3>3. call[t].pc = "done" /\ call[t].bytes = l
      BY <2>2, <3>1 DEF Stored, Coupled
    <3>4. Within(p, l, Blocks(mem)) /\ Holds(p, l, s)
      BY <2>2, <3>1, <3>3 DEF Stored, Contents, ArenaWithin, Done, Blocks
    <3>5. Holds(p, l, s)'
      BY <1>2, <1>4, <3>2, <3>4
    <3> QED
      BY <1>0, <1>u, <3>1, <3>5 DEF Holds
  <2> QED
    BY <1>0, <1>2, <2>1, <2>2 DEF Contents
<1> QED
  BY <1>6, <1>7, <1>8, <1>10, <1>11 DEF Stored

-----------------------------------------------------------------------------
(* The writes *)

Known == WritesKnown /\ GroupKnown /\ EntriesKnown /\ TablesOrdered

\* A group of writers is finite, so that it can be counted.
LEMMA GroupCounted ==
  ASSUME NEW W \in SUBSET Threads
  PROVE  IsFiniteSet(W) /\ Cardinality(W) \in Nat
BY MemValuesAssumption, FS_Subset, FS_CardinalityType

\* The leader gives every writer of the group a number of its own, above
\* last_sequence.
LEMMA JoinEffect ==
  ASSUME WriterTypes, JoinBatchGroup
  PROVE  \E W \in SUBSET Threads :
           /\ Group = {} /\ Cardinality(W) \in Nat
           /\ \A t \in W :
                /\ writer'[t] \in Writing /\ writer'[t].stage = "assigned"
                /\ WriteOf(writer'[t]) \in Written
                /\ writer'[t].type = "kTypeValue" => writer'[t].len # 0
                /\ writer'[t].seq \in Nat /\ last_sequence < writer'[t].seq
                /\ writer'[t].seq <= last_sequence + Cardinality(W)
           /\ \A t \in Threads \ W : writer'[t] = NoWrite
           /\ \A t, u \in W : t # u => writer'[t].seq # writer'[u].seq
           /\ written' = written \cup {WriteOf(writer'[t]) : t \in W}
           /\ writer' \in [Threads -> Writing \cup {NoWrite}]
<1>1. PICK W \in SUBSET Threads \ {{}} :
        \E batch \in [W -> Batches],
           seq \in Bijection(W, last_sequence + 1
                                  .. last_sequence + Cardinality(W)) :
          /\ writer' = [t \in Threads |->
                          IF t \in W
                          THEN [stage |-> "assigned", key |-> batch[t].key,
                                type |-> batch[t].type,
                                len |-> batch[t].len, seq |-> seq[t]]
                          ELSE NoWrite]
          /\ written' = written \cup
               {[key |-> batch[t].key, type |-> batch[t].type,
                 len |-> batch[t].len, seq |-> seq[t]] : t \in W}
  BY DEF JoinBatchGroup
<1>2. PICK batch \in [W -> Batches],
           seq \in Bijection(W, last_sequence + 1
                                  .. last_sequence + Cardinality(W)) :
          /\ writer' = [t \in Threads |->
                          IF t \in W
                          THEN [stage |-> "assigned", key |-> batch[t].key,
                                type |-> batch[t].type,
                                len |-> batch[t].len, seq |-> seq[t]]
                          ELSE NoWrite]
          /\ written' = written \cup
               {[key |-> batch[t].key, type |-> batch[t].type,
                 len |-> batch[t].len, seq |-> seq[t]] : t \in W}
  BY <1>1
<1>3. W \in SUBSET Threads /\ Group = {} /\ last_sequence \in Nat
  BY DEF JoinBatchGroup, WriterTypes
<1>4. Cardinality(W) \in Nat
  BY <1>3, GroupCounted
<1>5. /\ seq \in [W -> last_sequence + 1 .. last_sequence + Cardinality(W)]
      /\ \A t, u \in W : seq[t] = seq[u] => t = u
  <2>1. seq \in Injection(W, last_sequence + 1
                               .. last_sequence + Cardinality(W))
    BY DEF Bijection
  <2>2. /\ seq \in [W -> last_sequence + 1 .. last_sequence + Cardinality(W)]
        /\ IsInjective(seq)
    BY <2>1 DEF Injection
  <2> QED
    BY <2>2 DEF IsInjective
<1>6. ASSUME NEW t \in W
      PROVE  /\ seq[t] \in Nat /\ last_sequence < seq[t]
             /\ seq[t] <= last_sequence + Cardinality(W)
  <2>1. seq[t] \in last_sequence + 1 .. last_sequence + Cardinality(W)
    BY <1>5
  <2> QED
    BY <1>3, <1>4, <2>1
<1>7. ASSUME NEW t \in W
      PROVE  /\ batch[t].key \in UserKeys /\ batch[t].type \in Types
             /\ batch[t].len \in Nat
             /\ batch[t].type = "kTypeValue" => batch[t].len # 0
  <2>1. batch[t] \in Batches
    OBVIOUS
  <2>2. Sizes \subseteq Nat
    BY ArenaAssumption
  <2>3. CASE batch[t] \in [key : UserKeys, type : {"kTypeValue"},
                           len : Sizes \ {0}]
    <3>1. /\ batch[t].key \in UserKeys /\ batch[t].type = "kTypeValue"
          /\ batch[t].len \in Sizes \ {0}
      BY <2>3
    <3> QED
      BY <2>2, <3>1 DEF Types
  <2>4. CASE batch[t] \in [key : UserKeys, type : {"kTypeDeletion"}, len : {0}]
    <3>1. /\ batch[t].key \in UserKeys /\ batch[t].type = "kTypeDeletion"
          /\ batch[t].len = 0
      BY <2>4
    <3> QED
      BY <3>1 DEF Types
  <2> QED
    BY <2>1, <2>3, <2>4 DEF Batches
<1>8. ASSUME NEW t \in W
      PROVE  writer'[t] = [stage |-> "assigned", key |-> batch[t].key,
                           type |-> batch[t].type, len |-> batch[t].len,
                           seq |-> seq[t]]
  BY <1>2, <1>3
<1>9. ASSUME NEW t \in W
      PROVE  /\ writer'[t].key = batch[t].key /\ writer'[t].seq = seq[t]
             /\ writer'[t].type = batch[t].type
             /\ writer'[t].len = batch[t].len
             /\ writer'[t].stage = "assigned"
  <2>0. PICK k, y, n, q : k = batch[t].key /\ y = batch[t].type
                          /\ n = batch[t].len /\ q = seq[t]
    OBVIOUS
  <2>1. writer'[t] = [stage |-> "assigned", key |-> k, type |-> y, len |-> n,
                      seq |-> q]
    BY <1>8, <2>0
  <2> QED
    BY <2>0, <2>1
<1>w. ASSUME NEW t \in W
      PROVE  WriteOf(writer'[t]) = [key |-> batch[t].key,
                                    type |-> batch[t].type,
                                    len |-> batch[t].len, seq |-> seq[t]]
  <2>1. WriteOf(writer'[t]) = [key |-> writer'[t].key,
                               type |-> writer'[t].type,
                               len |-> writer'[t].len, seq |-> writer'[t].seq]
    BY DEF WriteOf
  <2> QED
    BY <1>9, <2>1
<1>10. ASSUME NEW t \in W
       PROVE  writer'[t] \in Writing /\ WriteOf(writer'[t]) \in Written
  <2>0. PICK k, y, n, q : k = batch[t].key /\ y = batch[t].type
                          /\ n = batch[t].len /\ q = seq[t]
    OBVIOUS
  <2>3. writer'[t] = [stage |-> "assigned", key |-> k, type |-> y, len |-> n,
                      seq |-> q]
    BY <1>8, <2>0
  <2>1. writer'[t] \in Writing
    <3>1. /\ k \in UserKeys /\ y \in Types /\ n \in Nat /\ q \in Nat
      BY <1>6, <1>7, <2>0
    <3> QED
      BY <2>3, <3>1 DEF Writing
  <2>2. [key |-> batch[t].key, type |-> batch[t].type,
         len |-> batch[t].len, seq |-> seq[t]] \in Written
    BY <1>6, <1>7 DEF Written
  <2> QED
    BY <1>w, <2>1, <2>2
<1>11. \A t \in Threads \ W : writer'[t] = NoWrite
  BY <1>2
<1>12. writer' \in [Threads -> Writing \cup {NoWrite}]
  <2>1. \A t \in Threads : writer'[t] \in Writing \cup {NoWrite}
    BY <1>10, <1>11
  <2> QED
    BY <1>2, <2>1
<1>13. written' = written \cup {WriteOf(writer'[t]) : t \in W}
  BY <1>2, <1>w
<1>14. \A t, u \in W : t # u => writer'[t].seq # writer'[u].seq
  <2> SUFFICES ASSUME NEW t \in W, NEW u \in W, t # u
               PROVE  writer'[t].seq # writer'[u].seq
    OBVIOUS
  <2>1. seq[t] # seq[u]
    BY <1>5
  <2>2. writer'[t].seq = seq[t] /\ writer'[u].seq = seq[u]
    BY <1>9
  <2> QED
    BY <2>1, <2>2
<1>15. \A t \in W :
         /\ writer'[t] \in Writing /\ writer'[t].stage = "assigned"
         /\ WriteOf(writer'[t]) \in Written
         /\ writer'[t].type = "kTypeValue" => writer'[t].len # 0
         /\ writer'[t].seq \in Nat /\ last_sequence < writer'[t].seq
         /\ writer'[t].seq <= last_sequence + Cardinality(W)
  BY <1>6, <1>7, <1>9, <1>10
<1> QED
  BY <1>3, <1>4, <1>11, <1>12, <1>13, <1>14, <1>15

\* Without a group every write and every entry is published.
LEMMA Published ==
  ASSUME WriterTypes, TableTypes, Known, Group = {}
  PROVE  /\ \A w \in written : w.seq \in Nat /\ w.seq <= last_sequence
         /\ \A m \in DOMAIN tables : \A e \in tables[m].entries :
              e.seq \in Nat /\ e.seq <= last_sequence
<1>0. last_sequence \in Nat
  BY DEF WriterTypes
<1>1. ASSUME NEW w \in written PROVE w.seq \in Nat /\ w.seq <= last_sequence
  <2>1. w.seq \in Nat
    BY DEF WriterTypes, Written
  <2>2. ~(last_sequence < w.seq)
    BY DEF Known, WritesKnown
  <2> QED
    BY <1>0, <2>1, <2>2
<1>2. ASSUME NEW m \in DOMAIN tables, NEW e \in tables[m].entries
      PROVE  e.seq \in Nat /\ e.seq <= last_sequence
  <2>1. e.seq \in Nat
    BY EntryRecord
  <2>2. \A t \in Threads : writer[t].stage # "inserted"
    BY WriterRecord
  <2>3. ~(last_sequence < e.seq)
    BY <2>2 DEF Known, EntriesKnown
  <2> QED
    BY <1>0, <2>1, <2>3
<1> QED
  BY <1>1, <1>2

\* The fields of a write have their types.
LEMMA WriteNumbers ==
  ASSUME WriterTypes, NEW w \in written
  PROVE  /\ w.seq \in Nat /\ w.key \in UserKeys /\ w.type \in Types
         /\ w.len \in Nat /\ WriteOf(w) = w /\ last_sequence \in Nat
BY DEF WriterTypes, Written, WriteOf

\* The new writes are those of the group.
LEMMA JoinKnown ==
  ASSUME WriterTypes, TableTypes, Known, JoinBatchGroup
  PROVE  Known'
<1>1. PICK W \in SUBSET Threads :
        /\ Group = {} /\ Cardinality(W) \in Nat
        /\ \A t \in W :
             /\ writer'[t] \in Writing /\ writer'[t].stage = "assigned"
             /\ WriteOf(writer'[t]) \in Written
             /\ writer'[t].type = "kTypeValue" => writer'[t].len # 0
             /\ writer'[t].seq \in Nat /\ last_sequence < writer'[t].seq
             /\ writer'[t].seq <= last_sequence + Cardinality(W)
        /\ \A t \in Threads \ W : writer'[t] = NoWrite
        /\ \A t, u \in W : t # u => writer'[t].seq # writer'[u].seq
        /\ written' = written \cup {WriteOf(writer'[t]) : t \in W}
  BY JoinEffect
<1>2. /\ UNCHANGED <<last_sequence, tables, mem>> /\ last_sequence \in Nat
  BY DEF JoinBatchGroup, WriterTypes
<1>3. Group' = W
  <2>1. \A t \in W : writer'[t] # NoWrite
    BY <1>1 DEF NoWrite
  <2> QED
    BY <1>1, <2>1 DEF Group
<1>4. /\ \A w \in written : w.seq \in Nat /\ w.seq <= last_sequence
      /\ \A m \in DOMAIN tables : \A e \in tables[m].entries :
           e.seq \in Nat /\ e.seq <= last_sequence
  BY <1>1, Published
<1>5. ASSUME NEW t \in W
      PROVE  /\ WriteOf(writer'[t]).seq = writer'[t].seq
             /\ WriteOf(writer'[t]).type = writer'[t].type
             /\ WriteOf(writer'[t]).len = writer'[t].len
  BY DEF WriteOf
<1>6. WritesKnown'
  <2>1. ASSUME NEW w \in written'
        PROVE  w \in written \/ \E t \in W : w = WriteOf(writer'[t])
    BY <1>1
  <2>2. ASSUME NEW w \in written'
        PROVE  /\ w.type = "kTypeValue" => w.len # 0
               /\ 0 < w.seq
               /\ last_sequence < w.seq => \E t \in W : writer'[t].seq = w.seq
    <3>1. CASE w \in written
      <4>1. w.seq \in Nat /\ w.seq <= last_sequence
        BY <1>4, <3>1
      <4>2. (w.type = "kTypeValue" => w.len # 0) /\ 0 < w.seq
        BY <3>1 DEF Known, WritesKnown
      <4> QED
        BY <1>2, <4>1, <4>2
    <3>2. CASE \E t \in W : w = WriteOf(writer'[t])
      <4>1. PICK t \in W : w = WriteOf(writer'[t])
        BY <3>2
      <4>2. w.seq = writer'[t].seq /\ w.type = writer'[t].type
            /\ w.len = writer'[t].len
        BY <1>5, <4>1
      <4>3. writer'[t].seq \in Nat /\ last_sequence < writer'[t].seq
            /\ (writer'[t].type = "kTypeValue" => writer'[t].len # 0)
        BY <1>1
      <4> QED
        BY <1>2, <4>2, <4>3
    <3> QED
      BY <2>1, <3>1, <3>2
  <2>3. ASSUME NEW v \in written', NEW w \in written', v.seq = w.seq
        PROVE  v = w
    <3>0. ASSUME NEW x \in written' , x \notin written
          PROVE  \E t \in W : /\ x = WriteOf(writer'[t])
                              /\ x.seq = writer'[t].seq
                              /\ x.seq \in Nat /\ last_sequence < x.seq
      BY <1>1, <1>5, <2>1, <3>0
    <3>1. CASE v \in written /\ w \in written
      BY <2>3, <3>1 DEF Known, WritesKnown
    <3>2. CASE v \in written /\ w \notin written
      BY <1>2, <1>4, <2>3, <3>0, <3>2
    <3>3. CASE v \notin written /\ w \in written
      BY <1>2, <1>4, <2>3, <3>0, <3>3
    <3>4. CASE v \notin written /\ w \notin written
      BY <1>1, <2>3, <3>0, <3>4
    <3> QED
      BY <3>1, <3>2, <3>3, <3>4
  <2> QED
    BY <1>2, <1>3, <2>2, <2>3 DEF WritesKnown
<1>7. GroupKnown'
  <2>1. \A t \in W : /\ WriteOf(writer'[t]) \in written'
                     /\ last_sequence < writer'[t].seq
                     /\ writer'[t].seq <= last_sequence + Cardinality(W)
    BY <1>1
  <2>2. \A t \in Threads : writer'[t].stage # "inserted"
    BY <1>1 DEF NoWrite
  <2>3. \A t \in W : WriteOf(writer[t])' = WriteOf(writer'[t])
    BY DEF WriteOf
  <2> QED
    BY <1>1, <1>2, <1>3, <2>1, <2>2, <2>3 DEF GroupKnown
<1>8. EntriesKnown'
  <2> SUFFICES ASSUME NEW m \in DOMAIN tables, NEW e \in tables[m].entries
               PROVE  WriteOf(e) \in written' /\ ~(last_sequence < e.seq)
    BY <1>2 DEF EntriesKnown
  <2>1. WriteOf(e) \in written
    BY DEF Known, EntriesKnown
  <2>2. e.seq \in Nat /\ e.seq <= last_sequence
    BY <1>4
  <2> QED
    BY <1>1, <1>2, <2>1, <2>2
<1>9. TablesOrdered'
  BY <1>2 DEF Known, TablesOrdered
<1> QED
  BY <1>6, <1>7, <1>8, <1>9 DEF Known

\* A writer goes on: its write stays what it is.
LEMMA StageKnown ==
  ASSUME WriterTypes, TableTypes, Known, NEW t \in Threads,
         NEW to \in {"allocating", "sealed"},
         writer[t].stage \in {"assigned", "allocating"},
         writer' = [writer EXCEPT ![t].stage = to],
         UNCHANGED <<last_sequence, tables, mem, written>>
  PROVE  Known' /\ WriterTypes'
<1>1. /\ writer[t] \in Writing /\ t \in Group
      /\ writer \in [Threads -> Writing \cup {NoWrite}]
  BY WriterRecord DEF WriterTypes
<1>2. [writer[t] EXCEPT !.stage = to] \in Writing
  BY <1>1 DEF Writing
<1>3. /\ writer'[t] = [writer[t] EXCEPT !.stage = to]
      /\ \A u \in Threads \ {t} : writer'[u] = writer[u]
      /\ writer' \in [Threads -> Writing \cup {NoWrite}]
  BY <1>1, <1>2
<1>4. /\ writer'[t].stage = to /\ writer'[t].seq = writer[t].seq
      /\ writer'[t].key = writer[t].key /\ writer'[t].type = writer[t].type
      /\ writer'[t].len = writer[t].len /\ writer'[t] # NoWrite
  <2>1. /\ writer'[t].stage = to /\ writer'[t].seq = writer[t].seq
        /\ writer'[t].key = writer[t].key /\ writer'[t].type = writer[t].type
        /\ writer'[t].len = writer[t].len
    BY <1>1, <1>3 DEF Writing
  <2> QED
    BY <2>1 DEF NoWrite
<1>5. Group' = Group
  BY <1>1, <1>3, <1>4 DEF Group
<1>6. /\ \A u \in Group : /\ writer'[u].seq = writer[u].seq
                          /\ WriteOf(writer[u])' = WriteOf(writer[u])
      /\ \A u \in Threads : /\ writer'[u].stage = "inserted"
                                <=> writer[u].stage = "inserted"
                            /\ writer'[u].stage = "inserted"
                                => writer'[u].seq = writer[u].seq
  BY <1>3, <1>4 DEF WriteOf, Group
<1>7. WritesKnown'
  BY <1>5, <1>6 DEF Known, WritesKnown
<1>8. GroupKnown'
  <2>1. \A u \in Group : /\ WriteOf(writer[u])' \in written
                         /\ last_sequence < writer'[u].seq
                         /\ writer'[u].seq <= last_sequence + Cardinality(Group)
    BY <1>6 DEF Known, GroupKnown
  <2>2. \A u, v \in Group : u # v => writer'[u].seq # writer'[v].seq
    BY <1>6 DEF Known, GroupKnown
  <2>3. \A u \in Threads : writer'[u].stage = "inserted"
          => \E e \in tables[mem].entries : e.seq = writer'[u].seq
    BY <1>6 DEF Known, GroupKnown
  <2> QED
    BY <1>5, <2>1, <2>2, <2>3 DEF GroupKnown
<1>9. EntriesKnown'
  <2>1. \A e : WriteOf(e)' = WriteOf(e)
    BY DEF WriteOf
  <2> QED
    BY <1>6, <2>1 DEF Known, EntriesKnown
<1>10. TablesOrdered'
  BY DEF Known, TablesOrdered
<1> QED
  BY <1>3, <1>7, <1>8, <1>9, <1>10 DEF Known, WriterTypes

\* Steps that neither write nor publish leave the numbers alone.
LEMMA KnownKept ==
  ASSUME Known, UNCHANGED <<writer, last_sequence, tables, mem, written>>
  PROVE  Known'
<1>1. Group' = Group
  BY DEF Group
<1>2. \A e : WriteOf(e)' = WriteOf(e)
  BY DEF WriteOf
<1>3. WritesKnown' /\ TablesOrdered'
  BY <1>1 DEF Known, WritesKnown, TablesOrdered
<1>4. GroupKnown'
  BY <1>1 DEF Known, GroupKnown, WriteOf
<1>5. EntriesKnown'
  BY DEF Known, EntriesKnown, WriteOf
<1> QED
  BY <1>3, <1>4, <1>5 DEF Known

\* The inserted entry is a write of the group, newer than all published ones.
LEMMA AddInsertKnown ==
  ASSUME ArenaInv, WriterTypes, TableTypes, Coupled, Known,
         NEW t \in Threads, AddInsert(t)
  PROVE  Known'
<1>1. /\ writer[t].stage = "sealed"
      /\ writer'[t].stage = "inserted" /\ writer'[t].seq = writer[t].seq
      /\ writer'[t].key = writer[t].key /\ writer'[t].type = writer[t].type
      /\ writer'[t].len = writer[t].len
      /\ \A u \in Threads \ {t} : writer'[u] = writer[u]
      /\ DOMAIN tables' = DOMAIN tables
      /\ \A m \in DOMAIN tables \ {mem} : tables'[m] = tables[m]
      /\ tables'[mem].entries = tables[mem].entries \cup {NewEntry(t)}
      /\ UNCHANGED mem
  BY AddInsertEffect
<1>2. UNCHANGED <<last_sequence, written>> /\ last_sequence \in Nat
      /\ mem \in DOMAIN tables /\ mem \in Nat
      /\ DOMAIN tables \subseteq 0 .. mem
  BY DEF AddInsert, WriterTypes, TableTypes
<1>3. t \in Group /\ writer[t].seq \in Nat
  BY <1>1, WriterRecord
<1>4. Group' = Group
  <2>1. writer'[t] # NoWrite
    BY <1>1 DEF NoWrite
  <2> QED
    BY <1>1, <1>3, <2>1 DEF Group
<1>5. PICK n : n = NewEntry(t)
  OBVIOUS
<1>6. n.seq = writer[t].seq /\ WriteOf(n) = WriteOf(writer[t])
  BY <1>5 DEF NewEntry, WriteOf
<1>7. ASSUME NEW m \in DOMAIN tables, NEW e \in tables'[m].entries
      PROVE  e \in tables[m].entries \/ (m = mem /\ e = n)
  BY <1>5, InsertedEntries
<1>8. \A u \in Group : /\ writer'[u].seq = writer[u].seq
                       /\ WriteOf(writer'[u]) = WriteOf(writer[u])
  BY <1>1 DEF WriteOf, Group
<1>9. n \in tables'[mem].entries
      /\ \A m \in DOMAIN tables : tables[m].entries \subseteq tables'[m].entries
  BY <1>1, <1>5
<1>10. WritesKnown'
  BY <1>2, <1>4, <1>8 DEF Known, WritesKnown
<1>11. GroupKnown'
  <2>1. \A u \in Group : /\ WriteOf(writer'[u]) \in written
                         /\ last_sequence < writer'[u].seq
                         /\ writer'[u].seq <= last_sequence + Cardinality(Group)
    BY <1>8 DEF Known, GroupKnown
  <2>2. \A u, v \in Group : u # v => writer'[u].seq # writer'[v].seq
    BY <1>8 DEF Known, GroupKnown
  <2>3. ASSUME NEW u \in Threads, writer'[u].stage = "inserted"
        PROVE  \E e \in tables'[mem].entries : e.seq = writer'[u].seq
    <3>1. CASE u = t
      BY <1>1, <1>6, <1>9, <3>1
    <3>2. CASE u # t
      <4>1. writer'[u] = writer[u]
        BY <1>1, <3>2
      <4>2. PICK e \in tables[mem].entries : e.seq = writer[u].seq
        BY <2>3, <4>1 DEF Known, GroupKnown
      <4> QED
        BY <1>2, <1>9, <4>1, <4>2
    <3> QED
      BY <3>1, <3>2
  <2>4. \A u \in Group : WriteOf(writer[u])' = WriteOf(writer'[u])
    BY DEF WriteOf
  <2> QED
    BY <1>1, <1>2, <1>4, <2>1, <2>2, <2>3, <2>4 DEF GroupKnown
<1>12. EntriesKnown'
  <2> SUFFICES ASSUME NEW m \in DOMAIN tables, NEW e \in tables'[m].entries
               PROVE  /\ WriteOf(e) \in written
                      /\ last_sequence < e.seq =>
                           m = mem /\ \E u \in Threads :
                                        /\ writer'[u].stage = "inserted"
                                        /\ writer'[u].seq = e.seq
    BY <1>1, <1>2 DEF EntriesKnown, WriteOf
  <2>1. CASE e \in tables[m].entries
    <3>1. /\ WriteOf(e) \in written
          /\ last_sequence < e.seq =>
               m = mem /\ \E u \in Threads : /\ writer[u].stage = "inserted"
                                             /\ writer[u].seq = e.seq
      BY <2>1 DEF Known, EntriesKnown
    <3>2. \A u \in Threads : writer[u].stage = "inserted"
                               => writer'[u] = writer[u]
      BY <1>1
    <3> QED
      BY <3>1, <3>2
  <2>2. CASE m = mem /\ e = n
    <3>1. WriteOf(n) \in written
      BY <1>3, <1>6 DEF Known, GroupKnown
    <3> QED
      BY <1>1, <1>6, <2>2, <3>1
  <2> QED
    BY <1>7, <2>1, <2>2
<1>13. TablesOrdered'
  <2> SUFFICES ASSUME NEW m \in DOMAIN tables, NEW k \in DOMAIN tables, m < k,
                      NEW e \in tables'[m].entries,
                      NEW f \in tables'[k].entries
               PROVE  e.seq < f.seq
    BY <1>1 DEF TablesOrdered
  <2>1. m \in Nat /\ k \in Nat /\ k <= mem
    BY <1>2
  <2>2. m # mem
    BY <1>2, <2>1
  <2>3. e \in tables[m].entries
    BY <1>7, <2>2
  <2>4. CASE f \in tables[k].entries
    BY <2>3, <2>4 DEF Known, TablesOrdered
  <2>5. CASE f = n
    <3>1. ~(last_sequence < e.seq) /\ e.seq \in Nat
      BY <2>2, <2>3, EntryRecord DEF Known, EntriesKnown
    <3>2. last_sequence < n.seq
      BY <1>3, <1>6 DEF Known, GroupKnown
    <3> QED
      BY <1>2, <1>3, <1>6, <2>5, <3>1, <3>2
  <2> QED
    BY <1>7, <2>4, <2>5
<1> QED
  BY <1>10, <1>11, <1>12, <1>13 DEF Known

\* The group publishes all its numbers.
LEMMA CompleteKnown ==
  ASSUME WriterTypes, TableTypes, Known, CompleteParallelMemTableWriter
  PROVE  /\ Known' /\ last_sequence' \in Nat /\ last_sequence <= last_sequence'
         /\ writer' \in [Threads -> Writing \cup {NoWrite}]
         /\ \A t \in Threads : writer'[t] = NoWrite
         /\ \A w \in written : last_sequence < w.seq =>
              \E e \in tables[mem].entries : e.seq = w.seq
<1>0. /\ \A t \in Group : writer[t].stage = "inserted"
      /\ last_sequence' = last_sequence + Cardinality(Group)
      /\ writer' = [t \in Threads |-> NoWrite]
      /\ UNCHANGED <<tables, mem, written>>
  BY DEF CompleteParallelMemTableWriter
<1>1. Cardinality(Group) \in Nat /\ last_sequence \in Nat
  BY GroupCounted DEF Group, WriterTypes
<1>2. last_sequence' \in Nat /\ last_sequence <= last_sequence'
  BY <1>0, <1>1
<1>3. Group' = {} /\ \A t \in Threads : writer'[t] = NoWrite
  BY <1>0 DEF Group
<1>4. ASSUME NEW w \in written PROVE w.seq \in Nat /\ w.seq <= last_sequence'
  <2>1. w.seq \in Nat
    BY WriteNumbers
  <2>2. CASE last_sequence < w.seq
    <3>1. PICK t \in Group : writer[t].seq = w.seq
      BY <2>2 DEF Known, WritesKnown
    <3>2. writer[t].seq <= last_sequence + Cardinality(Group)
      BY DEF Known, GroupKnown
    <3> QED
      BY <1>0, <2>1, <3>1, <3>2
  <2>3. CASE ~(last_sequence < w.seq)
    BY <1>1, <1>2, <2>1, <2>3
  <2> QED
    BY <2>2, <2>3
<1>5. ASSUME NEW w \in written, last_sequence < w.seq
      PROVE  \E e \in tables[mem].entries : e.seq = w.seq
  <2>1. PICK t \in Group : writer[t].seq = w.seq
    BY <1>5 DEF Known, WritesKnown
  <2>2. t \in Threads /\ writer[t].stage = "inserted"
    BY <1>0 DEF Group
  <2> QED
    BY <2>1, <2>2 DEF Known, GroupKnown
<1>6. WritesKnown'
  <2>1. \A w \in written : ~(last_sequence' < w.seq)
    BY <1>2, <1>4
  <2> QED
    BY <1>0, <2>1 DEF Known, WritesKnown
<1>7. GroupKnown'
  BY <1>3 DEF GroupKnown, NoWrite
<1>8. EntriesKnown'
  <2> SUFFICES ASSUME NEW m \in DOMAIN tables, NEW e \in tables[m].entries
               PROVE  WriteOf(e) \in written /\ ~(last_sequence' < e.seq)
    BY <1>0 DEF EntriesKnown, WriteOf
  <2>1. WriteOf(e) \in written
    BY DEF Known, EntriesKnown
  <2>2. WriteOf(e).seq = e.seq
    BY DEF WriteOf
  <2>3. e.seq \in Nat /\ e.seq <= last_sequence'
    BY <1>4, <2>1, <2>2
  <2> QED
    BY <1>2, <2>1, <2>3
<1>9. TablesOrdered'
  BY <1>0 DEF Known, TablesOrdered
<1>10. writer' \in [Threads -> Writing \cup {NoWrite}]
  BY <1>0
<1> QED
  BY <1>2, <1>3, <1>5, <1>6, <1>7, <1>8, <1>9, <1>10 DEF Known

\* Memtables are ordered by age: the new one has no entry yet.
LEMMA SwitchKnown ==
  ASSUME WriterTypes, TableTypes, Coupled, Known, SwitchMemtable
  PROVE  Known'
<1>1. /\ mem' = mem + 1 /\ mem \in Nat /\ mem + 1 \notin DOMAIN tables
      /\ mem \in DOMAIN tables /\ Group = {}
      /\ DOMAIN tables' = DOMAIN tables \cup {mem + 1}
      /\ tables'[mem + 1] = NewTable
      /\ \A m \in DOMAIN tables : tables'[m].entries = tables[m].entries
  BY SwitchEffect
<1>2. UNCHANGED <<writer, last_sequence, written>> /\ Group' = Group
      /\ last_sequence \in Nat
  BY DEF SwitchMemtable, Group, WriterTypes
<1>3. \A m \in DOMAIN tables' : \A e \in tables'[m].entries :
        m \in DOMAIN tables /\ e \in tables[m].entries
  BY <1>1 DEF NewTable
<1>4. \A m \in DOMAIN tables : \A e \in tables[m].entries :
        e.seq \in Nat /\ e.seq <= last_sequence
  BY <1>1, Published
<1>5. \A t \in Threads : writer'[t].stage = "none"
  BY <1>1, <1>2, NoGroup
<1>6. WritesKnown'
  BY <1>2 DEF Known, WritesKnown
<1>7. GroupKnown'
  BY <1>1, <1>2, <1>5 DEF GroupKnown
<1>8. EntriesKnown'
  <2> SUFFICES ASSUME NEW m \in DOMAIN tables', NEW e \in tables'[m].entries
               PROVE  WriteOf(e) \in written /\ ~(last_sequence < e.seq)
    BY <1>2 DEF EntriesKnown, WriteOf
  <2>1. m \in DOMAIN tables /\ e \in tables[m].entries
    BY <1>3
  <2>2. WriteOf(e) \in written
    BY <2>1 DEF Known, EntriesKnown
  <2>3. e.seq \in Nat /\ e.seq <= last_sequence
    BY <1>4, <2>1
  <2> QED
    BY <1>2, <2>2, <2>3
<1>9. TablesOrdered'
  BY <1>3 DEF Known, TablesOrdered
<1> QED
  BY <1>6, <1>7, <1>8, <1>9 DEF Known

\* What is left when a memtable is deleted is as it was.
LEMMA DeleteKnown ==
  ASSUME TableTypes, Known, NEW k \in DOMAIN tables, DeleteMemTable(k)
  PROVE  Known'
<1>1. /\ k # mem /\ UNCHANGED <<writer, last_sequence, written, mem>>
      /\ DOMAIN tables' = DOMAIN tables \ {k}
      /\ \A n \in DOMAIN tables \ {k} : tables'[n] = tables[n]
      /\ mem \in DOMAIN tables
  BY DEF DeleteMemTable, TableTypes
<1>2. Group' = Group /\ tables'[mem] = tables[mem]
  BY <1>1 DEF Group
<1>3. WritesKnown'
  BY <1>1, <1>2 DEF Known, WritesKnown
<1>4. GroupKnown'
  BY <1>1, <1>2 DEF Known, GroupKnown, WriteOf
<1>5. EntriesKnown'
  BY <1>1, <1>2 DEF Known, EntriesKnown, WriteOf
<1>6. TablesOrdered'
  BY <1>1 DEF Known, TablesOrdered
<1> QED
  BY <1>3, <1>4, <1>5, <1>6 DEF Known

-----------------------------------------------------------------------------
(* What readers go through *)

\* A set of naturals has a least one.
LEMMA LeastNumber ==
  ASSUME NEW S, S \subseteq Nat, S # {}
  PROVE  \E x \in S : \A y \in S : x <= y
<1> DEFINE R == {ss \in Nat \X Nat : ss[1] < ss[2]}
<1>1. IsWellFoundedOn(R, Nat)
  BY NatLessThanWellFounded DEF OpToRel
<1>2. \A x, y \in Nat : x < y => <<x, y>> \in R
  OBVIOUS
<1> HIDE DEF R
<1>3. PICK x \in S : \A y \in S : <<y, x>> \notin R
  BY <1>1, WFMin
<1>4. ASSUME NEW y \in S PROVE x <= y
  <2>1. x \in Nat /\ y \in Nat
    OBVIOUS
  <2>2. ~(y < x)
    BY <1>2, <1>3, <2>1
  <2> QED
    BY <2>1, <2>2
<1> QED
  BY <1>3, <1>4

\* Entries of a key have a newest one.
LEMMA NewestExists ==
  ASSUME NEW E, NEW key, NEW b \in Nat, \A e \in E : e.seq \in Nat,
         NEW e0 \in E, e0.key = key, e0.seq <= b
  PROVE  \E n \in Newest(E, key, b) : e0.seq <= n.seq
<1> DEFINE C == {e \in E : e.key = key /\ e.seq <= b}
           D == {b - e.seq : e \in C}
<1>1. D \subseteq Nat /\ D # {}
  <2>1. \A e \in C : b - e.seq \in Nat
    OBVIOUS
  <2>2. b - e0.seq \in D
    OBVIOUS
  <2> QED
    BY <2>1, <2>2
<1>2. PICK d \in D : \A y \in D : d <= y
  <2> HIDE DEF D
  <2> QED
    BY <1>1, LeastNumber
<1>3. PICK n \in C : d = b - n.seq
  OBVIOUS
<1>4. ASSUME NEW f \in C PROVE f.seq <= n.seq
  <2>1. b - n.seq <= b - f.seq
    BY <1>2, <1>3
  <2>2. f.seq \in Nat /\ n.seq \in Nat
    OBVIOUS
  <2> QED
    BY <2>1, <2>2
<1>5. n \in Newest(E, key, b)
  BY <1>4 DEF Newest
<1>6. e0.seq <= n.seq
  BY <1>4
<1> QED
  BY <1>5, <1>6

\* What is at which place of a list with a new head.
LEMMA ConsList ==
  ASSUME NEW S, NEW m \in S, NEW s \in Seq(S), NEW l, l = <<m>> \o s
  PROVE  /\ l \in Seq(S) /\ Len(l) = Len(s) + 1 /\ Len(s) \in Nat
         /\ DOMAIN l = 1 .. Len(s) + 1 /\ l[1] = m /\ 1 \in DOMAIN l
         /\ \A i \in DOMAIN s : i \in Nat /\ i + 1 \in DOMAIN l
                                /\ l[i + 1] = s[i]
         /\ \A i \in DOMAIN l : i \in Nat /\ (i # 1 =>
              i - 1 \in DOMAIN s /\ l[i] = s[i - 1])
<1>1. <<m>> \in Seq(S) /\ Len(<<m>>) = 1 /\ <<m>>[1] = m
  OBVIOUS
<1>2. Len(s) \in Nat /\ DOMAIN s = 1 .. Len(s)
  OBVIOUS
<1>3. /\ l \in Seq(S) /\ Len(l) = 1 + Len(s)
      /\ \A i \in 1 .. 1 + Len(s) :
           l[i] = IF i <= 1 THEN <<m>>[i] ELSE s[i - 1]
  BY <1>1, ConcatProperties
<1>4. DOMAIN l = 1 .. Len(s) + 1 /\ Len(l) = Len(s) + 1
  BY <1>2, <1>3
<1>5. l[1] = m /\ 1 \in DOMAIN l
  <2>1. 1 \in 1 .. 1 + Len(s)
    BY <1>2
  <2> QED
    BY <1>1, <1>2, <1>3, <1>4, <2>1
<1>6. ASSUME NEW i \in DOMAIN s
      PROVE  i \in Nat /\ i + 1 \in DOMAIN l /\ l[i + 1] = s[i]
  <2>1. i \in Nat /\ i + 1 \in 1 .. 1 + Len(s) /\ ~(i + 1 <= 1)
        /\ (i + 1) - 1 = i
    BY <1>2
  <2> QED
    BY <1>2, <1>3, <1>4, <2>1
<1>7. ASSUME NEW i \in DOMAIN l
      PROVE  i \in Nat /\ (i # 1 => i - 1 \in DOMAIN s /\ l[i] = s[i - 1])
  <2>1. i \in 1 .. 1 + Len(s) /\ i \in Nat
    BY <1>2, <1>4
  <2>2. i # 1 => ~(i <= 1) /\ i - 1 \in 1 .. Len(s)
    BY <1>2, <2>1
  <2> QED
    BY <1>2, <1>3, <2>1, <2>2
<1> QED
  BY <1>2, <1>3, <1>4, <1>5, <1>6, <1>7

\* The memtables of a view.
Used(m0, s) == {m0} \cup {s[i] : i \in DOMAIN s}

\* A view stays one when only unpublished entries are added.
LEMMA ViewKept ==
  ASSUME NEW m0, NEW s, NEW F \in SUBSET FileEntry, WriterTypes,
         View(m0, s, F), last_sequence' \in Nat,
         last_sequence <= last_sequence', written \subseteq written',
         \A m \in Used(m0, s) :
           /\ m \in DOMAIN tables'
           /\ \A e \in tables'[m].entries :
                e \in tables[m].entries
                \/ (e.seq \in Nat /\ last_sequence < e.seq)
  PROVE  View(m0, s, F)'
<1>0. last_sequence \in Nat
  BY DEF WriterTypes
<1>1. ASSUME NEW f \in F PROVE f.seq \in Nat /\ f.seq <= last_sequence
  BY DEF View, FileEntry
<1>2. m0 \in Used(m0, s) /\ \A i \in DOMAIN s : s[i] \in Used(m0, s)
  BY DEF Used
<1>3. ASSUME NEW f \in F
      PROVE  /\ f.seq <= last_sequence'
             /\ \E w \in written' : /\ w.key = f.key /\ w.type = f.type
                                    /\ w.seq = f.seq
  <2>1. f.seq <= last_sequence'
    BY <1>0, <1>1
  <2>2. \E w \in written : w.key = f.key /\ w.type = f.type /\ w.seq = f.seq
    BY DEF View
  <2> QED
    BY <2>1, <2>2
<1>4. ASSUME NEW f \in F, NEW m \in Used(m0, s), NEW e \in tables'[m].entries,
             \A g \in tables[m].entries : f.seq < g.seq
      PROVE  f.seq < e.seq
  <2>1. CASE e \in tables[m].entries
    BY <1>4, <2>1
  <2>2. CASE e.seq \in Nat /\ last_sequence < e.seq
    <3>1. f.seq \in Nat /\ f.seq <= last_sequence
      BY <1>1
    <3> QED
      BY <1>0, <2>2, <3>1
  <2> QED
    BY <2>1, <2>2
<1>5. /\ m0 \in DOMAIN tables'
      /\ \A i \in DOMAIN s : s[i] \in DOMAIN tables' /\ s[i] < m0
      /\ \A i, j \in DOMAIN s : i < j => s[j] < s[i]
  BY <1>2 DEF View
<1>6. \A f \in F : \A e \in tables'[m0].entries : f.seq < e.seq
  <2> SUFFICES ASSUME NEW f \in F, NEW e \in tables'[m0].entries
               PROVE  f.seq < e.seq
    OBVIOUS
  <2>1. \A g \in tables[m0].entries : f.seq < g.seq
    BY DEF View
  <2> QED
    BY <1>2, <1>4, <2>1
<1>7. \A f \in F : \A i \in DOMAIN s : \A e \in tables'[s[i]].entries :
        f.seq < e.seq
  <2> SUFFICES ASSUME NEW f \in F, NEW i \in DOMAIN s,
                      NEW e \in tables'[s[i]].entries
               PROVE  f.seq < e.seq
    OBVIOUS
  <2>1. \A g \in tables[s[i]].entries : f.seq < g.seq
    BY DEF View
  <2> QED
    BY <1>2, <1>4, <2>1
<1> QED
  BY <1>3, <1>5, <1>6, <1>7 DEF View

\* What a view covers stays covered when entries are added.
LEMMA CoveredKept ==
  ASSUME NEW m0, NEW s, NEW F, NEW x \in Nat, Covered(m0, s, F, x),
         \A w \in written' : w \in written \/ (w.seq \in Nat /\ x < w.seq),
         \A m \in Used(m0, s) : tables[m].entries \subseteq tables'[m].entries
  PROVE  Covered(m0, s, F, x)'
<1>1. m0 \in Used(m0, s) /\ \A i \in DOMAIN s : s[i] \in Used(m0, s)
  BY DEF Used
<1>2. ASSUME NEW w \in written', w.seq <= x
      PROVE  \/ \E e \in tables'[m0].entries : e.seq = w.seq
             \/ \E i \in DOMAIN s : \E e \in tables'[s[i]].entries :
                  e.seq = w.seq
             \/ \E f \in F : f.key = w.key /\ w.seq <= f.seq
  <2>1. w \in written
    <3>1. ~(w.seq \in Nat /\ x < w.seq)
      BY <1>2
    <3> QED
      BY <3>1
  <2>2. \/ \E e \in tables[m0].entries : e.seq = w.seq
        \/ \E i \in DOMAIN s : \E e \in tables[s[i]].entries : e.seq = w.seq
        \/ \E f \in F : f.key = w.key /\ w.seq <= f.seq
    BY <1>2, <2>1 DEF Covered
  <2>3. CASE \E e \in tables[m0].entries : e.seq = w.seq
    BY <1>1, <2>3
  <2>4. CASE \E i \in DOMAIN s : \E e \in tables[s[i]].entries : e.seq = w.seq
    <3>1. PICK i \in DOMAIN s : \E e \in tables[s[i]].entries : e.seq = w.seq
      BY <2>4
    <3>2. tables[s[i]].entries \subseteq tables'[s[i]].entries
      BY <1>1
    <3> QED
      BY <3>1, <3>2
  <2> QED
    BY <2>2, <2>3, <2>4
<1> QED
  BY <1>2 DEF Covered

\* What a reader has at each step, with its types.
LEMMA ReaderRecord ==
  ASSUME ReaderTypes, NEW r \in Readers
  PROVE  /\ r \in Reading =>
              /\ reader[r].mem \in Nat /\ reader[r].imm \in Seq(Nat)
              /\ reader[r].files \in SUBSET FileEntry
              /\ reader[r].began \in Nat /\ reader[r].key \in UserKeys
              /\ reader[r].op \in Ops
         /\ reader[r].pc = "snapshot" => reader[r].snapshot \in Nat
         /\ reader[r].pc = "super_version" => reader[r] \in WithSuperVersion
         /\ reader[r].pc = "snapshot" => reader[r] \in WithSnapshot
         /\ reader[r].pc = "answered" =>
              /\ reader[r] \in WithAnswer /\ reader[r].began \in Nat
              /\ reader[r].snapshot \in Nat
         /\ reader[r].pc \in {"idle", "super_version", "snapshot", "answered"}
<1>1. \/ reader[r] = NoRead \/ reader[r] \in WithSuperVersion
      \/ reader[r] \in WithSnapshot \/ reader[r] \in WithAnswer
  BY DEF ReaderTypes
<1>2. CASE reader[r] = NoRead
  BY <1>2 DEF NoRead, Reading
<1>3. CASE reader[r] \in WithSuperVersion
  BY <1>3 DEF WithSuperVersion, Reading
<1>4. CASE reader[r] \in WithSnapshot
  BY <1>4 DEF WithSnapshot, Reading
<1>5. CASE reader[r] \in WithAnswer
  BY <1>5 DEF WithAnswer, Reading
<1> QED
  BY <1>1, <1>2, <1>3, <1>4, <1>5

\* What the writers may do to a memtable and to the writes: add what is not
\* published yet, to the active one.
EntriesGrow(m) ==
  /\ m \in DOMAIN tables' /\ tables[m].entries \subseteq tables'[m].entries
  /\ m # mem => tables'[m].entries = tables[m].entries
  /\ \A e \in tables'[m].entries :
       e \in tables[m].entries \/ (e.seq \in Nat /\ last_sequence < e.seq)

WritesGrow ==
  /\ written \subseteq written'
  /\ \A w \in written' :
       w \in written \/ (w.seq \in Nat /\ last_sequence < w.seq)

\* A reader goes on seeing what it saw while writers add to memtables.
LEMMA SeesKept ==
  ASSUME WriterTypes, TableTypes, NEW R, R.mem \in Nat, R.imm \in Seq(Nat),
         R.files \in SUBSET FileEntry, R.began \in Nat, Sees(R),
         UNCHANGED <<mem, last_sequence>>, WritesGrow,
         \A m \in Used(R.mem, R.imm) : EntriesGrow(m)
  PROVE  Sees(R)'
<1>0. /\ last_sequence \in Nat /\ last_sequence <= last_sequence
      /\ mem \in Nat /\ DOMAIN tables \subseteq 0 .. mem
  BY DEF WriterTypes, TableTypes
<1>1. View(R.mem, R.imm, R.files) /\ R.began <= last_sequence
  BY DEF Sees
<1>2. View(R.mem, R.imm, R.files)'
  <2>1. \A m \in Used(R.mem, R.imm) :
          /\ m \in DOMAIN tables'
          /\ \A e \in tables'[m].entries :
               e \in tables[m].entries
               \/ (e.seq \in Nat /\ last_sequence < e.seq)
    BY DEF EntriesGrow
  <2>2. written \subseteq written' /\ last_sequence' \in Nat
        /\ last_sequence <= last_sequence'
    BY <1>0 DEF WritesGrow
  <2> QED
    BY <1>1, <2>1, <2>2, ViewKept
<1>3. ASSUME NEW x \in Nat, x <= last_sequence,
             Covered(R.mem, R.imm, R.files, x)
      PROVE  Covered(R.mem, R.imm, R.files, x)'
  <2>1. \A w \in written' : w \in written \/ (w.seq \in Nat /\ x < w.seq)
    BY <1>0, <1>3 DEF WritesGrow
  <2>2. \A m \in Used(R.mem, R.imm) :
          tables[m].entries \subseteq tables'[m].entries
    BY DEF EntriesGrow
  <2> QED
    BY <1>3, <2>1, <2>2, CoveredKept
<1>4. R.mem \in Used(R.mem, R.imm)
      /\ \A i \in DOMAIN R.imm : R.imm[i] \in Used(R.mem, R.imm)
  BY DEF Used
<1>5. ASSUME NEW i \in DOMAIN R.imm
      PROVE  tables'[R.imm[i]].entries = tables[R.imm[i]].entries
  <2>1. R.imm[i] < R.mem /\ R.mem \in DOMAIN tables
        /\ R.imm[i] \in DOMAIN tables
    BY <1>1 DEF View
  <2>2. R.imm[i] \in Nat /\ R.mem <= mem
    BY <1>0, <2>1
  <2>3. R.imm[i] # mem
    BY <1>0, <2>1, <2>2
  <2> QED
    BY <1>4, <2>3 DEF EntriesGrow
<1>6. \A i \in DOMAIN R.imm : \A e \in tables'[R.imm[i]].entries :
        e.seq <= R.began
  BY <1>5 DEF Sees
<1>7. R.mem = mem => Covered(R.mem, R.imm, R.files, last_sequence)'
  <2>1. PICK x : x = last_sequence
    OBVIOUS
  <2>2. R.mem = mem => Covered(R.mem, R.imm, R.files, x)'
    BY <1>0, <1>3, <2>1 DEF Sees
  <2> QED
    BY <2>1, <2>2 DEF Covered
<1>8. R.mem # mem => \E x \in R.began .. last_sequence :
                       /\ Covered(R.mem, R.imm, R.files, x)'
                       /\ \A e \in tables'[R.mem].entries : e.seq <= x
  <2> SUFFICES ASSUME R.mem # mem
               PROVE  \E x \in R.began .. last_sequence :
                        /\ Covered(R.mem, R.imm, R.files, x)'
                        /\ \A e \in tables'[R.mem].entries : e.seq <= x
    OBVIOUS
  <2>1. PICK x \in R.began .. last_sequence :
          /\ Covered(R.mem, R.imm, R.files, x)
          /\ \A e \in tables[R.mem].entries : e.seq <= x
    BY DEF Sees
  <2>2. x \in Nat /\ x <= last_sequence
    BY <1>0
  <2>3. Covered(R.mem, R.imm, R.files, x)'
    BY <1>3, <2>1, <2>2
  <2>4. tables'[R.mem].entries = tables[R.mem].entries
    BY <1>4 DEF EntriesGrow
  <2> QED
    BY <2>1, <2>3, <2>4
<1> QED
  BY <1>1, <1>2, <1>6, <1>7, <1>8 DEF Sees

\* So does the current SuperVersion.
LEMMA CurrentKept ==
  ASSUME WriterTypes, TableTypes, CurrentView,
         UNCHANGED <<mem, imm, files, last_sequence>>, WritesGrow,
         \A m \in Used(mem, imm) : EntriesGrow(m)
  PROVE  CurrentView'
<1>0. last_sequence \in Nat /\ last_sequence <= last_sequence
  BY DEF WriterTypes
<1>1. PICK m0, s, F, x :
        m0 = mem /\ s = imm /\ F = files /\ x = last_sequence
  OBVIOUS
<1>2. View(m0, s, F) /\ Covered(m0, s, F, x) /\ F \in SUBSET FileEntry
      /\ x \in Nat
  BY <1>0, <1>1 DEF CurrentView, TableTypes
<1>3. \A m \in Used(m0, s) : EntriesGrow(m)
  BY <1>1
<1>4. View(m0, s, F)'
  <2>1. \A m \in Used(m0, s) :
          /\ m \in DOMAIN tables'
          /\ \A e \in tables'[m].entries :
               e \in tables[m].entries
               \/ (e.seq \in Nat /\ last_sequence < e.seq)
    BY <1>3 DEF EntriesGrow
  <2>2. written \subseteq written' /\ last_sequence' \in Nat
        /\ last_sequence <= last_sequence'
    BY <1>0 DEF WritesGrow
  <2> QED
    BY <1>2, <2>1, <2>2, ViewKept
<1>5. Covered(m0, s, F, x)'
  <2>1. \A w \in written' : w \in written \/ (w.seq \in Nat /\ x < w.seq)
    BY <1>1 DEF WritesGrow
  <2>2. \A m \in Used(m0, s) : tables[m].entries \subseteq tables'[m].entries
    BY <1>3 DEF EntriesGrow
  <2> QED
    BY <1>2, <2>1, <2>2, CoveredKept
<1> QED
  BY <1>1, <1>4, <1>5 DEF CurrentView, View, Covered

\* The memtables of a reader's SuperVersion are referenced.
LEMMA ReferencedUsed ==
  ASSUME NEW r \in Reading, NEW m \in Used(reader[r].mem, reader[r].imm)
  PROVE  m \in Referenced
<1>1. r \in {q \in Readers : reader[q].pc \in {"super_version", "snapshot"}}
  BY DEF Reading
<1>2. m \in {reader[r].mem} \cup ToSet(reader[r].imm)
  BY DEF Used, ToSet
<1> QED
  BY <1>1, <1>2 DEF Referenced

\* All readers go on seeing what they saw.
LEMMA ReadersKept ==
  ASSUME WriterTypes, TableTypes, ReaderTypes, ReaderViews,
         UNCHANGED <<reader, mem, last_sequence>>, WritesGrow,
         \A m \in Referenced : EntriesGrow(m)
  PROVE  ReaderViews'
<1>1. ASSUME NEW r \in Reading PROVE Sees(reader[r])'
  <2>1. PICK R : R = reader[r]
    OBVIOUS
  <2>2. r \in Readers /\ Sees(R)
    BY <2>1 DEF Reading, ReaderViews
  <2>3. /\ R.mem \in Nat /\ R.imm \in Seq(Nat) /\ R.began \in Nat
        /\ R.files \in SUBSET FileEntry
    BY <2>1, <2>2, ReaderRecord
  <2>4. \A m \in Used(R.mem, R.imm) : EntriesGrow(m)
    BY <2>1, ReferencedUsed
  <2>5. Sees(R)'
    BY <2>2, <2>3, <2>4, SeesKept
  <2> QED
    BY <2>1, <2>5
<1>2. Reading' = Reading
  BY DEF Reading
<1> QED
  BY <1>1, <1>2 DEF ReaderViews

\* The memtables that somebody can still read or flush.
ViewTables == {mem} \cup ToSet(imm) \cup Referenced

\* The memtables of the current SuperVersion are in use.
LEMMA UsedListed ==
  /\ Used(mem, imm) \subseteq ViewTables /\ Referenced \subseteq ViewTables
  /\ mem \in ViewTables
  /\ \A i \in DOMAIN imm : imm[i] \in ToSet(imm) /\ imm[i] \in ViewTables
BY DEF Used, ViewTables, ToSet

\* The memtables of a flush are in the list.
LEMMA FlushListed ==
  ASSUME TableTypes, Flushing, NEW i \in DOMAIN flush.mems
  PROVE  /\ i \in Nat /\ Len(imm) \in Nat /\ Len(flush.mems) \in Nat
         /\ Len(imm) - Len(flush.mems) + i \in DOMAIN imm
         /\ flush.mems[i] = imm[Len(imm) - Len(flush.mems) + i]
         /\ flush.mems[i] \in ToSet(imm)
<1>1. imm \in Seq(Nat) /\ flush.mems \in Seq(Nat)
  BY DEF TableTypes
<1>2. /\ Len(imm) \in Nat /\ DOMAIN imm = 1 .. Len(imm)
      /\ Len(flush.mems) \in Nat /\ DOMAIN flush.mems = 1 .. Len(flush.mems)
  BY <1>1
<1>3. Len(flush.mems) <= Len(imm)
      /\ flush.mems[i] = imm[Len(imm) - Len(flush.mems) + i]
  BY DEF Flushing
<1>4. i \in Nat /\ 1 <= i /\ i <= Len(flush.mems)
  BY <1>2
<1>5. Len(imm) - Len(flush.mems) + i \in 1 .. Len(imm)
  BY <1>2, <1>3, <1>4
<1> QED
  BY <1>2, <1>3, <1>4, <1>5 DEF ToSet

\* A flush job goes on with the entries it has picked.
LEMMA FlushingKept ==
  ASSUME TableTypes, Flushing, UNCHANGED <<imm, flush>>,
         \A m \in ToSet(imm) : tables'[m].entries = tables[m].entries
  PROVE  Flushing'
<1>1. \A i \in DOMAIN flush.mems :
        tables'[flush.mems[i]].entries = tables[flush.mems[i]].entries
  BY FlushListed
<1>2. ASSUME NEW o \in flush.output
      PROVE  \E i \in DOMAIN flush.mems : \E e \in tables'[flush.mems[i]].entries :
               e.seq = o.seq /\ e.key = o.key /\ e.type = o.type
  <2>1. PICK i \in DOMAIN flush.mems : \E e \in tables[flush.mems[i]].entries :
          e.seq = o.seq /\ e.key = o.key /\ e.type = o.type
    BY DEF Flushing
  <2> QED
    BY <1>1, <2>1
<1>3. ASSUME NEW i \in DOMAIN flush.mems,
             NEW e \in tables'[flush.mems[i]].entries
      PROVE  \E o \in flush.output : o.key = e.key /\ e.seq <= o.seq
  <2>1. e \in tables[flush.mems[i]].entries
    BY <1>1
  <2> QED
    BY <2>1 DEF Flushing
<1>4. /\ Len(flush.mems) <= Len(imm)
      /\ \A i \in DOMAIN flush.mems :
           flush.mems[i] = imm[Len(imm) - Len(flush.mems) + i]
  BY DEF Flushing
<1>5. flush' = flush /\ imm' = imm
  OBVIOUS
<1> QED
  BY <1>2, <1>3, <1>4, <1>5 DEF Flushing

\* Steps that only add what is not published yet leave every view what it is.
LEMMA GrowViews ==
  ASSUME WriterTypes, TableTypes, ReaderTypes, CurrentView, ReaderViews,
         Flushing, UNCHANGED <<reader, mem, imm, files, last_sequence>>,
         WritesGrow, \A m \in ViewTables : EntriesGrow(m)
  PROVE  CurrentView' /\ ReaderViews' /\ (flush' = flush => Flushing')
<1>1. /\ \A m \in Used(mem, imm) : EntriesGrow(m)
      /\ \A m \in Referenced : EntriesGrow(m)
  BY UsedListed
<1>2. CurrentView'
  BY <1>1, CurrentKept
<1>3. ReaderViews'
  BY <1>1, ReadersKept
<1>4. ASSUME flush' = flush PROVE Flushing'
  <2>1. mem \in Nat /\ imm \in Seq(Nat)
    BY DEF TableTypes
  <2>2. ASSUME NEW m \in ToSet(imm)
        PROVE  tables'[m].entries = tables[m].entries
    <3>1. PICK i \in DOMAIN imm : m = imm[i]
      BY DEF ToSet
    <3>2. m < mem /\ m \in Nat
      BY <2>1, <3>1 DEF CurrentView, View
    <3>3. EntriesGrow(m)
      BY DEF ViewTables
    <3> QED
      BY <2>1, <3>2, <3>3 DEF EntriesGrow
  <2> QED
    BY <1>4, <2>2, FlushingKept
<1> QED
  BY <1>2, <1>3, <1>4

\* The last write up to a published number does not change any more.
LEMMA LastWriteKept ==
  ASSUME WriterTypes, WritesGrow, NEW key, NEW s \in Nat, s <= last_sequence
  PROVE  LastWrite(key, s)' = LastWrite(key, s)
<1>0. last_sequence \in Nat
  BY DEF WriterTypes
<1>1. \A w : w \in written' /\ w.seq <= s <=> w \in written /\ w.seq <= s
  BY <1>0 DEF WritesGrow
<1>2. Newest(written', key, s) = Newest(written, key, s)
  BY <1>1 DEF Newest
<1>3. PICK N : N = Newest(written, key, s)
  OBVIOUS
<1>4. LastWrite(key, s) = IF N = {} THEN [seq |-> 0, type |-> "kTypeDeletion"]
                          ELSE LET w == CHOOSE w \in N : TRUE
                               IN [seq |-> w.seq, type |-> w.type]
  BY <1>3 DEF LastWrite
<1>5. Newest(written, key, s)' = N
  BY <1>2, <1>3 DEF Newest
<1>6. LastWrite(key, s)' = IF N = {}
                           THEN [seq |-> 0, type |-> "kTypeDeletion"]
                           ELSE LET w == CHOOSE w \in N : TRUE
                                IN [seq |-> w.seq, type |-> w.type]
  BY <1>5 DEF LastWrite
<1> QED
  BY <1>4, <1>6

\* What an answer has to be.
Right(R) ==
  /\ \E s \in R.began .. R.snapshot :
       LastWrite(R.key, s) = [seq |-> R.answer.seq, type |-> R.answer.type]
  /\ R.op = "get" /\ R.answer.where = "memtable"
       /\ R.answer.type = "kTypeValue"
     => R.answer.value = {[seq |-> R.answer.seq, enc |-> FALSE]}

\* AnswersCurrent says of each answer that it is right.
LEMMA AnswersRight ==
  /\ AnswersCurrent <=> \A r \in Answered : Right(reader[r])
  /\ AnswersCurrent' <=> \A r \in Answered' : Right(reader[r])'
BY DEF AnswersCurrent, Right

\* A right answer stays right: later writes have higher numbers.
LEMMA RightKept ==
  ASSUME WriterTypes, WritesGrow, NEW R, R.began \in Nat, R.snapshot \in Nat,
         R.snapshot <= last_sequence, Right(R)
  PROVE  Right(R)'
<1>0. last_sequence \in Nat
  BY DEF WriterTypes
<1>1. PICK s \in R.began .. R.snapshot :
        LastWrite(R.key, s) = [seq |-> R.answer.seq, type |-> R.answer.type]
  BY DEF Right
<1>2. s \in Nat /\ s <= last_sequence
  BY <1>0
<1>3. LastWrite(R.key, s)' = LastWrite(R.key, s)
  BY <1>2, LastWriteKept
<1>4. \E z \in R.began .. R.snapshot :
        LastWrite(R.key, z)' = [seq |-> R.answer.seq, type |-> R.answer.type]
  BY <1>1, <1>3
<1> QED
  BY <1>4 DEF Right

\* All answers that were given stay right.
LEMMA AnswersKept ==
  ASSUME WriterTypes, ReaderTypes, ReaderViews, WritesGrow, AnswersCurrent,
         UNCHANGED reader
  PROVE  AnswersCurrent'
<1>1. ASSUME NEW r \in Answered PROVE Right(reader[r])'
  <2>1. PICK R : R = reader[r]
    OBVIOUS
  <2>2. R.began \in Nat /\ R.snapshot \in Nat /\ R.snapshot <= last_sequence
    BY <2>1, ReaderRecord DEF Answered, ReaderViews
  <2>3. Right(R)
    BY <2>1, AnswersRight
  <2>4. Right(R)'
    BY <2>2, <2>3, RightKept
  <2> QED
    BY <2>1, <2>4
<1>2. Answered' = Answered
  BY DEF Answered
<1> QED
  BY <1>1, <1>2, AnswersRight

Views == CurrentView /\ ReaderViews /\ Flushing /\ AnswersCurrent

\* A memtable in use has not been deleted.
LEMMA ViewTablesExist ==
  ASSUME Views
  PROVE  ViewTables \subseteq DOMAIN tables
<1>1. mem \in DOMAIN tables /\ ToSet(imm) \subseteq DOMAIN tables
  BY DEF Views, CurrentView, View, ToSet
<1>2. ASSUME NEW m \in Referenced PROVE m \in DOMAIN tables
  <2>1. PICK r \in Reading : m \in {reader[r].mem} \cup ToSet(reader[r].imm)
    BY DEF Referenced, Reading
  <2>2. View(reader[r].mem, reader[r].imm, reader[r].files)
    BY DEF Views, ReaderViews, Sees
  <2> QED
    BY <2>1, <2>2 DEF View, ToSet
<1> QED
  BY <1>1, <1>2 DEF ViewTables

\* Steps that change no memtable, no file and no reader change no view.
LEMMA FrameViews ==
  ASSUME WriterTypes, TableTypes, ReaderTypes, Views,
         UNCHANGED <<last_sequence, tables, mem, imm, flush, files, reader,
                     written>>
  PROVE  Views'
<1>1. \A m \in ViewTables : EntriesGrow(m)
  BY ViewTablesExist DEF EntriesGrow
<1>2. WritesGrow
  BY DEF WritesGrow
<1> QED
  BY <1>1, <1>2, GrowViews, AnswersKept DEF Views

\* The writes of a new group are not published yet.
LEMMA JoinViews ==
  ASSUME WriterTypes, TableTypes, ReaderTypes, Views, JoinBatchGroup
  PROVE  Views'
<1>1. UNCHANGED <<last_sequence, tables, mem, imm, flush, files, reader>>
  BY DEF JoinBatchGroup
<1>2. \A m \in ViewTables : EntriesGrow(m)
  BY <1>1, ViewTablesExist DEF EntriesGrow
<1>3. WritesGrow
  <2>1. PICK W \in SUBSET Threads :
          /\ \A t \in W : /\ writer'[t].seq \in Nat
                          /\ last_sequence < writer'[t].seq
          /\ written' = written \cup {WriteOf(writer'[t]) : t \in W}
    BY JoinEffect
  <2>2. ASSUME NEW t \in W
        PROVE  WriteOf(writer'[t]).seq = writer'[t].seq
    BY DEF WriteOf
  <2>3. ASSUME NEW w \in written', w \notin written
        PROVE  w.seq \in Nat /\ last_sequence < w.seq
    <3>1. PICK t \in W : w = WriteOf(writer'[t])
      BY <2>1, <2>3
    <3> QED
      BY <2>1, <2>2, <3>1
  <2> QED
    BY <2>1, <2>3 DEF WritesGrow
<1> QED
  BY <1>1, <1>2, <1>3, GrowViews, AnswersKept DEF Views

\* An inserted entry is above everything that is published.
LEMMA AddInsertViews ==
  ASSUME ArenaInv, WriterTypes, TableTypes, ReaderTypes, Coupled, Known, Views,
         NEW t \in Threads, AddInsert(t)
  PROVE  Views'
<1>1. UNCHANGED <<last_sequence, mem, imm, flush, files, reader, written>>
  BY DEF AddInsert
<1>2. /\ writer[t].stage = "sealed" /\ DOMAIN tables' = DOMAIN tables
      /\ \A m \in DOMAIN tables \ {mem} : tables'[m] = tables[m]
      /\ tables'[mem].entries = tables[mem].entries \cup {NewEntry(t)}
  BY AddInsertEffect
<1>3. NewEntry(t).seq \in Nat /\ last_sequence < NewEntry(t).seq
  <2>1. t \in Group /\ writer[t].seq \in Nat
    BY <1>2, WriterRecord
  <2>2. last_sequence < writer[t].seq
    BY <2>1 DEF Known, GroupKnown
  <2>3. NewEntry(t).seq = writer[t].seq
    BY DEF NewEntry
  <2> QED
    BY <2>1, <2>2, <2>3
<1>4. ASSUME NEW m \in ViewTables PROVE EntriesGrow(m)
  <2>1. m \in DOMAIN tables
    BY ViewTablesExist
  <2>2. CASE m = mem
    BY <1>2, <1>3, <2>1, <2>2 DEF EntriesGrow
  <2>3. CASE m # mem
    BY <1>2, <2>1, <2>3 DEF EntriesGrow
  <2> QED
    BY <2>2, <2>3
<1>5. WritesGrow
  BY <1>1 DEF WritesGrow
<1> QED
  BY <1>1, <1>4, <1>5, GrowViews, AnswersKept DEF Views

\* The last Unref deletes a memtable that no SuperVersion has.
LEMMA DeleteViews ==
  ASSUME WriterTypes, TableTypes, ReaderTypes, Views, NEW k \in DOMAIN tables,
         DeleteMemTable(k)
  PROVE  Views'
<1>1. /\ UNCHANGED <<last_sequence, mem, imm, flush, files, reader, written>>
      /\ k \notin ViewTables
      /\ DOMAIN tables' = DOMAIN tables \ {k}
      /\ \A n \in DOMAIN tables \ {k} : tables'[n] = tables[n]
  BY DEF DeleteMemTable, ViewTables
<1>2. \A m \in ViewTables : EntriesGrow(m)
  BY <1>1, ViewTablesExist DEF EntriesGrow
<1>3. WritesGrow
  BY <1>1 DEF WritesGrow
<1> QED
  BY <1>1, <1>2, <1>3, GrowViews, AnswersKept DEF Views

\* A flush job takes the newest entry of each key from the list.
LEMMA WriteLevel0Views ==
  ASSUME WriterTypes, TableTypes, ReaderTypes, Known, Views, WriteLevel0Table
  PROVE  Views'
<1>1. /\ UNCHANGED <<last_sequence, tables, mem, imm, files, reader, written>>
      /\ imm \in Seq(Nat) /\ last_sequence \in Nat /\ mem \in Nat
  BY DEF WriteLevel0Table, TableTypes, WriterTypes
<1>2. \A m \in ViewTables : EntriesGrow(m)
  BY <1>1, ViewTablesExist DEF EntriesGrow
<1>3. WritesGrow
  BY <1>1 DEF WritesGrow
<1>4. CurrentView' /\ ReaderViews' /\ AnswersCurrent'
  BY <1>1, <1>2, <1>3, GrowViews, AnswersKept DEF Views
<1>5. PICK E, K :
        /\ E = UNION {tables[m].entries : m \in ToSet(imm)}
        /\ K = UNION {Newest(E, k, last_sequence) : k \in UserKeys}
        /\ flush' = [mems |-> imm,
                     output |-> {[key |-> e.key, type |-> e.type,
                                  seq |-> e.seq, value |-> IteratorValue(e)]
                                    : e \in K}]
  BY DEF WriteLevel0Table
<1>6. /\ flush'.mems = imm
      /\ flush'.output = {[key |-> e.key, type |-> e.type, seq |-> e.seq,
                           value |-> IteratorValue(e)] : e \in K}
  BY <1>5
<1>7. K \subseteq E
  BY <1>5 DEF Newest
<1>8. ASSUME NEW e \in E
      PROVE  /\ \E i \in DOMAIN imm : e \in tables[imm[i]].entries
             /\ e.key \in UserKeys /\ e.seq \in Nat /\ e.seq <= last_sequence
  <2>1. PICK i \in DOMAIN imm : e \in tables[imm[i]].entries
    BY <1>5 DEF ToSet
  <2>2. imm[i] \in DOMAIN tables /\ imm[i] < mem /\ imm[i] \in Nat
    BY <1>1 DEF Views, CurrentView, View
  <2>3. e.key \in UserKeys /\ e.seq \in Nat
    BY <2>1, <2>2, EntryRecord
  <2>4. imm[i] # mem
    BY <1>1, <2>2
  <2>5. ~(last_sequence < e.seq)
    BY <2>1, <2>2, <2>4 DEF Known, EntriesKnown
  <2> QED
    BY <1>1, <2>1, <2>3, <2>5
<1>9. ASSUME NEW o \in flush'.output
      PROVE  \E i \in DOMAIN imm : \E e \in tables[imm[i]].entries :
               e.seq = o.seq /\ e.key = o.key /\ e.type = o.type
  <2>1. PICK e \in K : o = [key |-> e.key, type |-> e.type, seq |-> e.seq,
                            value |-> IteratorValue(e)]
    BY <1>6
  <2>2. e.seq = o.seq /\ e.key = o.key /\ e.type = o.type
    BY <2>1
  <2> QED
    BY <1>7, <1>8, <2>2
<1>10. ASSUME NEW i \in DOMAIN imm, NEW e \in tables[imm[i]].entries
       PROVE  \E o \in flush'.output : o.key = e.key /\ e.seq <= o.seq
  <2>1. e \in E
    BY <1>5 DEF ToSet
  <2>2. \A f \in E : f.seq \in Nat
    BY <1>8
  <2>3. PICK n \in Newest(E, e.key, last_sequence) : e.seq <= n.seq
    BY <1>1, <1>8, <2>1, <2>2, NewestExists
  <2>4. n.key = e.key
    BY <2>3 DEF Newest
  <2>5. n \in K
    BY <1>5, <1>8, <2>1, <2>3
  <2>6. PICK o : o = [key |-> n.key, type |-> n.type, seq |-> n.seq,
                      value |-> IteratorValue(n)]
    OBVIOUS
  <2>7. o \in flush'.output
    BY <1>6, <2>5, <2>6
  <2>8. o.key = n.key /\ o.seq = n.seq
    BY <2>6
  <2> QED
    BY <2>3, <2>4, <2>7, <2>8
<1>11. Flushing'
  <2>1. Len(imm) \in Nat /\ DOMAIN imm = 1 .. Len(imm)
    BY <1>1
  <2>2. \A i \in DOMAIN imm : imm[i] = imm[Len(imm) - Len(imm) + i]
    BY <2>1
  <2>3. Len(imm) <= Len(imm)
    BY <2>1
  <2> QED
    BY <1>1, <1>6, <1>9, <1>10, <2>2, <2>3 DEF Flushing
<1> QED
  BY <1>4, <1>11 DEF Views

\* The group publishes: its writes are in the active memtable.
LEMMA CompleteViews ==
  ASSUME WriterTypes, TableTypes, ReaderTypes, Known, Views,
         CompleteParallelMemTableWriter
  PROVE  Views'
<1>1. UNCHANGED <<tables, mem, imm, flush, files, reader, written>>
  BY DEF CompleteParallelMemTableWriter
<1>2. /\ last_sequence' \in Nat /\ last_sequence <= last_sequence'
      /\ \A w \in written : last_sequence < w.seq =>
           \E e \in tables[mem].entries : e.seq = w.seq
  BY CompleteKnown
<1>3. last_sequence \in Nat /\ files \in SUBSET FileEntry
  BY DEF WriterTypes, TableTypes
<1>4. PICK z : z = last_sequence'
  OBVIOUS
<1>5. ASSUME NEW m0, NEW s, NEW F \in SUBSET FileEntry, View(m0, s, F)
      PROVE  View(m0, s, F)'
  <2>1. \A m \in Used(m0, s) :
          /\ m \in DOMAIN tables'
          /\ \A e \in tables'[m].entries :
               e \in tables[m].entries
               \/ (e.seq \in Nat /\ last_sequence < e.seq)
    BY <1>1, <1>5 DEF Used, View
  <2>2. written \subseteq written'
    BY <1>1
  <2> QED
    BY <1>2, <1>5, <2>1, <2>2, ViewKept
<1>6. ASSUME NEW s, NEW F, Covered(mem, s, F, last_sequence)
      PROVE  Covered(mem, s, F, z)
  <2> SUFFICES ASSUME NEW w \in written
               PROVE  \/ \E e \in tables[mem].entries : e.seq = w.seq
                      \/ \E i \in DOMAIN s : \E e \in tables[s[i]].entries :
                           e.seq = w.seq
                      \/ \E f \in F : f.key = w.key /\ w.seq <= f.seq
    BY DEF Covered
  <2>1. w.seq \in Nat
    BY WriteNumbers
  <2>2. CASE last_sequence < w.seq
    BY <1>2, <2>2
  <2>3. CASE w.seq <= last_sequence
    BY <1>6, <2>3 DEF Covered
  <2> QED
    BY <1>3, <2>1, <2>2, <2>3
<1>7. CurrentView'
  <2>1. PICK m0, s, F : m0 = mem /\ s = imm /\ F = files
    OBVIOUS
  <2>2. View(m0, s, F)'
    BY <1>3, <1>5, <2>1 DEF Views, CurrentView
  <2>3. Covered(m0, s, F, z)
    BY <1>6, <2>1 DEF Views, CurrentView
  <2>4. Covered(m0, s, F, z)'
    BY <1>1, <2>3 DEF Covered
  <2>5. Covered(mem, imm, files, last_sequence)'
    BY <1>1, <1>4, <2>1, <2>4 DEF Covered
  <2>6. View(mem, imm, files)'
    BY <1>1, <2>1, <2>2 DEF View
  <2> QED
    BY <2>5, <2>6 DEF CurrentView
<1>8. ASSUME NEW r \in Reading PROVE Sees(reader[r])'
  <2>1. PICK R : R = reader[r]
    OBVIOUS
  <2>2. Sees(R) /\ R.began \in Nat /\ R.files \in SUBSET FileEntry
    BY <2>1, ReaderRecord DEF Views, ReaderViews, Reading
  <2>3. View(R.mem, R.imm, R.files)'
    BY <1>5, <2>2 DEF Sees
  <2>4. R.began <= last_sequence'
    BY <1>2, <1>3, <2>2 DEF Sees
  <2>5. R.mem = mem => Covered(R.mem, R.imm, R.files, last_sequence)'
    <3>1. R.mem = mem => Covered(R.mem, R.imm, R.files, z)
      BY <1>6, <2>2 DEF Sees
    <3>2. R.mem = mem => Covered(R.mem, R.imm, R.files, z)'
      BY <1>1, <3>1 DEF Covered
    <3> QED
      BY <1>4, <3>2 DEF Covered
  <2>6. R.mem # mem => \E x \in R.began .. last_sequence' :
                         /\ Covered(R.mem, R.imm, R.files, x)'
                         /\ \A e \in tables'[R.mem].entries : e.seq <= x
    <3> SUFFICES ASSUME R.mem # mem
                 PROVE  \E x \in R.began .. last_sequence' :
                          /\ Covered(R.mem, R.imm, R.files, x)'
                          /\ \A e \in tables'[R.mem].entries : e.seq <= x
      OBVIOUS
    <3>1. PICK x \in R.began .. last_sequence :
            /\ Covered(R.mem, R.imm, R.files, x)
            /\ \A e \in tables[R.mem].entries : e.seq <= x
      BY <2>2 DEF Sees
    <3>2. Covered(R.mem, R.imm, R.files, x)'
      BY <1>1, <3>1 DEF Covered
    <3>3. x \in R.began .. last_sequence'
      BY <1>2, <1>3, <2>2
    <3> QED
      BY <1>1, <3>1, <3>2, <3>3
  <2>7. Sees(R)'
    BY <1>1, <2>2, <2>3, <2>4, <2>5, <2>6 DEF Sees
  <2> QED
    BY <1>1, <2>1, <2>7
<1>9. ReaderViews'
  <2>1. ASSUME NEW r \in Readers, reader[r].pc \in {"snapshot", "answered"}
        PROVE  /\ reader[r].began <= reader[r].snapshot
               /\ reader[r].snapshot <= last_sequence'
    <3>1. reader[r].snapshot \in Nat
      BY <2>1, ReaderRecord
    <3>2. /\ reader[r].began <= reader[r].snapshot
          /\ reader[r].snapshot <= last_sequence
      BY <2>1 DEF Views, ReaderViews
    <3> QED
      BY <1>2, <1>3, <3>1, <3>2
  <2>2. Reading' = Reading
    BY <1>1 DEF Reading
  <2> QED
    BY <1>1, <1>8, <2>1, <2>2 DEF ReaderViews
<1>10. Flushing'
  BY <1>1 DEF Views, Flushing
<1>11. WritesGrow
  BY <1>1 DEF WritesGrow
<1>12. AnswersCurrent'
  BY <1>1, <1>11, AnswersKept DEF Views
<1> QED
  BY <1>7, <1>9, <1>10, <1>12 DEF Views

\* The active memtable becomes the first of the list.
LEMMA SwitchViews ==
  ASSUME WriterTypes, TableTypes, ReaderTypes, Known, Views, SwitchMemtable
  PROVE  Views'
<1>1. /\ mem' = mem + 1 /\ mem \in Nat /\ mem + 1 \notin DOMAIN tables
      /\ mem \in DOMAIN tables /\ Group = {}
      /\ DOMAIN tables' = DOMAIN tables \cup {mem + 1}
      /\ tables'[mem + 1] = NewTable
      /\ \A m \in DOMAIN tables : tables'[m].entries = tables[m].entries
  BY SwitchEffect
<1>2. /\ UNCHANGED <<last_sequence, flush, files, reader, written>>
      /\ imm' = <<mem>> \o imm
  BY DEF SwitchMemtable
<1>3. /\ last_sequence \in Nat /\ files \in SUBSET FileEntry /\ imm \in Seq(Nat)
      /\ DOMAIN tables \subseteq 0 .. mem
  BY DEF WriterTypes, TableTypes
<1>4. /\ Len(imm') = Len(imm) + 1 /\ Len(imm) \in Nat
      /\ imm'[1] = mem /\ 1 \in DOMAIN imm'
      /\ \A i \in DOMAIN imm : i \in Nat /\ i + 1 \in DOMAIN imm'
                               /\ imm'[i + 1] = imm[i]
      /\ \A i \in DOMAIN imm' : i \in Nat /\ (i # 1 =>
           i - 1 \in DOMAIN imm /\ imm'[i] = imm[i - 1])
  BY <1>1, <1>2, <1>3, ConsList
<1>5. View(mem, imm, files) /\ Covered(mem, imm, files, last_sequence)
  BY DEF Views, CurrentView
<1>6. ASSUME NEW i \in DOMAIN imm'
      PROVE  imm'[i] \in DOMAIN tables /\ imm'[i] \in Nat /\ imm'[i] <= mem
             /\ (i # 1 => imm'[i] < mem)
  <2>1. CASE i = 1
    BY <1>1, <1>4, <2>1
  <2>2. CASE i # 1
    <3>1. i - 1 \in DOMAIN imm /\ imm'[i] = imm[i - 1]
      BY <1>4, <2>2
    <3>2. imm[i - 1] \in DOMAIN tables /\ imm[i - 1] < mem
          /\ imm[i - 1] \in Nat
      BY <1>3, <1>5, <3>1 DEF View
    <3> QED
      BY <1>1, <3>1, <3>2
  <2> QED
    BY <2>1, <2>2
<1>7. View(mem, imm, files)'
  <2>1. mem' \in DOMAIN tables' /\ tables'[mem'].entries = {}
    BY <1>1 DEF NewTable
  <2>2. ASSUME NEW i \in DOMAIN imm'
        PROVE  imm'[i] \in DOMAIN tables' /\ imm'[i] < mem'
    BY <1>1, <1>6
  <2>3. ASSUME NEW i \in DOMAIN imm', NEW j \in DOMAIN imm', i < j
        PROVE  imm'[j] < imm'[i]
    <3>1. i \in Nat /\ j \in Nat /\ 1 <= i /\ j # 1
      <4>1. i \in Nat /\ j \in Nat
        BY <1>4
      <4>2. i = 1 \/ i - 1 \in 1 .. Len(imm)
        BY <1>3, <1>4
      <4> QED
        BY <1>4, <2>3, <4>1, <4>2
    <3>2. j - 1 \in DOMAIN imm /\ imm'[j] = imm[j - 1] /\ imm'[j] < mem
      BY <1>4, <1>6, <3>1
    <3>3. CASE i = 1
      BY <1>4, <3>2, <3>3
    <3>4. CASE i # 1
      <4>1. i - 1 \in DOMAIN imm /\ imm'[i] = imm[i - 1]
        BY <1>4, <3>4
      <4>2. i - 1 < j - 1
        BY <2>3, <3>1
      <4>3. imm[j - 1] < imm[i - 1]
        BY <1>5, <3>2, <4>1, <4>2 DEF View
      <4> QED
        BY <3>2, <4>1, <4>3
    <3> QED
      BY <3>3, <3>4
  <2>4. ASSUME NEW f \in files, NEW i \in DOMAIN imm',
               NEW e \in tables'[imm'[i]].entries
        PROVE  f.seq < e.seq
    <3>1. e \in tables[imm'[i]].entries
      BY <1>1, <1>6
    <3>2. CASE i = 1
      BY <1>4, <1>5, <3>1, <3>2 DEF View
    <3>3. CASE i # 1
      <4>1. i - 1 \in DOMAIN imm /\ imm'[i] = imm[i - 1]
        BY <1>4, <3>3
      <4> QED
        BY <1>5, <3>1, <4>1 DEF View
    <3> QED
      BY <3>2, <3>3
  <2>5. \A f \in files : /\ f.seq <= last_sequence
                         /\ \E w \in written : /\ w.key = f.key
                                               /\ w.type = f.type
                                               /\ w.seq = f.seq
    BY <1>5 DEF View
  <2> QED
    BY <1>2, <2>1, <2>2, <2>3, <2>4, <2>5 DEF View
<1>8. Covered(mem, imm, files, last_sequence)'
  <2> SUFFICES ASSUME NEW w \in written, w.seq <= last_sequence
               PROVE  \/ \E i \in DOMAIN imm' :
                           \E e \in tables'[imm'[i]].entries : e.seq = w.seq
                      \/ \E f \in files : f.key = w.key /\ w.seq <= f.seq
    BY <1>2 DEF Covered
  <2>1. \/ \E e \in tables[mem].entries : e.seq = w.seq
        \/ \E i \in DOMAIN imm : \E e \in tables[imm[i]].entries :
             e.seq = w.seq
        \/ \E f \in files : f.key = w.key /\ w.seq <= f.seq
    BY <1>5 DEF Covered
  <2>2. CASE \E e \in tables[mem].entries : e.seq = w.seq
    BY <1>1, <1>4, <2>2
  <2>3. CASE \E i \in DOMAIN imm : \E e \in tables[imm[i]].entries :
               e.seq = w.seq
    <3>1. PICK i \in DOMAIN imm : \E e \in tables[imm[i]].entries :
                                    e.seq = w.seq
      BY <2>3
    <3>2. i + 1 \in DOMAIN imm' /\ imm'[i + 1] = imm[i]
      BY <1>4
    <3>3. tables'[imm[i]].entries = tables[imm[i]].entries
      BY <1>1, <1>5 DEF View
    <3> QED
      BY <3>1, <3>2, <3>3
  <2> QED
    BY <2>1, <2>2, <2>3
<1>9. ASSUME NEW r \in Reading PROVE Sees(reader[r])'
  <2>1. PICK R : R = reader[r]
    OBVIOUS
  <2>2. Sees(R) /\ R.began \in Nat /\ R.files \in SUBSET FileEntry
        /\ R.mem \in Nat
    BY <2>1, ReaderRecord DEF Views, ReaderViews, Reading
  <2>3. View(R.mem, R.imm, R.files) /\ R.began <= last_sequence
    BY <2>2 DEF Sees
  <2>4. /\ R.mem \in DOMAIN tables
        /\ tables'[R.mem].entries = tables[R.mem].entries
        /\ \A i \in DOMAIN R.imm :
             /\ R.imm[i] \in DOMAIN tables
             /\ tables'[R.imm[i]].entries = tables[R.imm[i]].entries
    BY <1>1, <2>3 DEF View
  <2>5. View(R.mem, R.imm, R.files)'
    BY <1>1, <1>2, <2>3, <2>4 DEF View
  <2>6. ASSUME NEW x, Covered(R.mem, R.imm, R.files, x)
        PROVE  Covered(R.mem, R.imm, R.files, x)'
    BY <1>2, <2>4, <2>6 DEF Covered
  <2>7. R.mem # mem'
    BY <1>1, <1>3, <2>4
  <2>8. \E x \in R.began .. last_sequence :
          /\ Covered(R.mem, R.imm, R.files, x)
          /\ \A e \in tables[R.mem].entries : e.seq <= x
    <3>1. CASE R.mem = mem
      <4>1. Covered(R.mem, R.imm, R.files, last_sequence)
        BY <2>2, <3>1 DEF Sees
      <4>2. \A e \in tables[R.mem].entries : e.seq <= last_sequence
        BY <1>1, <2>4, Published
      <4>3. last_sequence \in R.began .. last_sequence
        BY <1>3, <2>2, <2>3
      <4> QED
        BY <4>1, <4>2, <4>3
    <3>2. CASE R.mem # mem
      BY <2>2, <3>2 DEF Sees
    <3> QED
      BY <3>1, <3>2
  <2>9. \A i \in DOMAIN R.imm : \A e \in tables'[R.imm[i]].entries :
          e.seq <= R.began
    BY <2>2, <2>4 DEF Sees
  <2>10. \A f \in R.files : f.seq <= R.began
    BY <2>2 DEF Sees
  <2>11. \E x \in R.began .. last_sequence :
           /\ Covered(R.mem, R.imm, R.files, x)'
           /\ \A e \in tables'[R.mem].entries : e.seq <= x
    BY <2>4, <2>6, <2>8
  <2>12. Sees(R)'
    BY <1>2, <2>3, <2>5, <2>7, <2>9, <2>10, <2>11 DEF Sees
  <2> QED
    BY <1>2, <2>1, <2>12
<1>10. ReaderViews'
  <2>1. Reading' = Reading
    BY <1>2 DEF Reading
  <2> QED
    BY <1>2, <1>9, <2>1 DEF Views, ReaderViews
<1>11. Flushing'
  <2>0. Len(flush.mems) \in Nat /\ Len(flush.mems) <= Len(imm)
    BY DEF Views, Flushing, TableTypes
  <2>1. ASSUME NEW i \in DOMAIN flush.mems
        PROVE  /\ flush.mems[i] = imm'[Len(imm') - Len(flush.mems) + i]
               /\ flush.mems[i] \in DOMAIN tables
    <3>1. /\ i \in Nat /\ Len(imm) - Len(flush.mems) + i \in DOMAIN imm
          /\ flush.mems[i] = imm[Len(imm) - Len(flush.mems) + i]
      BY FlushListed DEF Views
    <3>2. PICK j \in DOMAIN imm : j = Len(imm) - Len(flush.mems) + i
      BY <3>1
    <3>3. imm'[j + 1] = imm[j] /\ imm[j] \in DOMAIN tables
      BY <1>4, <1>5 DEF View
    <3>4. Len(imm') - Len(flush.mems) + i = j + 1
      <4>1. PICK a, b, c : a = Len(imm) /\ b = Len(flush.mems)
                           /\ c = Len(imm')
        OBVIOUS
      <4>2. a \in Nat /\ b \in Nat /\ c = a + 1 /\ i \in Nat
        BY <1>4, <2>0, <3>1, <4>1
      <4>3. j = a - b + i
        BY <3>2, <4>1
      <4>4. c - b + i = j + 1
        BY <4>2, <4>3
      <4> QED
        BY <4>1, <4>4
    <3> QED
      BY <3>1, <3>2, <3>3, <3>4
  <2>2. \A i \in DOMAIN flush.mems :
          tables'[flush.mems[i]].entries = tables[flush.mems[i]].entries
    BY <1>1, <2>1
  <2>3. Len(flush.mems) <= Len(imm')
    BY <1>4, <2>0
  <2>4. /\ \A o \in flush.output :
             \E i \in DOMAIN flush.mems :
               \E e \in tables'[flush.mems[i]].entries :
                 e.seq = o.seq /\ e.key = o.key /\ e.type = o.type
        /\ \A i \in DOMAIN flush.mems :
             \A e \in tables'[flush.mems[i]].entries :
               \E o \in flush.output : o.key = e.key /\ e.seq <= o.seq
    BY <2>2 DEF Views, Flushing
  <2>5. \A i \in DOMAIN flush.mems :
          flush.mems[i] = imm'[Len(imm') - Len(flush.mems) + i]
    BY <2>1
  <2> QED
    BY <1>2, <2>3, <2>4, <2>5 DEF Flushing
<1>12. WritesGrow
  BY <1>2 DEF WritesGrow
<1>13. AnswersCurrent'
  BY <1>2, <1>12, AnswersKept DEF Views
<1> QED
  BY <1>7, <1>8, <1>10, <1>11, <1>13 DEF Views, CurrentView

\* An entry of a memtable of the list is a published write.
LEMMA ListedEntry ==
  ASSUME WriterTypes, TableTypes, Known, NEW m \in DOMAIN tables, m # mem,
         NEW e \in tables[m].entries
  PROVE  /\ e.seq \in Nat /\ e.seq <= last_sequence
         /\ \E w \in written : /\ w.key = e.key /\ w.type = e.type
                               /\ w.seq = e.seq
<1>1. e.seq \in Nat /\ last_sequence \in Nat
  BY EntryRecord DEF WriterTypes
<1>2. ~(last_sequence < e.seq) /\ WriteOf(e) \in written
  BY DEF Known, EntriesKnown
<1>3. WriteOf(e).key = e.key /\ WriteOf(e).type = e.type
      /\ WriteOf(e).seq = e.seq
  BY DEF WriteOf
<1> QED
  BY <1>1, <1>2, <1>3

\* The flushed memtables leave the list when their entries enter the files.
LEMMA InstallViews ==
  ASSUME WriterTypes, TableTypes, ReaderTypes, Known, Views,
         InstallMemtableFlushResults
  PROVE  Views'
<1>1. /\ UNCHANGED <<last_sequence, tables, mem, reader, written>>
      /\ files' = files \cup flush.output /\ flush' = NoFlush
      /\ imm' = SubSeq(imm, 1, Len(imm) - Len(flush.mems))
  BY DEF InstallMemtableFlushResults
<1>2. /\ last_sequence \in Nat /\ imm \in Seq(Nat) /\ mem \in Nat
      /\ flush.mems \in Seq(Nat)
  BY DEF WriterTypes, TableTypes
<1>3. /\ Len(imm) \in Nat /\ DOMAIN imm = 1 .. Len(imm)
      /\ Len(flush.mems) \in Nat /\ DOMAIN flush.mems = 1 .. Len(flush.mems)
      /\ Len(flush.mems) <= Len(imm)
  BY <1>2 DEF Views, Flushing
<1>4. PICK n \in Nat : n = Len(imm) - Len(flush.mems) /\ n <= Len(imm)
  <2>1. PICK a \in Nat, b \in Nat :
          a = Len(imm) /\ b = Len(flush.mems) /\ b <= a
    BY <1>3
  <2>2. a - b \in Nat /\ a - b <= a
    BY <2>1
  <2> QED
    BY <2>1, <2>2
<1>5. /\ DOMAIN imm' = 1 .. n /\ Len(imm') = n
      /\ \A i \in 1 .. n : i \in DOMAIN imm /\ imm'[i] = imm[i]
  <2>1. PICK l : l = SubSeq(imm, 1, n) /\ imm' = l
    BY <1>1, <1>4
  <2>2. ASSUME NEW i \in 1 .. n PROVE i \in DOMAIN imm /\ imm[i] \in Nat
    <3>1. PICK a \in Nat : a = Len(imm) /\ n <= a
      BY <1>3, <1>4
    <3>2. i \in 1 .. a
      BY <3>1
    <3>3. i \in DOMAIN imm
      BY <1>3, <3>1, <3>2
    <3> QED
      BY <1>2, <3>3
  <2>3. /\ l \in Seq(Nat) /\ Len(l) = (IF 1 <= n THEN n - 1 + 1 ELSE 0)
        /\ \A i \in 1 .. n - 1 + 1 : l[i] = imm[1 + i - 1]
    <3>1. 1 \in Int /\ n \in Int
      OBVIOUS
    <3> QED
      BY <2>1, <2>2, <3>1, SubSeqProperties
  <2>4. Len(l) = n /\ n - 1 + 1 = n
    BY <2>3
  <2>5. DOMAIN l = 1 .. n
    BY <2>3, <2>4
  <2>6. ASSUME NEW i \in 1 .. n PROVE l[i] = imm[i]
    <3>1. i \in 1 .. n - 1 + 1 /\ 1 + i - 1 = i
      OBVIOUS
    <3> QED
      BY <2>3, <3>1
  <2> QED
    BY <2>1, <2>2, <2>4, <2>5, <2>6
<1>6. /\ View(mem, imm, files) /\ Covered(mem, imm, files, last_sequence)
      /\ Flushing
  BY DEF Views, CurrentView
<1>7. ASSUME NEW i \in DOMAIN flush.mems
      PROVE  /\ i \in Nat /\ 1 <= i /\ n + i \in DOMAIN imm
             /\ flush.mems[i] = imm[n + i]
             /\ flush.mems[i] \in DOMAIN tables /\ flush.mems[i] < mem
             /\ flush.mems[i] \in Nat
  <2>1. i \in Nat /\ 1 <= i
    BY <1>3
  <2>2. n + i \in DOMAIN imm /\ flush.mems[i] = imm[n + i]
    BY <1>4, <1>6, FlushListed
  <2>3. imm[n + i] \in DOMAIN tables /\ imm[n + i] < mem
        /\ imm[n + i] \in Nat
    BY <1>2, <1>6, <2>2 DEF View
  <2> QED
    BY <2>1, <2>2, <2>3
<1>8. ASSUME NEW o \in flush.output
      PROVE  /\ o.seq <= last_sequence
             /\ \E w \in written : /\ w.key = o.key /\ w.type = o.type
                                   /\ w.seq = o.seq
             /\ \A e \in tables[mem].entries : o.seq < e.seq
             /\ \A j \in 1 .. n : \A e \in tables[imm[j]].entries :
                  o.seq < e.seq
  <2>1. PICK i \in DOMAIN flush.mems : \E g \in tables[flush.mems[i]].entries :
          g.seq = o.seq /\ g.key = o.key /\ g.type = o.type
    BY <1>6 DEF Flushing
  <2>2. PICK g \in tables[flush.mems[i]].entries :
          g.seq = o.seq /\ g.key = o.key /\ g.type = o.type
    BY <2>1
  <2>3. PICK k : k = flush.mems[i]
    OBVIOUS
  <2>4. k \in DOMAIN tables /\ k < mem /\ k \in Nat /\ g \in tables[k].entries
    BY <1>7, <2>2, <2>3
  <2>5. k # mem /\ mem \in DOMAIN tables
    BY <1>2, <2>4 DEF TableTypes
  <2>6. /\ g.seq <= last_sequence
        /\ \E w \in written : /\ w.key = g.key /\ w.type = g.type
                              /\ w.seq = g.seq
    BY <2>4, <2>5, ListedEntry
  <2>7. ASSUME NEW e \in tables[mem].entries PROVE g.seq < e.seq
    BY <2>4, <2>5 DEF Known, TablesOrdered
  <2>8. ASSUME NEW j \in 1 .. n, NEW e \in tables[imm[j]].entries
        PROVE  g.seq < e.seq
    <3>1. j \in DOMAIN imm /\ j \in Nat /\ j <= n
      BY <1>4, <1>5
    <3>2. n + i \in DOMAIN imm /\ k = imm[n + i] /\ i \in Nat /\ 1 <= i
      BY <1>7, <2>3
    <3>3. j < n + i
      BY <1>4, <3>1, <3>2
    <3>4. k < imm[j] /\ imm[j] \in DOMAIN tables
      BY <1>6, <3>1, <3>2, <3>3 DEF View
    <3> QED
      BY <2>4, <3>4 DEF Known, TablesOrdered
  <2> QED
    BY <2>2, <2>6, <2>7, <2>8
<1>9. View(mem, imm, files)'
  <2>1. ASSUME NEW i \in DOMAIN imm'
        PROVE  imm'[i] \in DOMAIN tables /\ imm'[i] < mem
    BY <1>5, <1>6 DEF View
  <2>2. ASSUME NEW i \in DOMAIN imm', NEW j \in DOMAIN imm', i < j
        PROVE  imm'[j] < imm'[i]
    BY <1>5, <1>6, <2>2 DEF View
  <2>3. ASSUME NEW f \in files'
        PROVE  /\ f.seq <= last_sequence
               /\ \E w \in written : /\ w.key = f.key /\ w.type = f.type
                                     /\ w.seq = f.seq
               /\ \A e \in tables[mem].entries : f.seq < e.seq
    <3>1. CASE f \in files
      BY <1>6, <3>1 DEF View
    <3>2. CASE f \in flush.output
      BY <1>8, <3>2
    <3> QED
      BY <1>1, <3>1, <3>2
  <2>4. ASSUME NEW f \in files', NEW i \in DOMAIN imm',
               NEW e \in tables[imm'[i]].entries
        PROVE  f.seq < e.seq
    <3>0. i \in 1 .. n /\ i \in DOMAIN imm /\ imm'[i] = imm[i]
      BY <1>5
    <3>1. CASE f \in files
      BY <1>6, <3>0, <3>1 DEF View
    <3>2. CASE f \in flush.output
      BY <1>8, <3>0, <3>2
    <3> QED
      BY <1>1, <3>1, <3>2
  <2>5. mem \in DOMAIN tables
    BY <1>6 DEF View
  <2> QED
    BY <1>1, <2>1, <2>2, <2>3, <2>4, <2>5 DEF View
<1>10. Covered(mem, imm, files, last_sequence)'
  <2> SUFFICES ASSUME NEW w \in written, w.seq <= last_sequence
               PROVE  \/ \E e \in tables[mem].entries : e.seq = w.seq
                      \/ \E i \in DOMAIN imm' :
                           \E e \in tables[imm'[i]].entries : e.seq = w.seq
                      \/ \E f \in files' : f.key = w.key /\ w.seq <= f.seq
    BY <1>1 DEF Covered
  <2>1. \/ \E e \in tables[mem].entries : e.seq = w.seq
        \/ \E i \in DOMAIN imm : \E e \in tables[imm[i]].entries :
             e.seq = w.seq
        \/ \E f \in files : f.key = w.key /\ w.seq <= f.seq
    BY <1>6 DEF Covered
  <2>2. ASSUME NEW i \in DOMAIN imm, NEW e \in tables[imm[i]].entries,
               e.seq = w.seq
        PROVE  \/ \E j \in DOMAIN imm' :
                    \E g \in tables[imm'[j]].entries : g.seq = w.seq
               \/ \E f \in files' : f.key = w.key /\ w.seq <= f.seq
    <3>0. i \in Nat /\ 1 <= i /\ i <= Len(imm)
      BY <1>3
    <3>1. CASE i <= n
      <4>1. i \in 1 .. n
        BY <1>4, <3>0, <3>1
      <4>2. i \in DOMAIN imm' /\ imm'[i] = imm[i]
        BY <1>5, <4>1
      <4> QED
        BY <2>2, <4>2
    <3>2. CASE ~(i <= n)
      <4>1. PICK k \in DOMAIN flush.mems : i = n + k
        <5>1. i - n \in 1 .. Len(flush.mems) /\ i = n + (i - n)
          <6>1. PICK a, b : a = Len(imm) /\ b = Len(flush.mems)
            OBVIOUS
          <6>2. a \in Nat /\ b \in Nat /\ n = a - b /\ i <= a
            BY <1>3, <1>4, <3>0, <6>1
          <6>3. i - n \in 1 .. b /\ i = n + (i - n)
            BY <3>0, <3>2, <6>2
          <6> QED
            BY <6>1, <6>3
        <5> QED
          BY <1>3, <5>1
      <4>2. e \in tables[flush.mems[k]].entries
        BY <1>7, <2>2, <4>1
      <4>3. PICK o \in flush.output : o.key = e.key /\ e.seq <= o.seq
        BY <1>6, <4>2 DEF Flushing
      <4>4. e.key = w.key
        <5>1. imm[i] \in DOMAIN tables
          BY <1>6 DEF View
        <5>2. WriteOf(e) \in written /\ WriteOf(e).seq = w.seq
              /\ WriteOf(e).key = e.key
          BY <2>2, <5>1 DEF Known, EntriesKnown, WriteOf
        <5>3. WriteOf(e) = w
          BY <5>2 DEF Known, WritesKnown
        <5> QED
          BY <5>2, <5>3
      <4> QED
        BY <1>1, <2>2, <4>3, <4>4
    <3> QED
      BY <3>1, <3>2
  <2>3. \A f \in files : f \in files'
    BY <1>1
  <2> QED
    BY <2>1, <2>2, <2>3
<1>11. ReaderViews'
  <2>1. \A m \in Referenced : EntriesGrow(m)
    BY <1>1, ViewTablesExist DEF EntriesGrow, ViewTables
  <2>2. WritesGrow
    BY <1>1 DEF WritesGrow
  <2> QED
    BY <1>1, <2>1, <2>2, ReadersKept DEF Views
<1>12. Flushing'
  <2>1. flush'.mems = <<>> /\ flush'.output = {}
    BY <1>1 DEF NoFlush
  <2>2. Len(<<>>) = 0 /\ DOMAIN <<>> = {}
    OBVIOUS
  <2>3. Len(flush'.mems) <= Len(imm') /\ DOMAIN flush'.mems = {}
    BY <1>4, <1>5, <2>1, <2>2
  <2> QED
    BY <2>1, <2>3 DEF Flushing
<1>13. WritesGrow
  BY <1>1 DEF WritesGrow
<1>14. AnswersCurrent'
  BY <1>1, <1>13, AnswersKept DEF Views
<1> QED
  BY <1>9, <1>10, <1>11, <1>12, <1>14 DEF Views, CurrentView

\* A step of one reader.
LEMMA ReaderStep ==
  ASSUME ReaderTypes, Views, NEW r \in Readers, NEW R,
         UNCHANGED <<last_sequence, tables, mem, imm, flush, files, written>>,
         reader' = [reader EXCEPT ![r] = R],
         R.pc \in {"super_version", "snapshot"} => Sees(R),
         R.pc \in {"snapshot", "answered"} =>
           R.began <= R.snapshot /\ R.snapshot <= last_sequence,
         R.pc = "answered" => Right(R)
  PROVE  Views'
<1>1. reader'[r] = R /\ \A q \in Readers \ {r} : reader'[q] = reader[q]
  BY DEF ReaderTypes
<1>2. ASSUME NEW S, Sees(S) PROVE Sees(S)'
  BY <1>2 DEF Sees, View, Covered
<1>3. ASSUME NEW S, Right(S) PROVE Right(S)'
  <2>1. PICK s \in S.began .. S.snapshot :
          LastWrite(S.key, s) = [seq |-> S.answer.seq, type |-> S.answer.type]
    BY <1>3 DEF Right
  <2>2. Newest(written, S.key, s)' = Newest(written, S.key, s)
    BY DEF Newest
  <2>3. LastWrite(S.key, s)' = LastWrite(S.key, s)
    BY <2>2 DEF LastWrite
  <2>4. \E z \in S.began .. S.snapshot :
          LastWrite(S.key, z)' = [seq |-> S.answer.seq,
                                  type |-> S.answer.type]
    BY <2>1, <2>3
  <2> QED
    BY <1>3, <2>4 DEF Right
<1>4. ASSUME NEW q \in Reading' PROVE Sees(reader[q])'
  <2>1. PICK S : S = reader'[q]
    OBVIOUS
  <2>2. q \in Readers /\ S.pc \in {"super_version", "snapshot"}
    BY <2>1 DEF Reading
  <2>3. Sees(S)
    BY <1>1, <2>1, <2>2 DEF Views, ReaderViews, Reading
  <2>4. Sees(S)'
    BY <1>2, <2>3
  <2> QED
    BY <2>1, <2>4
<1>5. ASSUME NEW q \in Readers, reader'[q].pc \in {"snapshot", "answered"}
      PROVE  /\ reader'[q].began <= reader'[q].snapshot
             /\ reader'[q].snapshot <= last_sequence
  BY <1>1, <1>5 DEF Views, ReaderViews
<1>6. ReaderViews'
  BY <1>4, <1>5 DEF ReaderViews
<1>7. ASSUME NEW q \in Answered' PROVE Right(reader[q])'
  <2>1. PICK S : S = reader'[q]
    OBVIOUS
  <2>2. q \in Readers /\ S.pc = "answered"
    BY <2>1 DEF Answered
  <2>3. Right(S)
    <3>1. CASE q = r
      BY <1>1, <2>1, <2>2, <3>1
    <3>2. CASE q # r
      <4>1. q \in Answered /\ S = reader[q]
        BY <1>1, <2>1, <2>2, <3>2 DEF Answered
      <4> QED
        BY <4>1, AnswersRight DEF Views
    <3> QED
      BY <3>1, <3>2
  <2>4. Right(S)'
    BY <1>3, <2>3
  <2> QED
    BY <2>1, <2>4
<1>8. AnswersCurrent'
  BY <1>7, AnswersRight
<1>9. CurrentView' /\ Flushing'
  BY DEF Views, CurrentView, View, Covered, Flushing
<1> QED
  BY <1>6, <1>8, <1>9 DEF Views

\* A reader takes the SuperVersion: it sees all that is published.
LEMMA GetSuperVersionViews ==
  ASSUME WriterTypes, TableTypes, ReaderTypes, Known, Views, NEW r \in Readers,
         GetSuperVersion(r)
  PROVE  Views' /\ ReaderTypes'
<1>1. /\ UNCHANGED <<last_sequence, tables, mem, imm, flush, files, written>>
      /\ last_sequence \in Nat /\ mem \in Nat /\ imm \in Seq(Nat)
      /\ files \in SUBSET FileEntry
  BY DEF GetSuperVersion, WriterTypes, TableTypes
<1>2. PICK op \in Ops, key \in UserKeys :
        reader' = [reader EXCEPT ![r] =
                    [pc |-> "super_version", op |-> op, key |-> key,
                     began |-> last_sequence, mem |-> mem, imm |-> imm,
                     files |-> files]]
  BY DEF GetSuperVersion
<1>3. PICK R : R = [pc |-> "super_version", op |-> op, key |-> key,
                    began |-> last_sequence, mem |-> mem, imm |-> imm,
                    files |-> files]
  OBVIOUS
<1>4. /\ R.pc = "super_version" /\ R.began = last_sequence /\ R.mem = mem
      /\ R.imm = imm /\ R.files = files
  BY <1>3
<1>5. R \in WithSuperVersion
  BY <1>1, <1>3 DEF WithSuperVersion
<1>6. Sees(R)
  <2>1. /\ View(R.mem, R.imm, R.files)
        /\ Covered(R.mem, R.imm, R.files, last_sequence)
    BY <1>4 DEF Views, CurrentView
  <2>2. \A f \in R.files : f.seq <= R.began
    BY <1>4, <2>1 DEF View
  <2>3. ASSUME NEW i \in DOMAIN R.imm, NEW e \in tables[R.imm[i]].entries
        PROVE  e.seq <= R.began
    <3>1. R.imm[i] \in DOMAIN tables /\ R.imm[i] < mem /\ R.imm[i] \in Nat
      BY <1>1, <1>4, <2>1 DEF View
    <3>2. R.imm[i] # mem
      BY <1>1, <3>1
    <3> QED
      BY <1>4, <3>1, <3>2, ListedEntry
  <2>4. R.began <= last_sequence
    BY <1>1, <1>4
  <2> QED
    BY <1>4, <2>1, <2>2, <2>3, <2>4 DEF Sees
<1>7. reader' = [reader EXCEPT ![r] = R]
  BY <1>2, <1>3
<1>8. Views'
  BY <1>1, <1>4, <1>6, <1>7, ReaderStep
<1>9. ReaderTypes'
  BY <1>5, <1>7 DEF ReaderTypes
<1> QED
  BY <1>8, <1>9

\* The snapshot comes after the SuperVersion, and is not older.
LEMMA TakeSnapshotViews ==
  ASSUME WriterTypes, ReaderTypes, Views, NEW r \in Readers, TakeSnapshot(r)
  PROVE  Views' /\ ReaderTypes'
<1>1. /\ UNCHANGED <<last_sequence, tables, mem, imm, flush, files, written>>
      /\ last_sequence \in Nat /\ reader[r].pc = "super_version"
  BY DEF TakeSnapshot, WriterTypes
<1>2. PICK Q : Q = reader[r]
  OBVIOUS
<1>3. Q \in WithSuperVersion /\ r \in Reading
  BY <1>1, <1>2, ReaderRecord DEF Reading
<1>4. PICK R : R = [pc |-> "snapshot", op |-> Q.op, key |-> Q.key,
                    began |-> Q.began, mem |-> Q.mem, imm |-> Q.imm,
                    files |-> Q.files, snapshot |-> last_sequence]
  OBVIOUS
<1>5. reader' = [reader EXCEPT ![r] = R]
  BY <1>2, <1>4 DEF TakeSnapshot
<1>6. /\ R.pc = "snapshot" /\ R.began = Q.began /\ R.mem = Q.mem
      /\ R.imm = Q.imm /\ R.files = Q.files /\ R.snapshot = last_sequence
  BY <1>4
<1>7. R \in WithSnapshot
  <2>1. /\ Q.op \in Ops /\ Q.key \in UserKeys /\ Q.began \in Nat
        /\ Q.mem \in Nat /\ Q.imm \in Seq(Nat) /\ Q.files \in SUBSET FileEntry
    BY <1>3 DEF WithSuperVersion
  <2> QED
    BY <1>1, <1>4, <2>1 DEF WithSnapshot
<1>8. Sees(Q)
  BY <1>2, <1>3 DEF Views, ReaderViews
<1>9. Sees(R)
  BY <1>6, <1>8 DEF Sees
<1>10. R.began <= R.snapshot /\ R.snapshot <= last_sequence
  BY <1>1, <1>6, <1>8 DEF Sees
<1>11. Views'
  BY <1>1, <1>5, <1>6, <1>9, <1>10, ReaderStep
<1>12. ReaderTypes'
  BY <1>5, <1>7 DEF ReaderTypes
<1> QED
  BY <1>11, <1>12

-----------------------------------------------------------------------------
(* What a lookup finds *)

\* The last write of a key, from what makes it the last.
LEMMA LastWriteIs ==
  ASSUME WriterTypes, Known, NEW w \in written, NEW s \in Nat, w.seq <= s,
         \A v \in written : v.key = w.key /\ v.seq <= s => v.seq <= w.seq
  PROVE  LastWrite(w.key, s) = [seq |-> w.seq, type |-> w.type]
<1>1. w \in Newest(written, w.key, s)
  BY DEF Newest
<1>2. ASSUME NEW v \in Newest(written, w.key, s) PROVE v = w
  <2>1. v \in written /\ v.seq <= w.seq /\ w.seq <= v.seq
    BY DEF Newest
  <2>2. v.seq \in Nat /\ w.seq \in Nat
    BY <2>1, WriteNumbers
  <2>3. v.seq = w.seq
    BY <2>1, <2>2
  <2> QED
    BY <2>1, <2>3 DEF Known, WritesKnown
<1>3. Newest(written, w.key, s) = {w}
  BY <1>1, <1>2
<1>4. (CHOOSE x \in {w} : TRUE) = w /\ {w} # {}
  OBVIOUS
<1> QED
  BY <1>3, <1>4 DEF LastWrite

\* A key without a write up to a number.
LEMMA NoLastWrite ==
  ASSUME NEW key, NEW s, \A v \in written : ~(v.key = key /\ v.seq <= s)
  PROVE  LastWrite(key, s) = [seq |-> 0, type |-> "kTypeDeletion"]
<1>1. Newest(written, key, s) = {}
  BY DEF Newest
<1> QED
  BY <1>1 DEF LastWrite

\* What is covered up to a number is covered up to a smaller one.
LEMMA CoveredLess ==
  ASSUME WriterTypes, NEW m0, NEW s, NEW F, NEW x \in Nat, NEW y \in Nat,
         y <= x, Covered(m0, s, F, x)
  PROVE  Covered(m0, s, F, y)
<1> SUFFICES ASSUME NEW w \in written, w.seq <= y
             PROVE  w.seq <= x
  BY DEF Covered
<1>1. w.seq \in Nat
  BY WriteNumbers
<1> QED
  BY <1>1

\* The moment whose state a reader sees: its snapshot, or the last write that
\* its memtables have.
LEMMA Moment ==
  ASSUME WriterTypes, TableTypes, NEW R, Sees(R), R.began \in Nat,
         R.snapshot \in Nat, R.began <= R.snapshot,
         R.snapshot <= last_sequence
  PROVE  \E s \in R.began .. R.snapshot :
           /\ s \in Nat /\ R.began <= s /\ s <= R.snapshot
           /\ Covered(R.mem, R.imm, R.files, s)
           /\ \A e \in tables[R.mem].entries : e.seq <= R.snapshot => e.seq <= s
<1>0. last_sequence \in Nat
  BY DEF WriterTypes
<1>1. CASE R.mem = mem
  <2>1. Covered(R.mem, R.imm, R.files, last_sequence)
    BY <1>1 DEF Sees
  <2>2. Covered(R.mem, R.imm, R.files, R.snapshot)
    BY <1>0, <2>1, CoveredLess
  <2>3. R.snapshot \in R.began .. R.snapshot /\ R.snapshot <= R.snapshot
    OBVIOUS
  <2> QED
    BY <2>2, <2>3
<1>2. CASE R.mem # mem
  <2>1. PICK x \in R.began .. last_sequence :
          /\ Covered(R.mem, R.imm, R.files, x)
          /\ \A e \in tables[R.mem].entries : e.seq <= x
    BY <1>2 DEF Sees
  <2>2. x \in Nat /\ R.began <= x
    BY <1>0
  <2>3. CASE x <= R.snapshot
    <3>1. x \in R.began .. R.snapshot
      BY <2>2, <2>3
    <3> QED
      BY <2>1, <2>2, <2>3, <3>1
  <2>4. CASE R.snapshot <= x
    <3>1. Covered(R.mem, R.imm, R.files, R.snapshot)
      BY <2>1, <2>2, <2>4, CoveredLess
    <3>2. R.snapshot \in R.began .. R.snapshot /\ R.snapshot <= R.snapshot
      OBVIOUS
    <3> QED
      BY <3>1, <3>2
  <2> QED
    BY <2>2, <2>3, <2>4
<1> QED
  BY <1>1, <1>2

\* The memtables of a view as one list, the newest first.
Listed(m0, s, F, list) ==
  /\ DOMAIN list \subseteq Nat
  /\ \A i \in DOMAIN list :
       /\ list[i] \in DOMAIN tables
       /\ \A f \in F : \A e \in tables[list[i]].entries : f.seq < e.seq
       /\ list[i] = m0 \/ \E j \in DOMAIN s : list[i] = s[j]
  /\ \A i, j \in DOMAIN list : i < j => list[j] < list[i]
  /\ \E i \in DOMAIN list : list[i] = m0
  /\ \A j \in DOMAIN s : \E i \in DOMAIN list : list[i] = s[j]

\* The list of a view has these properties.
LEMMA ListView ==
  ASSUME NEW m0 \in Nat, NEW s \in Seq(Nat), NEW F, View(m0, s, F),
         NEW list, list = <<m0>> \o s
  PROVE  Listed(m0, s, F, list)
<1>1. /\ list[1] = m0 /\ 1 \in DOMAIN list /\ DOMAIN list = 1 .. Len(s) + 1
      /\ Len(s) \in Nat
      /\ \A i \in DOMAIN s : i + 1 \in DOMAIN list /\ list[i + 1] = s[i]
      /\ \A i \in DOMAIN list : i \in Nat /\ (i # 1 =>
           i - 1 \in DOMAIN s /\ list[i] = s[i - 1])
  BY ConsList
<1>2. ASSUME NEW i \in DOMAIN list
      PROVE  list[i] = m0 \/ \E j \in DOMAIN s : list[i] = s[j]
  BY <1>1
<1>3. ASSUME NEW i \in DOMAIN list
      PROVE  /\ list[i] \in DOMAIN tables
             /\ \A f \in F : \A e \in tables[list[i]].entries : f.seq < e.seq
  BY <1>2 DEF View
<1>4. ASSUME NEW i \in DOMAIN list, NEW j \in DOMAIN list, i < j
      PROVE  list[j] < list[i]
  <2>1. i \in Nat /\ 1 <= i /\ j \in Nat /\ j # 1
    BY <1>1, <1>4
  <2>2. j - 1 \in DOMAIN s /\ list[j] = s[j - 1]
    BY <1>1, <2>1
  <2>3. CASE i = 1
    BY <1>1, <2>2, <2>3 DEF View
  <2>4. CASE i # 1
    <3>1. i - 1 \in DOMAIN s /\ list[i] = s[i - 1]
      BY <1>1, <2>4
    <3>2. i - 1 < j - 1
      BY <1>4, <2>1
    <3> QED
      BY <2>2, <3>1, <3>2 DEF View
  <2> QED
    BY <2>3, <2>4
<1> QED
  BY <1>1, <1>2, <1>3, <1>4 DEF Listed

\* Every write of a key up to x is in a memtable of the list or the files have
\* one of the key that is not older.
LEMMA CoveredList ==
  ASSUME WriterTypes, Known, NEW m0 \in Nat, NEW s \in Seq(Nat), NEW F,
         NEW list, Listed(m0, s, F, list), NEW x, Covered(m0, s, F, x),
         NEW v \in written, v.seq <= x
  PROVE  \/ \E i \in DOMAIN list : \E g \in tables[list[i]].entries :
              g.seq = v.seq /\ g.key = v.key
         \/ \E f \in F : f.key = v.key /\ v.seq <= f.seq
<1>0. /\ \A i \in DOMAIN list : list[i] \in DOMAIN tables
      /\ \E i \in DOMAIN list : list[i] = m0
      /\ \A j \in DOMAIN s : \E i \in DOMAIN list : list[i] = s[j]
  BY DEF Listed
<1>1. \/ \E i \in DOMAIN list : \E g \in tables[list[i]].entries :
           g.seq = v.seq
      \/ \E f \in F : f.key = v.key /\ v.seq <= f.seq
  BY <1>0 DEF Covered
<1>2. ASSUME NEW i \in DOMAIN list, NEW g \in tables[list[i]].entries,
             g.seq = v.seq
      PROVE  g.key = v.key
  <2>1. WriteOf(g) \in written
    BY <1>0 DEF Known, EntriesKnown
  <2>2. WriteOf(g).seq = g.seq /\ WriteOf(g).key = g.key
    BY DEF WriteOf
  <2>3. WriteOf(g) = v
    BY <1>2, <2>1, <2>2 DEF Known, WritesKnown
  <2> QED
    BY <2>2, <2>3
<1> QED
  BY <1>1, <1>2

\* A view, its list, a snapshot and the moment s that the reader sees.
Looking(m0, l, F, list, s, snapshot) ==
  /\ m0 \in Nat /\ l \in Seq(Nat) /\ F \in SUBSET FileEntry
  /\ View(m0, l, F) /\ Listed(m0, l, F, list)
  /\ s \in Nat /\ snapshot \in Nat /\ s <= snapshot
  /\ Covered(m0, l, F, s) /\ \A f \in F : f.seq <= s

Hit(list, j, key, snapshot) ==
  Newest(tables[list[j]].entries, key, snapshot) # {}

FirstHit(list, i, key, snapshot) ==
  i \in DOMAIN list /\ \A j \in DOMAIN list : Hit(list, j, key, snapshot)
                                                => i <= j

NoHit(list, key, snapshot) ==
  \A j \in DOMAIN list : ~Hit(list, j, key, snapshot)

\* The first memtable with an entry of the key has the last write.
LEMMA MemtableAnswer ==
  ASSUME WriterTypes, TableTypes, Known, NEW m0, NEW l, NEW F, NEW list,
         NEW key, NEW s, NEW snapshot, Looking(m0, l, F, list, s, snapshot),
         NEW i, FirstHit(list, i, key, snapshot),
         NEW e \in Newest(tables[list[i]].entries, key, snapshot), e.seq <= s
  PROVE  LastWrite(key, s) = [seq |-> e.seq, type |-> e.type]
<1>0. /\ m0 \in Nat /\ l \in Seq(Nat) /\ F \in SUBSET FileEntry
      /\ View(m0, l, F) /\ Listed(m0, l, F, list)
      /\ s \in Nat /\ snapshot \in Nat /\ s <= snapshot
      /\ Covered(m0, l, F, s) /\ i \in DOMAIN list
  BY DEF Looking, FirstHit
<1>1. e \in tables[list[i]].entries /\ e.key = key
  BY DEF Newest
<1>2. list[i] \in DOMAIN tables /\ i \in Nat
  BY <1>0 DEF Listed
<1>3. e.seq \in Nat
  BY <1>1, <1>2, EntryRecord
<1>4. PICK w : w = WriteOf(e)
  OBVIOUS
<1>5. w.key = key /\ w.seq = e.seq /\ w.type = e.type
  BY <1>1, <1>4 DEF WriteOf
<1>6. w \in written
  BY <1>1, <1>2, <1>4 DEF Known, EntriesKnown
<1>7. ASSUME NEW v \in written, v.key = key, v.seq <= s
      PROVE  v.seq <= e.seq
  <2>0. v.seq \in Nat
    BY WriteNumbers
  <2>1. \/ \E j \in DOMAIN list : \E g \in tables[list[j]].entries :
             g.seq = v.seq /\ g.key = v.key
        \/ \E f \in F : f.key = v.key /\ v.seq <= f.seq
    BY <1>0, <1>7, CoveredList
  <2>2. ASSUME NEW j \in DOMAIN list, NEW g \in tables[list[j]].entries,
               g.seq = v.seq, g.key = v.key
        PROVE  v.seq <= e.seq
    <3>1. list[j] \in DOMAIN tables /\ j \in Nat
      BY <1>0 DEF Listed
    <3>2. g.key = key /\ g.seq <= snapshot
      BY <1>0, <1>7, <2>0, <2>2
    <3>3. \A f \in tables[list[j]].entries : f.seq \in Nat
      BY <3>1, EntryRecord
    <3>4. Newest(tables[list[j]].entries, key, snapshot) # {}
      BY <1>0, <3>2, <3>3, NewestExists
    <3>5. i <= j
      BY <3>4 DEF FirstHit, Hit
    <3>6. CASE i = j
      BY <2>2, <3>2, <3>6 DEF Newest
    <3>7. CASE i < j
      <4>1. list[j] < list[i]
        BY <1>0, <3>7 DEF Listed
      <4>2. g.seq < e.seq
        BY <1>1, <1>2, <3>1, <4>1 DEF Known, TablesOrdered
      <4> QED
        BY <1>3, <2>0, <2>2, <4>2
    <3> QED
      BY <1>2, <3>1, <3>5, <3>6, <3>7
  <2>3. ASSUME NEW f \in F, v.seq <= f.seq
        PROVE  v.seq <= e.seq
    <3>1. f.seq < e.seq
      BY <1>0, <1>1 DEF Listed
    <3>2. f.seq \in Nat
      BY <1>0 DEF FileEntry
    <3> QED
      BY <1>3, <2>0, <2>3, <3>1, <3>2
  <2> QED
    BY <2>1, <2>2, <2>3
<1>8. LastWrite(w.key, s) = [seq |-> w.seq, type |-> w.type]
  BY <1>0, <1>5, <1>6, <1>7, LastWriteIs
<1> QED
  BY <1>5, <1>8

\* Without one, the files have it ...
LEMMA FileAnswer ==
  ASSUME WriterTypes, TableTypes, Known, NEW m0, NEW l, NEW F, NEW list,
         NEW key, NEW s, NEW snapshot, Looking(m0, l, F, list, s, snapshot),
         NoHit(list, key, snapshot)
  PROVE  /\ \A f \in Newest(F, key, snapshot) :
              LastWrite(key, s) = [seq |-> f.seq, type |-> f.type]
         /\ Newest(F, key, snapshot) = {} =>
              LastWrite(key, s) = [seq |-> 0, type |-> "kTypeDeletion"]
<1>0. /\ m0 \in Nat /\ l \in Seq(Nat) /\ F \in SUBSET FileEntry
      /\ View(m0, l, F) /\ Listed(m0, l, F, list)
      /\ s \in Nat /\ snapshot \in Nat /\ s <= snapshot
      /\ Covered(m0, l, F, s) /\ \A f \in F : f.seq <= s
  BY DEF Looking
<1>1. ASSUME NEW v \in written, v.key = key, v.seq <= s
      PROVE  \E f \in F : f.key = key /\ v.seq <= f.seq
  <2>0. v.seq \in Nat
    BY WriteNumbers
  <2>1. \/ \E j \in DOMAIN list : \E g \in tables[list[j]].entries :
             g.seq = v.seq /\ g.key = v.key
        \/ \E f \in F : f.key = v.key /\ v.seq <= f.seq
    BY <1>0, <1>1, CoveredList
  <2>2. ASSUME NEW j \in DOMAIN list, NEW g \in tables[list[j]].entries,
               g.seq = v.seq, g.key = v.key
        PROVE  FALSE
    <3>1. list[j] \in DOMAIN tables
      BY <1>0 DEF Listed
    <3>2. g.key = key /\ g.seq <= snapshot
      BY <1>0, <1>1, <2>0, <2>2
    <3>3. \A f \in tables[list[j]].entries : f.seq \in Nat
      BY <3>1, EntryRecord
    <3>4. Newest(tables[list[j]].entries, key, snapshot) # {}
      BY <1>0, <3>2, <3>3, NewestExists
    <3> QED
      BY <3>4 DEF NoHit, Hit
  <2> QED
    BY <1>1, <2>1, <2>2
<1>2. \A f \in F : f.seq \in Nat
  BY <1>0 DEF FileEntry
<1>3. ASSUME NEW f \in Newest(F, key, snapshot)
      PROVE  LastWrite(key, s) = [seq |-> f.seq, type |-> f.type]
  <2>1. /\ f \in F /\ f.key = key
        /\ \A g \in F : g.key = key /\ g.seq <= snapshot => g.seq <= f.seq
    BY DEF Newest
  <2>2. PICK w \in written : w.key = f.key /\ w.type = f.type /\ w.seq = f.seq
    BY <1>0, <2>1 DEF View
  <2>3. ASSUME NEW v \in written, v.key = key, v.seq <= s
        PROVE  v.seq <= f.seq
    <3>1. PICK g \in F : g.key = key /\ v.seq <= g.seq
      BY <1>1, <2>3
    <3>2. g.seq \in Nat /\ v.seq \in Nat /\ f.seq \in Nat /\ g.seq <= s
      BY <1>0, <1>2, <2>1, WriteNumbers
    <3>3. g.seq <= snapshot
      BY <1>0, <3>2
    <3>4. g.seq <= f.seq
      BY <2>1, <3>1, <3>3
    <3> QED
      BY <3>1, <3>2, <3>4
  <2>4. w.seq <= s
    BY <1>0, <2>1, <2>2
  <2>5. LastWrite(w.key, s) = [seq |-> w.seq, type |-> w.type]
    BY <1>0, <2>1, <2>2, <2>3, <2>4, LastWriteIs
  <2> QED
    BY <2>1, <2>2, <2>5
\* ... and if they do not, there is no write of the key.
<1>4. ASSUME Newest(F, key, snapshot) = {}
      PROVE  LastWrite(key, s) = [seq |-> 0, type |-> "kTypeDeletion"]
  <2>1. ASSUME NEW v \in written, v.key = key, v.seq <= s
        PROVE  FALSE
    <3>1. PICK g \in F : g.key = key /\ v.seq <= g.seq
      BY <1>1, <2>1
    <3>2. g.seq \in Nat /\ g.seq <= s
      BY <1>0, <1>2
    <3>3. g.seq <= snapshot
      BY <1>0, <3>2
    <3>4. Newest(F, key, snapshot) # {}
      BY <1>0, <1>2, <3>1, <3>3, NewestExists
    <3> QED
      BY <1>4, <3>4
  <2> QED
    BY <2>1, NoLastWrite
<1> QED
  BY <1>3, <1>4

\* The words of an entry hold its value, and a copy decrypts to it.
LEMMA EntryWords ==
  ASSUME TableTypes, Known, Contents, NEW m \in DOMAIN tables,
         NEW e \in tables[m].entries
  PROVE  /\ Words(e) \subseteq Word /\ SaveValue(e) \subseteq Word
         /\ e.type = "kTypeValue" =>
              SaveValue(e) = {[seq |-> e.seq, enc |-> FALSE]}
<1>1. e.seq \in Nat /\ e.ptr \in Nat /\ e.len \in Nat
  BY EntryRecord
<1>2. PICK w : w = [seq |-> e.seq, enc |-> TRUE]
  OBVIOUS
<1>3. \A a \in e.ptr .. e.ptr + e.len - 1 : memory[a] = w
  BY <1>2 DEF Contents, Holds
<1>4. Words(e) \subseteq {w}
  BY <1>3 DEF Words
<1>5. [seq |-> e.seq, enc |-> FALSE] \in Word /\ w \in Word
  BY <1>1, <1>2 DEF Word
<1>6. [w EXCEPT !.enc = ~@] = [seq |-> e.seq, enc |-> FALSE]
  <2>1. w.enc = TRUE
    BY <1>2
  <2>2. (~w.enc) = FALSE
    BY <2>1
  <2>3. PICK q, u, v : q = e.seq /\ u = TRUE /\ v = FALSE
    OBVIOUS
  <2>4. w = [seq |-> q, enc |-> u]
    BY <1>2, <2>3
  <2>5. [w EXCEPT !.enc = v] = [seq |-> q, enc |-> v]
    BY <2>4
  <2>6. (~w.enc) = v
    BY <2>2, <2>3
  <2> QED
    BY <2>3, <2>5, <2>6
<1>7. ASSUME e.type = "kTypeValue" PROVE w \in Words(e)
  <2>1. WriteOf(e) \in written
    BY DEF Known, EntriesKnown
  <2>2. WriteOf(e).type = "kTypeValue" /\ WriteOf(e).len = e.len
    BY <1>7 DEF WriteOf
  <2>3. e.len # 0
    BY <2>1, <2>2 DEF Known, WritesKnown
  <2>4. e.ptr \in e.ptr .. e.ptr + e.len - 1
    BY <1>1, <2>3
  <2> QED
    BY <1>3, <2>4 DEF Words
<1>8. Decryption(Words(e)) \subseteq {[seq |-> e.seq, enc |-> FALSE]}
  BY <1>4, <1>6 DEF Decryption
<1>9. ASSUME e.type = "kTypeValue"
      PROVE  SaveValue(e) = {[seq |-> e.seq, enc |-> FALSE]}
  <2>1. [w EXCEPT !.enc = ~@] \in Decryption(Words(e))
    BY <1>7, <1>9 DEF Decryption
  <2> QED
    BY <1>6, <1>8, <1>9, <2>1 DEF SaveValue
<1>10. SaveValue(e) \subseteq Word
  BY <1>5, <1>8 DEF SaveValue
<1>11. Words(e) \subseteq Word
  BY <1>4, <1>5
<1> QED
  BY <1>9, <1>10, <1>11

\* Get and the iterator find the last write up to a moment between the start
\* of the read and its snapshot, and Get decrypts it.
LEMMA LookupRight ==
  ASSUME WriterTypes, TableTypes, ReaderTypes, Known, Contents, Views,
         NEW r \in Readers, reader[r].pc = "snapshot", NEW answer \in Answers(r)
  PROVE  /\ answer \in AnswerOf
         /\ \E s \in reader[r].began .. reader[r].snapshot :
              LastWrite(reader[r].key, s) = [seq |-> answer.seq,
                                             type |-> answer.type]
         /\ reader[r].op = "get" /\ answer.where = "memtable"
              /\ answer.type = "kTypeValue"
            => answer.value = {[seq |-> answer.seq, enc |-> FALSE]}
<1>1. PICK R : R = reader[r]
  OBVIOUS
<1>2. /\ r \in Reading /\ R.mem \in Nat /\ R.imm \in Seq(Nat)
      /\ R.files \in SUBSET FileEntry /\ R.began \in Nat
      /\ R.snapshot \in Nat
  BY <1>1, ReaderRecord DEF Reading
<1>3. Sees(R) /\ R.began <= R.snapshot /\ R.snapshot <= last_sequence
  BY <1>1, <1>2 DEF Views, ReaderViews
<1>4. View(R.mem, R.imm, R.files)
  BY <1>3 DEF Sees
<1>5. PICK s \in R.began .. R.snapshot :
        /\ s \in Nat /\ R.began <= s /\ s <= R.snapshot
        /\ Covered(R.mem, R.imm, R.files, s)
        /\ \A e \in tables[R.mem].entries : e.seq <= R.snapshot => e.seq <= s
  BY <1>2, <1>3, Moment
<1>6. PICK list : list = <<R.mem>> \o R.imm
  OBVIOUS
<1>7. Listed(R.mem, R.imm, R.files, list)
  BY <1>2, <1>4, <1>6, ListView
<1>l. Looking(R.mem, R.imm, R.files, list, s, R.snapshot)
  <2>1. \A f \in R.files : f.seq \in Nat /\ f.seq <= R.began
    BY <1>2, <1>3 DEF Sees, FileEntry
  <2>2. \A f \in R.files : f.seq <= s
    BY <1>2, <1>5, <2>1
  <2> QED
    BY <1>2, <1>4, <1>5, <1>7, <2>2 DEF Looking
<1>8. PICK hits : hits = {i \in DOMAIN list :
        Newest(tables[list[i]].entries, R.key, R.snapshot) # {}}
  OBVIOUS
<1>9. Answers(r) =
        IF hits # {}
        THEN {FromMemtable(R.op, e) :
                e \in Newest(tables[list[Min(hits)]].entries, R.key,
                             R.snapshot)}
        ELSE LET old == Newest(R.files, R.key, R.snapshot)
             IN IF old # {} THEN {FromFile(e) : e \in old} ELSE {NotFound}
  <2>1. R = reader[r] /\ list = <<reader[r].mem>> \o reader[r].imm
    BY <1>1, <1>6
  <2>2. hits = {i \in DOMAIN (<<reader[r].mem>> \o reader[r].imm) :
                  Newest(tables[(<<reader[r].mem>> \o reader[r].imm)[i]].entries,
                         reader[r].key, reader[r].snapshot) # {}}
    BY <1>8, <2>1
  <2>3. CASE hits # {}
    BY <2>1, <2>2, <2>3 DEF Answers
  <2>4. CASE hits = {}
    BY <2>1, <2>2, <2>4 DEF Answers
  <2> QED
    BY <2>3, <2>4
<1>10. ASSUME hits # {}
       PROVE  /\ answer \in AnswerOf
              /\ LastWrite(R.key, s) = [seq |-> answer.seq,
                                        type |-> answer.type]
              /\ R.op = "get" /\ answer.type = "kTypeValue"
                 => answer.value = {[seq |-> answer.seq, enc |-> FALSE]}
  <2>1. PICK i : i = Min(hits)
    OBVIOUS
  <2>2. i \in DOMAIN list /\ \A j \in hits : i <= j
    <3>1. hits \subseteq Nat
      BY <1>7, <1>8 DEF Listed
    <3>2. \E x \in hits : \A y \in hits : x <= y
      BY <1>10, <3>1, LeastNumber
    <3>3. i \in hits /\ \A y \in hits : i <= y
      BY <2>1, <3>2 DEF Min
    <3> QED
      BY <1>8, <3>3
  <2>3. PICK e \in Newest(tables[list[i]].entries, R.key, R.snapshot) :
          answer = FromMemtable(R.op, e)
    BY <1>9, <1>10, <2>1
  <2>4. e \in tables[list[i]].entries /\ e.seq <= R.snapshot
    BY DEF Newest
  <2>5. list[i] \in DOMAIN tables
        /\ (list[i] = R.mem \/ \E j \in DOMAIN R.imm : list[i] = R.imm[j])
    BY <1>7, <2>2 DEF Listed
  <2>6. e.seq \in Nat /\ e.type \in Types
    BY <2>4, <2>5, EntryRecord
  <2>7. e.seq <= s
    <3>1. CASE list[i] = R.mem
      BY <1>5, <2>4, <3>1
    <3>2. CASE \E j \in DOMAIN R.imm : list[i] = R.imm[j]
      <4>1. e.seq <= R.began
        BY <1>3, <2>4, <3>2 DEF Sees
      <4> QED
        BY <1>2, <1>5, <2>6, <4>1
    <3> QED
      BY <2>5, <3>1, <3>2
  <2>8. \A j \in DOMAIN list :
          Newest(tables[list[j]].entries, R.key, R.snapshot) # {} => i <= j
    BY <1>8, <2>2
  <2>9. LastWrite(R.key, s) = [seq |-> e.seq, type |-> e.type]
    <3>1. PICK m0, l, F, key, z :
            /\ m0 = R.mem /\ l = R.imm /\ F = R.files /\ key = R.key
            /\ z = R.snapshot
      OBVIOUS
    <3>2. Looking(m0, l, F, list, s, z)
      BY <1>l, <3>1
    <3>4. FirstHit(list, i, key, z)
      BY <2>2, <2>8, <3>1 DEF FirstHit, Hit
    <3>5. e \in Newest(tables[list[i]].entries, key, z)
      BY <2>3, <3>1
    <3>3. LastWrite(key, s) = [seq |-> e.seq, type |-> e.type]
      BY <2>7, <3>2, <3>4, <3>5, MemtableAnswer
    <3> QED
      BY <3>1, <3>3
  <2>10. /\ Words(e) \subseteq Word /\ SaveValue(e) \subseteq Word
         /\ e.type = "kTypeValue" =>
              SaveValue(e) = {[seq |-> e.seq, enc |-> FALSE]}
    BY <2>4, <2>5, EntryWords
  <2>11. PICK v : v = IF R.op = "get" THEN SaveValue(e) ELSE IteratorValue(e)
    OBVIOUS
  <2>12. answer = [seq |-> e.seq, type |-> e.type, where |-> "memtable",
                   value |-> v]
    BY <2>3, <2>11 DEF FromMemtable
  <2>13. answer.seq = e.seq /\ answer.type = e.type /\ answer.value = v
    BY <2>12
  <2>14. v \subseteq Word
    BY <2>10, <2>11 DEF IteratorValue
  <2>15. answer \in AnswerOf
    BY <2>6, <2>12, <2>14 DEF AnswerOf
  <2>16. R.op = "get" /\ answer.type = "kTypeValue"
         => answer.value = {[seq |-> answer.seq, enc |-> FALSE]}
    BY <2>10, <2>11, <2>13
  <2> QED
    BY <2>9, <2>13, <2>15, <2>16
<1>11. ASSUME hits = {}
       PROVE  /\ answer \in AnswerOf /\ answer.where # "memtable"
              /\ LastWrite(R.key, s) = [seq |-> answer.seq,
                                        type |-> answer.type]
  <2>1. \A j \in DOMAIN list :
          Newest(tables[list[j]].entries, R.key, R.snapshot) = {}
    BY <1>8, <1>11
  <2>2. /\ \A f \in Newest(R.files, R.key, R.snapshot) :
             LastWrite(R.key, s) = [seq |-> f.seq, type |-> f.type]
        /\ Newest(R.files, R.key, R.snapshot) = {} =>
             LastWrite(R.key, s) = [seq |-> 0, type |-> "kTypeDeletion"]
    <3>1. PICK m0, l, F, key, z :
            /\ m0 = R.mem /\ l = R.imm /\ F = R.files /\ key = R.key
            /\ z = R.snapshot
      OBVIOUS
    <3>2. Looking(m0, l, F, list, s, z)
      BY <1>l, <3>1
    <3>4. NoHit(list, key, z)
      BY <2>1, <3>1 DEF NoHit, Hit
    <3>3. /\ \A f \in Newest(F, key, z) :
               LastWrite(key, s) = [seq |-> f.seq, type |-> f.type]
          /\ Newest(F, key, z) = {} =>
               LastWrite(key, s) = [seq |-> 0, type |-> "kTypeDeletion"]
      BY <3>2, <3>4, FileAnswer
    <3> QED
      BY <3>1, <3>3
  <2>3. CASE Newest(R.files, R.key, R.snapshot) # {}
    <3>1. PICK f \in Newest(R.files, R.key, R.snapshot) : answer = FromFile(f)
      BY <1>9, <1>11, <2>3
    <3>2. f \in FileEntry
      BY <1>2 DEF Newest
    <3>3. f.seq \in Nat /\ f.type \in Types /\ f.value \subseteq Word
      BY <3>2 DEF FileEntry
    <3>4. answer = [seq |-> f.seq, type |-> f.type, where |-> "file",
                    value |-> f.value]
      BY <3>1 DEF FromFile
    <3>5. answer \in AnswerOf
      BY <3>3, <3>4 DEF AnswerOf
    <3>6. /\ answer.seq = f.seq /\ answer.type = f.type
          /\ answer.where # "memtable"
      BY <3>4
    <3> QED
      BY <2>2, <3>5, <3>6
  <2>4. CASE Newest(R.files, R.key, R.snapshot) = {}
    <3>1. answer = NotFound
      BY <1>9, <1>11, <2>4
    <3>2. answer \in AnswerOf
      BY <3>1 DEF NotFound, AnswerOf, Types
    <3>3. /\ answer.seq = 0 /\ answer.type = "kTypeDeletion"
          /\ answer.where # "memtable"
      BY <3>1 DEF NotFound
    <3> QED
      BY <2>2, <2>4, <3>2, <3>3
  <2> QED
    BY <2>3, <2>4
<1>12. CASE hits # {}
  BY <1>1, <1>5, <1>10, <1>12
<1>13. CASE hits = {}
  BY <1>1, <1>5, <1>11, <1>13
<1> QED
  BY <1>12, <1>13

\* An answered reader gives its SuperVersion back.
LEMMA LookupViews ==
  ASSUME WriterTypes, TableTypes, ReaderTypes, Known, Contents, Views,
         NEW r \in Readers, Lookup(r)
  PROVE  Views' /\ ReaderTypes'
<1>1. /\ UNCHANGED <<last_sequence, tables, mem, imm, flush, files, written>>
      /\ reader[r].pc = "snapshot"
  BY DEF Lookup
<1>2. PICK Q : Q = reader[r]
  OBVIOUS
<1>3. /\ Q \in WithSnapshot
      /\ Q.began <= Q.snapshot /\ Q.snapshot <= last_sequence
  BY <1>1, <1>2, ReaderRecord DEF Views, ReaderViews
<1>4. /\ Q.op \in Ops /\ Q.key \in UserKeys /\ Q.began \in Nat
      /\ Q.snapshot \in Nat
  BY <1>3 DEF WithSnapshot
<1>5. PICK answer \in Answers(r) :
        reader' = [reader EXCEPT ![r] =
                    [pc |-> "answered", op |-> Q.op, key |-> Q.key,
                     began |-> Q.began, snapshot |-> Q.snapshot,
                     answer |-> answer]]
  BY <1>2 DEF Lookup
<1>6. /\ answer \in AnswerOf
      /\ \E s \in Q.began .. Q.snapshot :
           LastWrite(Q.key, s) = [seq |-> answer.seq, type |-> answer.type]
      /\ Q.op = "get" /\ answer.where = "memtable"
           /\ answer.type = "kTypeValue"
         => answer.value = {[seq |-> answer.seq, enc |-> FALSE]}
  BY <1>1, <1>2, LookupRight
<1>7. PICK R : R = [pc |-> "answered", op |-> Q.op, key |-> Q.key,
                    began |-> Q.began, snapshot |-> Q.snapshot,
                    answer |-> answer]
  OBVIOUS
<1>8. /\ R.pc = "answered" /\ R.op = Q.op /\ R.key = Q.key
      /\ R.began = Q.began /\ R.snapshot = Q.snapshot /\ R.answer = answer
  BY <1>7
<1>9. Right(R)
  BY <1>6, <1>8 DEF Right
<1>10. R \in WithAnswer
  BY <1>4, <1>6, <1>7 DEF WithAnswer
<1>11. reader' = [reader EXCEPT ![r] = R]
  BY <1>5, <1>7
<1>12. Views'
  BY <1>1, <1>3, <1>8, <1>9, <1>11, ReaderStep
<1>13. ReaderTypes'
  BY <1>10, <1>11 DEF ReaderTypes
<1> QED
  BY <1>12, <1>13

-----------------------------------------------------------------------------
(* Types *)

\* The types after a group is formed ...
LEMMA JoinTypes ==
  ASSUME WriterTypes, JoinBatchGroup
  PROVE  WriterTypes'
<1>1. PICK W \in SUBSET Threads :
        /\ \A t \in W : WriteOf(writer'[t]) \in Written
        /\ written' = written \cup {WriteOf(writer'[t]) : t \in W}
        /\ writer' \in [Threads -> Writing \cup {NoWrite}]
  BY JoinEffect
<1>2. last_sequence' = last_sequence
  BY DEF JoinBatchGroup
<1>3. written' \subseteq Written
  BY <1>1 DEF WriterTypes
<1> QED
  BY <1>1, <1>2, <1>3 DEF WriterTypes

\* ... after steps that change no memtable and no file ...
LEMMA TableTypesKept ==
  ASSUME TableTypes, UNCHANGED <<tables, mem, imm, memory, flush, files>>
  PROVE  TableTypes'
BY DEF TableTypes

\* ... after a value is sealed ...
LEMMA AddSealTypes ==
  ASSUME WriterTypes, TableTypes, NEW t \in Threads, AddSeal(t)
  PROVE  TableTypes'
<1>1. UNCHANGED <<tables, mem, imm, flush, files>>
  BY DEF AddSeal
<1>2. writer[t].seq \in Nat
  BY WriterRecord DEF AddSeal
<1>3. PICK w : w = [seq |-> writer[t].seq, enc |-> TRUE]
  OBVIOUS
<1>4. w \in Word
  BY <1>2, <1>3 DEF Word
<1>5. PICK V : memory' = [a \in DOMAIN memory \cup V |->
                            IF a \in V THEN w ELSE memory[a]]
  BY <1>3 DEF AddSeal
<1>6. \A a \in DOMAIN memory' : memory'[a] \in Word
  BY <1>4, <1>5 DEF TableTypes
<1> QED
  BY <1>1, <1>6 DEF TableTypes

\* ... after an entry is inserted ...
LEMMA AddInsertTypes ==
  ASSUME ArenaInv, WriterTypes, TableTypes, Coupled, NEW t \in Threads,
         AddInsert(t)
  PROVE  WriterTypes' /\ TableTypes'
<1>1. UNCHANGED <<last_sequence, mem, imm, memory, flush, files, written>>
  BY DEF AddInsert
<1>2. /\ DOMAIN tables' = DOMAIN tables
      /\ \A m \in DOMAIN tables \ {mem} : tables'[m] = tables[m]
      /\ NewEntry(t) \in Entry
      /\ writer' \in [Threads -> Writing \cup {NoWrite}]
  BY AddInsertEffect
<1>3. mem \in DOMAIN tables /\ tables[mem] \in Table
  BY DEF TableTypes
<1>4. tables'[mem] = [tables[mem] EXCEPT !.entries = @ \cup {NewEntry(t)}]
  BY <1>3 DEF AddInsert, NewEntry
<1>5. tables'[mem] \in Table
  BY <1>2, <1>3, <1>4 DEF Table
<1>6. \A m \in DOMAIN tables' : tables'[m] \in Table
  BY <1>2, <1>5 DEF TableTypes
<1>7. TableTypes'
  BY <1>1, <1>2, <1>6 DEF TableTypes
<1>8. WriterTypes'
  BY <1>1, <1>2 DEF WriterTypes
<1> QED
  BY <1>7, <1>8

\* ... after a memtable is switched ...
LEMMA SwitchTypes ==
  ASSUME ArenaInv, TableTypes, SwitchMemtable
  PROVE  TableTypes'
<1>1. /\ mem' = mem + 1 /\ mem \in Nat /\ mem \in DOMAIN tables
      /\ DOMAIN tables' = DOMAIN tables \cup {mem + 1}
      /\ tables'[mem + 1] = NewTable
      /\ \A m \in DOMAIN tables \ {mem} : tables'[m] = tables[m]
      /\ imm' = <<mem>> \o imm
  BY SwitchEffect
<1>2. UNCHANGED <<memory, flush, files>>
  BY DEF SwitchMemtable
<1>3. /\ arena_.blocks \in SUBSET Nat /\ tables[mem] \in Table
      /\ imm \in Seq(Nat) /\ DOMAIN tables \subseteq 0 .. mem
  BY <1>1 DEF ArenaInv, ArenaTypeOK, ArenaState, TableTypes
<1>4. tables'[mem] = [tables[mem] EXCEPT !.blocks = arena_.blocks]
  BY <1>1 DEF SwitchMemtable
<1>5. tables'[mem] \in Table
  BY <1>3, <1>4 DEF Table
<1>6. NewTable \in Table
  BY DEF NewTable, Table
<1>7. \A m \in DOMAIN tables' : tables'[m] \in Table
  BY <1>1, <1>5, <1>6 DEF TableTypes
<1>8. /\ mem' \in Nat /\ mem' \in DOMAIN tables'
      /\ DOMAIN tables' \subseteq 0 .. mem'
  BY <1>1, <1>3
<1>9. imm' \in Seq(Nat)
  BY <1>1, <1>3, ConsList
<1> QED
  BY <1>2, <1>7, <1>8, <1>9 DEF TableTypes

\* ... after a flush job has written its SST ...
LEMMA WriteLevel0Types ==
  ASSUME TableTypes, Known, Contents, CurrentView, WriteLevel0Table
  PROVE  TableTypes'
<1>1. UNCHANGED <<tables, mem, imm, memory, files>>
  BY DEF WriteLevel0Table
<1>2. PICK E, K :
        /\ E = UNION {tables[m].entries : m \in ToSet(imm)}
        /\ K = UNION {Newest(E, k, last_sequence) : k \in UserKeys}
        /\ flush' = [mems |-> imm,
                     output |-> {[key |-> e.key, type |-> e.type,
                                  seq |-> e.seq, value |-> IteratorValue(e)]
                                    : e \in K}]
  BY DEF WriteLevel0Table
<1>3. K \subseteq E
  BY <1>2 DEF Newest
<1>4. ASSUME NEW e \in K
      PROVE  [key |-> e.key, type |-> e.type, seq |-> e.seq,
              value |-> IteratorValue(e)] \in FileEntry
  <2>0. PICK m \in ToSet(imm) : e \in tables[m].entries
    BY <1>2, <1>3
  <2>1. PICK i \in DOMAIN imm : e \in tables[imm[i]].entries
    BY <2>0 DEF ToSet
  <2>2. imm[i] \in DOMAIN tables
    BY DEF CurrentView, View
  <2>3. Words(e) \subseteq Word
    BY <2>1, <2>2, EntryWords
  <2>4. e.key \in UserKeys /\ e.type \in Types /\ e.seq \in Nat
    BY <2>1, <2>2, EntryRecord
  <2> QED
    BY <2>3, <2>4 DEF FileEntry, IteratorValue
<1>5. PICK O : O = {[key |-> e.key, type |-> e.type, seq |-> e.seq,
                     value |-> IteratorValue(e)] : e \in K}
  OBVIOUS
<1>6. O \in SUBSET FileEntry
  BY <1>4, <1>5
<1>7. flush' = [mems |-> imm, output |-> O] /\ imm \in Seq(Nat)
  BY <1>2, <1>5 DEF TableTypes
<1>8. flush' \in [mems : Seq(Nat), output : SUBSET FileEntry]
  BY <1>6, <1>7
<1> QED
  BY <1>1, <1>8 DEF TableTypes

\* ... after the SST is installed ...
LEMMA InstallTypes ==
  ASSUME TableTypes, Flushing, InstallMemtableFlushResults
  PROVE  TableTypes'
<1>1. /\ UNCHANGED <<tables, mem, memory>>
      /\ files' = files \cup flush.output /\ flush' = NoFlush
      /\ imm' = SubSeq(imm, 1, Len(imm) - Len(flush.mems))
  BY DEF InstallMemtableFlushResults
<1>2. imm \in Seq(Nat) /\ flush.mems \in Seq(Nat)
      /\ flush.output \subseteq FileEntry
  BY DEF TableTypes
<1>3. /\ Len(imm) \in Nat /\ DOMAIN imm = 1 .. Len(imm)
      /\ Len(flush.mems) \in Nat /\ Len(flush.mems) <= Len(imm)
  BY <1>2 DEF Flushing
<1>4. PICK a \in Nat, b \in Nat :
        a = Len(imm) /\ b = Len(flush.mems) /\ b <= a
  BY <1>3
<1>5. imm' \in Seq(Nat)
  <2>1. 1 \in Int /\ a - b \in Int
    OBVIOUS
  <2>2. ASSUME NEW i \in 1 .. a - b PROVE imm[i] \in Nat
    <3>1. i \in 1 .. a
      BY <1>4
    <3> QED
      BY <1>2, <1>3, <1>4, <3>1
  <2>3. SubSeq(imm, 1, a - b) \in Seq(Nat)
    BY <2>1, <2>2, SubSeqProperties
  <2> QED
    BY <1>1, <1>4, <2>3
<1>6. NoFlush \in [mems : Seq(Nat), output : SUBSET FileEntry]
  <2>1. <<>> \in Seq(Nat)
    OBVIOUS
  <2> QED
    BY <2>1 DEF NoFlush
<1>7. files' \subseteq FileEntry
  BY <1>1, <1>2 DEF TableTypes
<1> QED
  BY <1>1, <1>5, <1>6, <1>7 DEF TableTypes

\* ... and after a memtable is deleted.
LEMMA DeleteTypes ==
  ASSUME TableTypes, NEW k \in DOMAIN tables, DeleteMemTable(k)
  PROVE  TableTypes'
<1>1. /\ UNCHANGED <<mem, imm, flush, files>> /\ k # mem
      /\ DOMAIN tables' = DOMAIN tables \ {k}
      /\ \A n \in DOMAIN tables \ {k} : tables'[n] = tables[n]
  BY DEF DeleteMemTable
<1>2. \A a \in DOMAIN memory' : memory'[a] \in Word
  BY DEF DeleteMemTable, TableTypes
<1> QED
  BY <1>1, <1>2 DEF TableTypes

-----------------------------------------------------------------------------
(* The invariant *)

\* The invariant in the parts in which it is proved ...
LEMMA InvParts ==
  MInv <=> /\ ArenaInv /\ WriterTypes /\ TableTypes /\ ReaderTypes
           /\ Stored /\ Known /\ Views
BY DEF MInv, Stored, Known, Views

\* ... before and after a step.
LEMMA InvPartsNext ==
  ASSUME ArenaInv', WriterTypes', TableTypes', ReaderTypes', Stored', Known',
         Views'
  PROVE  MInv'
BY DEF MInv, Stored, Known, Views

\* Readers that do nothing keep their types.
LEMMA ReaderTypesKept ==
  ASSUME ReaderTypes, UNCHANGED reader
  PROVE  ReaderTypes'
BY DEF ReaderTypes

\* An empty database satisfies the invariant.
LEMMA MemValuesStart == Init => MInv
<1> SUFFICES ASSUME Init PROVE MInv
  OBVIOUS
<1>1. /\ ArenaInit
      /\ writer = [t \in Threads |-> NoWrite] /\ last_sequence = 0
      /\ tables = [m \in {0} |-> NewTable] /\ mem = 0 /\ imm = <<>>
      /\ memory = <<>> /\ flush = NoFlush /\ files = {}
      /\ reader = [r \in Readers |-> NoRead] /\ written = {}
  BY DEF Init
<1>2. ArenaInv
  BY <1>1, ArenaStarts
<1>3. /\ DOMAIN tables = {0} /\ tables[0] = NewTable
      /\ tables[0].entries = {} /\ tables[0].blocks = {}
      /\ \A t \in Threads : writer[t] = NoWrite /\ writer[t].stage = "none"
      /\ \A r \in Readers : reader[r] = NoRead /\ reader[r].pc = "idle"
      /\ Group = {} /\ DOMAIN imm = {} /\ DOMAIN memory = {}
      /\ flush.mems = <<>> /\ flush.output = {} /\ DOMAIN flush.mems = {}
  <2>1. DOMAIN <<>> = {}
    OBVIOUS
  <2> QED
    BY <1>1, <2>1 DEF NewTable, NoWrite, NoRead, Group, NoFlush
<1>4. \A t \in Threads : call[t].pc = "idle"
  BY <1>1 DEF ArenaInit, Idle, Calling
<1>5. WriterTypes
  BY <1>1 DEF WriterTypes
<1>6. TableTypes
  <2>1. NewTable \in Table
    BY DEF NewTable, Table
  <2>2. <<>> \in Seq(Nat)
    OBVIOUS
  <2>3. NoFlush \in [mems : Seq(Nat), output : SUBSET FileEntry]
    BY <2>2 DEF NoFlush
  <2> QED
    BY <1>1, <1>3, <2>1, <2>2, <2>3 DEF TableTypes
<1>7. ReaderTypes
  BY <1>1 DEF ReaderTypes
<1>8. Stored
  <2>1. Coupled
    BY <1>3, <1>4 DEF Coupled
  <2>2. OwnedLive /\ OwnedApart
    BY <1>3, <1>4 DEF OwnedLive, OwnedApart, Done
  <2>3. ArenaWithin
    BY <1>1, <1>4 DEF ArenaWithin, Within, Done, ArenaInit, NewArena, NewShard,
                      Free
  <2>4. Blocks(0) = {}
    BY <1>1 DEF Blocks, ArenaInit, NewArena
  <2>5. EntriesWithin /\ BlocksApart
    BY <1>3, <2>4 DEF EntriesWithin, BlocksApart
  <2>6. Contents
    BY <1>3 DEF Contents
  <2> QED
    BY <2>1, <2>2, <2>3, <2>5, <2>6 DEF Stored
<1>9. Known
  BY <1>1, <1>3 DEF Known, WritesKnown, GroupKnown, EntriesKnown, TablesOrdered
<1>10. Views
  <2>1. CurrentView
    BY <1>1, <1>3 DEF CurrentView, View, Covered
  <2>2. ReaderViews
    BY <1>3 DEF ReaderViews, Reading
  <2>3. Flushing
    <3>1. Len(<<>>) = 0
      OBVIOUS
    <3> QED
      BY <1>1, <1>3, <3>1 DEF Flushing
  <2>4. AnswersCurrent
    BY <1>3 DEF AnswersCurrent, Answered
  <2> QED
    BY <2>1, <2>2, <2>3, <2>4 DEF Views
<1> QED
  BY <1>2, <1>5, <1>6, <1>7, <1>8, <1>9, <1>10, InvParts

\* Flushes and readers leave the memory of the memtables alone.
LEMMA StoredFrame ==
  ASSUME ArenaInv, Stored, UNCHANGED <<arenaVars, writer, tables, mem, memory>>
  PROVE  ArenaInv' /\ Stored'
<1>1. UNCHANGED call
  BY DEF arenaVars
<1>2. Coupled'
  BY <1>1 DEF Stored, Coupled
<1> QED
  BY <1>2, StoredKept

\* A group that is formed owns no memory yet.
LEMMA JoinStored ==
  ASSUME ArenaInv, Stored, WriterTypes, JoinBatchGroup
  PROVE  ArenaInv' /\ Stored'
<1>1. UNCHANGED <<arenaVars, tables, mem, memory>> /\ Group = {}
  BY DEF JoinBatchGroup
<1>2. UNCHANGED call
  BY <1>1 DEF arenaVars
<1>3. PICK W \in SUBSET Threads :
        /\ \A t \in W : writer'[t].stage = "assigned"
        /\ \A t \in Threads \ W : writer'[t] = NoWrite
  BY JoinEffect
<1>4. \A t \in Threads : writer'[t].stage \in {"none", "assigned"}
  BY <1>3 DEF NoWrite
<1>5. \A t \in Threads : call'[t].pc = "idle"
  BY <1>1, <1>2, NoGroup DEF Stored
<1>6. Coupled'
  BY <1>4, <1>5 DEF Coupled
<1>7. \A t \in Threads : writer'[t].stage # "sealed"
  BY <1>4
<1> QED
  BY <1>1, <1>6, <1>7, StoredKept

\* A group that is published owns no memory any more.
LEMMA CompleteStored ==
  ASSUME ArenaInv, Stored, WriterTypes, CompleteParallelMemTableWriter
  PROVE  ArenaInv' /\ Stored'
<1>1. /\ UNCHANGED <<arenaVars, tables, mem, memory>>
      /\ \A t \in Group : writer[t].stage = "inserted"
      /\ writer' = [t \in Threads |-> NoWrite]
  BY DEF CompleteParallelMemTableWriter
<1>2. UNCHANGED call
  BY <1>1 DEF arenaVars
<1>3. \A t \in Threads : writer'[t].stage = "none"
  BY <1>1 DEF NoWrite
<1>4. \A t \in Threads : writer[t].stage \in {"none", "inserted"}
  BY <1>1 DEF Group, NoWrite
<1>5. \A t \in Threads : call'[t].pc = "idle"
  BY <1>2, <1>4 DEF Stored, Coupled
<1>6. Coupled'
  BY <1>3, <1>5 DEF Coupled
<1>7. \A t \in Threads : writer'[t].stage # "sealed"
  BY <1>3
<1> QED
  BY <1>1, <1>6, <1>7, StoredKept

\* Every step keeps the invariant.
LEMMA MemValuesStep == MInv /\ [Next]_vars => MInv'
<1> SUFFICES ASSUME MInv, [Next]_vars PROVE MInv'
  OBVIOUS
<1>0. /\ ArenaInv /\ WriterTypes /\ TableTypes /\ ReaderTypes
      /\ Stored /\ Known /\ Views
  BY InvParts
<1>c. Coupled /\ Contents /\ CurrentView /\ Flushing
  BY <1>0 DEF Stored, Views
<1>1. CASE JoinBatchGroup
  <2>1. UNCHANGED <<tables, mem, imm, memory, flush, files, reader>>
    BY <1>1 DEF JoinBatchGroup
  <2>2. ArenaInv' /\ Stored'
    BY <1>0, <1>1, JoinStored
  <2>3. WriterTypes' /\ Known' /\ Views'
    BY <1>0, <1>1, JoinTypes, JoinKnown, JoinViews
  <2>4. TableTypes' /\ ReaderTypes'
    BY <1>0, <2>1, TableTypesKept, ReaderTypesKept
  <2> QED
    BY <2>2, <2>3, <2>4, InvPartsNext
<1>2. CASE CompleteParallelMemTableWriter
  <2>1. UNCHANGED <<tables, mem, imm, memory, flush, files, reader, written>>
    BY <1>2 DEF CompleteParallelMemTableWriter
  <2>2. ArenaInv' /\ Stored'
    BY <1>0, <1>2, CompleteStored
  <2>3. /\ Known' /\ last_sequence' \in Nat
        /\ writer' \in [Threads -> Writing \cup {NoWrite}]
    BY <1>0, <1>2, CompleteKnown
  <2>4. WriterTypes'
    BY <1>0, <2>1, <2>3 DEF WriterTypes
  <2>5. Views'
    BY <1>0, <1>2, CompleteViews
  <2>6. TableTypes' /\ ReaderTypes'
    BY <1>0, <2>1, TableTypesKept, ReaderTypesKept
  <2> QED
    BY <2>2, <2>3, <2>4, <2>5, <2>6, InvPartsNext
<1>3. ASSUME NEW t \in Threads, AddAllocate(t) PROVE MInv'
  <2>1. /\ UNCHANGED <<last_sequence, tables, mem, imm, memory, flush, files,
                       reader, written>>
        /\ writer[t].stage = "assigned"
        /\ writer' = [writer EXCEPT ![t].stage = "allocating"]
    BY <1>3 DEF AddAllocate
  <2>2. ArenaInv' /\ Stored'
    BY <1>0, <1>3, AddAllocateStored
  <2>3. Known' /\ WriterTypes'
    BY <1>0, <2>1, StageKnown
  <2>4. TableTypes' /\ ReaderTypes' /\ Views'
    BY <1>0, <2>1, TableTypesKept, ReaderTypesKept, FrameViews
  <2> QED
    BY <2>2, <2>3, <2>4, InvPartsNext
<1>4. ASSUME NEW t \in Threads, AllocateImpl(t) PROVE MInv'
  <2>1. UNCHANGED <<writer, last_sequence, tables, mem, imm, memory, flush,
                    files, reader, written>>
    BY <1>4 DEF AllocateImpl, memVars
  <2>2. ArenaInv' /\ Stored'
    BY <1>0, <1>4, AllocateImplStored
  <2>3. WriterTypes'
    BY <1>0, <2>1 DEF WriterTypes
  <2>4. Known' /\ TableTypes' /\ ReaderTypes' /\ Views'
    BY <1>0, <2>1, KnownKept, TableTypesKept, ReaderTypesKept, FrameViews
  <2> QED
    BY <2>2, <2>3, <2>4, InvPartsNext
<1>5. ASSUME NEW t \in Threads, AddSeal(t) PROVE MInv'
  <2>1. /\ UNCHANGED <<last_sequence, tables, mem, imm, flush, files, reader,
                       written>>
        /\ writer[t].stage = "allocating"
        /\ writer' = [writer EXCEPT ![t].stage = "sealed"]
    BY <1>5 DEF AddSeal
  <2>2. ArenaInv' /\ Stored'
    BY <1>0, <1>5, AddSealStored
  <2>3. Known' /\ WriterTypes'
    BY <1>0, <2>1, StageKnown
  <2>4. TableTypes'
    BY <1>0, <1>5, AddSealTypes
  <2>5. ReaderTypes' /\ Views'
    BY <1>0, <2>1, ReaderTypesKept, FrameViews
  <2> QED
    BY <2>2, <2>3, <2>4, <2>5, InvPartsNext
<1>6. ASSUME NEW t \in Threads, AddInsert(t) PROVE MInv'
  <2>1. UNCHANGED reader
    BY <1>6 DEF AddInsert
  <2>2. ArenaInv' /\ Stored'
    BY <1>0, <1>6, AddInsertStored
  <2>3. WriterTypes' /\ TableTypes' /\ ReaderTypes'
    BY <1>0, <1>c, <1>6, <2>1, AddInsertTypes, ReaderTypesKept
  <2>4. Known' /\ Views'
    BY <1>0, <1>c, <1>6, AddInsertKnown, AddInsertViews
  <2> QED
    BY <2>2, <2>3, <2>4, InvPartsNext
<1>7. CASE SwitchMemtable
  <2>1. UNCHANGED <<writer, last_sequence, written, reader>>
    BY <1>7 DEF SwitchMemtable
  <2>2. ArenaInv' /\ Stored'
    BY <1>0, <1>7, SwitchStored
  <2>3. WriterTypes' /\ ReaderTypes'
    BY <1>0, <2>1, ReaderTypesKept DEF WriterTypes
  <2>4. TableTypes' /\ Known' /\ Views'
    BY <1>0, <1>c, <1>7, SwitchTypes, SwitchKnown, SwitchViews
  <2> QED
    BY <2>2, <2>3, <2>4, InvPartsNext
<1>8. CASE WriteLevel0Table
  <2>1. UNCHANGED <<arenaVars, writer, last_sequence, tables, mem, imm, memory,
                    files, reader, written>>
    BY <1>8 DEF WriteLevel0Table
  <2>2. ArenaInv' /\ Stored'
    BY <1>0, <2>1, StoredFrame
  <2>3. WriterTypes' /\ ReaderTypes' /\ Known'
    BY <1>0, <2>1, ReaderTypesKept, KnownKept DEF WriterTypes
  <2>4. TableTypes' /\ Views'
    BY <1>0, <1>c, <1>8, WriteLevel0Types, WriteLevel0Views
  <2> QED
    BY <2>2, <2>3, <2>4, InvPartsNext
<1>9. CASE InstallMemtableFlushResults
  <2>1. UNCHANGED <<arenaVars, writer, last_sequence, tables, mem, memory,
                    reader, written>>
    BY <1>9 DEF InstallMemtableFlushResults
  <2>2. ArenaInv' /\ Stored'
    BY <1>0, <2>1, StoredFrame
  <2>3. WriterTypes' /\ ReaderTypes' /\ Known'
    BY <1>0, <2>1, ReaderTypesKept, KnownKept DEF WriterTypes
  <2>4. TableTypes' /\ Views'
    BY <1>0, <1>c, <1>9, InstallTypes, InstallViews
  <2> QED
    BY <2>2, <2>3, <2>4, InvPartsNext
<1>10. ASSUME NEW m \in DOMAIN tables, DeleteMemTable(m) PROVE MInv'
  <2>1. UNCHANGED <<writer, last_sequence, written, reader>>
    BY <1>10 DEF DeleteMemTable
  <2>2. ArenaInv' /\ Stored'
    BY <1>0, <1>10, DeleteStored
  <2>3. WriterTypes' /\ ReaderTypes'
    BY <1>0, <2>1, ReaderTypesKept DEF WriterTypes
  <2>4. TableTypes' /\ Known' /\ Views'
    BY <1>0, <1>10, DeleteTypes, DeleteKnown, DeleteViews
  <2> QED
    BY <2>2, <2>3, <2>4, InvPartsNext
<1>11. ASSUME NEW r \in Readers,
              GetSuperVersion(r) \/ TakeSnapshot(r) \/ Lookup(r)
       PROVE  MInv'
  <2>1. UNCHANGED <<arenaVars, writer, last_sequence, tables, mem, imm, memory,
                    flush, files, written>>
    BY <1>11 DEF GetSuperVersion, TakeSnapshot, Lookup
  <2>2. ArenaInv' /\ Stored'
    BY <1>0, <2>1, StoredFrame
  <2>3. WriterTypes' /\ TableTypes' /\ Known'
    BY <1>0, <2>1, TableTypesKept, KnownKept DEF WriterTypes
  <2>4. Views' /\ ReaderTypes'
    BY <1>0, <1>c, <1>11, GetSuperVersionViews, TakeSnapshotViews, LookupViews
  <2> QED
    BY <2>2, <2>3, <2>4, InvPartsNext
<1>12. CASE UNCHANGED vars
  <2>1. UNCHANGED <<arenaVars, writer, last_sequence, tables, mem, imm, memory,
                    flush, files, reader, written>>
    BY <1>12 DEF vars, memVars
  <2>2. ArenaInv' /\ Stored'
    BY <1>0, <2>1, StoredFrame
  <2>3. WriterTypes' /\ TableTypes' /\ ReaderTypes' /\ Known' /\ Views'
    BY <1>0, <2>1, TableTypesKept, ReaderTypesKept, KnownKept, FrameViews
       DEF WriterTypes
  <2> QED
    BY <2>2, <2>3, InvPartsNext
<1> QED
  BY <1>1, <1>2, <1>3, <1>4, <1>5, <1>6, <1>7, <1>8, <1>9, <1>10, <1>11, <1>12
     DEF Next

\* What somebody owns in the untrusted memory is an allocation that nobody else
\* owns, and what every reader goes through has every write that it may ask
\* for: an inductive invariant of writers, flushes, deletions and readers.
THEOREM MemValuesInvariant == Spec => []MInv
<1>1. Init => MInv
  BY MemValuesStart
<1>2. MInv /\ [Next]_vars => MInv'
  BY MemValuesStep
<1> QED
  BY <1>1, <1>2, PTL DEF Spec

\* The state of MemTable, the super versions and the flush job has its types.
THEOREM MemValuesTypes == Spec => []TypeOK
<1>1. MInv => TypeOK
  <2> SUFFICES ASSUME MInv PROVE TypeOK
    OBVIOUS
  <2>0. /\ ArenaInv /\ WriterTypes /\ TableTypes /\ ReaderTypes
        /\ Known /\ Views
    BY InvParts
  <2>1. ArenaTypeOK
    BY <2>0 DEF ArenaInv
  <2>2. \A t \in Threads :
          writer[t].stage \in {"none", "assigned", "allocating", "sealed",
                               "inserted"}
    BY <2>0, WriterRecord
  <2>3. \A m \in DOMAIN tables :
          /\ tables[m].entries \subseteq [key : UserKeys, type : Types,
                                          seq : Nat, ptr : Nat, len : Nat]
          /\ tables[m].blocks \subseteq Nat
    BY <2>0 DEF TableTypes, Table, Entry
  <2>4. ToSet(imm) \cup ToSet(flush.mems) \subseteq DOMAIN tables \ {mem}
    <3>1. ASSUME NEW m \in ToSet(imm) PROVE m \in DOMAIN tables \ {mem}
      <4>1. PICK i \in DOMAIN imm : m = imm[i]
        BY DEF ToSet
      <4>2. m \in DOMAIN tables /\ m < mem /\ m \in Nat /\ mem \in Nat
        BY <2>0, <4>1 DEF Views, CurrentView, View, TableTypes
      <4> QED
        BY <4>2
    <3>2. ASSUME NEW m \in ToSet(flush.mems) PROVE m \in ToSet(imm)
      <4>1. PICK i \in DOMAIN flush.mems : m = flush.mems[i]
        BY DEF ToSet
      <4> QED
        BY <2>0, <4>1, FlushListed DEF Views
    <3> QED
      BY <3>1, <3>2
  <2>5. \A e \in files \cup flush.output :
          e.key \in UserKeys /\ e.type \in Types /\ e.value \subseteq Word
    <3>1. files \subseteq FileEntry /\ flush.output \subseteq FileEntry
      BY <2>0 DEF TableTypes
    <3> QED
      BY <3>1 DEF FileEntry
  <2>6. \A r \in Readers :
          reader[r].pc \in {"idle", "super_version", "snapshot", "answered"}
    BY <2>0, ReaderRecord
  <2>7. /\ last_sequence \in Nat /\ mem \in DOMAIN tables
        /\ \A a \in DOMAIN memory : memory[a] \in Word
    BY <2>0 DEF WriterTypes, TableTypes
  <2> QED
    BY <2>1, <2>2, <2>3, <2>4, <2>5, <2>6, <2>7 DEF TypeOK
<1> QED
  BY <1>1, MemValuesInvariant, PTL

\* As long as a memtable can be read or flushed, nobody has freed the words of
\* its values or written over them: MemTable::Add seals into memory that only it
\* owns, and ~Untrusted_Arena frees blocks that hold no other value.
THEOREM MemValuesKept == Spec => []ValuesKept
<1>1. MInv => ValuesKept
  <2> SUFFICES ASSUME MInv PROVE ValuesKept
    OBVIOUS
  <2>1. Views /\ Contents
    BY InvParts DEF Stored
  <2>2. {mem} \cup ToSet(imm) \cup Referenced \subseteq DOMAIN tables
    BY <2>1, ViewTablesExist DEF ViewTables
  <2> QED
    BY <2>1, <2>2 DEF ValuesKept, Contents, Holds
<1> QED
  BY <1>1, MemValuesInvariant, PTL

\* An answer is what the database held at some moment while the reader worked,
\* though GetImpl takes the SuperVersion before the snapshot, and Get decrypts
\* what it finds in a memtable.
THEOREM MemValuesAnswers == Spec => []AnswersCurrent
<1>1. MInv => AnswersCurrent
  BY DEF MInv
<1> QED
  BY <1>1, MemValuesInvariant, PTL
=============================================================================
