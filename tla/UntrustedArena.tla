--------------------------- MODULE UntrustedArena ---------------------------
(***************************************************************************)
(* UntrustedConcurrentArena: the memory outside the enclave that holds the *)
(* encrypted values of a memtable.  Concurrent writers allocate from       *)
(* per-core shards, which are refilled from one Untrusted_Arena, or from   *)
(* that arena directly.                                                    *)
(*                                                                         *)
(* The mutexes are modelled, and what they protect is read when a mutex is *)
(* taken and written, from what was read, in a later step.                 *)
(*                                                                         *)
(* Abstractions:                                                           *)
(*  - memory is counted in words (sizeof(void* )), so every size has been  *)
(*    rounded up, and an address is a number; 0 is nullptr;                *)
(*  - tc_malloc returns memory that has not been used before;              *)
(*  - SpinMutex::try_lock may fail for no reason (compare_exchange_weak);  *)
(*  - MemTable calls AllocateAligned only, without huge pages: Allocate    *)
(*    and the unaligned end of a block are left out, and so is the inline  *)
(*    block, which has no bytes here (kInlineSize = 0).                    *)
(***************************************************************************)
EXTENDS Naturals

CONSTANTS
  Threads,
  NoThread,           \* the owner of a free mutex
  NumShards,          \* shards_.Size()
  kBlockSize,         \* words of a block of the arena
  shard_block_size_,  \* words of a shard's refill
  kAlignUnit,         \* alignment of the arena, in words
  Sizes,              \* words of a request
  MaxAllocs           \* bound: allocations

ASSUME ArenaAssumption ==
  /\ NoThread \notin Threads
  /\ NumShards \in Nat \ {0} /\ kAlignUnit \in Nat \ {0}
  /\ kBlockSize \in Nat \ {0} /\ kBlockSize % kAlignUnit = 0
  /\ shard_block_size_ \in Nat \ {0} /\ 2 * shard_block_size_ <= kBlockSize
  /\ Sizes \subseteq Nat /\ MaxAllocs \in Nat

Cores == 0 .. NumShards - 1

VARIABLES
  arena_,       \* aligned_alloc_ptr_, alloc_bytes_remaining_ and blocks_
  arena_mutex_,
  arena_allocated_and_unused_,
  shards_,      \* free_begin_, allocated_and_unused_ and mutex of each shard
  tls_cpuid,    \* of each thread: at least NumShards once it has repicked
  call,         \* where each thread is in AllocateImpl
  live,         \* the allocations
  allocs,       \* how many allocations there have been
  top,          \* the next address that tc_malloc returns
  exited        \* has the process called exit(-1)?

arenaVars == <<arena_, arena_mutex_, arena_allocated_and_unused_, shards_,
               tls_cpuid, call, live, allocs, top, exited>>

NewArena == [aligned |-> 0, remaining |-> 0, blocks |-> {}]
NewShard == [begin |-> 0, unused |-> 0, mutex |-> NoThread]

\* A call and its local variables; saw is what it has read of the arena.
Calling(pc, bytes) ==
  [pc |-> pc, bytes |-> bytes, shard |-> 0, avail |-> 0, saw |-> NewArena,
   rv |-> 0]

Idle == Calling("idle", 0)

ArenaInit ==
  /\ arena_ = NewArena
  /\ arena_mutex_ = NoThread /\ arena_allocated_and_unused_ = 0
  /\ shards_ = [c \in Cores |-> NewShard]
  /\ tls_cpuid = [t \in Threads |-> 0]
  /\ call = [t \in Threads |-> Idle]
  /\ live = {} /\ allocs = 0 /\ top = kAlignUnit /\ exited = FALSE

-----------------------------------------------------------------------------
(* Untrusted_Arena *)

slop(a) ==
  IF a.aligned % kAlignUnit = 0 THEN 0
  ELSE kAlignUnit - (a.aligned % kAlignUnit)

Fits(a, bytes) == bytes + slop(a) <= a.remaining

\* Mutant: a new block is laid out for unaligned requests.
AllocateAlignedLow(a, bytes) ==
  IF Fits(a, bytes)
  THEN [rv |-> a.aligned + slop(a),
        arena |-> [aligned |-> a.aligned + (bytes + slop(a)),
                   remaining |-> a.remaining - (bytes + slop(a)),
                   blocks |-> a.blocks],
        top |-> top]
  ELSE [rv |-> top,
        arena |-> [aligned |-> top, remaining |-> kBlockSize - bytes,
                   blocks |-> a.blocks \cup {top}],
        top |-> top + kBlockSize]

\* AllocateAligned and AllocateFallback of the arena a: the result, the arena
\* and the top of memory afterwards.
AllocateAligned(a, bytes) ==
  IF Fits(a, bytes)
  THEN [rv |-> a.aligned + slop(a),
        arena |-> [aligned |-> a.aligned + (bytes + slop(a)),
                   remaining |-> a.remaining - (bytes + slop(a)),
                   blocks |-> a.blocks],
        top |-> top]
  ELSE [rv |-> top,
        arena |-> [aligned |-> top + bytes, remaining |-> kBlockSize - bytes,
                   blocks |-> a.blocks \cup {top}],
        top |-> top + kBlockSize]

\* AllocateFallback ends the process when the request exceeds a block.
TooLarge(a, bytes) == ~Fits(a, bytes) /\ bytes > kBlockSize

\* Mutant: the arena is not unlocked.
ArenaAfterLocked(r) ==
  /\ arena_' = r.arena /\ top' = r.top
  /\ arena_allocated_and_unused_' = r.arena.remaining
  /\ UNCHANGED arena_mutex_

\* The arena after an allocation; Fixup copies its counter; the unlock.
ArenaAfter(r) ==
  /\ arena_' = r.arena /\ top' = r.top
  /\ arena_allocated_and_unused_' = r.arena.remaining
  /\ arena_mutex_' = NoThread

-----------------------------------------------------------------------------
(* AllocateImpl *)

At(t, pc) == ~exited /\ call[t].pc = pc
Goto(t, pc) == call' = [call EXCEPT ![t].pc = pc]

\* The thread holds arena_mutex_ and has read the arena.
TakeArena(t, pc) ==
  /\ arena_mutex_ = NoThread /\ arena_mutex_' = t
  /\ call' = [call EXCEPT ![t].pc = pc, ![t].saw = arena_]

Returned(t, ptr) ==
  /\ call' = [call EXCEPT ![t].pc = "done", ![t].rv = ptr]
  /\ live' = live \cup {[id |-> allocs, ptr |-> ptr, len |-> call[t].bytes]}
  /\ allocs' = allocs + 1

Request(t, bytes) ==
  /\ At(t, "idle") /\ allocs < MaxAllocs
  /\ call' = [call EXCEPT ![t] = Calling("enter", bytes)]
  /\ UNCHANGED <<arena_, arena_mutex_, arena_allocated_and_unused_, shards_,
                 tls_cpuid, live, allocs, top, exited>>

\* The condition at the top, up to the try_lock.
Enter(t) ==
  /\ At(t, "enter")
  /\ Goto(t, IF call[t].bytes > shard_block_size_ \div 4 THEN "lock"
             ELSE IF tls_cpuid[t] = 0 /\ shards_[0].unused = 0 THEN "try"
             ELSE "shard")
  /\ UNCHANGED <<arena_, arena_mutex_, arena_allocated_and_unused_, shards_,
                 tls_cpuid, live, allocs, top, exited>>

\* arena_lock.try_lock() ...
TryArena(t) ==
  /\ At(t, "try")
  /\ TakeArena(t, "arena") \/ (Goto(t, "shard") /\ UNCHANGED arena_mutex_)
  /\ UNCHANGED <<arena_, arena_allocated_and_unused_, shards_, tls_cpuid,
                 live, allocs, top, exited>>

\* ... and arena_lock.lock().
LockArena(t) ==
  /\ At(t, "lock") /\ TakeArena(t, "arena")
  /\ UNCHANGED <<arena_, arena_allocated_and_unused_, shards_, tls_cpuid,
                 live, allocs, top, exited>>

\* func(), Fixup and the unlock.
FromArena(t) ==
  /\ At(t, "arena") /\ ~TooLarge(call[t].saw, call[t].bytes)
  /\ LET r == AllocateAligned(call[t].saw, call[t].bytes)
     IN ArenaAfter(r) /\ Returned(t, r.rv)
  /\ UNCHANGED <<shards_, tls_cpuid, exited>>

Exit(t) ==
  /\ At(t, "arena") /\ TooLarge(call[t].saw, call[t].bytes)
  /\ exited' = TRUE
  /\ UNCHANGED <<arena_, arena_mutex_, arena_allocated_and_unused_, shards_,
                 tls_cpuid, call, live, allocs, top>>

\* The thread holds the mutex of shard c and has read how much it has left.
TakeShard(t, c) ==
  LET avail == shards_[c].unused
  IN /\ shards_[c].mutex = NoThread
     /\ shards_' = [shards_ EXCEPT ![c].mutex = t]
     /\ call' = [call EXCEPT
                   ![t].pc = IF avail < call[t].bytes THEN "reload"
                             ELSE "carve",
                   ![t].shard = c, ![t].avail = avail]

\* The shard of the core the thread was on, or, when its try_lock fails,
\* another one (Repick).
PickShard(t) ==
  /\ At(t, "shard")
  /\ \/ TakeShard(t, tls_cpuid[t] % NumShards) /\ UNCHANGED tls_cpuid
     \/ \E c \in Cores :
          /\ tls_cpuid' = [tls_cpuid EXCEPT ![t] = NumShards + c]
          /\ call' = [call EXCEPT ![t].pc = "spin", ![t].shard = c]
          /\ UNCHANGED shards_
  /\ UNCHANGED <<arena_, arena_mutex_, arena_allocated_and_unused_, live,
                 allocs, top, exited>>

LockShard(t) ==
  /\ At(t, "spin") /\ TakeShard(t, call[t].shard)
  /\ UNCHANGED <<arena_, arena_mutex_, arena_allocated_and_unused_, tls_cpuid,
                 live, allocs, top, exited>>

\* A reload waits for the mutex of the arena while it holds that of its shard.
LockReload(t) ==
  /\ At(t, "reload") /\ TakeArena(t, "refill")
  /\ UNCHANGED <<arena_, arena_allocated_and_unused_, shards_, tls_cpuid,
                 live, allocs, top, exited>>

\* It takes what the arena's block has left when that is about a refill.
RefillSize ==
  LET exact == arena_allocated_and_unused_
  IN IF exact >= shard_block_size_ \div 2 /\ exact < 2 * shard_block_size_
     THEN exact ELSE shard_block_size_

Refill(t) ==
  /\ At(t, "refill")
  /\ LET r == AllocateAligned(call[t].saw, RefillSize)
     IN /\ ArenaAfter(r)
        /\ shards_' = [shards_ EXCEPT ![call[t].shard].begin = r.rv]
  /\ call' = [call EXCEPT ![t].pc = "carve", ![t].avail = RefillSize]
  /\ UNCHANGED <<tls_cpuid, live, allocs, exited>>

\* The allocation from the beginning of the shard, and the unlock.
FromShard(t) ==
  /\ At(t, "carve")
  /\ LET c == call[t].shard
     IN /\ shards_' = [shards_ EXCEPT
                         ![c] = [begin |-> @.begin + call[t].bytes,
                                 unused |-> call[t].avail - call[t].bytes,
                                 mutex |-> NoThread]]
        /\ Returned(t, shards_[c].begin)
  /\ UNCHANGED <<arena_, arena_mutex_, arena_allocated_and_unused_, tls_cpuid,
                 top, exited>>

\* The caller takes the result.
Return(t) ==
  /\ At(t, "done") /\ call' = [call EXCEPT ![t] = Idle]
  /\ UNCHANGED <<arena_, arena_mutex_, arena_allocated_and_unused_, shards_,
                 tls_cpuid, live, allocs, top, exited>>

Allocate(t) ==
  \/ Enter(t) \/ TryArena(t) \/ LockArena(t) \/ FromArena(t) \/ Exit(t)
  \/ PickShard(t) \/ LockShard(t) \/ LockReload(t) \/ Refill(t)
  \/ FromShard(t)

ArenaNext ==
  \E t \in Threads : \/ \E bytes \in Sizes : Request(t, bytes)
                     \/ Allocate(t) \/ Return(t)

ArenaSpec == ArenaInit /\ [][ArenaNext]_arenaVars

-----------------------------------------------------------------------------
(* Properties *)

ArenaState == [aligned : Nat, remaining : Nat, blocks : SUBSET Nat]

ShardState ==
  [begin : Nat, unused : Nat, mutex : Threads \cup {NoThread}]

Step == {"idle", "enter", "try", "lock", "arena", "shard", "spin", "reload",
         "refill", "carve", "done"}

CallState ==
  [pc : Step, bytes : Nat, shard : Cores, avail : Nat, saw : ArenaState,
   rv : Nat]

ArenaTypeOK ==
  /\ arena_ \in ArenaState
  /\ arena_mutex_ \in Threads \cup {NoThread}
  /\ arena_allocated_and_unused_ = arena_.remaining
  /\ shards_ \in [Cores -> ShardState]
  /\ tls_cpuid \in [Threads -> {0} \cup NumShards .. 2 * NumShards - 1]
  /\ call \in [Threads -> CallState]
  /\ live \subseteq [id : Nat, ptr : Nat, len : Nat]
  /\ allocs \in Nat /\ top \in Nat /\ exited \in BOOLEAN

\* Two ranges of words have no word in common.
Apart(p, m, q, n) == m = 0 \/ n = 0 \/ p + m <= q \/ q + n <= p

\* No word is handed out twice: the values of two entries of the memtables,
\* written by whichever threads through whichever shards, never overlap.
AllocationsApart ==
  \A a, b \in live : a # b => Apart(a.ptr, a.len, b.ptr, b.len)
=============================================================================
