------------------------ MODULE UntrustedArenaProofs ------------------------
(***************************************************************************)
(* Whatever the number of threads and shards, the sizes and the schedule,  *)
(* no word of the memory outside the enclave is handed out twice.          *)
(*                                                                         *)
(* That two allocations are apart is not inductive: it rests on the free   *)
(* ranges (of the arena and of every shard) being apart from them and from *)
(* each other, and on a thread that is about to write a counter having     *)
(* read its current value, which is what the two mutexes are for.          *)
(***************************************************************************)
EXTENDS UntrustedArena, TLAPS

\* The steps at which a thread holds a mutex.
HoldsArena(t) == call[t].pc \in {"arena", "refill"}
HoldsShard(t) == call[t].pc \in {"reload", "refill", "carve"}

\* A mutex has the owner that the program counters say, and what the owner has
\* read is still there.
MutexesHeld ==
  /\ \A t \in Threads : HoldsArena(t) <=> arena_mutex_ = t
  /\ \A t \in Threads : HoldsArena(t) => call[t].saw = arena_
  /\ \A t \in Threads : HoldsShard(t) => shards_[call[t].shard].mutex = t
  /\ \A c \in Cores : \A t \in Threads :
       shards_[c].mutex = t => HoldsShard(t) /\ call[t].shard = c

\* What goes to a shard is small, and fits when it is carved.
SizesFit ==
  \A t \in Threads :
    /\ call[t].pc \in {"try", "shard", "spin", "reload", "refill", "carve"}
         => call[t].bytes <= shard_block_size_ \div 4
    /\ call[t].pc = "carve" => call[t].bytes <= call[t].avail

\* The free words of a shard: the counter is out of date while a thread is
\* between the reload and the store.
Free(c) ==
  IF shards_[c].mutex = NoThread THEN shards_[c].unused
  ELSE call[shards_[c].mutex].avail

BelowTop ==
  /\ arena_.aligned + arena_.remaining <= top
  /\ \A c \in Cores : shards_[c].begin + Free(c) <= top
  /\ \A a \in live : a.ptr + a.len <= top /\ a.id < allocs

FreeApart ==
  /\ \A c \in Cores : Apart(arena_.aligned, arena_.remaining,
                            shards_[c].begin, Free(c))
  /\ \A c, d \in Cores : c # d => Apart(shards_[c].begin, Free(c),
                                        shards_[d].begin, Free(d))
  /\ \A a \in live : Apart(arena_.aligned, arena_.remaining, a.ptr, a.len)
  /\ \A c \in Cores : \A a \in live : Apart(shards_[c].begin, Free(c),
                                            a.ptr, a.len)

ArenaInv ==
  ArenaTypeOK /\ MutexesHeld /\ SizesFit /\ BelowTop /\ FreeApart
    /\ AllocationsApart

-----------------------------------------------------------------------------
(* Arithmetic of ranges *)

\* A range that is apart from another stays apart when it is cut in two.
LEMMA CutApart ==
  ASSUME NEW p \in Nat, NEW m \in Nat, NEW q \in Nat, NEW n \in Nat,
         NEW k \in Nat, k <= m, Apart(p, m, q, n)
  PROVE  /\ Apart(p, k, q, n) /\ Apart(p + k, m - k, q, n)
         /\ Apart(q, n, p, k) /\ Apart(q, n, p + k, m - k)
  BY DEF Apart

\* Being apart is symmetric.
LEMMA ApartSymmetric ==
  ASSUME NEW p \in Nat, NEW m \in Nat, NEW q \in Nat, NEW n \in Nat,
         Apart(p, m, q, n)
  PROVE  Apart(q, n, p, m)
  BY DEF Apart

\* Everything below the old top is apart from everything above it.
LEMMA AboveApart ==
  ASSUME NEW p \in Nat, NEW m \in Nat, NEW q \in Nat, NEW n \in Nat,
         q + n <= p
  PROVE  Apart(p, m, q, n)
  BY DEF Apart

-----------------------------------------------------------------------------
(* The arena *)

\* What AllocateAligned skips to align is a natural number.
LEMMA SlopNat ==
  ASSUME NEW a \in ArenaState
  PROVE  slop(a) \in Nat
  <1>1. a.aligned \in Nat
    BY DEF ArenaState
  <1>2. a.aligned % kAlignUnit \in Nat /\ a.aligned % kAlignUnit < kAlignUnit
    BY <1>1, ArenaAssumption
  <1>3. QED
    BY <1>1, <1>2, ArenaAssumption DEF slop

\* What an allocation returns lies below the new top, apart from what the arena
\* has left and from every range that was apart from the arena.
LEMMA ArenaAllocates ==
  ASSUME NEW a \in ArenaState, NEW bytes \in Nat, ~TooLarge(a, bytes),
         top \in Nat, a.aligned + a.remaining <= top,
         NEW r, r = AllocateAligned(a, bytes)
  PROVE  /\ r.rv \in Nat /\ r.arena \in ArenaState /\ r.top \in Nat
         /\ top <= r.top /\ r.rv + bytes <= r.top
         /\ r.arena.aligned + r.arena.remaining <= r.top
         /\ Apart(r.arena.aligned, r.arena.remaining, r.rv, bytes)
         /\ \A q, n \in Nat :
              q + n <= top /\ Apart(a.aligned, a.remaining, q, n) =>
                /\ Apart(r.rv, bytes, q, n)
                /\ Apart(r.arena.aligned, r.arena.remaining, q, n)
  <1>1. /\ a.aligned \in Nat /\ a.remaining \in Nat /\ slop(a) \in Nat
        /\ a.blocks \in SUBSET Nat /\ kBlockSize \in Nat
    BY SlopNat, ArenaAssumption DEF ArenaState
  <1>2. CASE Fits(a, bytes)
    <2>1. /\ r.rv = a.aligned + slop(a) /\ r.top = top
          /\ r.arena.aligned = a.aligned + (bytes + slop(a))
          /\ r.arena.remaining = a.remaining - (bytes + slop(a))
          /\ r.arena.blocks = a.blocks
          /\ r.arena = [aligned |-> a.aligned + (bytes + slop(a)),
                        remaining |-> a.remaining - (bytes + slop(a)),
                        blocks |-> a.blocks]
      BY <1>2 DEF AllocateAligned
    <2>2. bytes + slop(a) <= a.remaining
      BY <1>2 DEF Fits
    <2>3. r.arena \in ArenaState
      BY <1>1, <2>1, <2>2 DEF ArenaState
    <2>4. QED
      BY <1>1, <2>1, <2>2, <2>3 DEF Apart
  <1>3. CASE ~Fits(a, bytes)
    <2>1. /\ r.rv = top /\ r.top = top + kBlockSize
          /\ r.arena.aligned = top + bytes
          /\ r.arena.remaining = kBlockSize - bytes
          /\ r.arena = [aligned |-> top + bytes,
                        remaining |-> kBlockSize - bytes,
                        blocks |-> a.blocks \cup {top}]
      BY <1>3 DEF AllocateAligned
    <2>2. bytes <= kBlockSize
      BY <1>1, <1>3 DEF TooLarge
    <2>3. r.arena \in ArenaState
      BY <1>1, <2>1, <2>2 DEF ArenaState
    <2>4. QED
      BY <1>1, <2>1, <2>2, <2>3 DEF Apart
  <1>4. QED
    BY <1>2, <1>3

\* A refill is large enough for what a shard serves, and fits a block.
LEMMA RefillFits ==
  ASSUME ArenaTypeOK
  PROVE  /\ RefillSize \in Nat /\ RefillSize <= kBlockSize
         /\ shard_block_size_ \div 4 <= RefillSize
  <1>1. arena_allocated_and_unused_ \in Nat
    BY DEF ArenaTypeOK, ArenaState
  <1>2. /\ shard_block_size_ \div 2 \in Nat /\ shard_block_size_ \div 4 \in Nat
        /\ shard_block_size_ \div 4 <= shard_block_size_ \div 2
        /\ shard_block_size_ \div 2 <= shard_block_size_
    BY ArenaAssumption
  <1>3. QED
    BY <1>1, <1>2, ArenaAssumption DEF RefillSize

-----------------------------------------------------------------------------
(* One step *)

\* What a thread has read when it allocates from the arena.
LEMMA HolderReads ==
  ASSUME ArenaInv, NEW t \in Threads, HoldsArena(t)
  PROVE  /\ call[t].saw = arena_ /\ arena_ \in ArenaState /\ top \in Nat
         /\ call[t].bytes \in Nat /\ arena_.aligned + arena_.remaining <= top
  BY DEF ArenaInv, ArenaTypeOK, CallState, MutexesHeld, BelowTop

\* A refill never exceeds a block, so it never ends the process.
LEMMA RefillAllocates ==
  ASSUME ArenaInv, NEW t \in Threads, HoldsArena(t)
  PROVE  ~TooLarge(call[t].saw, RefillSize) /\ RefillSize \in Nat
  <1>1. RefillSize \in Nat /\ RefillSize <= kBlockSize
    BY RefillFits DEF ArenaInv
  <1>2. QED
    BY <1>1, ArenaAssumption DEF TooLarge

USE DEF Goto, At

\* Every step keeps the types.
LEMMA TypeStep ==
  ASSUME ArenaInv, [ArenaNext]_arenaVars
  PROVE  ArenaTypeOK'
  <1> USE DEF ArenaTypeOK
  <1>0. ArenaTypeOK
    BY DEF ArenaInv
  <1>i. \A pc \in Step : \A bytes \in Nat : Calling(pc, bytes) \in CallState
    <2>1. NewArena \in ArenaState /\ 0 \in Cores
      BY ArenaAssumption DEF NewArena, ArenaState, Cores
    <2>2. QED
      BY <2>1 DEF Calling, CallState
  <1>1. ASSUME NEW t \in Threads, NEW bytes \in Sizes, Request(t, bytes)
        PROVE  ArenaTypeOK'
    <2>1. Calling("enter", bytes) \in CallState
      BY <1>i, ArenaAssumption DEF Step
    <2>2. call' \in [Threads -> CallState]
      BY <1>0, <1>1, <2>1 DEF Request
    <2>3. QED
      BY <1>0, <1>1, <2>2 DEF Request
  <1>2. ASSUME NEW t \in Threads, Enter(t)
        PROVE  ArenaTypeOK'
    <2>1. PICK pc \in Step : call' = [call EXCEPT ![t].pc = pc]
      <3>1. \A x \in {"lock", "try", "shard"} :
              x \in Step
        BY DEF Step
      <3>2. QED
        BY <1>2, <3>1 DEF Enter
    <2>2. call' \in [Threads -> CallState]
      BY <1>0, <2>1 DEF CallState
    <2>3. QED
      BY <1>0, <1>2, <2>2 DEF Enter
  <1>3. ASSUME NEW t \in Threads, TryArena(t)
        PROVE  ArenaTypeOK'
    BY <1>0, <1>3 DEF TryArena, TakeArena, CallState, Step
  <1>4. ASSUME NEW t \in Threads, LockArena(t)
        PROVE  ArenaTypeOK'
    BY <1>0, <1>4, ZenonT(60) DEF LockArena, TakeArena, CallState, Step
  <1>5. ASSUME NEW t \in Threads, FromArena(t)
        PROVE  ArenaTypeOK'
    <2> DEFINE r == AllocateAligned(call[t].saw, call[t].bytes)
    <2>1. HoldsArena(t)
      BY <1>5 DEF FromArena, HoldsArena
    <2>2. /\ r.rv \in Nat /\ r.arena \in ArenaState /\ r.top \in Nat
          /\ call[t].bytes \in Nat
      <3> HIDE DEF r
      <3>1. r = AllocateAligned(call[t].saw, call[t].bytes)
        BY DEF r
      <3>2. QED
        BY <1>5, <2>1, <3>1, HolderReads, ArenaAllocates DEF FromArena
    <2>3. r.arena.remaining \in Nat
      BY <2>2 DEF ArenaState
    <2> HIDE DEF r
    <2>4. /\ ArenaAfter(r) /\ Returned(t, r.rv)
          /\ UNCHANGED <<shards_, tls_cpuid, exited>>
      BY <1>5 DEF FromArena, r
    <2>5. call' \in [Threads -> CallState]
      BY <1>0, <2>2, <2>4, ZenonT(60) DEF Returned, CallState, Step
    <2>6. live' \subseteq [id : Nat, ptr : Nat, len : Nat] /\ allocs' \in Nat
      BY <1>0, <2>2, <2>4 DEF Returned
    <2>7. QED
      BY <1>0, <2>2, <2>3, <2>4, <2>5, <2>6 DEF ArenaAfter
  <1>6. ASSUME NEW t \in Threads, Exit(t)
        PROVE  ArenaTypeOK'
    BY <1>0, <1>6 DEF Exit
  <1>7. ASSUME NEW t \in Threads, NEW c \in Cores, TakeShard(t, c),
               UNCHANGED <<arena_, arena_mutex_, arena_allocated_and_unused_,
                           tls_cpuid, live, allocs, top, exited>>
        PROVE  ArenaTypeOK'
    <2>1. PICK pc \in Step :
            call' = [call EXCEPT ![t].pc = pc, ![t].shard = c,
                                 ![t].avail = shards_[c].unused]
      <3>1. {"reload", "carve"} \subseteq Step
        BY DEF Step
      <3>2. QED
        BY <1>7, <3>1 DEF TakeShard
    <2>2. shards_[c].unused \in Nat
      BY <1>0 DEF ShardState
    <2>3. call' \in [Threads -> CallState]
      BY <1>0, <2>1, <2>2, ZenonT(60) DEF CallState
    <2>4. shards_' \in [Cores -> ShardState]
      BY <1>0, <1>7 DEF TakeShard, ShardState
    <2>5. QED
      BY <1>0, <1>7, <2>3, <2>4
  <1>8. ASSUME NEW t \in Threads, PickShard(t)
        PROVE  ArenaTypeOK'
    <2>1. tls_cpuid[t] % NumShards \in Cores
      BY <1>0, ArenaAssumption DEF Cores
    <2>2. \A c \in Cores : NumShards + c \in NumShards .. 2 * NumShards - 1
      BY ArenaAssumption DEF Cores
    <2>3. CASE TakeShard(t, tls_cpuid[t] % NumShards) /\ UNCHANGED tls_cpuid
      <3>1. UNCHANGED <<arena_, arena_mutex_, arena_allocated_and_unused_,
                        tls_cpuid, live, allocs, top, exited>>
        BY <1>8, <2>3 DEF PickShard
      <3>2. QED
        BY <1>7, <2>1, <2>3, <3>1
    <2>4. CASE \E c \in Cores :
                 /\ tls_cpuid' = [tls_cpuid EXCEPT ![t] = NumShards + c]
                 /\ call' = [call EXCEPT ![t].pc = "spin", ![t].shard = c]
                 /\ UNCHANGED shards_
      <3>1. PICK c \in Cores :
                 /\ tls_cpuid' = [tls_cpuid EXCEPT ![t] = NumShards + c]
                 /\ call' = [call EXCEPT ![t].pc = "spin", ![t].shard = c]
                 /\ UNCHANGED shards_
        BY <2>4
      <3>2. call' \in [Threads -> CallState]
        BY <1>0, <3>1, ZenonT(60) DEF CallState, Step
      <3>3. tls_cpuid'
              \in [Threads -> {0} \cup NumShards .. 2 * NumShards - 1]
        BY <1>0, <2>2, <3>1
      <3>4. QED
        BY <1>0, <1>8, <3>1, <3>2, <3>3 DEF PickShard
    <2>5. QED
      BY <1>8, <2>3, <2>4 DEF PickShard
  <1>9. ASSUME NEW t \in Threads, LockShard(t)
        PROVE  ArenaTypeOK'
    <2>1. call[t].shard \in Cores
      BY <1>0 DEF CallState
    <2>2. QED
      BY <1>7, <1>9, <2>1 DEF LockShard
  <1>10. ASSUME NEW t \in Threads, LockReload(t)
         PROVE  ArenaTypeOK'
    BY <1>0, <1>10, ZenonT(60) DEF LockReload, TakeArena, CallState, Step
  <1>11. ASSUME NEW t \in Threads, Refill(t)
         PROVE  ArenaTypeOK'
    <2> DEFINE r == AllocateAligned(call[t].saw, RefillSize)
    <2>1. HoldsArena(t)
      BY <1>11 DEF Refill, HoldsArena
    <2>2. /\ r.rv \in Nat /\ r.arena \in ArenaState /\ r.top \in Nat
          /\ RefillSize \in Nat
      <3> HIDE DEF r
      <3>1. r = AllocateAligned(call[t].saw, RefillSize)
        BY DEF r
      <3>2. QED
        BY <2>1, <3>1, HolderReads, RefillAllocates, ArenaAllocates
    <2>3. r.arena.remaining \in Nat
      BY <2>2 DEF ArenaState
    <2> HIDE DEF r
    <2>4. /\ ArenaAfter(r)
          /\ shards_' = [shards_ EXCEPT ![call[t].shard].begin = r.rv]
          /\ call' = [call EXCEPT ![t].pc = "carve", ![t].avail = RefillSize]
          /\ UNCHANGED <<tls_cpuid, live, allocs, exited>>
      BY <1>11 DEF Refill, r
    <2>5. call' \in [Threads -> CallState]
      BY <1>0, <2>2, <2>4, ZenonT(60) DEF CallState, Step
    <2>6. shards_' \in [Cores -> ShardState]
      BY <1>0, <2>2, <2>4 DEF ShardState
    <2>7. QED
      BY <1>0, <2>2, <2>3, <2>4, <2>5, <2>6 DEF ArenaAfter
  <1>12. ASSUME NEW t \in Threads, FromShard(t)
         PROVE  ArenaTypeOK'
    <2>1. call[t].bytes <= call[t].avail
      BY <1>12 DEF FromShard, ArenaInv, SizesFit
    <2>2. call[t].avail - call[t].bytes \in Nat
      BY <1>0, <2>1 DEF CallState
    <2>3. /\ call[t].bytes \in Nat /\ call[t].shard \in Cores
          /\ shards_[call[t].shard].begin \in Nat
      BY <1>0 DEF CallState, ShardState
    <2>4. call' \in [Threads -> CallState]
      BY <1>0, <1>12, <2>3, ZenonT(60) DEF FromShard, Returned, CallState, Step
    <2>5. live' \subseteq [id : Nat, ptr : Nat, len : Nat] /\ allocs' \in Nat
      BY <1>0, <1>12, <2>3 DEF FromShard, Returned
    <2>6. shards_' \in [Cores -> ShardState]
      <3>1. [begin |-> shards_[call[t].shard].begin + call[t].bytes,
             unused |-> call[t].avail - call[t].bytes, mutex |-> NoThread]
              \in ShardState
        BY <2>2, <2>3 DEF ShardState
      <3>2. QED
        BY <1>0, <1>12, <2>3, <3>1 DEF FromShard
    <2>7. QED
      BY <1>0, <1>12, <2>4, <2>5, <2>6 DEF FromShard
  <1>13. ASSUME NEW t \in Threads, Return(t)
         PROVE  ArenaTypeOK'
    <2>1. Idle \in CallState
      BY <1>i DEF Idle, Step
    <2>2. call' \in [Threads -> CallState]
      BY <1>0, <1>13, <2>1 DEF Return
    <2>3. QED
      BY <1>0, <1>13, <2>2 DEF Return
  <1>14. CASE UNCHANGED arenaVars
    BY <1>0, <1>14 DEF arenaVars
  <1>15. QED
    BY <1>1, <1>2, <1>3, <1>4, <1>5, <1>6, <1>8, <1>9, <1>10, <1>11, <1>12,
       <1>13, <1>14 DEF ArenaNext, Allocate

\* A step changes the call of one thread.
LEMMA MutexStep ==
  ASSUME ArenaInv, [ArenaNext]_arenaVars
  PROVE  MutexesHeld'
  <1> USE DEF MutexesHeld, HoldsArena, HoldsShard
  <1>0. /\ MutexesHeld /\ NoThread \notin Threads
        /\ call \in [Threads -> CallState] /\ shards_ \in [Cores -> ShardState]
    BY ArenaAssumption DEF ArenaInv, ArenaTypeOK
  <1>s. \A t \in Threads : call[t].shard \in Cores
    BY <1>0 DEF CallState
  <1>1. ASSUME NEW t \in Threads, NEW bytes \in Sizes, Request(t, bytes)
        PROVE  MutexesHeld'
    <2>1. call'[t].pc = "enter" /\ \A u \in Threads \ {t} : call'[u] = call[u]
      BY <1>0, <1>1 DEF Request, Calling
    <2>2. QED
      BY <1>0, <1>1, <2>1 DEF Request
  <1>2. ASSUME NEW t \in Threads, Enter(t)
        PROVE  MutexesHeld'
    <2>1. /\ call'[t].pc \in {"lock", "try", "shard"}
          /\ \A u \in Threads \ {t} : call'[u] = call[u]
      BY <1>0, <1>2 DEF Enter, CallState
    <2>2. QED
      BY <1>0, <1>2, <2>1 DEF Enter
  <1>3. ASSUME NEW t \in Threads, NEW pc \in {"arena", "refill"},
               TakeArena(t, pc),
               call[t].pc \in {"try", "lock", "reload"},
               call[t].pc = "reload" <=> pc = "refill",
               UNCHANGED <<arena_, shards_>>
        PROVE  MutexesHeld'
    <2>1. /\ call'[t].pc = pc /\ call'[t].saw = arena_
          /\ call'[t].shard = call[t].shard
          /\ \A u \in Threads \ {t} : call'[u] = call[u]
      BY <1>0, <1>3 DEF TakeArena, CallState
    <2>2. arena_mutex_ = NoThread /\ arena_mutex_' = t
      BY <1>3 DEF TakeArena
    <2>3. QED
      BY <1>0, <1>3, <2>1, <2>2
  <1>4. ASSUME NEW t \in Threads, TryArena(t)
        PROVE  MutexesHeld'
    <2>1. CASE TakeArena(t, "arena")
      BY <1>3, <1>4, <2>1 DEF TryArena
    <2>2. CASE Goto(t, "shard") /\ UNCHANGED arena_mutex_
      <3>1. /\ call'[t].pc = "shard"
            /\ \A u \in Threads \ {t} : call'[u] = call[u]
        BY <1>0, <2>2 DEF CallState
      <3>2. QED
        BY <1>0, <1>4, <2>2, <3>1 DEF TryArena
    <2>3. QED
      BY <1>4, <2>1, <2>2 DEF TryArena
  <1>5. ASSUME NEW t \in Threads, LockArena(t)
        PROVE  MutexesHeld'
    BY <1>3, <1>5 DEF LockArena
  <1>6. ASSUME NEW t \in Threads, FromArena(t)
        PROVE  MutexesHeld'
    <2>1. /\ call[t].pc = "arena" /\ call'[t].pc = "done"
          /\ \A u \in Threads \ {t} : call'[u] = call[u]
          /\ arena_mutex_' = NoThread /\ shards_' = shards_
      BY <1>0, <1>6 DEF FromArena, Returned, ArenaAfter, CallState
    <2>2. \A u \in Threads \ {t} : ~HoldsArena(u)
      BY <1>0, <2>1
    <2>3. QED
      BY <1>0, <2>1, <2>2
  <1>7. ASSUME NEW t \in Threads, NEW c \in Cores, TakeShard(t, c),
               call[t].pc \in {"shard", "spin"},
               UNCHANGED <<arena_, arena_mutex_>>
        PROVE  MutexesHeld'
    <2>1. /\ call'[t].pc \in {"reload", "carve"} /\ call'[t].shard = c
          /\ \A u \in Threads \ {t} : call'[u] = call[u]
      BY <1>0, <1>7 DEF TakeShard, CallState
    <2>2. /\ shards_[c].mutex = NoThread /\ shards_'[c].mutex = t
          /\ \A d \in Cores \ {c} : shards_'[d] = shards_[d]
      BY <1>0, <1>7 DEF TakeShard, ShardState
    <2>3. QED
      BY <1>0, <1>s, <1>7, <2>1, <2>2
  <1>8. ASSUME NEW t \in Threads, PickShard(t)
        PROVE  MutexesHeld'
    <2>1. tls_cpuid[t] % NumShards \in Cores
      BY ArenaAssumption DEF ArenaInv, ArenaTypeOK, Cores
    <2>2. call[t].pc = "shard" /\ UNCHANGED <<arena_, arena_mutex_>>
      BY <1>8 DEF PickShard
    <2>3. CASE TakeShard(t, tls_cpuid[t] % NumShards)
      BY <1>7, <2>1, <2>2, <2>3
    <2>4. CASE \E c \in Cores :
                 /\ call' = [call EXCEPT ![t].pc = "spin", ![t].shard = c]
                 /\ UNCHANGED shards_
      <3>1. /\ call'[t].pc = "spin" /\ UNCHANGED shards_
            /\ \A u \in Threads \ {t} : call'[u] = call[u]
        BY <1>0, <2>4 DEF CallState
      <3>2. QED
        BY <1>0, <2>2, <3>1
    <2>5. QED
      BY <1>8, <2>3, <2>4 DEF PickShard
  <1>9. ASSUME NEW t \in Threads, LockShard(t)
        PROVE  MutexesHeld'
    BY <1>s, <1>7, <1>9 DEF LockShard
  <1>10. ASSUME NEW t \in Threads, LockReload(t)
         PROVE  MutexesHeld'
    BY <1>3, <1>10 DEF LockReload
  <1>11. ASSUME NEW t \in Threads, Refill(t)
         PROVE  MutexesHeld'
    <2>1. /\ call[t].pc = "refill" /\ call'[t].pc = "carve"
          /\ call'[t].shard = call[t].shard
          /\ \A u \in Threads \ {t} : call'[u] = call[u]
          /\ arena_mutex_' = NoThread
      BY <1>0, <1>11 DEF Refill, ArenaAfter, CallState
    <2>2. \A c \in Cores : shards_'[c].mutex = shards_[c].mutex
      BY <1>0, <1>s, <1>11 DEF Refill, ShardState
    <2>3. \A u \in Threads \ {t} : ~HoldsArena(u)
      BY <1>0, <2>1
    <2>4. QED
      BY <1>0, <1>s, <2>1, <2>2, <2>3
  <1>12. ASSUME NEW t \in Threads, FromShard(t)
         PROVE  MutexesHeld'
    <2>1. /\ call[t].pc = "carve" /\ call'[t].pc = "done"
          /\ \A u \in Threads \ {t} : call'[u] = call[u]
          /\ UNCHANGED <<arena_, arena_mutex_>>
      BY <1>0, <1>12 DEF FromShard, Returned, CallState
    <2>2. /\ shards_'[call[t].shard].mutex = NoThread
          /\ \A d \in Cores \ {call[t].shard} : shards_'[d] = shards_[d]
      BY <1>0, <1>s, <1>12 DEF FromShard, ShardState
    <2>3. shards_[call[t].shard].mutex = t
      BY <1>0, <2>1
    <2>4. QED
      BY <1>0, <1>s, <2>1, <2>2, <2>3
  <1>13. ASSUME NEW t \in Threads, Return(t)
         PROVE  MutexesHeld'
    <2>1. /\ call'[t].pc = "idle"
          /\ \A u \in Threads \ {t} : call'[u] = call[u]
      BY <1>0, <1>13 DEF Return, Idle, Calling
    <2>2. QED
      BY <1>0, <1>13, <2>1 DEF Return
  <1>14. CASE UNCHANGED <<call, arena_, arena_mutex_, shards_>>
    BY <1>0, <1>14
  <1>15. QED
    BY <1>1, <1>2, <1>4, <1>5, <1>6, <1>8, <1>9, <1>10, <1>11, <1>12, <1>13,
       <1>14 DEF ArenaNext, Allocate, Exit, arenaVars

\* Every step keeps the sizes that the shards rely on.
LEMMA SizesStep ==
  ASSUME ArenaInv, [ArenaNext]_arenaVars
  PROVE  SizesFit'
  <1> USE DEF SizesFit
  <1>0. SizesFit /\ call \in [Threads -> CallState]
    BY DEF ArenaInv, ArenaTypeOK
  <1>n. /\ \A t \in Threads : call[t].bytes \in Nat
        /\ \A c \in Cores : shards_[c].unused \in Nat
        /\ shard_block_size_ \div 4 \in Nat
    BY ArenaAssumption DEF ArenaInv, ArenaTypeOK, CallState, ShardState
  <1> DEFINE Small == {"try", "shard", "spin", "reload", "refill", "carve"}
  <1>m. ASSUME NEW t \in Threads, \A u \in Threads \ {t} : call'[u] = call[u],
               call'[t].pc \in Small =>
                 call'[t].bytes <= shard_block_size_ \div 4,
               call'[t].pc = "carve" => call'[t].bytes <= call'[t].avail
        PROVE  SizesFit'
    BY <1>0, <1>m
  <1>1. ASSUME NEW t \in Threads, NEW bytes \in Sizes, Request(t, bytes)
        PROVE  SizesFit'
    <2>1. call'[t].pc = "enter" /\ \A u \in Threads \ {t} : call'[u] = call[u]
      BY <1>0, <1>1 DEF Request, Calling
    <2>2. QED
      BY <1>m, <2>1
  <1>2. ASSUME NEW t \in Threads, Enter(t)
        PROVE  SizesFit'
    <2>1. /\ call'[t].pc = "lock" \/ /\ call'[t].pc \in {"try", "shard"}
                                     /\ ~(call[t].bytes
                                            > shard_block_size_ \div 4)
          /\ call'[t].bytes = call[t].bytes
          /\ \A u \in Threads \ {t} : call'[u] = call[u]
      BY <1>0, <1>2 DEF Enter, CallState
    <2>2. QED
      BY <1>m, <1>n, <2>1
  <1>3. ASSUME NEW t \in Threads, NEW pc \in {"arena", "refill"},
               TakeArena(t, pc), pc = "refill" => call[t].pc = "reload"
        PROVE  SizesFit'
    <2>1. /\ call'[t].pc = pc /\ call'[t].bytes = call[t].bytes
          /\ \A u \in Threads \ {t} : call'[u] = call[u]
      BY <1>0, <1>3 DEF TakeArena, CallState
    <2>2. QED
      BY <1>0, <1>m, <1>3, <2>1
  <1>4. ASSUME NEW t \in Threads, TryArena(t)
        PROVE  SizesFit'
    <2>1. CASE TakeArena(t, "arena")
      BY <1>3, <2>1
    <2>2. CASE Goto(t, "shard")
      <3>1. /\ call'[t].pc = "shard" /\ call'[t].bytes = call[t].bytes
            /\ \A u \in Threads \ {t} : call'[u] = call[u]
        BY <1>0, <2>2 DEF CallState
      <3>2. QED
        BY <1>0, <1>m, <1>4, <3>1 DEF TryArena
    <2>3. QED
      BY <1>4, <2>1, <2>2 DEF TryArena
  <1>5. ASSUME NEW t \in Threads, LockArena(t)
        PROVE  SizesFit'
    BY <1>3, <1>5 DEF LockArena
  <1>6. ASSUME NEW t \in Threads, NEW ptr, Returned(t, ptr)
        PROVE  SizesFit'
    <2>1. /\ call'[t].pc = "done"
          /\ \A u \in Threads \ {t} : call'[u] = call[u]
      BY <1>0, <1>6 DEF Returned, CallState
    <2>2. QED
      BY <1>m, <2>1
  <1>7. ASSUME NEW t \in Threads, NEW c \in Cores, TakeShard(t, c),
               call[t].pc \in {"shard", "spin"}
        PROVE  SizesFit'
    <2>1. /\ call'[t].bytes = call[t].bytes
          /\ call'[t].avail = shards_[c].unused
          /\ call'[t].pc \in {"reload", "carve"}
          /\ call'[t].pc = "carve" => ~(shards_[c].unused < call[t].bytes)
          /\ \A u \in Threads \ {t} : call'[u] = call[u]
      BY <1>0, <1>7 DEF TakeShard, CallState
    <2>2. QED
      BY <1>0, <1>m, <1>n, <1>7, <2>1
  <1>8. ASSUME NEW t \in Threads, PickShard(t)
        PROVE  SizesFit'
    <2>1. tls_cpuid[t] % NumShards \in Cores
      BY ArenaAssumption DEF ArenaInv, ArenaTypeOK, Cores
    <2>2. call[t].pc = "shard"
      BY <1>8 DEF PickShard
    <2>3. CASE TakeShard(t, tls_cpuid[t] % NumShards)
      BY <1>7, <2>1, <2>2, <2>3
    <2>4. CASE \E c \in Cores :
                 call' = [call EXCEPT ![t].pc = "spin", ![t].shard = c]
      <3>1. /\ call'[t].pc = "spin" /\ call'[t].bytes = call[t].bytes
            /\ \A u \in Threads \ {t} : call'[u] = call[u]
        BY <1>0, <2>4 DEF CallState
      <3>2. QED
        BY <1>0, <1>m, <2>2, <3>1
    <2>5. QED
      BY <1>8, <2>3, <2>4 DEF PickShard
  <1>9. ASSUME NEW t \in Threads, LockShard(t)
        PROVE  SizesFit'
    <2>1. call[t].shard \in Cores
      BY <1>0 DEF CallState
    <2>2. QED
      BY <1>7, <1>9, <2>1 DEF LockShard
  <1>10. ASSUME NEW t \in Threads, LockReload(t)
         PROVE  SizesFit'
    BY <1>3, <1>10 DEF LockReload
  <1>11. ASSUME NEW t \in Threads, Refill(t)
         PROVE  SizesFit'
    <2>1. /\ call[t].pc = "refill" /\ call'[t].bytes = call[t].bytes
          /\ call'[t].avail = RefillSize
          /\ \A u \in Threads \ {t} : call'[u] = call[u]
      BY <1>0, <1>11 DEF Refill, CallState
    <2>2. RefillSize \in Nat /\ shard_block_size_ \div 4 <= RefillSize
      BY RefillFits DEF ArenaInv
    <2>3. call[t].bytes <= shard_block_size_ \div 4
      BY <1>0, <2>1
    <2>4. call[t].bytes <= RefillSize
      BY <1>n, <2>2, <2>3
    <2>5. QED
      BY <1>m, <2>1, <2>3, <2>4
  <1>12. ASSUME NEW t \in Threads, Return(t)
         PROVE  SizesFit'
    <2>1. /\ call'[t].pc = "idle"
          /\ \A u \in Threads \ {t} : call'[u] = call[u]
      BY <1>0, <1>12 DEF Return, Idle, Calling
    <2>2. QED
      BY <1>m, <2>1
  <1>13. CASE UNCHANGED call
    BY <1>0, <1>13
  <1>14. QED
    BY <1>1, <1>2, <1>4, <1>5, <1>6, <1>8, <1>9, <1>10, <1>11, <1>12, <1>13
    DEF ArenaNext, Allocate, Exit, FromArena, FromShard, arenaVars

-----------------------------------------------------------------------------
(* The ranges *)

Ranges == BelowTop /\ FreeApart /\ AllocationsApart

\* The numbers in Ranges are natural numbers.
LEMMA RangesTyped ==
  ASSUME ArenaInv
  PROVE  /\ arena_.aligned \in Nat /\ arena_.remaining \in Nat /\ top \in Nat
         /\ \A c \in Cores : shards_[c].begin \in Nat /\ Free(c) \in Nat
         /\ \A a \in live : a.ptr \in Nat /\ a.len \in Nat /\ a.id \in Nat
         /\ allocs \in Nat
  <1>1. ASSUME NEW c \in Cores
        PROVE  shards_[c].begin \in Nat /\ Free(c) \in Nat
    <2>1. shards_[c] \in ShardState
      BY DEF ArenaInv, ArenaTypeOK
    <2>2. \A t \in Threads : call[t].avail \in Nat
      BY DEF ArenaInv, ArenaTypeOK, CallState
    <2>3. QED
      BY <2>1, <2>2 DEF ShardState, Free
  <1>2. QED
    BY <1>1 DEF ArenaInv, ArenaTypeOK, ArenaState

\* Steps that move no range.
LEMMA RangesKept ==
  ASSUME Ranges, UNCHANGED <<arena_, live, allocs, top>>,
         \A c \in Cores : shards_'[c].begin = shards_[c].begin
                          /\ Free(c)' = Free(c)
  PROVE  Ranges'
  <1>1. BelowTop'
    BY DEF Ranges, BelowTop
  <1>2. FreeApart'
    BY DEF Ranges, FreeApart
  <1>3. AllocationsApart'
    BY DEF Ranges, AllocationsApart
  <1>4. QED
    BY <1>1, <1>2, <1>3 DEF Ranges

\* The free words of the shards that a thread does not touch.
LEMMA FreeKept ==
  ASSUME ArenaInv, NEW t \in Threads,
         \A u \in Threads \ {t} : call'[u] = call[u],
         NEW c \in Cores, shards_'[c] = shards_[c],
         shards_[c].mutex = t => call'[t].avail = call[t].avail
  PROVE  Free(c)' = Free(c)
  <1>1. shards_[c].mutex \in Threads \cup {NoThread}
    BY DEF ArenaInv, ArenaTypeOK, ShardState
  <1>2. QED
    BY <1>1 DEF Free

\* Words that an allocation takes from the arena are free nowhere else.
LEMMA FromArenaKeeps ==
  ASSUME ArenaInv, NEW t \in Threads, FromArena(t)
  PROVE  Ranges'
  <1> DEFINE r == AllocateAligned(call[t].saw, call[t].bytes)
             n == [id |-> allocs, ptr |-> r.rv, len |-> call[t].bytes]
  <1>0. BelowTop /\ FreeApart /\ AllocationsApart
    BY DEF ArenaInv
  <1>1. /\ call[t].pc = "arena" /\ ~TooLarge(call[t].saw, call[t].bytes)
        /\ ArenaAfter(r) /\ Returned(t, r.rv) /\ shards_' = shards_
    BY DEF FromArena
  <1>2. HoldsArena(t) /\ call \in [Threads -> CallState]
    BY <1>1 DEF HoldsArena, ArenaInv, ArenaTypeOK
  <1>3. /\ r.rv \in Nat /\ r.top \in Nat /\ call[t].bytes \in Nat
        /\ r.arena.aligned \in Nat /\ r.arena.remaining \in Nat
        /\ top <= r.top /\ r.rv + call[t].bytes <= r.top
        /\ r.arena.aligned + r.arena.remaining <= r.top
        /\ Apart(r.arena.aligned, r.arena.remaining, r.rv, call[t].bytes)
        /\ \A q, k \in Nat :
             q + k <= top /\ Apart(arena_.aligned, arena_.remaining, q, k) =>
               /\ Apart(r.rv, call[t].bytes, q, k)
               /\ Apart(r.arena.aligned, r.arena.remaining, q, k)
    <2> HIDE DEF r
    <2>1. r = AllocateAligned(call[t].saw, call[t].bytes)
      BY DEF r
    <2>2. r.arena \in ArenaState => r.arena.aligned \in Nat
                                    /\ r.arena.remaining \in Nat
      BY DEF ArenaState
    <2>3. QED
      BY <1>1, <1>2, <2>1, <2>2, HolderReads, ArenaAllocates
  <1>4. /\ arena_' = r.arena /\ top' = r.top /\ live' = live \cup {n}
        /\ allocs' = allocs + 1
        /\ call' = [call EXCEPT ![t].pc = "done", ![t].rv = r.rv]
    BY <1>1 DEF ArenaAfter, Returned
  <1>5. n.id = allocs /\ n.ptr = r.rv /\ n.len = call[t].bytes
    OBVIOUS
  <1> HIDE DEF r, n
  <1>6. /\ \A u \in Threads \ {t} : call'[u] = call[u]
        /\ call'[t].avail = call[t].avail
    BY <1>2, <1>4 DEF CallState
  <1>7. \A c \in Cores : shards_'[c] = shards_[c] /\ Free(c)' = Free(c)
    BY <1>1, <1>6, FreeKept
  <1>8. /\ \A c \in Cores : /\ shards_[c].begin \in Nat /\ Free(c) \in Nat
                            /\ shards_[c].begin + Free(c) <= top
        /\ \A a \in live : /\ a.ptr \in Nat /\ a.len \in Nat /\ a.id \in Nat
                           /\ a.ptr + a.len <= top /\ a.id < allocs
        /\ top \in Nat /\ allocs \in Nat
    BY <1>0, RangesTyped DEF BelowTop
  <1>9. BelowTop'
    <2>1. arena_'.aligned + arena_'.remaining <= top'
      BY <1>3, <1>4
    <2>2. \A c \in Cores : shards_'[c].begin + Free(c)' <= top'
      BY <1>3, <1>4, <1>7, <1>8
    <2>3. \A a \in live' : a.ptr + a.len <= top' /\ a.id < allocs'
      BY <1>3, <1>4, <1>5, <1>8
    <2>4. QED
      BY <2>1, <2>2, <2>3 DEF BelowTop
  <1>10. /\ \A c \in Cores :
              /\ Apart(r.rv, call[t].bytes, shards_[c].begin, Free(c))
              /\ Apart(r.arena.aligned, r.arena.remaining,
                       shards_[c].begin, Free(c))
         /\ \A a \in live :
              /\ Apart(r.rv, call[t].bytes, a.ptr, a.len)
              /\ Apart(r.arena.aligned, r.arena.remaining, a.ptr, a.len)
    BY <1>0, <1>3, <1>8 DEF FreeApart
  <1>11. FreeApart'
    <2>1. \A c \in Cores : Apart(arena_'.aligned, arena_'.remaining,
                                 shards_'[c].begin, Free(c)')
      BY <1>4, <1>7, <1>10
    <2>2. \A c, d \in Cores : c # d => Apart(shards_'[c].begin, Free(c)',
                                             shards_'[d].begin, Free(d)')
      BY <1>0, <1>7 DEF FreeApart
    <2>3. \A a \in live' :
            Apart(arena_'.aligned, arena_'.remaining, a.ptr, a.len)
      BY <1>3, <1>4, <1>5, <1>10
    <2>4. \A c \in Cores : \A a \in live' :
            Apart(shards_'[c].begin, Free(c)', a.ptr, a.len)
      <3>1. \A c \in Cores :
              Apart(shards_[c].begin, Free(c), r.rv, call[t].bytes)
        BY <1>3, <1>8, <1>10, ApartSymmetric
      <3>2. QED
        BY <1>0, <1>4, <1>5, <1>7, <3>1 DEF FreeApart
    <2>5. QED
      BY <2>1, <2>2, <2>3, <2>4 DEF FreeApart
  <1>12. AllocationsApart'
    <2>1. \A a \in live : /\ Apart(a.ptr, a.len, n.ptr, n.len)
                          /\ Apart(n.ptr, n.len, a.ptr, a.len)
      BY <1>3, <1>5, <1>8, <1>10, ApartSymmetric
    <2>2. QED
      BY <1>0, <1>4, <2>1 DEF AllocationsApart
  <1>13. QED
    BY <1>9, <1>11, <1>12 DEF Ranges

\* A refill moves words from the arena to the one shard whose mutex is held.
LEMMA RefillKeeps ==
  ASSUME ArenaInv, NEW t \in Threads, Refill(t)
  PROVE  Ranges'
  <1>s. PICK s : s = call[t].shard
    OBVIOUS
  <1> DEFINE r == AllocateAligned(call[t].saw, RefillSize)
  <1>0. BelowTop /\ FreeApart /\ AllocationsApart /\ MutexesHeld
    BY DEF ArenaInv
  <1>1. /\ call[t].pc = "refill" /\ ArenaAfter(r)
        /\ shards_' = [shards_ EXCEPT ![s].begin = r.rv]
        /\ call' = [call EXCEPT ![t].pc = "carve", ![t].avail = RefillSize]
        /\ live' = live /\ allocs' = allocs
    BY <1>s DEF Refill
  <1>2. /\ HoldsArena(t) /\ HoldsShard(t) /\ call \in [Threads -> CallState]
        /\ shards_ \in [Cores -> ShardState] /\ s \in Cores
    BY <1>s, <1>1 DEF HoldsArena, HoldsShard, ArenaInv, ArenaTypeOK, CallState
  <1>3. /\ r.rv \in Nat /\ r.top \in Nat /\ RefillSize \in Nat
        /\ r.arena.aligned \in Nat /\ r.arena.remaining \in Nat
        /\ top <= r.top /\ r.rv + RefillSize <= r.top
        /\ r.arena.aligned + r.arena.remaining <= r.top
        /\ Apart(r.arena.aligned, r.arena.remaining, r.rv, RefillSize)
        /\ \A q, k \in Nat :
             q + k <= top /\ Apart(arena_.aligned, arena_.remaining, q, k) =>
               /\ Apart(r.rv, RefillSize, q, k)
               /\ Apart(r.arena.aligned, r.arena.remaining, q, k)
    <2> HIDE DEF r
    <2>1. r = AllocateAligned(call[t].saw, RefillSize)
      BY DEF r
    <2>2. r.arena \in ArenaState => r.arena.aligned \in Nat
                                    /\ r.arena.remaining \in Nat
      BY DEF ArenaState
    <2>3. QED
      BY <1>2, <2>1, <2>2, HolderReads, RefillAllocates, ArenaAllocates
  <1>4. arena_' = r.arena /\ top' = r.top
    BY <1>1 DEF ArenaAfter
  <1>5. shards_[s].mutex = t /\ \A c \in Cores \ {s} : shards_[c].mutex # t
    BY <1>s, <1>0, <1>2 DEF MutexesHeld
  <1> HIDE DEF r
  <1>6. /\ \A u \in Threads \ {t} : call'[u] = call[u]
        /\ call'[t].avail = RefillSize
    BY <1>1, <1>2 DEF CallState
  <1>7. \A c \in Cores \ {s} : shards_'[c] = shards_[c] /\ Free(c)' = Free(c)
    BY <1>1, <1>2, <1>5, <1>6, FreeKept
  <1>8. shards_'[s].begin = r.rv /\ Free(s)' = RefillSize
    <2>1. shards_'[s].begin = r.rv /\ shards_'[s].mutex = t
      BY <1>1, <1>2, <1>5 DEF ShardState
    <2>2. QED
      BY <1>6, <2>1, ArenaAssumption DEF Free
  <1>9. /\ \A c \in Cores : /\ shards_[c].begin \in Nat /\ Free(c) \in Nat
                            /\ shards_[c].begin + Free(c) <= top
        /\ \A a \in live : /\ a.ptr \in Nat /\ a.len \in Nat /\ a.id \in Nat
                           /\ a.ptr + a.len <= top /\ a.id < allocs
        /\ top \in Nat /\ allocs \in Nat
    BY <1>0, RangesTyped DEF BelowTop
  <1>10. BelowTop'
    <2>1. arena_'.aligned + arena_'.remaining <= top'
      BY <1>3, <1>4
    <2>2. \A c \in Cores : shards_'[c].begin + Free(c)' <= top'
      BY <1>3, <1>4, <1>7, <1>8, <1>9
    <2>3. \A a \in live' : a.ptr + a.len <= top' /\ a.id < allocs'
      BY <1>1, <1>3, <1>4, <1>9
    <2>4. QED
      BY <2>1, <2>2, <2>3 DEF BelowTop
  <1>11. /\ \A c \in Cores :
              /\ Apart(r.rv, RefillSize, shards_[c].begin, Free(c))
              /\ Apart(shards_[c].begin, Free(c), r.rv, RefillSize)
              /\ Apart(r.arena.aligned, r.arena.remaining,
                       shards_[c].begin, Free(c))
         /\ \A a \in live :
              /\ Apart(r.rv, RefillSize, a.ptr, a.len)
              /\ Apart(r.arena.aligned, r.arena.remaining, a.ptr, a.len)
    <2>1. /\ \A c \in Cores :
               /\ Apart(r.rv, RefillSize, shards_[c].begin, Free(c))
               /\ Apart(r.arena.aligned, r.arena.remaining,
                        shards_[c].begin, Free(c))
          /\ \A a \in live :
               /\ Apart(r.rv, RefillSize, a.ptr, a.len)
               /\ Apart(r.arena.aligned, r.arena.remaining, a.ptr, a.len)
      BY <1>0, <1>3, <1>9 DEF FreeApart
    <2>2. QED
      BY <1>3, <1>9, <2>1, ApartSymmetric
  <1>12. FreeApart'
    <2>1. \A c \in Cores : Apart(arena_'.aligned, arena_'.remaining,
                                 shards_'[c].begin, Free(c)')
      BY <1>3, <1>4, <1>7, <1>8, <1>11
    <2>2. \A c, d \in Cores : c # d => Apart(shards_'[c].begin, Free(c)',
                                             shards_'[d].begin, Free(d)')
      BY <1>0, <1>7, <1>8, <1>11 DEF FreeApart
    <2>3. \A a \in live' :
            Apart(arena_'.aligned, arena_'.remaining, a.ptr, a.len)
      BY <1>1, <1>4, <1>11
    <2>4. \A c \in Cores : \A a \in live' :
            Apart(shards_'[c].begin, Free(c)', a.ptr, a.len)
      BY <1>0, <1>1, <1>7, <1>8, <1>11 DEF FreeApart
    <2>5. QED
      BY <2>1, <2>2, <2>3, <2>4 DEF FreeApart
  <1>13. AllocationsApart'
    BY <1>0, <1>1 DEF AllocationsApart
  <1>14. QED
    BY <1>10, <1>12, <1>13 DEF Ranges

\* The beginning of the free words of a shard becomes an allocation.
LEMMA FromShardKeeps ==
  ASSUME ArenaInv, NEW t \in Threads, FromShard(t)
  PROVE  Ranges'
  <1>s. PICK s : s = call[t].shard
    OBVIOUS
  <1> DEFINE k == call[t].bytes
             m == call[t].avail
             p == shards_[s].begin
             n == [id |-> allocs, ptr |-> p, len |-> k]
  <1>0. BelowTop /\ FreeApart /\ AllocationsApart /\ MutexesHeld /\ SizesFit
    BY DEF ArenaInv
  <1>1. /\ call[t].pc = "carve"
        /\ shards_' = [shards_ EXCEPT ![s] = [begin |-> @.begin + k,
                                              unused |-> m - k,
                                              mutex |-> NoThread]]
        /\ Returned(t, p) /\ UNCHANGED <<arena_, top>>
    BY <1>s DEF FromShard
  <1>2. /\ HoldsShard(t) /\ call \in [Threads -> CallState]
        /\ shards_ \in [Cores -> ShardState] /\ s \in Cores
        /\ k \in Nat /\ m \in Nat /\ p \in Nat
    BY <1>s, <1>1 DEF HoldsShard, ArenaInv, ArenaTypeOK, CallState, ShardState
  <1>3. k <= m
    BY <1>0, <1>1 DEF SizesFit
  <1>4. /\ live' = live \cup {n} /\ allocs' = allocs + 1
        /\ call' = [call EXCEPT ![t].pc = "done", ![t].rv = p]
        /\ n.id = allocs /\ n.ptr = p /\ n.len = k
    BY <1>1 DEF Returned
  <1>5. shards_[s].mutex = t /\ \A c \in Cores \ {s} : shards_[c].mutex # t
    BY <1>s, <1>0, <1>2 DEF MutexesHeld
  <1>6. Free(s) = m
    BY <1>5, ArenaAssumption DEF Free
  <1> HIDE DEF k, m, p, n
  <1>7. \A u \in Threads \ {t} : call'[u] = call[u]
    BY <1>2, <1>4
  <1>8. \A c \in Cores \ {s} : shards_'[c] = shards_[c] /\ Free(c)' = Free(c)
    BY <1>1, <1>2, <1>5, <1>7, FreeKept
  <1>9. shards_'[s].begin = p + k /\ Free(s)' = m - k
    <2>1. shards_'[s] = [begin |-> p + k, unused |-> m - k,
                         mutex |-> NoThread]
      BY <1>1, <1>2 DEF p
    <2>2. QED
      BY <2>1 DEF Free
  <1>10. /\ \A c \in Cores : /\ shards_[c].begin \in Nat /\ Free(c) \in Nat
                             /\ shards_[c].begin + Free(c) <= top
         /\ \A a \in live : /\ a.ptr \in Nat /\ a.len \in Nat /\ a.id \in Nat
                            /\ a.ptr + a.len <= top /\ a.id < allocs
         /\ arena_.aligned \in Nat /\ arena_.remaining \in Nat
         /\ top \in Nat /\ allocs \in Nat /\ p + m <= top
    <2>1. /\ \A c \in Cores : /\ shards_[c].begin \in Nat /\ Free(c) \in Nat
                              /\ shards_[c].begin + Free(c) <= top
          /\ \A a \in live : /\ a.ptr \in Nat /\ a.len \in Nat /\ a.id \in Nat
                             /\ a.ptr + a.len <= top /\ a.id < allocs
          /\ arena_.aligned \in Nat /\ arena_.remaining \in Nat
          /\ top \in Nat /\ allocs \in Nat
      BY <1>0, RangesTyped DEF BelowTop
    <2>2. QED
      BY <1>2, <1>6, <2>1 DEF p
  <1>11. BelowTop'
    <2>1. arena_'.aligned + arena_'.remaining <= top'
      BY <1>0, <1>1 DEF BelowTop
    <2>2. \A c \in Cores : shards_'[c].begin + Free(c)' <= top'
      BY <1>1, <1>2, <1>3, <1>8, <1>9, <1>10
    <2>3. \A a \in live' : a.ptr + a.len <= top' /\ a.id < allocs'
      BY <1>1, <1>2, <1>3, <1>4, <1>10
    <2>4. QED
      BY <2>1, <2>2, <2>3 DEF BelowTop
  <1>12. /\ Apart(arena_.aligned, arena_.remaining, p, k)
         /\ Apart(arena_.aligned, arena_.remaining, p + k, m - k)
    <2>1. Apart(p, m, arena_.aligned, arena_.remaining)
      BY <1>0, <1>2, <1>6, <1>10, ApartSymmetric DEF FreeApart, p
    <2>2. QED
      BY <1>2, <1>3, <1>10, <2>1, CutApart
  <1>13. \A c \in Cores \ {s} :
           /\ Apart(shards_[c].begin, Free(c), p, k)
           /\ Apart(shards_[c].begin, Free(c), p + k, m - k)
           /\ Apart(p + k, m - k, shards_[c].begin, Free(c))
    <2>1. \A c \in Cores \ {s} : Apart(p, m, shards_[c].begin, Free(c))
      BY <1>0, <1>2, <1>6 DEF FreeApart, p
    <2>2. QED
      BY <1>2, <1>3, <1>10, <2>1, CutApart
  <1>14. \A a \in live : /\ Apart(p, k, a.ptr, a.len)
                         /\ Apart(a.ptr, a.len, p, k)
                         /\ Apart(p + k, m - k, a.ptr, a.len)
    <2>1. \A a \in live : Apart(p, m, a.ptr, a.len)
      BY <1>0, <1>2, <1>6 DEF FreeApart, p
    <2>2. QED
      BY <1>2, <1>3, <1>10, <2>1, CutApart
  <1>15. Apart(p + k, m - k, p, k)
    BY <1>2, <1>3 DEF Apart
  <1>16. FreeApart'
    <2>1. \A c \in Cores : Apart(arena_'.aligned, arena_'.remaining,
                                 shards_'[c].begin, Free(c)')
      BY <1>0, <1>1, <1>8, <1>9, <1>12 DEF FreeApart
    <2>2. \A c, d \in Cores : c # d => Apart(shards_'[c].begin, Free(c)',
                                             shards_'[d].begin, Free(d)')
      BY <1>0, <1>8, <1>9, <1>13 DEF FreeApart
    <2>3. \A a \in live' :
            Apart(arena_'.aligned, arena_'.remaining, a.ptr, a.len)
      BY <1>0, <1>1, <1>4, <1>12 DEF FreeApart
    <2>4. \A c \in Cores : \A a \in live' :
            Apart(shards_'[c].begin, Free(c)', a.ptr, a.len)
      BY <1>0, <1>4, <1>8, <1>9, <1>13, <1>14, <1>15 DEF FreeApart
    <2>5. QED
      BY <2>1, <2>2, <2>3, <2>4 DEF FreeApart
  <1>17. AllocationsApart'
    BY <1>0, <1>4, <1>14 DEF AllocationsApart
  <1>18. QED
    BY <1>11, <1>16, <1>17 DEF Ranges

\* Taking the mutex of a shard reads its counter.
LEMMA TakeShardKeeps ==
  ASSUME ArenaInv, NEW t \in Threads, NEW c \in Cores, TakeShard(t, c),
         call[t].pc \in {"shard", "spin"},
         UNCHANGED <<arena_, live, allocs, top>>
  PROVE  Ranges'
  <1>1. /\ call \in [Threads -> CallState] /\ MutexesHeld
        /\ shards_ \in [Cores -> ShardState] /\ NoThread \notin Threads
    BY ArenaAssumption DEF ArenaInv, ArenaTypeOK
  <1>2. /\ \A u \in Threads \ {t} : call'[u] = call[u]
        /\ call'[t].avail = shards_[c].unused
    BY <1>1 DEF TakeShard, CallState
  <1>3. /\ shards_[c].mutex = NoThread /\ shards_'[c].mutex = t
        /\ shards_'[c].begin = shards_[c].begin
        /\ \A d \in Cores \ {c} : shards_'[d] = shards_[d]
    BY <1>1 DEF TakeShard, ShardState
  <1>4. \A d \in Cores \ {c} : shards_[d].mutex # t
    BY <1>1 DEF MutexesHeld, HoldsShard
  <1>5. \A d \in Cores \ {c} : Free(d)' = Free(d)
    BY <1>2, <1>3, <1>4, FreeKept
  <1>6. Free(c)' = Free(c)
    BY <1>1, <1>2, <1>3 DEF Free
  <1>7. \A d \in Cores : shards_'[d].begin = shards_[d].begin
                         /\ Free(d)' = Free(d)
    BY <1>3, <1>5, <1>6
  <1>8. Ranges
    BY DEF ArenaInv, Ranges
  <1>9. QED
    BY <1>7, <1>8, RangesKept

\* The ranges stay apart in every step.
LEMMA RangesStep ==
  ASSUME ArenaInv, [ArenaNext]_arenaVars
  PROVE  Ranges'
  <1>0. /\ call \in [Threads -> CallState] /\ Ranges /\ MutexesHeld
        /\ shards_ \in [Cores -> ShardState]
    BY DEF ArenaInv, ArenaTypeOK, Ranges
  <1>m. ASSUME NEW t \in Threads, \A u \in Threads \ {t} : call'[u] = call[u],
               ~HoldsShard(t) \/ call'[t].avail = call[t].avail,
               UNCHANGED <<arena_, shards_, live, allocs, top>>
        PROVE  Ranges'
    <2>1. \A c \in Cores :
            shards_[c].mutex = t => call'[t].avail = call[t].avail
      BY <1>0, <1>m DEF MutexesHeld
    <2>2. \A c \in Cores : Free(c)' = Free(c)
      BY <1>m, <2>1, FreeKept
    <2>3. QED
      BY <1>0, <1>m, <2>2, RangesKept
  <1>1. ASSUME NEW t \in Threads, NEW bytes \in Sizes, Request(t, bytes)
        PROVE  Ranges'
    <2>1. ~HoldsShard(t) /\ \A u \in Threads \ {t} : call'[u] = call[u]
      BY <1>0, <1>1 DEF Request, HoldsShard
    <2>2. QED
      BY <1>m, <1>1, <2>1 DEF Request
  <1>2. ASSUME NEW t \in Threads, Enter(t)
        PROVE  Ranges'
    <2>1. ~HoldsShard(t) /\ \A u \in Threads \ {t} : call'[u] = call[u]
      BY <1>0, <1>2 DEF Enter, HoldsShard
    <2>2. QED
      BY <1>m, <1>2, <2>1 DEF Enter
  <1>3. ASSUME NEW t \in Threads, TryArena(t) \/ LockArena(t) \/ LockReload(t)
        PROVE  Ranges'
    <2>1. /\ call'[t].avail = call[t].avail
          /\ \A u \in Threads \ {t} : call'[u] = call[u]
      BY <1>0, <1>3 DEF TryArena, LockArena, LockReload, TakeArena, CallState
    <2>2. QED
      BY <1>m, <1>3, <2>1 DEF TryArena, LockArena, LockReload
  <1>4. ASSUME NEW t \in Threads, PickShard(t)
        PROVE  Ranges'
    <2>1. tls_cpuid[t] % NumShards \in Cores
      BY ArenaAssumption DEF ArenaInv, ArenaTypeOK, Cores
    <2>2. call[t].pc = "shard" /\ UNCHANGED <<arena_, live, allocs, top>>
      BY <1>4 DEF PickShard
    <2>3. CASE TakeShard(t, tls_cpuid[t] % NumShards)
      BY <2>1, <2>2, <2>3, TakeShardKeeps
    <2>4. CASE \E c \in Cores :
                 /\ call' = [call EXCEPT ![t].pc = "spin", ![t].shard = c]
                 /\ UNCHANGED shards_
      <3>1. /\ ~HoldsShard(t) /\ UNCHANGED shards_
            /\ \A u \in Threads \ {t} : call'[u] = call[u]
        BY <1>0, <2>2, <2>4 DEF HoldsShard
      <3>2. QED
        BY <1>m, <2>2, <3>1
    <2>5. QED
      BY <1>4, <2>3, <2>4 DEF PickShard
  <1>5. ASSUME NEW t \in Threads, LockShard(t)
        PROVE  Ranges'
    <2>1. call[t].shard \in Cores
      BY <1>0 DEF CallState
    <2>2. QED
      BY <1>5, <2>1, TakeShardKeeps DEF LockShard
  <1>6. ASSUME NEW t \in Threads, Return(t)
        PROVE  Ranges'
    <2>1. ~HoldsShard(t) /\ \A u \in Threads \ {t} : call'[u] = call[u]
      BY <1>0, <1>6 DEF Return, HoldsShard
    <2>2. QED
      BY <1>m, <1>6, <2>1 DEF Return
  <1>7. CASE UNCHANGED <<arena_, shards_, call, live, allocs, top>>
    <2>1. \A c \in Cores : Free(c)' = Free(c)
      BY <1>7 DEF Free
    <2>2. QED
      BY <1>0, <1>7, <2>1, RangesKept
  <1>8. QED
    BY <1>1, <1>2, <1>3, <1>4, <1>5, <1>6, <1>7, FromArenaKeeps, RefillKeeps,
       FromShardKeeps
    DEF ArenaNext, Allocate, Exit, arenaVars

-----------------------------------------------------------------------------

\* The invariant holds of the empty arena.
LEMMA ArenaStarts == ArenaInit => ArenaInv
  <1> SUFFICES ASSUME ArenaInit PROVE ArenaInv
    OBVIOUS
  <1> USE DEF ArenaInit
  <1>1. NewArena \in ArenaState /\ NewShard \in ShardState /\ 0 \in Cores
    BY ArenaAssumption
    DEF NewArena, ArenaState, NewShard, ShardState, Cores
  <1>2. Idle \in CallState /\ Idle.pc = "idle"
    BY <1>1 DEF Idle, Calling, CallState, Step
  <1>3. ArenaTypeOK
    <2>1. shards_ \in [Cores -> ShardState] /\ call \in [Threads -> CallState]
      BY <1>1, <1>2
    <2>2. QED
      BY <1>1, <2>1, ArenaAssumption DEF ArenaTypeOK, NewArena
  <1>4. MutexesHeld
    BY <1>2, ArenaAssumption
    DEF MutexesHeld, HoldsArena, HoldsShard, NewShard
  <1>5. SizesFit
    BY <1>2 DEF SizesFit
  <1>6. \A c \in Cores : shards_[c].begin = 0 /\ Free(c) = 0
    BY DEF NewShard, Free
  <1>7. BelowTop /\ FreeApart /\ AllocationsApart
    BY <1>6, ArenaAssumption
    DEF BelowTop, FreeApart, AllocationsApart, NewArena, Apart
  <1>8. QED
    BY <1>3, <1>4, <1>5, <1>7 DEF ArenaInv

\* The inductive invariant of the allocator: its types, that the mutexes
\* protect what they should, and that all ranges are apart.
THEOREM ArenaInvariant == ArenaSpec => []ArenaInv
  <1>1. ArenaInit => ArenaInv
    BY ArenaStarts
  <1>2. ArenaInv /\ [ArenaNext]_arenaVars => ArenaInv'
    BY TypeStep, MutexStep, SizesStep, RangesStep DEF ArenaInv, Ranges
  <1>3. QED
    BY <1>1, <1>2, PTL DEF ArenaSpec

\* No two values of a memtable share a word of the memory outside the enclave,
\* for any number of threads and shards and any sizes (AllocateImpl).
THEOREM NoOverlap == ArenaSpec => []AllocationsApart
  <1>1. ArenaInv => AllocationsApart
    BY DEF ArenaInv
  <1>2. QED
    BY <1>1, ArenaInvariant, PTL
=============================================================================
