SPECIFICATION FairSpec
CONSTANTS
  Threads = {t1, t2}
  NoThread = NoThread
  NumShards = 2
  kBlockSize = 8
  shard_block_size_ = 4
  kAlignUnit = 2
  Sizes = {1, 3, 9}
  MaxAllocs = 2
  Readers = {r1}
  UserKeys = {k1}
  Ops = {"get", "iterate"}
INVARIANTS TypeOK AllocationsApart ValuesKept AnswersCurrent
PROPERTIES GroupsComplete MemoryReturned
CHECK_DEADLOCK FALSE
