--------------------------- MODULE EncryptedTable ---------------------------
(***************************************************************************)
(* An SST file with BLOCK_ENC, from the calls that build it to the calls   *)
(* that read it: BlockBuilder seals every value of a data block with its   *)
(* own HMAC and keeps the keys in a separate, delta encoded and encrypted  *)
(* list; EncryptedDataBlockIter decodes that list (Ready) and moves over   *)
(* it; BlockBasedTableIterator and BlockBasedTable::Get use it under the   *)
(* index of the table.                                                     *)
(*                                                                         *)
(* One client builds a table and then calls the reader in any order the    *)
(* interface allows.  Reading a block may fail.                            *)
(*                                                                         *)
(* Abstractions:                                                           *)
(*  - a key is two digits of user key, a sequence number and a type; no    *)
(*    user key is a prefix of another, so comparing bytes and comparing    *)
(*    user keys agree;                                                     *)
(*  - a value is known by the key it was written with; its HMAC covers     *)
(*    that key and the value, so it verifies there and nowhere else;       *)
(*  - FlushBlockPolicy may cut after any entry; FindShortestSeparator may  *)
(*    choose any key the bytes allow;                                      *)
(*  - default options: format_version 4, one index entry per restart, no   *)
(*    filters, bounds, global sequence number, or first keys in the index; *)
(*    a failed read is an I/O error.                                       *)
(***************************************************************************)
EXTENDS Naturals, Sequences, FiniteSets, SequencesExt

CONSTANTS
  Users,          \* user keys that are written
  Gaps,           \* further user keys, for targets and separators
  MaxSeq,         \* bound: sequence numbers
  Values,         \* the types of entries, with lengths of their values
  MacSize,        \* bytes of an HMAC (48)
  Skip,           \* what NextImpl adds to leave a block (20000)
  MaxEntries,     \* bound: entries of a table
  AllowReadError  \* may reading a data block fail?

Digits == 0 .. 9
Type   == {"put", "merge", "del"}

ASSUME EncryptedTableAssumption ==
  /\ Users \subseteq Digits \X Digits /\ Gaps \subseteq Digits \X Digits
  /\ Users \cap Gaps = {}
  /\ Values \subseteq Type \X Nat /\ MaxSeq \in Nat /\ MaxEntries \in Nat
  /\ MacSize \in Nat \ {0} /\ Skip \in Nat \ {0} /\ AllowReadError \in BOOLEAN

VARIABLES
  phase,       \* "build" or "ready"
  data_block,  \* the BlockBuilder of the current block
  blocks,      \* the data blocks of the file
  index,       \* the index key of every block
  seperator_is_key_plus_seq_,
  it,          \* a BlockBasedTableIterator
  failed,      \* has a read of its blocks failed?
  answer       \* what the last Get returned

tableVars == <<phase, data_block, blocks, index, seperator_is_key_plus_seq_>>
vars == <<tableVars, it, failed, answer>>

-----------------------------------------------------------------------------
(* Keys *)

Key == {<<u[1], u[2], s, t>> : u \in Users, s \in 1 .. MaxSeq, t \in Type}

\* What a reader looks for: a user key as of a sequence number.
Target ==
  {<<u[1], u[2], s, "seek">> : u \in Users, s \in 1 .. MaxSeq}
    \cup {<<u[1], u[2], MaxSeq, "seek">> : u \in Gaps}

\* The user comparator, and the internal one (newest first).
SameUser(a, b) == a[1] = b[1] /\ a[2] = b[2]
UserLess(a, b) == a[1] < b[1] \/ (a[1] = b[1] /\ a[2] < b[2])
Less(a, b)     == UserLess(a, b) \/ (SameUser(a, b) /\ a[3] > b[3])

-----------------------------------------------------------------------------
(* BlockBuilder and BlockBasedTableBuilder *)

\* Slice::difference_offset: how many leading bytes two keys share.
Shared(a, b) ==
  Cardinality({n \in 1 .. Len(b) : \A j \in 1 .. n : a[j] = b[j]})

EmptyBuilder ==
  [buffer |-> <<>>, meta |-> <<>>, meta_offset |-> 0, last_key |-> <<>>]

\* BlockBuilder::Add: the sealed value and its HMAC go to buffer_, the key and
\* the length to meta_buf.
BuilderAdd(b, key, n) ==
  LET shared == Shared(key, b.last_key)
  IN [buffer |-> Append(b.buffer, [key |-> key, off |-> b.meta_offset,
                                   len |-> n]),
      meta |-> Append(b.meta, [shared |-> shared,
                               rest |-> SubSeq(key, shared + 1, Len(key)),
                               len |-> n]),
      meta_offset |-> b.meta_offset + n + MacSize,
      last_key |-> key]

\* BlockBuilder::Finish.
Finished(b) ==
  [buffer |-> b.buffer, meta |-> b.meta, meta_offset |-> b.meta_offset]

\* FindShortestSeparator: the last key of a block, or a user key between the
\* two, with the largest sequence number.
ShortKey == {<<u[1], u[2], MaxSeq + 1, "seek">> : u \in Users \cup Gaps}

Separators(last, next) ==
  {last} \cup {k \in ShortKey : UserLess(last, k) /\ UserLess(k, next)}

Entries ==
  LET upTo[b \in 0 .. Len(blocks)] ==
        IF b = 0 THEN 0 ELSE upTo[b - 1] + Len(blocks[b].meta)
  IN upTo[Len(blocks)] + Len(data_block.meta)

\* BlockBasedTableBuilder::Add, when the flush policy does not cut ...
Add(key, n) ==
  /\ phase = "build" /\ Entries < MaxEntries
  /\ data_block.last_key # <<>> => Less(data_block.last_key, key)
  /\ data_block' = BuilderAdd(data_block, key, n)
  /\ UNCHANGED <<phase, blocks, index, seperator_is_key_plus_seq_, it, failed,
                 answer>>

\* ... and when it does: the block is written (Flush, WriteBlock, Reset) and
\* its index entry added before the key goes to the next block.
FlushAndAdd(key, n) ==
  /\ phase = "build" /\ Entries < MaxEntries
  /\ data_block.meta # <<>> /\ Less(data_block.last_key, key)
  /\ blocks' = Append(blocks, Finished(data_block))
  /\ \E sep \in Separators(data_block.last_key, key) :
       /\ index' = Append(index, sep)
       /\ seperator_is_key_plus_seq_' =
            (seperator_is_key_plus_seq_ \/ SameUser(sep, key))
  /\ data_block' = BuilderAdd(EmptyBuilder, key, n)
  /\ UNCHANGED <<phase, it, failed, answer>>

\* Mutant: the last block gets no index entry.
FinishNoIndex ==
  /\ phase = "build" /\ data_block.meta # <<>>
  /\ blocks' = Append(blocks, Finished(data_block)) /\ index' = index
  /\ data_block' = EmptyBuilder /\ phase' = "ready"
  /\ UNCHANGED <<seperator_is_key_plus_seq_, it, failed, answer>>

\* BlockBasedTableBuilder::Finish.  The index key of the last block is its last
\* key.
Finish ==
  /\ phase = "build" /\ data_block.meta # <<>>
  /\ blocks' = Append(blocks, Finished(data_block))
  /\ index' = Append(index, data_block.last_key)
  /\ data_block' = EmptyBuilder /\ phase' = "ready"
  /\ UNCHANGED <<seperator_is_key_plus_seq_, it, failed, answer>>

-----------------------------------------------------------------------------
(* EncryptedDataBlockIter: the fields map .. err of the table iterator `it`.
   A position is 1-based, so 0 is the code's -1. *)

\* A fault is a behaviour the code does not define (a vector read out of its
\* bounds, a read through a null data_), an endless loop, or an exit(-1).
Fault == {"none", "bounds", "null", "loop", "exit"}

NoIterator ==
  [idx |-> 0, real |-> FALSE, prev |-> 0, key_offset_map |-> <<>>, map |-> 0,
   data |-> FALSE, ci |-> 0, cur |-> 0, lim |-> 0, err |-> FALSE,
   fault |-> "none"]

Broken(i, f) == [i EXCEPT !.fault = f]

\* Mutant: Ready forgets the HMAC behind a value.
DecodedNoMac(b) ==
  LET Ready[n \in 0 .. Len(b.meta)] ==
        IF n = 0 THEN <<>>
        ELSE LET m == Ready[n - 1]
                 e == b.meta[n]
             IN Append(m, IF m = <<>> THEN [key |-> e.rest, off |-> 0,
                                            len |-> e.len]
                          ELSE [key |-> SubSeq(Last(m).key, 1, e.shared)
                                          \o e.rest,
                                off |-> Last(m).off + Last(m).len,
                                len |-> e.len])
  IN Ready[Len(b.meta)]

\* Ready: what the loop over the key list appends to key_offset_map.
Decoded(b) ==
  LET Ready[n \in 0 .. Len(b.meta)] ==
        IF n = 0 THEN <<>>
        ELSE LET m == Ready[n - 1]
                 e == b.meta[n]
             IN Append(m, IF m = <<>> THEN [key |-> e.rest, off |-> 0,
                                            len |-> e.len]
                          ELSE [key |-> SubSeq(Last(m).key, 1, e.shared)
                                          \o e.rest,
                                off |-> Last(m).off + Last(m).len + MacSize,
                                len |-> e.len])
  IN Ready[Len(b.meta)]

\* Ready exits on user keys that go down.
Sorted(m) == \A n \in 2 .. Len(m) : ~UserLess(m[n].key, m[n - 1].key)

Valid(i) == i.cur < i.lim

\* raw_key_ and current_ follow current_index.
At(i, n) ==
  LET m == i.key_offset_map
  IN IF n \in DOMAIN m THEN [i EXCEPT !.ci = n, !.cur = m[n].off + MacSize]
     ELSE Broken(i, "bounds")

NextImpl(i) ==
  IF i.ci < Len(i.key_offset_map) THEN At(i, i.ci + 1)
  ELSE [i EXCEPT !.cur = @ + Skip]

\* Mutant: Prev stops one entry too early.
PrevImplShort(i) == At(i, IF i.ci > 2 THEN i.ci - 1 ELSE i.ci)

PrevImpl(i) == At(i, IF i.ci > 1 THEN i.ci - 1 ELSE i.ci)

\* The first entry at or past t.  The binary search in front of the scan
\* compares a key with itself, so the scan starts at the first entry; an
\* iterator that runs past the last entry is not Valid.
SeekImpl(i, t) ==
  LET m == i.key_offset_map
      past == {n \in DOMAIN m : ~Less(m[n].key, t)}
  IN IF m = <<>> THEN Broken(i, "bounds")
     ELSE IF past # {} THEN At(i, Min(past))
     ELSE [i EXCEPT !.ci = Len(m), !.cur = i.lim]

SeekToFirstImpl(i) ==
  IF i.data THEN NextImpl([i EXCEPT !.ci = 0]) ELSE i

SeekToLastImpl(i) ==
  IF i.data THEN PrevImpl([i EXCEPT !.ci = Len(i.key_offset_map) + 2])
  ELSE i

\* The while loop calls PrevImpl until the key is at or before t; PrevImpl does
\* not move from the first entry.
SeekForPrevImpl(i, t) ==
  LET j == SeekImpl(i, t)
      before == {n \in 1 .. j.ci : ~Less(t, j.key_offset_map[n].key)}
  IN IF j.fault # "none" THEN j
     ELSE IF ~Valid(j) THEN SeekToLastImpl(j)
     ELSE IF before = {} THEN Broken(j, "loop")
     ELSE At(j, Max(before))

\* Updatevalue: the value is read at the offset of the map and verified with
\* the key of the map.
Authentic(b, e) ==
  \E v \in ToSet(b.buffer) : v.key = e.key /\ v.off = e.off /\ v.len = e.len

ReadValue(i) ==
  IF ~i.data THEN Broken(i, "null")
  ELSE IF ~Authentic(blocks[i.map], i.key_offset_map[i.ci])
  THEN Broken(i, "exit")
  ELSE i

-----------------------------------------------------------------------------
(* BlockBasedTableIterator: the fields idx (index_iter_, 0 when not Valid),
   real (block_iter_points_to_real_block_) and prev (prev_block_offset_).  An
   operation is given the set of blocks that it cannot read. *)

TValid(i) == i.real /\ Valid(i)

Blocks == 1 .. Len(blocks)

\* Without sequence numbers the index compares user keys only.
IndexBefore(sep, t) ==
  IF seperator_is_key_plus_seq_ THEN Less(sep, t) ELSE UserLess(sep, t)

IndexSeek(t) ==
  LET S == {b \in Blocks : ~IndexBefore(index[b], t)}
  IN IF S = {} THEN 0 ELSE Min(S)

\* Mutant: the status of the failed read is lost.
InvalidateNoStatus(i, err) == [i EXCEPT !.data = FALSE, !.cur = i.lim]

\* BlockIter::InvalidateBase; key_offset_map and restarts_ stay.
Invalidate(i, err) == [i EXCEPT !.data = FALSE, !.cur = i.lim, !.err = err]

ResetDataIter(i) ==
  IF i.real THEN [Invalidate(i, FALSE) EXCEPT !.real = FALSE] ELSE i

\* NewDataBlockIterator: Invalidate after a failed read, else Initialize and
\* Ready.
NewDataBlockIterator(i, bad) ==
  LET m == Decoded(blocks[i.idx])
      ready == [i EXCEPT !.key_offset_map = m, !.map = i.idx, !.data = TRUE,
                         !.ci = 0, !.cur = 0,
                         !.lim = blocks[i.idx].meta_offset]
  IN IF i.idx \in bad THEN Invalidate(i, TRUE)
     ELSE IF Sorted(m) THEN ready
     ELSE Broken(ready, "exit")

InitDataBlock(i, bad) ==
  IF i.real /\ i.idx = i.prev THEN i
  ELSE [NewDataBlockIterator(ResetDataIter(i), bad) EXCEPT !.real = TRUE]

\* FindKeyForward and FindBlockForward: from a position that is not Valid to
\* the next block that has a first entry or cannot be read.
Settled(i) == Valid(i) \/ i.err \/ i.fault # "none"

FindKeyForward(i, bad) ==
  LET open(j, b) ==
        SeekToFirstImpl(
          InitDataBlock([ResetDataIter(j) EXCEPT !.idx = b], bad))
      FindBlockForward[b \in i.idx .. Len(blocks)] ==
        IF b = i.idx THEN i
        ELSE LET j == FindBlockForward[b - 1]
             IN IF Settled(j) THEN j ELSE open(j, b)
      k == FindBlockForward[Len(blocks)]
  IN IF Settled(k) THEN k ELSE [ResetDataIter(k) EXCEPT !.idx = 0]

\* FindKeyBackward: SeekToLast of the block before ends the loop, whatever it
\* does.
FindKeyBackward(i, bad) ==
  IF Settled(i) THEN i
  ELSE IF i.idx = 1 THEN [ResetDataIter(i) EXCEPT !.idx = 0]
  ELSE SeekToLastImpl(
         InitDataBlock([ResetDataIter(i) EXCEPT !.idx = i.idx - 1], bad))

\* SeekImpl of the table.  A reseek remembers its block, and leaves the index
\* alone when the target lies between the current key and the index key.
Remember(i) == IF TValid(i) THEN [i EXCEPT !.prev = i.idx] ELSE i

\* Mutant: a target before the current key does not ask the index either.
StaysInBlockBefore(i, t) == TValid(i) /\ UserLess(t, index[i.idx])

StaysInBlock(i, t) ==
  /\ TValid(i)
  /\ UserLess(i.key_offset_map[i.ci].key, t)
  /\ UserLess(t, index[i.idx])

SeekBlock(i, t) ==
  IF StaysInBlock(i, t) THEN Remember(i)
  ELSE [Remember(i) EXCEPT !.idx = IndexSeek(t)]

TableSeek(i, t, bad) ==
  LET j == SeekBlock(i, t)
  IN IF j.idx = 0 THEN ResetDataIter(j)
     ELSE FindKeyForward(SeekImpl(InitDataBlock(j, bad), t), bad)

TableSeekToFirst(i, bad) ==
  LET j == [Remember(i) EXCEPT !.idx = 1]
  IN FindKeyForward(SeekToFirstImpl(InitDataBlock(j, bad)), bad)

\* SavePrevIndexValue.  A call of index_iter_->value() on an index iterator
\* that is not Valid does not happen: real implies that it is.
SavePrev(i) == IF i.real THEN [i EXCEPT !.prev = i.idx] ELSE i

\* The block in which SeekForPrev looks for its target.
PrevBlock(t) == IF IndexSeek(t) = 0 THEN Len(blocks) ELSE IndexSeek(t)

TableSeekForPrev(i, t, bad) ==
  LET j == InitDataBlock([SavePrev(i) EXCEPT !.idx = PrevBlock(t)], bad)
  IN FindKeyBackward(SeekForPrevImpl(j, t), bad)

TableSeekToLast(i, bad) ==
  LET j == InitDataBlock([SavePrev(i) EXCEPT !.idx = Len(blocks)], bad)
  IN FindKeyBackward(SeekToLastImpl(j), bad)

-----------------------------------------------------------------------------
(* BlockBasedTable::Get *)

\* IndexBlockIter::check_corruption.  The index key of the block before is
\* looked at from the third block on; it may be the same user key, followed by
\* a sequence number.
check_corruption(b) ==
  LET m == Decoded(blocks[b])
  IN /\ ~UserLess(index[b], Last(m).key)
     /\ b > 2 => UserLess(index[b - 1], Head(m).key)

\* How often a scan visits the last entry of a block before NextImpl has made
\* it invalid.
Visits(len) == (len + Skip - 1) \div Skip

\* What SeekForGet and Next show of a block.
Seen(m, t) ==
  LET past == {n \in DOMAIN m : ~Less(m[n].key, t)}
  IN IF past = {} THEN <<>>
     ELSE SubSeq(m, Min(past), Len(m) - 1)
          \o [n \in 1 .. Visits(Last(m).len) |-> Last(m)]

NoAnswer ==
  [target |-> <<>>, state |-> "none", ops |-> <<>>, fault |-> "none"]

\* GetContext::SaveValue, with the value known by its key.  It returns false,
\* and the scan is done, after anything but a merge operand of the user key.
SaveValue(a, e, t) ==
  LET r == a.answer
      more == [r EXCEPT !.ops = Append(@, e.key)]
  IN IF a.done THEN a
     ELSE IF ~SameUser(e.key, t) THEN [a EXCEPT !.done = TRUE]
     ELSE IF e.key[4] = "merge"
     THEN [a EXCEPT !.answer = [more EXCEPT !.state = "merge"]]
     ELSE [done |-> TRUE,
           answer |-> IF e.key[4] = "put" THEN [more EXCEPT !.state = "found"]
                      ELSE [r EXCEPT !.state = IF r.state = "merge"
                                               THEN "found" ELSE "deleted"]]

\* One round of the loop over the index.  A failed read leaves the map empty,
\* and last_key() reads in front of it before the status is looked at.
GetBlock(a, b, t, bad) ==
  LET m == Decoded(blocks[b])
      s == Seen(m, t)
      scan[n \in 0 .. Len(s)] ==
        IF n = 0 THEN a ELSE SaveValue(scan[n - 1], s[n], t)
      stop(f) == [done |-> TRUE, answer |-> [a.answer EXCEPT !.fault = f]]
  IN IF a.done THEN a
     ELSE IF b \in bad THEN stop("bounds")
     ELSE IF /\ Sorted(m) /\ check_corruption(b)
             /\ \A e \in ToSet(s) : Authentic(blocks[b], e)
     THEN scan[Len(s)]
     ELSE stop("exit")

GetResult(t, bad) ==
  LET start == [done |-> FALSE,
                answer |-> [NoAnswer EXCEPT !.target = t,
                                            !.state = "notfound"]]
      first == IndexSeek(t)
      upTo[b \in first - 1 .. Len(blocks)] ==
        IF b = first - 1 THEN start ELSE GetBlock(upTo[b - 1], b, t, bad)
  IN IF first = 0 THEN start.answer ELSE upTo[Len(blocks)].answer

-----------------------------------------------------------------------------
(* The client *)

\* The blocks whose reads fail during one call.
Unreadable == {{}} \cup (IF AllowReadError THEN {{b} : b \in Blocks} ELSE {})

Iterate(op(_)) ==
  /\ phase = "ready" /\ answer = NoAnswer /\ it.fault = "none"
  /\ \E bad \in Unreadable : it' = op(bad)
  /\ failed' = (failed \/ it'.err)
  /\ UNCHANGED <<tableVars, answer>>

Seek(t)        == Iterate(LAMBDA bad : TableSeek(it, t, bad))
SeekToFirst    == Iterate(LAMBDA bad : TableSeekToFirst(it, bad))
SeekForPrev(t) == Iterate(LAMBDA bad : TableSeekForPrev(it, t, bad))
SeekToLast     == Iterate(LAMBDA bad : TableSeekToLast(it, bad))

\* Next, Prev and value() require Valid().
NextEntry ==
  TValid(it) /\ Iterate(LAMBDA bad : FindKeyForward(NextImpl(it), bad))

PrevEntry ==
  TValid(it) /\ Iterate(LAMBDA bad : FindKeyBackward(PrevImpl(it), bad))

Value == TValid(it) /\ Iterate(LAMBDA bad : ReadValue(it))

\* Get has an iterator of its own.
Get(t) ==
  /\ phase = "ready" /\ it = NoIterator /\ answer = NoAnswer
  /\ \E bad \in Unreadable : answer' = GetResult(t, bad)
  /\ UNCHANGED <<tableVars, it, failed>>

\* The client drops its iterator, or the process starts again.
NewIterator ==
  /\ phase = "ready" /\ it' = NoIterator /\ failed' = FALSE
  /\ answer' = NoAnswer
  /\ UNCHANGED tableVars

Init ==
  /\ phase = "build" /\ data_block = EmptyBuilder
  /\ blocks = <<>> /\ index = <<>> /\ seperator_is_key_plus_seq_ = FALSE
  /\ it = NoIterator /\ failed = FALSE /\ answer = NoAnswer

Next ==
  \/ \E key \in Key : \E n \in {v[2] : v \in {v \in Values : v[1] = key[4]}} :
       Add(key, n) \/ FlushAndAdd(key, n)
  \/ Finish
  \/ \E t \in Target : Seek(t) \/ SeekForPrev(t) \/ Get(t)
  \/ SeekToFirst \/ SeekToLast \/ NextEntry \/ PrevEntry \/ Value
  \/ NewIterator

Spec == Init /\ [][Next]_vars

-----------------------------------------------------------------------------
(* Properties *)

TypeOK ==
  /\ phase \in {"build", "ready"}
  /\ Len(blocks) = Len(index) /\ Entries <= MaxEntries
  /\ \A b \in Blocks : index[b] \in Key \cup ShortKey
  /\ seperator_is_key_plus_seq_ \in BOOLEAN /\ failed \in BOOLEAN
  /\ it.idx \in 0 .. Len(blocks) /\ it.prev \in 0 .. Len(blocks)
  /\ it.map \in 0 .. Len(blocks) /\ it.ci \in 0 .. Len(it.key_offset_map) + 2
  /\ it.cur \in Nat /\ it.lim \in Nat
  /\ {it.real, it.data, it.err} \subseteq BOOLEAN
  /\ it.fault \in Fault /\ answer.fault \in Fault
  /\ answer.state \in {"none", "notfound", "found", "deleted", "merge"}

\* The keys of a block and of the table.
KeysOf(b) == {v.key : v \in ToSet(b.buffer)}

WrittenKeys == UNION {KeysOf(blocks[b]) : b \in Blocks}

\* A table none of whose blocks ends in an empty value: every entry is shown.
NoEmptyEnd == \A b \in Blocks : Last(blocks[b].buffer).len # 0

\* A table whose blocks end in a value that NextImpl can step over: not empty,
\* and no longer than the distance that NextImpl adds.
Regular == \A b \in Blocks : Last(blocks[b].buffer).len \in 1 .. Skip

\* The keys at the end of a block whose values are longer than that.
LongEnds ==
  {Last(blocks[b].buffer).key :
     b \in {c \in Blocks : Last(blocks[c].buffer).len > Skip}}

\* The first and the last of a set of keys, if there is one.
FirstOf(K) == {k \in K : \A x \in K : ~Less(x, k)}
LastOf(K)  == {k \in K : \A x \in K : ~Less(k, x)}

AtOrPast(t)   == {k \in WrittenKeys : ~Less(k, t)}
AtOrBefore(t) == {k \in WrittenKeys : ~Less(t, k)}

\* What key() of a table iterator shows, if it is Valid.
Shown(i) ==
  IF i.fault = "none" /\ TValid(i) THEN {i.key_offset_map[i.ci].key} ELSE {}

Trusted == phase = "ready" /\ it.fault = "none" /\ ~failed

\* Wherever an iterator stands, Seek shows the first key at or past its target,
\* SeekToFirst the first key, and Next the key after the one shown: in a table
\* without empty values at the ends of its blocks, as long as no read has
\* failed.  The shortcuts for a reseek and the stale prev_block_offset_ never
\* lead to the wrong block.  Only the last key of a block, when its value is
\* longer than what NextImpl adds, may be shown again, and no key is left out.
ForwardContract ==
  Trusted /\ NoEmptyEnd =>
    /\ \A t \in Target : Shown(TableSeek(it, t, {})) = FirstOf(AtOrPast(t))
    /\ Shown(TableSeekToFirst(it, {})) = FirstOf(WrittenKeys)
    /\ \A k \in Shown(it) :
         LET shown == Shown(FindKeyForward(NextImpl(it), {}))
         IN \/ shown = FirstOf({x \in WrittenKeys : Less(k, x)})
            \/ k \in LongEnds /\ shown = {k}

\* Backwards the iterator keeps its promise inside a block, and outside never
\* shows another key for the right one: Prev shows the key before, or from the
\* first entry of a block the same again; SeekForPrev shows the last key at or
\* before its target, unless it has no such key in its block (it does not
\* return) or none at or past it (it reads behind the list).
BackwardInBlock ==
  Trusted /\ NoEmptyEnd =>
    /\ \A k \in Shown(it) :
         LET shown == Shown(FindKeyBackward(PrevImpl(it), {}))
         IN \/ shown = LastOf({x \in WrittenKeys : Less(x, k)})
            \/ it.ci = 1 /\ shown = {k}
    /\ \A t \in Target :
         LET j    == TableSeekForPrev(it, t, {})
             keys == KeysOf(blocks[PrevBlock(t)])
         IN \/ j.fault = "none" /\ Shown(j) = LastOf(AtOrBefore(t))
            \/ j.fault = "loop" /\ \A k \in keys : Less(t, k)
            \/ j.fault = "bounds" /\ \A k \in keys : Less(k, t)

\* An iterator that is Valid with an OK status stands in the block of its index
\* entry and can read its value, whatever reads failed before; a value is read
\* through a null pointer only while status() reports the failed read, and no
\* block that this builder wrote fails its verification.
StatusTellsStaleBlock ==
  /\ TValid(it) /\ ~it.err /\ it.fault = "none" => it.map = it.idx /\ it.data
  /\ it.fault = "null" => it.err
  /\ it.fault # "exit"

\* An answer with the entries of the target's user key that a Get at its
\* sequence number sees: merge operands, newest first, down to a value or a
\* deletion.
Right(a) ==
  LET mine == {k \in AtOrPast(a.target) : SameUser(k, a.target)}
      base == FirstOf({k \in mine : k[4] # "merge"})
      seen == {k \in mine : \A x \in base : ~Less(x, k)}
      ops  == {k \in seen : k[4] # "del"}
  IN /\ ToSet(a.ops) = ops
     /\ \A m, n \in DOMAIN a.ops : m < n => Less(a.ops[m], a.ops[n])
     /\ a.state = IF mine = {} THEN "notfound"
                  ELSE IF base = {} THEN "merge"
                  ELSE IF ops = {} THEN "deleted" ELSE "found"

\* In a Regular table Get finds exactly the entries that were written.  Two
\* things can stop it: a failed read, and the check of the index on a block
\* behind the second that begins with the user key of the block before it.
GetCorrect ==
  answer # NoAnswer /\ Regular =>
    CASE answer.fault = "none"   -> Right(answer)
      [] answer.fault = "bounds" -> AllowReadError
      [] answer.fault = "exit"   ->
           \E b \in Blocks : /\ b > 2 /\ b >= IndexSeek(answer.target)
                             /\ SameUser(index[b - 1],
                                         Head(blocks[b].buffer).key)
      [] OTHER -> FALSE

\* TableReader::Get promises to call SaveValue "starting with the entry found
\* after a call to Seek(key), until it returns false", for every table.
GetFindsEntry ==
  answer.fault = "none" /\ answer # NoAnswer
    => Right(answer)
=============================================================================
