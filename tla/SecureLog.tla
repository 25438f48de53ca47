------------------------------ MODULE SecureLog ------------------------------
(***************************************************************************)
(* The log format of the WAL and the MANIFEST with LOG_ENC: log::Writer    *)
(* cuts a record into fragments that never cross a block, encrypts each    *)
(* and appends its MAC, computed over the fragment and the MAC of the      *)
(* previous one; log::Reader walks the blocks, decrypts, checks the chain  *)
(* of MACs and puts the records together again.                            *)
(*                                                                         *)
(* One writer appends records; a crash, or a clean close, leaves some      *)
(* prefix of the bytes it handed to the file; one reader reads that.       *)
(*                                                                         *)
(* Abstractions:                                                           *)
(*  - the MAC of the i-th fragment is i, and 0 stands for the secret the   *)
(*    chain starts from: two fragments never have the same MAC;            *)
(*  - bytes that are no fragment the writer sealed never verify;           *)
(*  - a byte position is a block and an offset in it;                      *)
(*  - appends to the file do not fail (a failed one stops the database).   *)
(* After a fragment has verified, the reader's tests for its length, a     *)
(* zero type, an old log number and the checksum cannot fail any more, so  *)
(* they are not here.                                                      *)
(***************************************************************************)
EXTENDS Naturals, Sequences, FiniteSets

CONSTANTS
  kBlockSize,             \* bytes of a block
  kHeaderSize,            \* bytes of a header
  kRecyclableHeaderSize,  \* bytes of a header that holds the log number
  MacSize,                \* bytes of a MAC
  Length,                 \* lengths of the records a client writes
  MaxRecords,             \* bound: records of a log
  recycle_log_files_,     \* recycle_log_file_num > 0
  RecoveryModes,          \* the values wal_recovery_mode may have
  FlushModes,             \* the values manual_wal_flush may have
  AllowReadError          \* may reading a block fail?

\* What AddRecord keeps free for the header and the MAC of a fragment.
header_size ==
  (IF recycle_log_files_ THEN kRecyclableHeaderSize ELSE kHeaderSize) + MacSize

ASSUME SecureLogAssumption ==
  /\ kBlockSize \in Nat /\ kHeaderSize \in Nat \ {0}
  /\ kRecyclableHeaderSize \in Nat /\ kHeaderSize < kRecyclableHeaderSize
  /\ MacSize \in Nat \ {0} /\ kRecyclableHeaderSize + MacSize < kBlockSize
  /\ Length \subseteq Nat /\ MaxRecords \in Nat
  /\ recycle_log_files_ \in BOOLEAN /\ FlushModes \subseteq BOOLEAN
  /\ AllowReadError \in BOOLEAN

VARIABLES
  \* the writer
  written,        \* the records given to AddRecord
  frags,          \* the fragments emitted
  blk,            \* the block the writer is in
  block_offset_,
  left,           \* bytes of the current record that are not emitted yet
  begin,          \* is the next fragment the first of its record?
  w_mac,          \* Writer::previous_mac
  flushed,        \* bytes the file has for certain
  acked,          \* records acknowledged to the client
  \* the file
  size,           \* bytes left when the reader starts
  wal_recovery_mode,
  manual_flush_,
  \* the reader
  next,           \* blocks read so far; buffer_ is part of the last of them
  off, end,       \* buffer_ is the bytes off .. end - 1 of that block
  eof_,
  r_mac,          \* Reader::previous_mac
  in_fragmented_record,
  scratch,        \* the part of a record that is put together
  got,            \* the records returned
  corruption,     \* did the reader report one?
  phase           \* "write", "emit", "read", "done", "exited"

fileVars   == <<written, frags, blk, block_offset_, left, begin, w_mac,
                flushed, acked, size, wal_recovery_mode, manual_flush_>>
bufferVars == <<next, off, end, eof_>>
recordVars == <<r_mac, in_fragmented_record, scratch, got>>
vars == <<fileVars, bufferVars, recordVars, corruption, phase>>

Record == [rec : Nat, len : Nat]
Type   == {"full", "first", "middle", "last"}
Frag   == [blk : Nat, off : Nat, type : Type, len : Nat, rec : Nat, from : Nat,
           aad : Nat, mac : Nat]

NoRecord == [rec |-> 0, len |-> 0]

\* Bytes appended so far.
Appended == blk * kBlockSize + block_offset_

-----------------------------------------------------------------------------
(* log::Writer *)

\* Writer::AddRecord is called; its loop is EmitPhysicalRecord.
AddRecord(n) ==
  /\ phase = "write" /\ Len(written) < MaxRecords
  /\ written' = Append(written, [rec |-> Len(written) + 1, len |-> n])
  /\ left' = n /\ begin' = TRUE /\ phase' = "emit"
  /\ UNCHANGED <<frags, blk, block_offset_, w_mac, flushed, acked, size,
                 wal_recovery_mode, manual_flush_, bufferVars, recordVars,
                 corruption>>

\* Mutant: the record is acknowledged and its bytes stay in the buffer.
FlushLater(bytes) == flushed' = flushed /\ acked' = Len(written)

\* The end of AddRecord flushes unless that is left to WriteBuffer.
Flush(bytes) ==
  /\ flushed' = IF manual_flush_ THEN flushed ELSE bytes
  /\ acked'   = IF manual_flush_ THEN acked ELSE Len(written)

\* Mutant: the MAC is not counted when the room in a block is looked at.
NoRoomForHeaderNoMac == kBlockSize - block_offset_ < header_size - MacSize

\* A block with less room than this is filled with zeros.
NoRoomForHeader == kBlockSize - block_offset_ < header_size

\* Mutant: the payload may take the room of the MAC.
AvailNoMac(o) == kBlockSize - o - (header_size - MacSize)

\* Room for payload from an offset on.
Avail(o) == kBlockSize - o - header_size

\* Where the next fragment goes, and how much of the record is in it.
FragBlk == IF NoRoomForHeader THEN blk + 1 ELSE blk
FragOff == IF NoRoomForHeader THEN 0 ELSE block_offset_
FragLen == IF left < Avail(FragOff) THEN left ELSE Avail(FragOff)

FragType ==
  CASE begin /\ FragLen = left  -> "full"
    [] begin /\ FragLen # left  -> "first"
    [] ~begin /\ FragLen = left -> "last"
    [] ~begin /\ FragLen # left -> "middle"

\* The fragment EmitPhysicalRecord seals with the MAC of the previous one.
NewFrag ==
  [blk |-> FragBlk, off |-> FragOff, type |-> FragType, len |-> FragLen,
   rec |-> Len(written), from |-> written[Len(written)].len - left,
   aad |-> w_mac, mac |-> Len(frags) + 1]

\* One turn of the loop: zeros fill a block that has no room for a header,
\* then the record, or the part of it that fits, is emitted.
EmitPhysicalRecord ==
  /\ phase = "emit"
  /\ frags' = Append(frags, NewFrag)
  /\ w_mac' = NewFrag.mac
  /\ blk' = FragBlk /\ block_offset_' = FragOff + header_size + FragLen
  /\ left' = left - FragLen /\ begin' = FALSE
  /\ IF FragLen = left
     THEN /\ Flush(FragBlk * kBlockSize + FragOff + header_size + FragLen)
          /\ phase' = "write"
     ELSE UNCHANGED <<flushed, acked, phase>>
  /\ UNCHANGED <<written, size, wal_recovery_mode, manual_flush_, bufferVars,
                 recordVars, corruption>>

\* Writer::WriteBuffer, called by FlushWAL when flushing is manual.
WriteBuffer ==
  /\ phase = "write" /\ manual_flush_ /\ flushed # Appended
  /\ flushed' = Appended /\ acked' = Len(written)
  /\ UNCHANGED <<written, frags, blk, block_offset_, left, begin, w_mac, size,
                 wal_recovery_mode, manual_flush_, bufferVars, recordVars,
                 corruption, phase>>

\* The process ends.  Every flushed byte is in the file, and any prefix of the
\* bytes appended after the last flush; all of them when it ends cleanly.
Crash ==
  /\ phase \in {"write", "emit"}
  /\ size' \in flushed .. Appended
  /\ phase' = "read"
  /\ UNCHANGED <<written, frags, blk, block_offset_, left, begin, w_mac,
                 flushed, acked, wal_recovery_mode, manual_flush_, bufferVars,
                 recordVars, corruption>>

-----------------------------------------------------------------------------
(* log::Reader *)

AbsoluteConsistency == wal_recovery_mode = "kAbsoluteConsistency"

\* ReadPhysicalRecord asks for at least a header and a MAC.
BufferShort == end - off < kHeaderSize + MacSize

\* ReadMore reads the next block; a short one is the last.
ReadMore ==
  /\ phase = "read" /\ BufferShort /\ ~eof_
  /\ LET rest == size - next * kBlockSize
     IN /\ end' = IF rest < kBlockSize THEN rest ELSE kBlockSize
        /\ eof_' = (rest < kBlockSize)
  /\ off' = 0 /\ next' = next + 1
  /\ UNCHANGED <<fileVars, recordVars, corruption, phase>>

\* Reading the block fails: the drop is reported, the log ends here.
ReadError ==
  /\ phase = "read" /\ BufferShort /\ ~eof_ /\ AllowReadError
  /\ corruption' = TRUE
  /\ scratch' = NoRecord /\ phase' = "done"
  /\ UNCHANGED <<fileVars, bufferVars, r_mac, in_fragmented_record, got>>

\* Mutant: what there is of an incomplete record is returned.
EndOfFileKeepsPartial ==
  /\ phase = "read" /\ BufferShort /\ eof_
  /\ got' = IF in_fragmented_record THEN Append(got, scratch) ELSE got
  /\ off' = end
  /\ scratch' = NoRecord /\ phase' = "done"
  /\ UNCHANGED <<fileVars, next, end, eof_, r_mac, in_fragmented_record,
                 corruption>>

\* Mutant: a truncated header is tried again and again.
EndOfFileRetries ==
  /\ phase = "read" /\ BufferShort /\ eof_
  /\ IF off # end THEN UNCHANGED <<scratch, phase>>
     ELSE scratch' = NoRecord /\ phase' = "done"
  /\ UNCHANGED <<fileVars, bufferVars, r_mac, in_fragmented_record, got,
                 corruption>>

\* Mutant: only a truncated header is reported.
EndOfFileHeaderOnly ==
  /\ phase = "read" /\ BufferShort /\ eof_
  /\ corruption' = (corruption \/ (AbsoluteConsistency /\ off # end))
  /\ off' = end
  /\ scratch' = NoRecord /\ phase' = "done"
  /\ UNCHANGED <<fileVars, next, end, eof_, r_mac, in_fragmented_record, got>>

\* kBadHeader (a part of a header is left) or kEof: the record that is not
\* complete is dropped, which only kAbsoluteConsistency calls a corruption.
EndOfFile ==
  /\ phase = "read" /\ BufferShort /\ eof_
  /\ corruption' = (corruption \/
       (AbsoluteConsistency /\ (off # end \/ in_fragmented_record)))
  /\ off' = end
  /\ scratch' = NoRecord /\ phase' = "done"
  /\ UNCHANGED <<fileVars, next, end, eof_, r_mac, in_fragmented_record, got>>

\* Mutant: the reader does not go on along the chain.
AuthenticFirstOnly(f) ==
  /\ ~recycle_log_files_
  /\ f.off + kHeaderSize + f.len + MacSize <= end
  /\ f.aad = 0

\* log_decrypt: the bytes after kHeaderSize are a whole payload and its MAC,
\* and the MAC continues the chain.  The payload of a recyclable fragment
\* starts elsewhere.
Authentic(f) ==
  /\ ~recycle_log_files_
  /\ f.off + kHeaderSize + f.len + MacSize <= end
  /\ f.aad = r_mac

\* The fragment at the place the reader has reached.
AtBuffer(f) == f.blk + 1 = next /\ f.off = off

\* The next part of the record in scratch; parts that do not fit together are
\* no record of the writer.
Extend(s, f) ==
  IF f.rec = s.rec /\ f.from = s.len THEN [s EXCEPT !.len = @ + f.len]
  ELSE NoRecord

Start(f) == [rec |-> f.rec, len |-> f.len]

\* ReadRecord handles one fragment; it starts a record with an empty scratch
\* and in_fragmented_record FALSE.
ReadRecord(f) ==
  CASE f.type = "full" ->
         /\ corruption' = (corruption \/ (in_fragmented_record
                                          /\ scratch.len # 0))
         /\ got' = Append(got, Start(f))
         /\ scratch' = NoRecord /\ in_fragmented_record' = FALSE
    [] f.type = "first" ->
         /\ corruption' = (corruption \/ (in_fragmented_record
                                          /\ scratch.len # 0))
         /\ scratch' = Start(f) /\ in_fragmented_record' = TRUE
         /\ UNCHANGED got
    [] f.type = "middle" ->
         /\ corruption' = (corruption \/ ~in_fragmented_record)
         /\ scratch' = IF in_fragmented_record THEN Extend(scratch, f)
                       ELSE scratch
         /\ UNCHANGED <<got, in_fragmented_record>>
    [] f.type = "last" ->
         /\ corruption' = (corruption \/ ~in_fragmented_record)
         /\ got' = IF in_fragmented_record THEN Append(got, Extend(scratch, f))
                   ELSE got
         /\ scratch' = NoRecord /\ in_fragmented_record' = FALSE

\* ReadPhysicalRecord of a fragment that verifies.
ReadPhysicalRecord ==
  /\ phase = "read" /\ ~BufferShort
  /\ \E i \in DOMAIN frags :
       /\ AtBuffer(frags[i]) /\ Authentic(frags[i])
       /\ off' = off + kHeaderSize + frags[i].len + MacSize
       /\ r_mac' = frags[i].mac
       /\ ReadRecord(frags[i])
  /\ UNCHANGED <<fileVars, next, end, eof_, phase>>

\* Anything else does not, and log_decrypt ends the process.
LogDigestFail ==
  /\ phase = "read" /\ ~BufferShort
  /\ \A i \in DOMAIN frags : ~(AtBuffer(frags[i]) /\ Authentic(frags[i]))
  /\ phase' = "exited"
  /\ UNCHANGED <<fileVars, bufferVars, recordVars, corruption>>

\* The reader has finished.
Finished == phase \in {"done", "exited"} /\ UNCHANGED vars

-----------------------------------------------------------------------------
Init ==
  /\ written = <<>> /\ frags = <<>> /\ blk = 0 /\ block_offset_ = 0
  /\ left = 0 /\ begin = FALSE /\ w_mac = 0 /\ flushed = 0 /\ acked = 0
  /\ size = 0 /\ wal_recovery_mode \in RecoveryModes
  /\ manual_flush_ \in FlushModes
  /\ next = 0 /\ off = 0 /\ end = 0 /\ eof_ = FALSE
  /\ r_mac = 0 /\ in_fragmented_record = FALSE /\ scratch = NoRecord
  /\ got = <<>> /\ corruption = FALSE
  /\ phase = "write"

WriterStep == (\E n \in Length : AddRecord(n)) \/ EmitPhysicalRecord
              \/ WriteBuffer

ReaderStep == ReadMore \/ ReadError \/ EndOfFile \/ ReadPhysicalRecord
              \/ LogDigestFail

Next == WriterStep \/ Crash \/ ReaderStep \/ Finished

Spec == Init /\ [][Next]_vars

\* Recovery runs on: the thread that reads the log is scheduled.
FairSpec == Spec /\ WF_vars(ReaderStep)

-----------------------------------------------------------------------------
TypeOK ==
  /\ written \in Seq(Record) /\ frags \in Seq(Frag)
  /\ blk \in Nat /\ block_offset_ \in Nat /\ left \in Nat /\ begin \in BOOLEAN
  /\ w_mac \in Nat /\ flushed \in Nat /\ acked \in Nat /\ size \in Nat
  /\ wal_recovery_mode \in RecoveryModes /\ manual_flush_ \in FlushModes
  /\ next \in Nat /\ off \in Nat /\ end \in Nat /\ eof_ \in BOOLEAN
  /\ r_mac \in Nat /\ in_fragmented_record \in BOOLEAN
  /\ scratch \in Record /\ got \in Seq(Record) /\ corruption \in BOOLEAN
  /\ phase \in {"write", "emit", "read", "done", "exited"}

-----------------------------------------------------------------------------
(* Properties *)

\* The assertions of the writer: no fragment crosses the end of its block, and
\* two fragments do not overlap (log_writer.cc: "we never leave < header_size
\* bytes in a block").
FragmentsFit ==
  \A i \in DOMAIN frags :
    /\ frags[i].off + header_size + frags[i].len <= kBlockSize
    /\ i > 1 => \/ frags[i - 1].blk < frags[i].blk
                \/ /\ frags[i - 1].blk = frags[i].blk
                   /\ frags[i - 1].off + header_size + frags[i - 1].len
                        <= frags[i].off

\* Wherever the file was cut, the reader returns the records that were written,
\* from the first one on, none left out, none put together from parts of
\* several.
ReadsPrefix ==
  /\ Len(got) <= Len(written)
  /\ \A i \in 1 .. Len(got) : got[i] = written[i]

\* The end of a fragment in the file.
EndOf(f) == f.blk * kBlockSize + f.off + header_size + f.len

\* How many records the file holds to their last byte.
Complete ==
  Cardinality({i \in DOMAIN frags : /\ frags[i].type \in {"full", "last"}
                                    /\ EndOf(frags[i]) <= size})

\* Does the file end inside a fragment, its header and a MAC's worth of bytes
\* being there?
Torn ==
  \E i \in DOMAIN frags :
    /\ size < EndOf(frags[i])
    /\ EndOf(frags[i]) - frags[i].len <= size

\* A file that is not torn, one that was closed cleanly among them, is read to
\* its last complete record when its blocks can be read; the check of the MACs
\* ends the process for no other reason than a torn fragment.
UntornLogReads ==
  /\ phase = "exited" => Torn
  /\ phase = "done" /\ eof_ => Len(got) = Complete

\* An acknowledged record is returned by every reader that reaches the end
\* without a report.
AckedRecordsRead == phase = "done" /\ ~corruption => Len(got) >= acked

\* With kAbsoluteConsistency no byte of a fragment is dropped silently: when
\* nothing was reported, every fragment that has a byte in the file belongs to
\* a record that was returned.
NothingDroppedSilently ==
  AbsoluteConsistency /\ phase = "done" /\ ~corruption =>
    \A i \in DOMAIN frags :
      frags[i].blk * kBlockSize + frags[i].off < size
        => frags[i].rec <= Len(got)

\* Reading a log ends.
ReaderEnds == phase = "read" ~> phase \in {"done", "exited"}

\* log_reader.cc, ReadPhysicalRecord: "If the end of the file has been reached
\* without reading |length| bytes of payload, assume the writer died in the
\* middle of writing the record."  So a torn fragment is the end of the log.
TornTailIsEndOfLog == phase # "exited"

-----------------------------------------------------------------------------
(* Refinement *)

Abstract == INSTANCE RecordLog WITH
  Record <- [rec : 1 .. MaxRecords, len : Length],
  log  <- IF phase \in {"write", "emit"} THEN written
          ELSE SubSeq(written, 1, Complete),
  mode <- CASE phase \in {"write", "emit"} -> "write"
            [] phase = "read"   -> "read"
            [] phase = "done"   -> IF corruption THEN "failed" ELSE "done"
            [] phase = "exited" -> "failed"

\* The log with its blocks, fragments, MACs and cut tail is a log of records:
\* acknowledged ones survive the crash and a reader that does not fail returns
\* all that are left.
ImplementsRecordLog == Abstract!Spec

=============================================================================
