--------------------------- MODULE SecureLogProofs ---------------------------
(***************************************************************************)
(* For every block size, header size, MAC size and set of record lengths:  *)
(* the writer's fragments fit their blocks; the reader returns the records *)
(* that were written, in order, wherever the file was cut; a reader that   *)
(* ends without a report has returned every acknowledged record; and the   *)
(* log implements RecordLog.                                               *)
(*                                                                         *)
(* The argument follows the chain of MACs.  The writer's part of the       *)
(* invariant says what the sequence of fragments looks like (Grammar); the *)
(* reader's part says that the MAC it holds is the number of fragments it  *)
(* has consumed, so that the fragment that verifies next is the next one   *)
(* written, whatever the reader did with the blocks.                       *)
(*                                                                         *)
(* The second part adds places to the chain.  Fragments lie without gaps   *)
(* except for the zeros at the end of a block, so the fragment that the    *)
(* chain needs next has a known place, and the reader is there or in the   *)
(* zeros just before its block (Place).  Where it cannot go on, that       *)
(* fragment, and with it every later one, is not whole in the file; the    *)
(* acknowledged ones are, as they were flushed.  Records are counted by    *)
(* the fragments that end them (Counted), which gives the number of        *)
(* records in the file that RecordLog speaks of.                           *)
(***************************************************************************)
EXTENDS SecureLog, FiniteSetTheorems, SequenceTheorems, TLAPS

\* The last fragment of a record.
Closes(f) == f.type \in {"full", "last"}

\* The first fragment of a record.
Opens(f) == f.type \in {"full", "first"}

Newest == frags[Len(frags)]

\* The writer stands at the end of its newest fragment.
WriterAt ==
  /\ block_offset_ <= kBlockSize
  /\ frags # <<>> => /\ Newest.blk = blk
                     /\ Newest.off + header_size + Newest.len = block_offset_

\* The i-th fragment is sealed with the MAC of the one before it.
Chain ==
  /\ w_mac = Len(frags)
  /\ \A i \in DOMAIN frags : frags[i].mac = i /\ frags[i].aad = i - 1

\* What a fragment says of the record it is a part of.
PartOf(f) ==
  /\ f.rec \in 1 .. Len(written)
  /\ Opens(f) => f.from = 0
  /\ Closes(f) => f.from + f.len = written[f.rec].len

\* A fragment continues the record of the one before it or opens the next.
Follows(f, g) ==
  IF Closes(f) THEN g.rec = f.rec + 1 /\ Opens(g)
  ELSE g.rec = f.rec /\ g.from = f.from + f.len /\ ~Opens(g)

Grammar ==
  /\ \A i \in 1 .. Len(written) : written[i].rec = i
  /\ \A i \in DOMAIN frags : PartOf(frags[i])
  /\ frags # <<>> => frags[1].rec = 1 /\ Opens(frags[1])
  /\ \A i \in DOMAIN frags : i > 1 => Follows(frags[i - 1], frags[i])

\* Between two records, and inside one.
Between ==
  IF frags = <<>> THEN written = <<>>
  ELSE Closes(Newest) /\ Newest.rec = Len(written)

Inside ==
  /\ written # <<>> /\ left <= written[Len(written)].len
  /\ begin => /\ left = written[Len(written)].len
              /\ IF frags = <<>> THEN Len(written) = 1
                 ELSE Closes(Newest) /\ Newest.rec = Len(written) - 1
  /\ ~begin => /\ frags # <<>> /\ ~Closes(Newest)
               /\ Newest.rec = Len(written)
               /\ Newest.from + Newest.len = written[Len(written)].len - left

Progress ==
  /\ phase = "write" => Between
  /\ phase = "emit" => Inside

\* What the reader has made of the fragments it has consumed.
Consumed ==
  IF r_mac = 0 THEN got = <<>> /\ ~in_fragmented_record
  ELSE LET f == frags[r_mac]
       IN IF Closes(f) THEN Len(got) = f.rec /\ ~in_fragmented_record
          ELSE /\ Len(got) + 1 = f.rec /\ in_fragmented_record
               /\ phase = "read" => scratch = [rec |-> f.rec,
                                               len |-> f.from + f.len]

\* Blocks are read from a file that no longer grows.
Fetched ==
  /\ phase \in {"write", "emit"} => next = 0
  /\ ~eof_ => next * kBlockSize <= size

ReaderAt ==
  /\ r_mac <= Len(frags)
  /\ phase \in {"write", "emit"} => r_mac = 0
  /\ Consumed

LInv ==
  /\ TypeOK /\ WriterAt /\ FragmentsFit /\ Chain /\ Grammar /\ Progress
  /\ Fetched /\ ReaderAt /\ ReadsPrefix

-----------------------------------------------------------------------------
\* The two header sizes leave room for payload in a block.
LEMMA HeaderFits == header_size \in Nat \ {0} /\ header_size < kBlockSize
BY SecureLogAssumption DEF header_size

\* An empty log satisfies the invariant.
LEMMA InitLInv == Init => LInv
<1> SUFFICES ASSUME Init PROVE LInv
  OBVIOUS
<1> USE DEF Init
<1>1. TypeOK
  <2>1. written \in Seq(Record) /\ frags \in Seq(Frag) /\ got \in Seq(Record)
    OBVIOUS
  <2>2. scratch \in Record
    BY DEF NoRecord, Record
  <2> QED
    BY <2>1, <2>2 DEF TypeOK
<1>2. WriterAt /\ FragmentsFit /\ Chain /\ Grammar
  BY SecureLogAssumption DEF WriterAt, FragmentsFit, Chain, Grammar
<1>3. Progress /\ Fetched /\ ReaderAt /\ ReadsPrefix
  BY SecureLogAssumption
     DEF Progress, Between, Fetched, ReaderAt, Consumed, ReadsPrefix
<1> QED
  BY <1>1, <1>2, <1>3 DEF LInv

\* A step that leaves the writer alone keeps the writer's part.
LEMMA WriterKept ==
  ASSUME LInv, UNCHANGED <<written, frags, blk, block_offset_, left, begin,
                           w_mac>>,
         phase' # "write" \/ phase = "write", phase' # "emit" \/ phase = "emit"
  PROVE  /\ WriterAt' /\ FragmentsFit' /\ Chain' /\ Grammar' /\ Progress'
<1>1. WriterAt' /\ FragmentsFit' /\ Chain'
  BY DEF LInv, WriterAt, FragmentsFit, Chain, Newest
<1>2. Grammar'
  BY DEF LInv, Grammar, PartOf, Follows, Opens, Closes
<1>3. Progress'
  BY DEF LInv, Progress, Between, Inside, Newest, Closes
<1> QED
  BY <1>1, <1>2, <1>3

\* A step that leaves the reader's records alone keeps the reader's part.
LEMMA ReaderKept ==
  ASSUME LInv, UNCHANGED <<written, frags, r_mac, got, in_fragmented_record>>,
         phase' \in {"write", "emit"} => phase \in {"write", "emit"},
         phase' = "read" => \/ phase = "read" /\ scratch' = scratch
                            \/ phase \in {"write", "emit"}
  PROVE  ReaderAt' /\ ReadsPrefix'
<1>1. ReadsPrefix'
  BY DEF LInv, ReadsPrefix
<1>2. Consumed'
  BY DEF LInv, ReaderAt, Consumed, Closes
<1> QED
  BY <1>1, <1>2 DEF LInv, ReaderAt

-----------------------------------------------------------------------------
\* AddRecord opens a record that follows the last one.
LEMMA AddRecordStep ==
  ASSUME LInv, NEW n \in Length, AddRecord(n)
  PROVE  LInv'
<1> USE DEF AddRecord
<1>0. n \in Nat
  BY SecureLogAssumption
<1>1. /\ Len(written') = Len(written) + 1
      /\ \A i \in 1 .. Len(written) : written'[i] = written[i]
      /\ written'[Len(written')] = [rec |-> Len(written) + 1, len |-> n]
      /\ written' \in Seq(Record)
  BY <1>0 DEF LInv, TypeOK, Record
<1>2. TypeOK'
  BY <1>0, <1>1 DEF LInv, TypeOK, bufferVars, recordVars
<1>3. WriterAt' /\ FragmentsFit' /\ Chain'
  BY DEF LInv, WriterAt, FragmentsFit, Chain, Newest
<1>4. Grammar'
  <2>1. \A i \in 1 .. Len(written') : written'[i].rec = i
    BY <1>1 DEF LInv, TypeOK, Grammar
  <2>2. \A i \in DOMAIN frags : PartOf(frags[i])'
    BY <1>1 DEF LInv, TypeOK, Grammar, PartOf, Opens, Closes
  <2> QED
    BY <2>1, <2>2 DEF LInv, Grammar, Follows, Opens, Closes
<1>5. Progress'
  <2>1. Between /\ Len(written) \in Nat
    BY DEF LInv, Progress, TypeOK
  <2>2. written' # <<>> /\ written'[Len(written')].len = n
    BY <1>1, <2>1
  <2>3. IF frags = <<>> THEN Len(written') = 1
        ELSE Closes(Newest) /\ Newest.rec = Len(written') - 1
    BY <1>1, <2>1 DEF Between
  <2>4. Inside'
    BY <1>0, <2>2, <2>3 DEF Inside, Newest, Closes
  <2> QED
    BY <2>4 DEF Progress
<1>6. ReaderAt'
  BY DEF LInv, ReaderAt, Consumed, recordVars
<1>7. ReadsPrefix'
  BY <1>1 DEF LInv, TypeOK, ReadsPrefix, recordVars
<1>8. Fetched'
  BY DEF LInv, Fetched, bufferVars
<1> QED
  BY <1>2, <1>3, <1>4, <1>5, <1>6, <1>7, <1>8 DEF LInv

\* Where the next fragment goes it fits.
LEMMA FragRoom ==
  ASSUME LInv, phase = "emit"
  PROVE  /\ FragBlk \in Nat /\ FragOff \in Nat /\ FragLen \in Nat
         /\ FragLen <= left
         /\ FragOff + header_size + FragLen <= kBlockSize
         /\ FragType \in Type
<1>1. FragBlk \in Nat /\ FragOff \in Nat /\ FragOff + header_size <= kBlockSize
  BY HeaderFits, SecureLogAssumption
     DEF LInv, TypeOK, WriterAt, FragBlk, FragOff, NoRoomForHeader
<1>2. Avail(FragOff) \in Nat
  BY <1>1, HeaderFits, SecureLogAssumption DEF Avail
<1>3. FragLen \in Nat /\ FragLen <= left
      /\ FragOff + header_size + FragLen <= kBlockSize
  BY <1>1, <1>2, HeaderFits, SecureLogAssumption
     DEF FragLen, Avail, LInv, TypeOK
<1>4. FragType \in Type
  BY <1>3 DEF FragType, Type, LInv, TypeOK
<1> QED
  BY <1>1, <1>3, <1>4

\* While a record is being emitted it is the last one written.
LEMMA LastWritten ==
  ASSUME LInv, phase = "emit"
  PROVE  /\ Inside /\ left \in Nat /\ begin \in BOOLEAN
         /\ Len(written) \in Nat \ {0} /\ written[Len(written)].len \in Nat
<1>1. Inside /\ left \in Nat /\ begin \in BOOLEAN /\ written \in Seq(Record)
  BY DEF LInv, Progress, TypeOK
<1>2. Len(written) \in Nat \ {0}
  BY <1>1 DEF Inside
<1>3. written[Len(written)] \in Record
  BY <1>1, <1>2
<1> QED
  BY <1>1, <1>2, <1>3 DEF Record

\* The new fragment opens the record that was added or continues the one
\* before.
LEMMA NewFragFollows ==
  ASSUME LInv, phase = "emit"
  PROVE  /\ NewFrag \in Frag /\ PartOf(NewFrag)
         /\ frags = <<>> => NewFrag.rec = 1 /\ Opens(NewFrag)
         /\ frags # <<>> => Follows(Newest, NewFrag)
<1>0. /\ Inside /\ left \in Nat /\ begin \in BOOLEAN
      /\ Len(written) \in Nat \ {0} /\ written[Len(written)].len \in Nat
  BY LastWritten
<1>0a. w_mac \in Nat
  BY DEF LInv, TypeOK
<1>1. FragLen \in Nat /\ FragLen <= left /\ FragType \in Type
      /\ FragBlk \in Nat /\ FragOff \in Nat
  BY FragRoom
<1>2. written[Len(written)].len - left \in Nat
  BY <1>0 DEF Inside
<1>3. NewFrag \in Frag
  BY <1>0, <1>0a, <1>1, <1>2 DEF NewFrag, Frag, LInv, TypeOK
<1>4. /\ begin => FragType \in {"full", "first"}
      /\ ~begin => FragType \in {"middle", "last"}
      /\ FragType \in {"full", "last"} <=> FragLen = left
  BY <1>0, <1>1 DEF FragType
<1>5. PartOf(NewFrag)
  BY <1>0, <1>1, <1>4 DEF NewFrag, PartOf, Opens, Closes, Inside
<1>6. frags = <<>> => NewFrag.rec = 1 /\ Opens(NewFrag)
  BY <1>0, <1>4 DEF NewFrag, Opens, Inside
<1>7. frags # <<>> => Follows(Newest, NewFrag)
  <2> SUFFICES ASSUME frags # <<>> PROVE Follows(Newest, NewFrag)
    OBVIOUS
  <2>1. Newest \in Frag
    BY DEF LInv, TypeOK, Newest
  <2> QED
    BY <1>0, <1>1, <1>4, <2>1 DEF NewFrag, Opens, Closes, Inside, Follows, Frag
<1> QED
  BY <1>3, <1>5, <1>6, <1>7

\* EmitPhysicalRecord adds one link to the chain.
LEMMA EmitStep ==
  ASSUME LInv, EmitPhysicalRecord
  PROVE  LInv'
<1> USE DEF EmitPhysicalRecord
<1>1. /\ FragBlk \in Nat /\ FragOff \in Nat /\ FragLen \in Nat
      /\ FragLen <= left /\ FragOff + header_size + FragLen <= kBlockSize
      /\ FragType \in Type
  BY FragRoom
<1>2. /\ NewFrag \in Frag /\ PartOf(NewFrag)
      /\ frags = <<>> => NewFrag.rec = 1 /\ Opens(NewFrag)
      /\ frags # <<>> => Follows(Newest, NewFrag)
  BY NewFragFollows
<1>3. /\ frags \in Seq(Frag) /\ Len(frags) \in Nat /\ left \in Nat
      /\ frags' \in Seq(Frag) /\ Len(frags') = Len(frags) + 1
      /\ DOMAIN frags = 1 .. Len(frags) /\ DOMAIN frags' = 1 .. Len(frags')
      /\ frags' # <<>>
      /\ \A i \in 1 .. Len(frags) : frags'[i] = frags[i]
      /\ frags'[Len(frags')] = NewFrag
  BY <1>2 DEF LInv, TypeOK
<1>4. TypeOK'
  <2>1. left' \in Nat /\ blk' \in Nat /\ block_offset_' \in Nat
    BY <1>1, <1>3, HeaderFits
  <2>2. w_mac' \in Nat
    BY <1>2 DEF Frag
  <2>2a. FragBlk * kBlockSize \in Nat
    BY <1>1, SecureLogAssumption
  <2>2b. /\ flushed \in Nat /\ acked \in Nat /\ Len(written) \in Nat
         /\ FragBlk * kBlockSize + FragOff + header_size + FragLen \in Nat
    BY <1>1, <2>2a, HeaderFits, SMTT(60) DEF LInv, TypeOK
  <2>3. flushed' \in Nat /\ acked' \in Nat
    BY <2>2b DEF Flush
  <2> QED
    BY <1>3, <2>1, <2>2, <2>3 DEF LInv, TypeOK, bufferVars, recordVars
<1>5. WriterAt'
  BY <1>1, <1>3 DEF WriterAt, Newest, NewFrag
<1>6. FragmentsFit'
  <2>1. NewFrag.off + header_size + NewFrag.len <= kBlockSize
    BY <1>1 DEF NewFrag
  <2>2. frags # <<>> =>
          \/ Newest.blk < NewFrag.blk
          \/ /\ Newest.blk = NewFrag.blk
             /\ Newest.off + header_size + Newest.len <= NewFrag.off
    BY <1>1 DEF NewFrag, LInv, WriterAt, TypeOK, FragBlk, FragOff
  <2> SUFFICES ASSUME NEW i \in DOMAIN frags'
               PROVE  /\ frags'[i].off + header_size + frags'[i].len
                            <= kBlockSize
                      /\ i > 1 => \/ frags'[i - 1].blk < frags'[i].blk
                                  \/ /\ frags'[i - 1].blk = frags'[i].blk
                                     /\ frags'[i - 1].off + header_size
                                          + frags'[i - 1].len <= frags'[i].off
    BY DEF FragmentsFit
  <2>3. CASE i \in DOMAIN frags
    <3>1. FragmentsFit
      BY DEF LInv
    <3>2. frags'[i] = frags[i] /\ (i > 1 => frags'[i - 1] = frags[i - 1])
      BY <1>3, <2>3
    <3> QED
      BY <2>3, <3>1, <3>2 DEF FragmentsFit
  <2>4. CASE i = Len(frags')
    <3>0. i - 1 = Len(frags)
      BY <1>3, <2>4
    <3>1. i > 1 => frags # <<>> /\ frags'[i - 1] = Newest
      BY <1>3, <3>0 DEF Newest
    <3> QED
      BY <1>3, <2>1, <2>2, <2>4, <3>1
  <2> QED
    BY <1>3, <2>3, <2>4
<1>7. Chain'
  <2>1. NewFrag.mac = Len(frags') /\ NewFrag.aad = Len(frags') - 1
    BY <1>3 DEF NewFrag, LInv, Chain
  <2> QED
    BY <1>3, <2>1 DEF LInv, Chain
<1>8. Grammar'
  <2>1. \A i \in DOMAIN frags' : PartOf(frags'[i])
    BY <1>2, <1>3 DEF LInv, Grammar
  <2>2. frags'[1].rec = 1 /\ Opens(frags'[1])
    BY <1>2, <1>3 DEF LInv, Grammar
  <2>3. \A i \in DOMAIN frags' : i > 1 => Follows(frags'[i - 1], frags'[i])
    <3> SUFFICES ASSUME NEW i \in DOMAIN frags', i > 1
                 PROVE  Follows(frags'[i - 1], frags'[i])
      OBVIOUS
    <3>1. CASE i \in DOMAIN frags
      BY <1>3, <3>1 DEF LInv, Grammar
    <3>2. CASE i = Len(frags')
      <4>0. i - 1 = Len(frags)
        BY <1>3, <3>2
      <4>1. frags # <<>> /\ frags'[i - 1] = Newest
        BY <1>3, <4>0 DEF Newest
      <4> QED
        BY <1>2, <1>3, <3>2, <4>1
    <3> QED
      BY <1>3, <3>1, <3>2
  <2>4. \A i \in DOMAIN frags' : PartOf(frags[i])'
    BY <2>1 DEF PartOf, Opens, Closes
  <2>5. \A i \in DOMAIN frags' : i > 1 => Follows(frags[i - 1], frags[i])'
    BY <2>3 DEF Follows, Opens, Closes
  <2>6. frags'[1].rec = 1 /\ Opens(frags[1])'
    BY <2>2 DEF Opens
  <2>7. \A i \in 1 .. Len(written') : written'[i].rec = i
    BY DEF LInv, Grammar
  <2> QED
    BY <2>4, <2>5, <2>6, <2>7 DEF Grammar
<1>9. Progress'
  <2>0. /\ Inside /\ begin \in BOOLEAN
        /\ Len(written) \in Nat \ {0} /\ written[Len(written)].len \in Nat
    BY LastWritten
  <2>1. FragType \in {"full", "last"} <=> FragLen = left
    BY <2>0, <1>1 DEF FragType
  <2>2. Newest' = NewFrag
    BY <1>3 DEF Newest
  <2>3. CASE FragLen = left
    BY <1>3, <2>1, <2>2, <2>3 DEF Progress, Between, Closes, NewFrag
  <2>4. CASE FragLen # left
    <3>1. ~Closes(NewFrag) /\ NewFrag.rec = Len(written)
          /\ NewFrag.from + NewFrag.len
               = written[Len(written)].len - (left - FragLen)
      BY <1>1, <1>3, <2>0, <2>1, <2>4 DEF NewFrag, Closes
    <3>2. left - FragLen <= written[Len(written)].len
      BY <1>1, <1>3, <2>0 DEF Inside
    <3> QED
      BY <1>3, <2>0, <2>2, <2>4, <3>1, <3>2 DEF Progress, Inside, Closes
  <2> QED
    BY <2>3, <2>4
<1>10. ReaderAt'
  BY <1>3 DEF LInv, ReaderAt, Consumed, recordVars, TypeOK
<1>11. ReadsPrefix'
  BY DEF LInv, ReadsPrefix, recordVars
<1>12. Fetched'
  BY DEF LInv, Fetched, bufferVars
<1> QED
  BY <1>4, <1>5, <1>6, <1>7, <1>8, <1>9, <1>10, <1>11, <1>12 DEF LInv

-----------------------------------------------------------------------------
\* The fragment that verifies is the next one of the chain, and the reader does
\* with it what the grammar says.
LEMMA ReadStep ==
  ASSUME LInv, ReadPhysicalRecord
  PROVE  LInv'
<1> USE DEF ReadPhysicalRecord
<1>1. PICK i \in DOMAIN frags :
        /\ AtBuffer(frags[i]) /\ Authentic(frags[i])
        /\ off' = off + kHeaderSize + frags[i].len + MacSize
        /\ r_mac' = frags[i].mac
        /\ ReadRecord(frags[i])
  OBVIOUS
<1> DEFINE f == frags[i]
<1>2. /\ frags \in Seq(Frag) /\ DOMAIN frags = 1 .. Len(frags) /\ i \in Nat
      /\ f \in Frag /\ f.type \in Type /\ got \in Seq(Record)
      /\ f.rec \in Nat /\ f.len \in Nat /\ f.from \in Nat
      /\ r_mac \in Nat /\ in_fragmented_record \in BOOLEAN
      /\ corruption \in BOOLEAN
  <2>1. frags \in Seq(Frag) /\ got \in Seq(Record) /\ r_mac \in Nat
        /\ in_fragmented_record \in BOOLEAN /\ corruption \in BOOLEAN
    BY DEF LInv, TypeOK
  <2>2. DOMAIN frags = 1 .. Len(frags) /\ i \in Nat /\ f \in Frag
    BY <2>1
  <2> QED
    BY <2>1, <2>2 DEF Frag
<1>3. i = r_mac + 1 /\ r_mac' = i
  BY <1>1, <1>2, SMTT(60) DEF Authentic, LInv, Chain, TypeOK
<1>3a. off' \in Nat
  <2>1. off \in Nat
    BY DEF LInv, TypeOK
  <2>2. kHeaderSize \in Nat /\ MacSize \in Nat
    BY SecureLogAssumption
  <2>3. off' = off + kHeaderSize + f.len + MacSize /\ f.len \in Nat
    BY <1>1, <1>2
  <2> HIDE DEF f
  <2> QED
    BY <2>1, <2>2, <2>3
<1>4. PartOf(f)
  BY DEF LInv, Grammar
<1>5. /\ written \in Seq(Record) /\ f.rec \in 1 .. Len(written)
      /\ written[f.rec] = [rec |-> f.rec, len |-> written[f.rec].len]
  <2>1. written \in Seq(Record) /\ f.rec \in 1 .. Len(written)
    BY <1>4 DEF LInv, TypeOK, PartOf
  <2>2. written[f.rec] \in Record /\ written[f.rec].rec = f.rec
    BY <2>1 DEF LInv, Grammar
  <2> QED
    BY <2>1, <2>2 DEF Record
<1>6. Start(f) \in Record
  BY <1>2 DEF Start, Record
<1>6a. WriterAt' /\ FragmentsFit' /\ Chain' /\ Grammar' /\ Progress'
       /\ Fetched'
  <2>1. WriterAt' /\ FragmentsFit' /\ Chain' /\ Grammar' /\ Progress'
    BY WriterKept DEF fileVars
  <2>2. Fetched'
    BY DEF LInv, Fetched, fileVars
  <2> QED
    BY <2>1, <2>2
<1>7. Opens(f) => ~in_fragmented_record /\ Len(got) + 1 = f.rec
  <2>1. CASE r_mac = 0
    <3>1. i = 1 /\ frags # <<>>
      BY <1>2, <1>3, <2>1
    <3>2. f.rec = 1
      BY <3>1 DEF LInv, Grammar
    <3>3. got = <<>> /\ ~in_fragmented_record
      BY <2>1 DEF LInv, ReaderAt, Consumed
    <3> QED
      BY <3>2, <3>3
  <2>2. CASE r_mac # 0
    <3>1. r_mac \in DOMAIN frags /\ frags[r_mac] \in Frag /\ i > 1
      BY <1>2, <1>3, <2>2 DEF LInv, TypeOK
    <3>2. Follows(frags[r_mac], f)
      <4>1. r_mac = i - 1
        BY <1>2, <1>3
      <4> QED
        BY <3>1, <4>1 DEF LInv, Grammar
    <3> QED
      BY <2>2, <3>1, <3>2, <1>2 DEF LInv, ReaderAt, Consumed, Follows, Frag
  <2> QED
    BY <2>1, <2>2
<1>8. ~Opens(f) => /\ in_fragmented_record /\ Len(got) + 1 = f.rec
                   /\ scratch.rec = f.rec /\ scratch.len = f.from
  <2>1. CASE r_mac = 0
    <3>1. i = 1 /\ frags # <<>>
      BY <1>2, <1>3, <2>1
    <3> QED
      BY <3>1 DEF LInv, Grammar
  <2>2. CASE r_mac # 0
    <3>1. r_mac \in DOMAIN frags /\ frags[r_mac] \in Frag /\ i > 1
      BY <1>2, <1>3, <2>2 DEF LInv, TypeOK
    <3>2. Follows(frags[r_mac], f)
      <4>1. r_mac = i - 1
        BY <1>2, <1>3
      <4> QED
        BY <3>1, <4>1 DEF LInv, Grammar
    <3>3. ~Opens(f) => /\ ~Closes(frags[r_mac]) /\ f.rec = frags[r_mac].rec
                       /\ f.from = frags[r_mac].from + frags[r_mac].len
      BY <3>2 DEF Follows
    <3>4. ~Closes(frags[r_mac]) =>
            /\ in_fragmented_record /\ Len(got) + 1 = frags[r_mac].rec
            /\ scratch = [rec |-> frags[r_mac].rec,
                          len |-> frags[r_mac].from + frags[r_mac].len]
      BY <2>2 DEF LInv, ReaderAt, Consumed
    <3> QED
      BY <3>3, <3>4
  <2> QED
    BY <2>1, <2>2
<1>9. ~Opens(f) => Extend(scratch, f) = [rec |-> f.rec, len |-> f.from + f.len]
  BY <1>2, <1>8 DEF Extend, LInv, TypeOK, Record
<1>10. CASE Closes(f)
  <2>1. /\ got' = Append(got, written[f.rec]) /\ in_fragmented_record' = FALSE
        /\ scratch' = NoRecord /\ corruption' \in BOOLEAN
    <3>1. CASE f.type = "full"
      <4>1. /\ got' = Append(got, Start(f)) /\ in_fragmented_record' = FALSE
            /\ scratch' = NoRecord /\ corruption' \in BOOLEAN
        BY <1>1, <1>2, <3>1 DEF ReadRecord
      <4>2. f.len = written[f.rec].len
        BY <1>2, <1>4, <3>1 DEF PartOf, Opens, Closes
      <4>3. Start(f) = written[f.rec]
        BY <1>5, <4>2 DEF Start
      <4> QED
        BY <4>1, <4>3
    <3>2. CASE f.type = "last"
      <4>1. ~Opens(f) /\ in_fragmented_record
        BY <1>8, <3>2 DEF Opens
      <4>2. /\ got' = Append(got, Extend(scratch, f))
            /\ in_fragmented_record' = FALSE
            /\ scratch' = NoRecord /\ corruption' \in BOOLEAN
        BY <1>1, <1>2, <3>2, <4>1 DEF ReadRecord
      <4>3. f.from + f.len = written[f.rec].len
        BY <1>4, <3>2 DEF PartOf, Closes
      <4>4. Extend(scratch, f) = written[f.rec]
        BY <1>5, <1>9, <4>1, <4>3
      <4> QED
        BY <4>2, <4>4
    <3> QED
      BY <1>10, <3>1, <3>2 DEF Closes
  <2>2. Len(got) + 1 = f.rec
    BY <1>7, <1>8
  <2>3. /\ got' \in Seq(Record) /\ Len(got') = f.rec
        /\ \A k \in 1 .. Len(got) : got'[k] = got[k]
        /\ got'[f.rec] = written[f.rec]
    BY <1>2, <1>5, <2>1, <2>2
  <2>4. ReadsPrefix'
    <3>1. written' = written /\ Len(got') <= Len(written')
      BY <1>5, <2>3 DEF fileVars
    <3>2. ASSUME NEW k \in 1 .. Len(got') PROVE got'[k] = written[k]
      <4>1. CASE k = f.rec
        BY <2>3, <4>1
      <4>2. CASE k # f.rec
        <5>1. k \in 1 .. Len(got)
          BY <1>2, <2>2, <2>3, <4>2
        <5> QED
          BY <2>3, <5>1 DEF LInv, ReadsPrefix
      <4> QED
        BY <4>1, <4>2
    <3> QED
      BY <3>1, <3>2 DEF ReadsPrefix
  <2>5. ReaderAt'
    BY <1>2, <1>3, <1>10, <2>1, <2>3 DEF ReaderAt, Consumed, fileVars, Closes
  <2>6. TypeOK'
    <3>1. scratch' \in Record /\ in_fragmented_record' \in BOOLEAN
      BY <2>1 DEF NoRecord, Record
    <3> QED
      BY <1>2, <1>3, <1>3a, <2>1, <2>3, <3>1 DEF LInv, TypeOK, fileVars
  <2> QED
    BY <1>6a, <2>4, <2>5, <2>6 DEF LInv
<1>11. CASE ~Closes(f)
  <2>1. /\ got' = got /\ in_fragmented_record' = TRUE
        /\ scratch' = [rec |-> f.rec, len |-> f.from + f.len]
        /\ corruption' \in BOOLEAN
    <3>1. CASE f.type = "first"
      <4>1. /\ got' = got /\ in_fragmented_record' = TRUE
            /\ scratch' = Start(f) /\ corruption' \in BOOLEAN
        BY <1>1, <1>2, <3>1 DEF ReadRecord
      <4>2. f.from + f.len = f.len
        BY <1>2, <1>4, <3>1 DEF PartOf, Opens
      <4> QED
        BY <4>1, <4>2 DEF Start
    <3>2. CASE f.type = "middle"
      <4>1. ~Opens(f) /\ in_fragmented_record
        BY <1>8, <3>2 DEF Opens
      <4>2. /\ got' = got /\ in_fragmented_record' = in_fragmented_record
            /\ scratch' = Extend(scratch, f) /\ corruption' \in BOOLEAN
        BY <1>1, <1>2, <3>2, <4>1 DEF ReadRecord
      <4> QED
        BY <1>2, <1>9, <4>1, <4>2
    <3> QED
      BY <1>2, <1>11, <3>1, <3>2 DEF Closes, Type
  <2>2. Len(got) + 1 = f.rec
    BY <1>7, <1>8
  <2>4. ReadsPrefix'
    BY <2>1 DEF LInv, ReadsPrefix, fileVars
  <2>5. ReaderAt'
    BY <1>2, <1>3, <1>11, <2>1, <2>2 DEF ReaderAt, Consumed, fileVars, Closes
  <2>6. TypeOK'
    <3>1. scratch' \in Record
      BY <1>2, <2>1 DEF Record
    <3> QED
      BY <1>2, <1>3, <1>3a, <2>1, <3>1 DEF LInv, TypeOK, fileVars
  <2> QED
    BY <1>6a, <2>4, <2>5, <2>6 DEF LInv
<1> QED
  BY <1>10, <1>11

\* The other steps of the reader, the crash and WriteBuffer move neither the
\* chain nor the records.
LEMMA OtherStep ==
  ASSUME LInv,
         WriteBuffer \/ Crash \/ ReadMore \/ ReadError \/ EndOfFile
           \/ LogDigestFail
  PROVE  LInv'
<1>0. /\ Appended \in Nat /\ flushed \in Nat /\ size \in Nat /\ next \in Nat
      /\ kBlockSize \in Nat /\ NoRecord \in Record
  <2>1. /\ blk \in Nat /\ block_offset_ \in Nat /\ flushed \in Nat
        /\ size \in Nat /\ next \in Nat
    BY DEF LInv, TypeOK
  <2>2. kBlockSize \in Nat
    BY SecureLogAssumption
  <2>3. blk * kBlockSize \in Nat
    BY <2>1, <2>2
  <2>4. Appended \in Nat
    BY <2>1, <2>3 DEF Appended
  <2>5. NoRecord \in Record
    BY DEF NoRecord, Record
  <2> QED
    BY <2>1, <2>2, <2>4, <2>5
<1> USE DEF bufferVars, recordVars, fileVars
<1>1. CASE WriteBuffer
  <2> USE <1>1 DEF WriteBuffer
  <2>1. TypeOK'
    <3>1. flushed' \in Nat /\ acked' \in Nat
      BY <1>0 DEF LInv, TypeOK
    <3>2. manual_flush_' \in FlushModes
      BY Zenon DEF LInv, TypeOK
    <3> QED
      BY <3>1, <3>2 DEF LInv, TypeOK
  <2>2. Fetched'
    BY DEF LInv, Fetched
  <2>3. WriterAt' /\ FragmentsFit' /\ Chain' /\ Grammar' /\ Progress'
    BY WriterKept
  <2>4. ReaderAt' /\ ReadsPrefix'
    BY ReaderKept
  <2> QED
    BY <2>1, <2>2, <2>3, <2>4 DEF LInv
<1>2. CASE Crash
  <2> USE <1>2 DEF Crash
  <2>1. size' \in Nat
    BY <1>0
  <2>2. TypeOK'
    BY <2>1 DEF LInv, TypeOK
  <2>3. Fetched'
    BY <1>0, <2>1 DEF LInv, Fetched
  <2>4. WriterAt' /\ FragmentsFit' /\ Chain' /\ Grammar' /\ Progress'
    BY WriterKept
  <2>5. ReaderAt' /\ ReadsPrefix'
    BY ReaderKept
  <2> QED
    BY <2>2, <2>3, <2>4, <2>5 DEF LInv
<1>3. CASE ReadMore
  <2> USE <1>3 DEF ReadMore
  <2>1. next * kBlockSize \in Nat /\ next * kBlockSize <= size
    BY <1>0 DEF LInv, Fetched
  <2>2. end' \in Nat /\ next' \in Nat /\ eof_' \in BOOLEAN
    BY <1>0, <2>1
  <2>3. TypeOK'
    BY <2>2 DEF LInv, TypeOK
  <2>4. (next + 1) * kBlockSize = next * kBlockSize + kBlockSize
    BY <1>0
  <2>5. Fetched'
    <3>0. ~eof_' => ~(size - next * kBlockSize < kBlockSize)
      BY Zenon
    <3>1. ~eof_' => next * kBlockSize + kBlockSize <= size
      BY <1>0, <2>1, <3>0
    <3>2. next' * kBlockSize' = next * kBlockSize + kBlockSize
      BY <2>4
    <3> QED
      BY <3>1, <3>2 DEF Fetched
  <2>6. WriterAt' /\ FragmentsFit' /\ Chain' /\ Grammar' /\ Progress'
    BY WriterKept
  <2>7. ReaderAt' /\ ReadsPrefix'
    BY ReaderKept
  <2> QED
    BY <2>3, <2>5, <2>6, <2>7 DEF LInv
<1>4. CASE ReadError \/ EndOfFile \/ LogDigestFail
  <2> USE <1>4 DEF ReadError, EndOfFile, LogDigestFail
  <2>1. TypeOK'
    BY <1>0 DEF LInv, TypeOK
  <2>2. Fetched'
    BY DEF LInv, Fetched
  <2>3. WriterAt' /\ FragmentsFit' /\ Chain' /\ Grammar' /\ Progress'
    BY WriterKept
  <2>4. ReaderAt' /\ ReadsPrefix'
    BY ReaderKept
  <2> QED
    BY <2>1, <2>2, <2>3, <2>4 DEF LInv
<1> QED
  BY <1>1, <1>2, <1>3, <1>4

\* A step that changes nothing keeps the invariant.
LEMMA StutterStep == ASSUME LInv, UNCHANGED vars PROVE LInv'
<1> USE DEF vars, fileVars, bufferVars, recordVars
<1>1. TypeOK'
  BY DEF LInv, TypeOK
<1>2. Fetched'
  BY DEF LInv, Fetched
<1>3. WriterAt' /\ FragmentsFit' /\ Chain' /\ Grammar' /\ Progress'
  BY WriterKept
<1>4. ReaderAt' /\ ReadsPrefix'
  BY ReaderKept
<1> QED
  BY <1>1, <1>2, <1>3, <1>4 DEF LInv

\* The invariant holds in every reachable state.
THEOREM LogInvariant == Spec => []LInv
<1>1. LInv /\ [Next]_vars => LInv'
  BY AddRecordStep, EmitStep, ReadStep, OtherStep, StutterStep
     DEF Next, WriterStep, ReaderStep, Finished
<1> QED
  BY InitLInv, <1>1, PTL DEF Spec

\* Every value of the writer's and the reader's state is of its type: the
\* lengths, rooms and offsets that AddRecord and ReadMore subtract never become
\* negative.
THEOREM LogTyped == Spec => []TypeOK
<1>1. LInv => TypeOK
  BY DEF LInv
<1> QED
  BY LogInvariant, <1>1, PTL

\* For every size of blocks, headers and MACs the fragments AddRecord emits
\* stay inside their blocks and do not overlap.
THEOREM LogFits == Spec => []FragmentsFit
<1>1. LInv => FragmentsFit
  BY DEF LInv
<1> QED
  BY LogInvariant, <1>1, PTL

\* Wherever the crash cuts the file and whatever block reads fail, what
\* ReadRecord returns is what AddRecord was given, from the first record on.
THEOREM LogReadsPrefix == Spec => []ReadsPrefix
<1>1. LInv => ReadsPrefix
  BY DEF LInv
<1> QED
  BY LogInvariant, <1>1, PTL

-----------------------------------------------------------------------------
(* How far the reader gets *)

\* Where the bytes of a fragment begin in the file.
StartOf(f) == f.blk * kBlockSize + f.off

\* The offset behind a fragment, and the place of the fragment after it.
After(f)   == f.off + header_size + f.len
NextBlk(f) == IF kBlockSize - After(f) < header_size THEN f.blk + 1 ELSE f.blk
NextOff(f) == IF kBlockSize - After(f) < header_size THEN 0 ELSE After(f)

\* There is no gap between two fragments but the zeros at the end of a block.
Layout ==
  /\ frags = <<>> => blk = 0 /\ block_offset_ = 0
  /\ frags # <<>> => frags[1].blk = 0 /\ frags[1].off = 0
  /\ \A i \in DOMAIN frags :
       i > 1 => /\ frags[i].blk = NextBlk(frags[i - 1])
                /\ frags[i].off = NextOff(frags[i - 1])

\* Fragments lie in the file, and belong to records, in the order they have.
Before(f, g) ==
  /\ EndOf(f) <= StartOf(g)
  /\ f.rec <= g.rec
  /\ Closes(f) => f.rec < g.rec

Ordered ==
  /\ \A i \in DOMAIN frags : EndOf(frags[i]) <= Appended
  /\ \A i, j \in DOMAIN frags : i < j => Before(frags[i], frags[j])

\* The records that end within the first k fragments.
Closers(k) == {i \in 1 .. k : Closes(frags[i])}

RecordsIn(k) ==
  IF k = 0 THEN 0
  ELSE IF Closes(frags[k]) THEN frags[k].rec ELSE frags[k].rec - 1

Counted == \A k \in 0 .. Len(frags) : Cardinality(Closers(k)) = RecordsIn(k)

\* What is acknowledged is flushed, what is flushed is in the file.
AckedKept ==
  /\ flushed <= Appended
  /\ acked # 0 => \E k \in DOMAIN frags : /\ Closes(frags[k])
                                          /\ frags[k].rec = acked
                                          /\ EndOf(frags[k]) <= flushed

Sized == phase \notin {"write", "emit"} => flushed <= size /\ size <= Appended

\* The buffer is the last block read, as much of it as the file has.
Buffered ==
  IF next = 0 THEN off = 0 /\ end = 0 /\ ~eof_
  ELSE IF eof_ THEN size + kBlockSize = next * kBlockSize + end
                    /\ end < kBlockSize
       ELSE end = kBlockSize /\ next * kBlockSize <= size

\* The place of the fragment the reader needs next.
DueBlk == IF r_mac = 0 THEN 0 ELSE NextBlk(frags[r_mac])
DueOff == IF r_mac = 0 THEN 0 ELSE NextOff(frags[r_mac])

\* The reader is there, or in the zeros before the block in which it begins.
AtDue == next = DueBlk + 1 /\ off = DueOff

InTrailer ==
  /\ next = DueBlk /\ DueOff = 0
  /\ next # 0 => kBlockSize - off < header_size

Place == phase # "done" => off <= end /\ (AtDue \/ InTrailer)

\* What the reader consumed is in the file.
Taken == \A i \in 1 .. r_mac : EndOf(frags[i]) <= size

\* What is left behind by a reader that has finished.
AtEnd ==
  phase = "done" =>
    /\ ~corruption => eof_
    /\ eof_ => \A j \in DOMAIN frags : r_mac < j => size < EndOf(frags[j])
    /\ AbsoluteConsistency /\ ~corruption =>
         /\ ~in_fragmented_record
         /\ \A j \in DOMAIN frags : r_mac < j => size <= StartOf(frags[j])

AtExit == phase = "exited" /\ ~recycle_log_files_ => Torn

RInv ==
  /\ Layout /\ Ordered /\ Counted /\ AckedKept /\ Sized /\ Buffered /\ Place
  /\ Taken /\ AtEnd /\ AtExit

-----------------------------------------------------------------------------
(* Places in the file *)

\* Blocks have the same size and follow one another.
LEMMA BlockSizes ==
  ASSUME NEW b \in Nat
  PROVE  /\ kBlockSize \in Nat /\ b * kBlockSize \in Nat
         /\ (b + 1) * kBlockSize = b * kBlockSize + kBlockSize
BY SecureLogAssumption

\* Where a fragment starts and ends in the file.
LEMMA FragPlace ==
  ASSUME NEW f \in Frag
  PROVE  /\ f.blk \in Nat /\ f.off \in Nat /\ f.len \in Nat /\ f.rec \in Nat
         /\ StartOf(f) \in Nat /\ After(f) \in Nat /\ EndOf(f) \in Nat
         /\ StartOf(f) = f.blk * kBlockSize + f.off
         /\ EndOf(f) = StartOf(f) + header_size + f.len
         /\ EndOf(f) = f.blk * kBlockSize + After(f)
<1>1. f.blk \in Nat /\ f.off \in Nat /\ f.len \in Nat /\ f.rec \in Nat
  BY DEF Frag
<1>2. f.blk * kBlockSize \in Nat
  BY <1>1, BlockSizes
<1>3. header_size \in Nat
  BY HeaderFits
<1> QED
  BY <1>1, <1>2, <1>3 DEF StartOf, After, EndOf

\* The next fragment begins behind this one and has room for its header.
LEMMA NextPlace ==
  ASSUME NEW f \in Frag, After(f) <= kBlockSize
  PROVE  /\ NextBlk(f) \in Nat /\ NextOff(f) \in Nat
         /\ NextOff(f) + header_size <= kBlockSize
         /\ EndOf(f) <= NextBlk(f) * kBlockSize + NextOff(f)
<1>1. /\ f.blk \in Nat /\ After(f) \in Nat
      /\ EndOf(f) = f.blk * kBlockSize + After(f)
  BY FragPlace
<1>2. /\ kBlockSize \in Nat /\ f.blk * kBlockSize \in Nat
      /\ (f.blk + 1) * kBlockSize = f.blk * kBlockSize + kBlockSize
  BY <1>1, BlockSizes
<1>3. header_size \in Nat /\ header_size < kBlockSize
  BY HeaderFits
<1> QED
  BY <1>1, <1>2, <1>3 DEF NextBlk, NextOff

\* A fragment of the file is well formed and stays in its block.
LEMMA FragAt ==
  ASSUME LInv, NEW i \in DOMAIN frags
  PROVE  frags[i] \in Frag /\ After(frags[i]) <= kBlockSize
<1>1. frags[i] \in Frag
  BY DEF LInv, TypeOK
<1> QED
  BY <1>1 DEF LInv, FragmentsFit, After

\* The fragments of the file form a sequence.
LEMMA FragDomain ==
  ASSUME LInv
  PROVE  /\ frags \in Seq(Frag) /\ Len(frags) \in Nat
         /\ DOMAIN frags = 1 .. Len(frags)
         /\ frags = <<>> <=> Len(frags) = 0
BY DEF LInv, TypeOK

\* How far the writer is, as a position in the file.
LEMMA AppendedNat ==
  ASSUME LInv
  PROVE  /\ blk \in Nat /\ block_offset_ \in Nat /\ Appended \in Nat
         /\ blk * kBlockSize \in Nat
         /\ Appended = blk * kBlockSize + block_offset_
<1>1. blk \in Nat /\ block_offset_ \in Nat
  BY DEF LInv, TypeOK
<1>2. blk * kBlockSize \in Nat
  BY <1>1, BlockSizes
<1> QED
  BY <1>1, <1>2 DEF Appended

\* The place a writer or a reader goes to after its newest fragment.
LEMMA DuePlace ==
  ASSUME LInv
  PROVE  /\ DueBlk \in Nat /\ DueOff \in Nat
         /\ DueOff + header_size <= kBlockSize
<1>1. header_size \in Nat /\ header_size < kBlockSize /\ kBlockSize \in Nat
  BY HeaderFits, SecureLogAssumption
<1>2. CASE r_mac = 0
  BY <1>1, <1>2 DEF DueBlk, DueOff
<1>3. CASE r_mac # 0
  <2>1. r_mac \in DOMAIN frags
    BY <1>3, FragDomain DEF LInv, TypeOK, ReaderAt
  <2>2. frags[r_mac] \in Frag /\ After(frags[r_mac]) <= kBlockSize
    BY <2>1, FragAt
  <2> QED
    BY <1>3, <2>2, NextPlace DEF DueBlk, DueOff
<1> QED
  BY <1>2, <1>3

\* The fragment after the ones the reader has consumed lies at that place.
LEMMA DueFragment ==
  ASSUME LInv, Layout, r_mac + 1 \in DOMAIN frags
  PROVE  /\ frags[r_mac + 1].blk = DueBlk /\ frags[r_mac + 1].off = DueOff
         /\ StartOf(frags[r_mac + 1]) = DueBlk * kBlockSize + DueOff
<1>1. frags # <<>> /\ r_mac \in Nat
  BY FragDomain DEF LInv, TypeOK
<1>2. CASE r_mac = 0
  BY <1>1, <1>2 DEF Layout, DueBlk, DueOff, StartOf
<1>3. CASE r_mac # 0
  <2>1. r_mac + 1 > 1 /\ (r_mac + 1) - 1 = r_mac
    BY <1>1, <1>3
  <2> QED
    BY <1>3, <2>1 DEF Layout, DueBlk, DueOff, StartOf
<1> QED
  BY <1>2, <1>3

\* When every fragment is consumed, no byte was appended behind that place.
LEMMA NothingDue ==
  ASSUME LInv, Layout, r_mac = Len(frags)
  PROVE  Appended <= DueBlk * kBlockSize + DueOff
<1>0. blk * kBlockSize \in Nat /\ Appended = blk * kBlockSize + block_offset_
  BY AppendedNat
<1>1. CASE frags = <<>>
  <2>1. blk = 0 /\ block_offset_ = 0 /\ r_mac = 0 /\ 0 * kBlockSize = 0
    BY <1>1, FragDomain, BlockSizes, SecureLogAssumption DEF Layout
  <2> QED
    BY <1>0, <2>1 DEF DueBlk, DueOff
<1>2. CASE frags # <<>>
  <2>1. r_mac \in DOMAIN frags /\ r_mac # 0 /\ frags[r_mac] = Newest
    BY <1>2, FragDomain DEF Newest
  <2>2. Newest \in Frag /\ After(Newest) <= kBlockSize
    BY <2>1, FragAt
  <2>3. Newest.blk = blk /\ After(Newest) = block_offset_
    BY <1>2 DEF LInv, WriterAt, After
  <2>4. EndOf(Newest) = Appended
    BY <1>0, <2>2, <2>3, FragPlace
  <2>5. EndOf(Newest) <= NextBlk(Newest) * kBlockSize + NextOff(Newest)
    BY <2>2, NextPlace
  <2> QED
    BY <2>1, <2>4, <2>5 DEF DueBlk, DueOff
<1> QED
  BY <1>1, <1>2

-----------------------------------------------------------------------------
(* The writer *)

\* What is said of the fragments stays true when the writer does not move.
LEMMA FragsKept ==
  ASSUME RInv, UNCHANGED <<frags, blk, block_offset_>>
  PROVE  Layout' /\ Ordered' /\ Counted'
<1>1. Layout'
  BY DEF RInv, Layout, NextBlk, NextOff, After
<1>2. Ordered'
  BY DEF RInv, Ordered, Before, Closes, EndOf, StartOf, Appended
<1>3. Counted'
  BY DEF RInv, Counted, Closers, RecordsIn, Closes
<1> QED
  BY <1>1, <1>2, <1>3

\* So does what is said of the reader when the writer works.
LEMMA ReaderWaits ==
  ASSUME LInv, phase' \in {"write", "emit"}, phase \in {"write", "emit"},
         UNCHANGED <<size, bufferVars, recordVars>>, RInv
  PROVE  Sized' /\ Buffered' /\ Place' /\ Taken' /\ AtEnd' /\ AtExit'
<1> USE DEF bufferVars, recordVars
<1>1. r_mac = 0 /\ next = 0 /\ off = 0 /\ end = 0 /\ ~eof_
  BY DEF LInv, ReaderAt, Fetched, RInv, Buffered
<1>2. Sized' /\ AtEnd' /\ AtExit'
  BY DEF Sized, AtEnd, AtExit
<1>3. Buffered'
  BY <1>1 DEF Buffered
<1>4. Place'
  BY <1>1 DEF Place, InTrailer, DueBlk, DueOff
<1>5. Taken'
  BY <1>1 DEF Taken
<1> QED
  BY <1>2, <1>3, <1>4, <1>5

\* An empty log satisfies the invariant.
LEMMA InitRInv == Init => RInv
<1> SUFFICES ASSUME Init PROVE RInv
  OBVIOUS
<1> USE DEF Init
<1>0. LInv
  BY InitLInv
<1>1. Layout /\ Ordered
  BY DEF Layout, Ordered
<1>2. Counted
  <2>1. Closers(0) = {} /\ Cardinality({}) = 0
    BY FS_EmptySet DEF Closers
  <2> QED
    BY <2>1 DEF Counted, RecordsIn
<1>3. AckedKept
  BY <1>0, AppendedNat DEF AckedKept
<1>4. Sized /\ Buffered /\ Taken /\ AtEnd /\ AtExit
  BY DEF Sized, Buffered, Taken, AtEnd, AtExit
<1>5. Place
  BY DEF Place, InTrailer, DueBlk, DueOff
<1> QED
  BY <1>1, <1>2, <1>3, <1>4, <1>5 DEF RInv

\* Starting a record (Writer::AddRecord) keeps the invariant.
LEMMA AddRecordReads ==
  ASSUME LInv, RInv, NEW n \in Length, AddRecord(n)
  PROVE  RInv'
<1> USE DEF AddRecord
<1>1. Layout' /\ Ordered' /\ Counted'
  BY FragsKept
<1>2. AckedKept'
  BY DEF RInv, AckedKept, Appended, Closes, EndOf
<1>3. Sized' /\ Buffered' /\ Place' /\ Taken' /\ AtEnd' /\ AtExit'
  BY ReaderWaits
<1> QED
  BY <1>1, <1>2, <1>3 DEF RInv

\* The new fragment goes to the place after the newest one.
LEMMA EmitPlace ==
  ASSUME LInv, RInv, phase = "emit"
  PROVE  /\ frags = <<>> => FragBlk = 0 /\ FragOff = 0
         /\ frags # <<>> => /\ FragBlk = NextBlk(Newest)
                            /\ FragOff = NextOff(Newest)
         /\ Appended <= FragBlk * kBlockSize + FragOff
<1>1. /\ blk \in Nat /\ block_offset_ \in Nat /\ blk * kBlockSize \in Nat
      /\ Appended = blk * kBlockSize + block_offset_
  BY AppendedNat
<1>2. /\ kBlockSize \in Nat
      /\ (blk + 1) * kBlockSize = blk * kBlockSize + kBlockSize
  BY <1>1, BlockSizes
<1>3. header_size \in Nat /\ header_size < kBlockSize
      /\ block_offset_ <= kBlockSize
  BY HeaderFits DEF LInv, WriterAt
<1>4. Appended <= FragBlk * kBlockSize + FragOff
  BY <1>1, <1>2, <1>3 DEF FragBlk, FragOff
<1>5. frags = <<>> => FragBlk = 0 /\ FragOff = 0
  BY <1>2, <1>3 DEF RInv, Layout, FragBlk, FragOff, NoRoomForHeader
<1>6. frags # <<>> => Newest.blk = blk /\ After(Newest) = block_offset_
  BY DEF LInv, WriterAt, After
<1>7. frags # <<>> => FragBlk = NextBlk(Newest) /\ FragOff = NextOff(Newest)
  BY <1>6 DEF NextBlk, NextOff, FragBlk, FragOff, NoRoomForHeader
<1> QED
  BY <1>4, <1>5, <1>7

\* The records of the fragments before it.
LEMMA EmitRecords ==
  ASSUME LInv, RInv, phase = "emit", NEW i \in DOMAIN frags
  PROVE  /\ frags[i].rec <= Len(written)
         /\ Closes(frags[i]) => frags[i].rec < Len(written)
<1>1. /\ Len(frags) \in Nat /\ DOMAIN frags = 1 .. Len(frags)
      /\ Len(frags) \in DOMAIN frags /\ frags # <<>> /\ i \in Nat
  BY FragDomain
<1>2. frags[i].rec \in Nat /\ Newest.rec \in Nat
  BY <1>1, FragAt, FragPlace DEF Newest
<1>3. Inside /\ begin \in BOOLEAN /\ Len(written) \in Nat
  BY LastWritten
<1>4. /\ begin => Newest.rec = Len(written) - 1
      /\ ~begin => Newest.rec = Len(written) /\ ~Closes(Newest)
  BY <1>1, <1>3 DEF Inside
<1>5. CASE i = Len(frags)
  BY <1>2, <1>3, <1>4, <1>5 DEF Newest
<1>6. CASE i # Len(frags)
  <2>1. Before(frags[i], Newest)
    BY <1>1, <1>6 DEF RInv, Ordered, Newest
  <2>2. /\ frags[i].rec <= Newest.rec
        /\ Closes(frags[i]) => frags[i].rec < Newest.rec
    BY <2>1 DEF Before
  <2> QED
    BY <1>2, <1>3, <1>4, <2>2
<1> QED
  BY <1>5, <1>6

\* What EmitPhysicalRecord does to the fragments.
LEMMA EmitEffect ==
  ASSUME LInv, EmitPhysicalRecord
  PROVE  /\ NewFrag \in Frag /\ Len(frags) \in Nat
         /\ DOMAIN frags = 1 .. Len(frags)
         /\ Len(frags') = Len(frags) + 1 /\ DOMAIN frags' = 1 .. Len(frags) + 1
         /\ \A i \in 1 .. Len(frags) : frags'[i] = frags[i]
         /\ frags'[Len(frags) + 1] = NewFrag
         /\ frags' # <<>>
<1>1. frags \in Seq(Frag) /\ NewFrag \in Frag
  BY NewFragFollows DEF LInv, TypeOK, EmitPhysicalRecord
<1>2. frags' = Append(frags, NewFrag)
  BY DEF EmitPhysicalRecord
<1> HIDE DEF NewFrag
<1> QED
  BY <1>1, <1>2

\* EmitPhysicalRecord leaves the writer at the end of its fragment.
LEMMA EmitEnd ==
  ASSUME LInv, RInv, EmitPhysicalRecord
  PROVE  /\ Appended' = EndOf(NewFrag) /\ Appended <= StartOf(NewFrag)
         /\ NewFrag.rec = Len(written)
         /\ Closes(NewFrag) <=> FragLen = left
         /\ StartOf(NewFrag) \in Nat /\ EndOf(NewFrag) \in Nat
         /\ StartOf(NewFrag) <= EndOf(NewFrag)
         /\ EndOf(NewFrag) = FragBlk * kBlockSize + FragOff + header_size
                               + FragLen
<1>0. phase = "emit" /\ NewFrag \in Frag
  BY EmitEffect DEF EmitPhysicalRecord
<1>1. Appended <= StartOf(NewFrag)
  BY <1>0, EmitPlace DEF NewFrag, StartOf
<1>2. /\ FragBlk \in Nat /\ FragOff \in Nat /\ FragLen \in Nat
      /\ FragLen <= left /\ left \in Nat /\ begin \in BOOLEAN
      /\ FragBlk * kBlockSize \in Nat /\ header_size \in Nat
  BY <1>0, FragRoom, BlockSizes, HeaderFits DEF LInv, TypeOK
<1>3. /\ EndOf(NewFrag) = FragBlk * kBlockSize + FragOff + header_size + FragLen
      /\ StartOf(NewFrag) = FragBlk * kBlockSize + FragOff
      /\ NewFrag.rec = Len(written)
  BY DEF NewFrag, EndOf, StartOf
<1>4. blk' = FragBlk /\ block_offset_' = FragOff + header_size + FragLen
  BY DEF EmitPhysicalRecord
<1>5. Appended' = EndOf(NewFrag)
  BY <1>2, <1>3, <1>4 DEF Appended
<1>6. Closes(NewFrag) <=> FragLen = left
  BY <1>2 DEF NewFrag, Closes, FragType
<1> QED
  BY <1>1, <1>2, <1>3, <1>5, <1>6

\* EmitPhysicalRecord keeps the invariant.
LEMMA EmitReads ==
  ASSUME LInv, RInv, EmitPhysicalRecord
  PROVE  RInv'
<1>0. phase = "emit"
  BY DEF EmitPhysicalRecord
<1>a. PICK n \in Nat : n = Len(frags)
  BY FragDomain
<1>1. /\ NewFrag \in Frag /\ n \in Nat
      /\ DOMAIN frags = 1 .. n /\ Len(frags') = n + 1
      /\ DOMAIN frags' = 1 .. n + 1
      /\ \A i \in 1 .. n : frags'[i] = frags[i]
      /\ frags'[n + 1] = NewFrag
      /\ frags' # <<>> /\ (frags = <<>> <=> n = 0)
  BY <1>a, EmitEffect, FragDomain
<1>2. /\ Appended' = EndOf(NewFrag) /\ Appended <= StartOf(NewFrag)
      /\ NewFrag.rec = Len(written)
      /\ Closes(NewFrag) <=> FragLen = left
      /\ StartOf(NewFrag) \in Nat /\ EndOf(NewFrag) \in Nat
      /\ StartOf(NewFrag) <= EndOf(NewFrag)
      /\ EndOf(NewFrag) = FragBlk * kBlockSize + FragOff + header_size
                            + FragLen
  BY EmitEnd
<1>2a. NewFrag.blk = FragBlk /\ NewFrag.off = FragOff
  BY DEF NewFrag
<1>3. Appended \in Nat
  BY AppendedNat
<1> HIDE DEF NewFrag
<1>4. Layout'
  <2>1. frags'[1].blk = 0 /\ frags'[1].off = 0
    <3>1. CASE n = 0
      BY <1>0, <1>1, <1>2a, <3>1, EmitPlace
    <3>2. CASE n # 0
      BY <1>1, <3>2 DEF RInv, Layout
    <3> QED
      BY <3>1, <3>2
  <2>2. ASSUME NEW i \in DOMAIN frags', i > 1
        PROVE  /\ frags'[i].blk = NextBlk(frags'[i - 1])
               /\ frags'[i].off = NextOff(frags'[i - 1])
    <3>1. CASE i \in DOMAIN frags
      <4>1. frags'[i] = frags[i] /\ frags'[i - 1] = frags[i - 1]
        BY <1>1, <2>2, <3>1
      <4> QED
        BY <2>2, <3>1, <4>1 DEF RInv, Layout
    <3>2. CASE i = n + 1
      <4>1. i - 1 = n /\ frags # <<>> /\ n \in 1 .. n
        BY <1>1, <2>2, <3>2
      <4>2. frags'[i - 1] = Newest /\ frags'[i] = NewFrag
        BY <1>a, <1>1, <3>2, <4>1 DEF Newest
      <4> QED
        BY <1>0, <1>2a, <4>1, <4>2, EmitPlace
    <3> QED
      BY <1>1, <3>1, <3>2
  <2> QED
    BY <1>1, <2>1, <2>2 DEF Layout, NextBlk, NextOff, After
<1>5. Ordered'
  <2>1. ASSUME NEW i \in DOMAIN frags
        PROVE  /\ frags[i] \in Frag /\ EndOf(frags[i]) \in Nat
               /\ EndOf(frags[i]) <= Appended
               /\ Before(frags[i], NewFrag)
    <3>1. frags[i] \in Frag /\ EndOf(frags[i]) \in Nat
      BY FragAt, FragPlace
    <3>2. EndOf(frags[i]) <= Appended
      BY DEF RInv, Ordered
    <3>3. EndOf(frags[i]) <= StartOf(NewFrag)
      BY <1>2, <1>3, <3>1, <3>2
    <3>4. /\ frags[i].rec <= Len(written)
          /\ Closes(frags[i]) => frags[i].rec < Len(written)
      BY <1>0, EmitRecords
    <3> QED
      BY <1>2, <3>1, <3>2, <3>3, <3>4 DEF Before
  <2>2. ASSUME NEW i \in DOMAIN frags' PROVE EndOf(frags'[i]) <= Appended'
    <3>1. CASE i \in DOMAIN frags
      BY <1>1, <1>2, <1>3, <2>1, <3>1
    <3>2. CASE i = n + 1
      BY <1>1, <1>2, <3>2
    <3> QED
      BY <1>1, <3>1, <3>2
  <2>3. ASSUME NEW i \in DOMAIN frags', NEW j \in DOMAIN frags', i < j
        PROVE  Before(frags'[i], frags'[j])
    <3>1. CASE j \in DOMAIN frags
      <4>1. i \in DOMAIN frags
        BY <1>1, <2>3, <3>1
      <4> QED
        BY <1>1, <2>3, <3>1, <4>1 DEF RInv, Ordered
    <3>2. CASE j = n + 1
      <4>1. i \in DOMAIN frags
        BY <1>1, <2>3, <3>2
      <4> QED
        BY <1>1, <2>1, <3>2, <4>1
    <3> QED
      BY <1>1, <3>1, <3>2
  <2> QED
    BY <2>2, <2>3 DEF Ordered, Before, EndOf, StartOf, Closes
<1>6. Counted'
  <2>1. ASSUME NEW k \in 0 .. n
        PROVE  Closers(k)' = Closers(k) /\ RecordsIn(k)' = RecordsIn(k)
    BY <1>1 DEF Closers, RecordsIn, Closes
  <2>2. /\ Cardinality(Closers(n)) = RecordsIn(n) /\ IsFiniteSet(Closers(n))
        /\ n + 1 \notin Closers(n)
    <3>1. Cardinality(Closers(n)) = RecordsIn(n)
      BY <1>a, <1>1 DEF RInv, Counted
    <3>2. IsFiniteSet(1 .. n)
      BY <1>1, FS_Interval
    <3> QED
      BY <1>1, <3>1, <3>2, FS_Subset DEF Closers
  <2>3. RecordsIn(n) = Len(written) - 1 /\ Len(written) \in Nat
    <3>1. Inside /\ begin \in BOOLEAN /\ Len(written) \in Nat \ {0}
      BY <1>0, LastWritten
    <3>2. CASE n = 0
      BY <1>1, <3>1, <3>2 DEF Inside, RecordsIn, LInv, Grammar
    <3>3. CASE n # 0
      BY <1>a, <1>1, <3>1, <3>3 DEF Inside, RecordsIn, Newest
    <3> QED
      BY <3>2, <3>3
  <2>4. CASE Closes(NewFrag)
    <3>1. Closers(n + 1)' = Closers(n) \cup {n + 1}
      BY <1>1, <2>4 DEF Closers, Closes
    <3>2. Cardinality(Closers(n + 1)') = RecordsIn(n) + 1
      BY <2>2, <3>1, FS_AddElement
    <3>3. RecordsIn(n + 1)' = Len(written)
      BY <1>1, <1>2, <2>4 DEF RecordsIn, Closes
    <3> QED
      BY <1>a, <1>1, <2>1, <2>3, <3>2, <3>3 DEF RInv, Counted
  <2>5. CASE ~Closes(NewFrag)
    <3>1. Closers(n + 1)' = Closers(n)
      BY <1>1, <2>5 DEF Closers, Closes
    <3>2. RecordsIn(n + 1)' = Len(written) - 1
      BY <1>1, <1>2, <2>5 DEF RecordsIn, Closes
    <3> QED
      BY <1>a, <1>1, <2>1, <2>2, <2>3, <3>1, <3>2 DEF RInv, Counted
  <2> QED
    BY <2>4, <2>5
<1>7. AckedKept'
  <2>0. flushed \in Nat /\ flushed <= Appended /\ acked \in Nat
    BY DEF RInv, AckedKept, LInv, TypeOK
  <2>1. CASE UNCHANGED <<flushed, acked>>
    <3>1. flushed' <= Appended'
      BY <1>2, <1>3, <2>0, <2>1
    <3>2. ASSUME acked # 0
          PROVE  \E k \in DOMAIN frags' : /\ Closes(frags'[k])
                                          /\ frags'[k].rec = acked
                                          /\ EndOf(frags'[k]) <= flushed
      BY <1>1, <3>2 DEF RInv, AckedKept
    <3> QED
      BY <2>1, <3>1, <3>2 DEF AckedKept, Closes, EndOf
  <2>2. CASE /\ FragLen = left /\ acked' = Len(written)
             /\ flushed' = FragBlk * kBlockSize + FragOff + header_size
                             + FragLen
    <3>1. /\ n + 1 \in DOMAIN frags' /\ Closes(frags'[n + 1])
          /\ frags'[n + 1].rec = acked' /\ EndOf(frags'[n + 1]) <= flushed'
      BY <1>1, <1>2, <2>2
    <3>2. flushed' <= Appended'
      BY <1>2, <2>2
    <3> QED
      BY <3>1, <3>2 DEF AckedKept, Closes, EndOf
  <2> QED
    BY <2>1, <2>2 DEF EmitPhysicalRecord, Flush
<1>8. Sized' /\ Buffered' /\ Place' /\ Taken' /\ AtEnd' /\ AtExit'
  BY <1>0, ReaderWaits DEF EmitPhysicalRecord
<1> QED
  BY <1>4, <1>5, <1>6, <1>7, <1>8 DEF RInv

\* Flushing the file buffer keeps the invariant.
LEMMA WriteBufferReads ==
  ASSUME LInv, RInv, WriteBuffer
  PROVE  RInv'
<1> USE DEF WriteBuffer
<1>1. Layout' /\ Ordered' /\ Counted'
  BY FragsKept
<1>2. AckedKept'
  <2>1. Appended \in Nat /\ Appended' = Appended
    BY AppendedNat DEF Appended
  <2>2. Between
    BY DEF LInv, Progress
  <2>3. CASE frags = <<>>
    <3>1. acked' = 0
      BY <2>2, <2>3 DEF Between
    <3> QED
      BY <2>1, <3>1 DEF AckedKept
  <2>4. CASE frags # <<>>
    <3>1. /\ Len(frags) \in DOMAIN frags /\ Closes(frags[Len(frags)])
          /\ frags[Len(frags)].rec = acked'
      BY <2>2, <2>4, FragDomain DEF Between, Newest
    <3>2. EndOf(frags[Len(frags)]) <= flushed'
      BY <3>1 DEF RInv, Ordered
    <3> QED
      BY <2>1, <3>1, <3>2 DEF AckedKept, Closes, EndOf
  <2> QED
    BY <2>3, <2>4
<1>3. Sized' /\ Buffered' /\ Place' /\ Taken' /\ AtEnd' /\ AtExit'
  BY ReaderWaits
<1> QED
  BY <1>1, <1>2, <1>3 DEF RInv

-----------------------------------------------------------------------------
(* The reader *)

\* A crash cuts the file at or after what was flushed, and keeps the invariant.
LEMMA CrashReads ==
  ASSUME LInv, RInv, Crash
  PROVE  RInv'
<1> USE DEF Crash, bufferVars, recordVars
<1>0. r_mac = 0 /\ next = 0 /\ off = 0 /\ end = 0 /\ ~eof_
  BY DEF LInv, ReaderAt, Fetched, RInv, Buffered
<1>1. Layout' /\ Ordered' /\ Counted'
  BY FragsKept
<1>2. AckedKept'
  BY DEF RInv, AckedKept, Appended, Closes, EndOf
<1>3. Sized'
  <2>1. Appended' = Appended /\ Appended \in Nat /\ flushed \in Nat
    BY AppendedNat DEF Appended, LInv, TypeOK
  <2> QED
    BY <2>1 DEF Sized
<1>4. Buffered' /\ Taken' /\ AtEnd' /\ AtExit'
  BY <1>0 DEF Buffered, Taken, AtEnd, AtExit
<1>5. Place'
  BY <1>0 DEF Place, InTrailer, DueBlk, DueOff
<1> QED
  BY <1>1, <1>2, <1>3, <1>4, <1>5 DEF RInv

\* A step of the reader does not move the file.
LEMMA FileKept ==
  ASSUME LInv, RInv, UNCHANGED fileVars, phase = "read"
  PROVE  Layout' /\ Ordered' /\ Counted' /\ AckedKept' /\ Sized'
<1> USE DEF fileVars
<1>1. Layout' /\ Ordered' /\ Counted'
  BY FragsKept
<1>2. AckedKept'
  BY DEF RInv, AckedKept, Appended, Closes, EndOf
<1>3. Sized'
  BY DEF RInv, Sized, Appended
<1> QED
  BY <1>1, <1>2, <1>3

\* Types of what the reader holds.
LEMMA ReaderTypes ==
  ASSUME LInv
  PROVE  /\ next \in Nat /\ off \in Nat /\ end \in Nat /\ size \in Nat
         /\ eof_ \in BOOLEAN /\ r_mac \in Nat /\ corruption \in BOOLEAN
         /\ next * kBlockSize \in Nat /\ kBlockSize \in Nat
         /\ (next + 1) * kBlockSize = next * kBlockSize + kBlockSize
         /\ header_size \in Nat /\ kHeaderSize + MacSize \in Nat \ {0}
         /\ kHeaderSize + MacSize <= header_size
         /\ ~recycle_log_files_ => kHeaderSize + MacSize = header_size
<1>1. /\ next \in Nat /\ off \in Nat /\ end \in Nat /\ size \in Nat
      /\ eof_ \in BOOLEAN /\ r_mac \in Nat /\ corruption \in BOOLEAN
  BY DEF LInv, TypeOK
<1>2. /\ next * kBlockSize \in Nat /\ kBlockSize \in Nat
      /\ (next + 1) * kBlockSize = next * kBlockSize + kBlockSize
  BY <1>1, BlockSizes
<1>3. /\ header_size \in Nat /\ kHeaderSize + MacSize \in Nat \ {0}
      /\ kHeaderSize + MacSize <= header_size
      /\ ~recycle_log_files_ => kHeaderSize + MacSize = header_size
  BY SecureLogAssumption DEF header_size
<1> QED
  BY <1>1, <1>2, <1>3

\* A block is read only when the reader is done with the one before it.
LEMMA ReadMoreReads ==
  ASSUME LInv, RInv, ReadMore
  PROVE  RInv'
<1> USE DEF ReadMore
<1>0. /\ next \in Nat /\ off \in Nat /\ end \in Nat /\ size \in Nat
      /\ next * kBlockSize \in Nat /\ kBlockSize \in Nat
      /\ (next + 1) * kBlockSize = next * kBlockSize + kBlockSize
      /\ header_size \in Nat /\ kHeaderSize + MacSize \in Nat \ {0}
      /\ kHeaderSize + MacSize <= header_size
  BY ReaderTypes
<1>1. Layout' /\ Ordered' /\ Counted' /\ AckedKept' /\ Sized'
  BY FileKept
<1>2. next * kBlockSize <= size
  BY DEF LInv, Fetched
<1>3. Buffered'
  <2>1. /\ next' = next + 1 /\ size' = size
        /\ next' * kBlockSize = next * kBlockSize + kBlockSize
    BY <1>0 DEF fileVars
  <2>2. CASE size - next * kBlockSize < kBlockSize
    <3>1. eof_' /\ end' = size - next * kBlockSize
      BY <2>2
    <3> QED
      BY <1>0, <1>2, <2>1, <2>2, <3>1 DEF Buffered
  <2>3. CASE ~(size - next * kBlockSize < kBlockSize)
    <3>1. ~eof_' /\ end' = kBlockSize
      BY <2>3
    <3> QED
      BY <1>0, <1>2, <2>1, <2>3, <3>1 DEF Buffered
  <2> QED
    BY <2>2, <2>3
<1>4. Place'
  <2>1. DueBlk \in Nat /\ DueOff \in Nat /\ DueOff + header_size <= kBlockSize
    BY DuePlace
  <2>2. ~AtDue
    <3> SUFFICES ASSUME AtDue PROVE FALSE
      OBVIOUS
    <3>1. next # 0 /\ off = DueOff
      BY <2>1 DEF AtDue
    <3>2. end = kBlockSize
      BY <3>1 DEF RInv, Buffered
    <3> QED
      BY <1>0, <2>1, <3>1, <3>2 DEF BufferShort
  <2>3. next = DueBlk /\ DueOff = 0
    BY <2>2 DEF RInv, Place, InTrailer
  <2>4. DueBlk' = DueBlk /\ DueOff' = DueOff
    BY DEF DueBlk, DueOff, NextBlk, NextOff, After, fileVars, recordVars
  <2>5. end' \in Nat
    BY <1>0, <1>2
  <2>6. off' <= end'
    BY <2>5
  <2> QED
    BY <2>3, <2>4, <2>6 DEF Place, AtDue
<1>5. Taken' /\ AtEnd' /\ AtExit'
  BY DEF RInv, Taken, AtEnd, AtExit, EndOf, fileVars, recordVars
<1> QED
  BY <1>1, <1>3, <1>4, <1>5 DEF RInv

\* A failed read of the file keeps the invariant.
LEMMA ReadErrorReads ==
  ASSUME LInv, RInv, ReadError
  PROVE  RInv'
<1> USE DEF ReadError
<1>1. Layout' /\ Ordered' /\ Counted' /\ AckedKept' /\ Sized'
  BY FileKept
<1>2. Buffered' /\ Place' /\ Taken' /\ AtExit'
  BY DEF RInv, Buffered, Place, Taken, AtExit, EndOf, fileVars, bufferVars
<1>3. AtEnd'
  BY DEF AtEnd, bufferVars
<1> QED
  BY <1>1, <1>2, <1>3 DEF RInv

\* At the end of the file the next fragment, if there is one, is not whole, and
\* no byte of it is there when the buffer is empty.
LEMMA EndIsBeforeDue ==
  ASSUME LInv, RInv, phase = "read", BufferShort, eof_,
         NEW j \in DOMAIN frags, r_mac < j
  PROVE  size < EndOf(frags[j]) /\ (off = end => size <= StartOf(frags[j]))
<1>0. /\ next \in Nat /\ off \in Nat /\ end \in Nat /\ size \in Nat
      /\ next * kBlockSize \in Nat /\ kBlockSize \in Nat
      /\ header_size \in Nat /\ kHeaderSize + MacSize \in Nat \ {0}
      /\ kHeaderSize + MacSize <= header_size /\ r_mac \in Nat
  BY ReaderTypes
<1>1. size + kBlockSize = next * kBlockSize + end /\ end < kBlockSize
  BY DEF RInv, Buffered
<1>2. DueBlk \in Nat /\ DueOff \in Nat
  BY DuePlace
<1>3. DueBlk * kBlockSize \in Nat
      /\ (DueBlk + 1) * kBlockSize = DueBlk * kBlockSize + kBlockSize
  BY <1>2, BlockSizes
<1>4. off <= end /\ (AtDue \/ InTrailer)
  BY DEF RInv, Place
<1> DEFINE g == frags[r_mac + 1]
<1>5. r_mac + 1 \in DOMAIN frags /\ j \in Nat
  BY <1>0, FragDomain
<1>6. StartOf(g) = DueBlk * kBlockSize + DueOff
  BY <1>5, DueFragment DEF RInv
<1>7. g \in Frag /\ frags[j] \in Frag
  BY <1>5, FragAt
<1>8. /\ StartOf(g) \in Nat /\ EndOf(g) \in Nat /\ g.len \in Nat
      /\ EndOf(g) = StartOf(g) + header_size + g.len
      /\ StartOf(frags[j]) \in Nat /\ EndOf(frags[j]) \in Nat
      /\ frags[j].len \in Nat
      /\ EndOf(frags[j]) = StartOf(frags[j]) + header_size + frags[j].len
  BY <1>7, FragPlace
<1> HIDE DEF g
<1>9. size < EndOf(g) /\ (off = end => size <= StartOf(g))
  <2>1. CASE AtDue
    BY <1>0, <1>1, <1>2, <1>3, <1>4, <1>6, <1>8, <2>1 DEF AtDue, BufferShort
  <2>2. CASE InTrailer
    BY <1>0, <1>1, <1>2, <1>3, <1>6, <1>8, <2>2 DEF InTrailer
  <2> QED
    BY <1>4, <2>1, <2>2
<1>10. CASE j = r_mac + 1
  BY <1>9, <1>10 DEF g
<1>11. CASE j # r_mac + 1
  <2>1. EndOf(g) <= StartOf(frags[j])
    BY <1>0, <1>5, <1>11 DEF RInv, Ordered, Before, g
  <2> QED
    BY <1>0, <1>8, <1>9, <2>1
<1> QED
  BY <1>10, <1>11

\* The end of the file keeps the invariant.
LEMMA EndOfFileReads ==
  ASSUME LInv, RInv, EndOfFile
  PROVE  RInv'
<1> USE DEF EndOfFile
<1>1. Layout' /\ Ordered' /\ Counted' /\ AckedKept' /\ Sized'
  BY FileKept
<1>2. Buffered' /\ Place' /\ Taken' /\ AtExit'
  BY DEF RInv, Buffered, Place, Taken, AtExit, EndOf, fileVars
<1>3. AtEnd'
  <2>1. \A j \in DOMAIN frags : r_mac < j => size < EndOf(frags[j])
    BY EndIsBeforeDue
  <2>2. AbsoluteConsistency /\ ~corruption' =>
          off = end /\ ~in_fragmented_record
    BY ReaderTypes DEF LInv, TypeOK
  <2>3. off = end =>
          \A j \in DOMAIN frags : r_mac < j => size <= StartOf(frags[j])
    BY EndIsBeforeDue
  <2> QED
    BY <2>1, <2>2, <2>3
       DEF AtEnd, AbsoluteConsistency, EndOf, StartOf, fileVars
<1> QED
  BY <1>1, <1>2, <1>3 DEF RInv

\* A fragment that verifies is whole, and behind it is the place of the next.
LEMMA ReadPhysicalReads ==
  ASSUME LInv, RInv, ReadPhysicalRecord
  PROVE  RInv'
<1> USE DEF ReadPhysicalRecord
<1>0. /\ next \in Nat /\ off \in Nat /\ end \in Nat /\ size \in Nat
      /\ next * kBlockSize \in Nat /\ kBlockSize \in Nat
      /\ header_size \in Nat /\ kHeaderSize + MacSize \in Nat \ {0}
      /\ r_mac \in Nat
      /\ ~recycle_log_files_ => kHeaderSize + MacSize = header_size
  BY ReaderTypes
<1>1. PICK i \in DOMAIN frags :
        /\ AtBuffer(frags[i]) /\ Authentic(frags[i])
        /\ off' = off + kHeaderSize + frags[i].len + MacSize
        /\ r_mac' = frags[i].mac
  OBVIOUS
<1>2. frags[i] \in Frag /\ After(frags[i]) <= kBlockSize
  BY FragAt
<1>3. i = r_mac + 1 /\ r_mac' = i /\ i \in Nat \ {0}
  BY <1>0, <1>1, FragDomain DEF Authentic, LInv, Chain
<1> DEFINE f == frags[i]
<1>4. /\ f.blk \in Nat /\ f.off \in Nat /\ f.len \in Nat
      /\ StartOf(f) \in Nat /\ After(f) \in Nat /\ EndOf(f) \in Nat
      /\ EndOf(f) = f.blk * kBlockSize + After(f)
      /\ After(f) = f.off + header_size + f.len
      /\ f.blk * kBlockSize \in Nat
      /\ (f.blk + 1) * kBlockSize = f.blk * kBlockSize + kBlockSize
  BY <1>2, FragPlace, BlockSizes DEF After
<1>5. /\ next = f.blk + 1 /\ f.off = off /\ After(f) <= end
      /\ off' = After(f)
  <2>1. /\ ~recycle_log_files_ /\ f.blk + 1 = next /\ f.off = off
        /\ f.off + kHeaderSize + f.len + MacSize <= end
        /\ off' = off + kHeaderSize + f.len + MacSize
    BY <1>1 DEF Authentic, AtBuffer
  <2>2. kHeaderSize \in Nat /\ MacSize \in Nat
    BY SecureLogAssumption
  <2> HIDE DEF f
  <2> QED
    BY <1>0, <1>4, <2>1, <2>2
<1>6. Layout' /\ Ordered' /\ Counted' /\ AckedKept' /\ Sized'
  BY FileKept
<1>7. Buffered' /\ AtEnd' /\ AtExit'
  <2>1. next # 0 /\ phase' = "read"
    BY <1>0, <1>4, <1>5
  <2> QED
    BY <2>1 DEF RInv, Buffered, AtEnd, AtExit, fileVars
<1> HIDE DEF f
<1>8. Taken'
  <2>1. EndOf(f) <= size
    <3>1. CASE eof_
      <4>1. size + kBlockSize = next * kBlockSize + end
        BY <1>0, <1>4, <1>5, <3>1 DEF RInv, Buffered
      <4> QED
        BY <1>0, <1>4, <1>5, <4>1
    <3>2. CASE ~eof_
      <4>1. end = kBlockSize /\ next * kBlockSize <= size
        BY <1>0, <1>4, <1>5, <3>2 DEF RInv, Buffered
      <4> QED
        BY <1>0, <1>4, <1>5, <4>1
    <3> QED
      BY <3>1, <3>2
  <2>2. ASSUME NEW k \in 1 .. r_mac' PROVE EndOf(frags[k]) <= size
    <3>1. CASE k = i
      BY <2>1, <3>1 DEF f
    <3>2. CASE k # i
      <4>1. k \in 1 .. r_mac
        BY <1>0, <1>3, <3>2
      <4> QED
        BY <4>1 DEF RInv, Taken
    <3> QED
      BY <3>1, <3>2
  <2> QED
    BY <2>2 DEF Taken, EndOf, fileVars
<1>9. Place'
  <2>1. DueBlk' = NextBlk(f) /\ DueOff' = NextOff(f)
    BY <1>3 DEF DueBlk, DueOff, NextBlk, NextOff, After, fileVars, f
  <2>2. off' <= end' /\ next' = f.blk + 1
    BY <1>5
  <2>3. CASE kBlockSize - After(f) < header_size
    <3>1. NextBlk(f) = f.blk + 1 /\ NextOff(f) = 0
      BY <2>3 DEF NextBlk, NextOff
    <3> QED
      BY <1>5, <2>1, <2>2, <2>3, <3>1 DEF Place, InTrailer
  <2>4. CASE ~(kBlockSize - After(f) < header_size)
    <3>1. NextBlk(f) = f.blk /\ NextOff(f) = After(f)
      BY <2>4 DEF NextBlk, NextOff
    <3> QED
      BY <1>5, <2>1, <2>2, <3>1 DEF Place, AtDue
  <2> QED
    BY <2>3, <2>4
<1> QED
  BY <1>6, <1>7, <1>8, <1>9 DEF RInv

\* The process ends only at a fragment whose end is not in the file.
LEMMA LogDigestFailReads ==
  ASSUME LInv, RInv, LogDigestFail
  PROVE  RInv'
<1> USE DEF LogDigestFail
<1>0. /\ next \in Nat /\ off \in Nat /\ end \in Nat /\ size \in Nat
      /\ next * kBlockSize \in Nat /\ kBlockSize \in Nat
      /\ header_size \in Nat \ {0} /\ r_mac \in Nat
      /\ ~recycle_log_files_ => kHeaderSize + MacSize = header_size
  BY ReaderTypes, HeaderFits
<1>1. Layout' /\ Ordered' /\ Counted' /\ AckedKept' /\ Sized'
  BY FileKept
<1>2. Buffered' /\ Taken' /\ AtEnd'
  BY DEF RInv, Buffered, Taken, AtEnd, EndOf, fileVars, bufferVars, recordVars
<1>3. Place'
  <2>1. DueBlk' = DueBlk /\ DueOff' = DueOff
    BY DEF DueBlk, DueOff, NextBlk, NextOff, After, fileVars, recordVars
  <2> QED
    BY <2>1 DEF RInv, Place, AtDue, InTrailer, bufferVars
<1>4. AtExit'
  <2> SUFFICES ASSUME ~recycle_log_files_ PROVE Torn
    BY DEF AtExit, Torn, EndOf, fileVars
  <2>1. end - off >= header_size
    BY <1>0 DEF BufferShort
  <2>2. DueBlk \in Nat /\ DueOff \in Nat /\ DueOff + header_size <= kBlockSize
    BY DuePlace
  <2>3. DueBlk * kBlockSize \in Nat
        /\ (DueBlk + 1) * kBlockSize = DueBlk * kBlockSize + kBlockSize
    BY <2>2, BlockSizes
  <2>4. end <= kBlockSize /\ next # 0
    BY <1>0, <2>1 DEF RInv, Buffered
  <2>5. next = DueBlk + 1 /\ off = DueOff
    BY <1>0, <2>1, <2>4 DEF RInv, Place, AtDue, InTrailer
  <2>6. /\ eof_ => DueBlk * kBlockSize + end = size
        /\ ~eof_ => end = kBlockSize /\ DueBlk * kBlockSize + kBlockSize <= size
    BY <1>0, <2>3, <2>4, <2>5 DEF RInv, Buffered
  <2>7. DueBlk * kBlockSize + DueOff + header_size <= size
    <3>1. CASE eof_
      BY <1>0, <2>1, <2>2, <2>3, <2>5, <2>6, <3>1
    <3>2. CASE ~eof_
      BY <1>0, <2>1, <2>2, <2>3, <2>5, <2>6, <3>2
    <3> QED
      BY <3>1, <3>2
  <2>8. r_mac + 1 \in DOMAIN frags
    <3>1. size <= Appended /\ Appended \in Nat
      BY AppendedNat DEF RInv, Sized
    <3>2. r_mac # Len(frags)
      BY <1>0, <2>2, <2>3, <2>7, <3>1, NothingDue DEF RInv
    <3>3. r_mac <= Len(frags)
      BY DEF LInv, ReaderAt
    <3>4. Len(frags) \in Nat /\ r_mac \in Nat
      BY <1>0, FragDomain
    <3>5. r_mac + 1 <= Len(frags)
      BY <3>2, <3>3, <3>4
    <3> QED
      BY <3>4, <3>5, FragDomain
  <2> DEFINE g == frags[r_mac + 1]
  <2>9. g \in Frag /\ After(g) <= kBlockSize
    BY <2>8, FragAt
  <2>10. g.blk = DueBlk /\ g.off = DueOff
         /\ StartOf(g) = DueBlk * kBlockSize + DueOff
    BY <2>8, DueFragment DEF RInv
  <2>11. /\ g.len \in Nat /\ EndOf(g) \in Nat /\ After(g) \in Nat
         /\ EndOf(g) = StartOf(g) + header_size + g.len
         /\ EndOf(g) = DueBlk * kBlockSize + After(g)
         /\ After(g) = g.off + header_size + g.len
    BY <2>9, <2>10, FragPlace DEF After
  <2>12. g.aad = r_mac
    <3>1. g.aad = (r_mac + 1) - 1
      BY <2>8 DEF LInv, Chain
    <3>2. r_mac \in Nat
      BY <1>0
    <3> QED
      BY <3>1, <3>2
  <2>13. ~(g.off + kHeaderSize + g.len + MacSize <= end)
    BY <2>5, <2>8, <2>10, <2>12 DEF AtBuffer, Authentic
  <2>14. kHeaderSize \in Nat /\ MacSize \in Nat
    BY SecureLogAssumption
  <2> HIDE DEF g
  <2>15. end < After(g)
    BY <1>0, <2>2, <2>10, <2>11, <2>13, <2>14
  <2>16. eof_ /\ size < EndOf(g)
    BY <1>0, <2>3, <2>6, <2>9, <2>11, <2>15
  <2>17. EndOf(g) - g.len <= size
    BY <1>0, <2>2, <2>3, <2>7, <2>10, <2>11
  <2> QED
    BY <2>8, <2>16, <2>17 DEF Torn, g
<1> QED
  BY <1>1, <1>2, <1>3, <1>4 DEF RInv

\* A step that changes nothing keeps the invariant.
LEMMA NothingReads ==
  ASSUME LInv, RInv, UNCHANGED vars
  PROVE  RInv'
<1> USE DEF vars, fileVars, bufferVars, recordVars
<1>1. Layout' /\ Ordered' /\ Counted'
  BY FragsKept
<1>2. AckedKept' /\ Sized'
  BY DEF RInv, AckedKept, Sized, Appended, Closes, EndOf
<1>3. Buffered' /\ Taken'
  BY DEF RInv, Buffered, Taken, EndOf
<1>4. Place'
  BY DEF RInv, Place, AtDue, InTrailer, DueBlk, DueOff, NextBlk, NextOff, After
<1>5. AtEnd'
  BY DEF RInv, AtEnd, AbsoluteConsistency, EndOf, StartOf
<1>6. AtExit'
  BY DEF RInv, AtExit, Torn, EndOf
<1> QED
  BY <1>1, <1>2, <1>3, <1>4, <1>5, <1>6 DEF RInv

RIInv == LInv /\ RInv

\* In every reachable state the fragments lie without gaps and in order, what is
\* acknowledged is flushed, and the reader is at the place of the fragment it
\* needs next.
THEOREM ReaderInvariant == Spec => []RIInv
<1>1. Init => RIInv
  BY InitLInv, InitRInv DEF RIInv
<1>2. RIInv /\ [Next]_vars => RIInv'
  <2> SUFFICES ASSUME LInv, RInv, [Next]_vars PROVE LInv' /\ RInv'
    BY DEF RIInv
  <2>1. LInv'
    BY AddRecordStep, EmitStep, ReadStep, OtherStep, StutterStep
       DEF Next, WriterStep, ReaderStep, Finished
  <2>2. RInv'
    BY AddRecordReads, EmitReads, WriteBufferReads, CrashReads, ReadMoreReads,
       ReadErrorReads, EndOfFileReads, ReadPhysicalReads, LogDigestFailReads,
       NothingReads
       DEF Next, WriterStep, ReaderStep, Finished
  <2> QED
    BY <2>1, <2>2
<1> QED
  BY <1>1, <1>2, PTL DEF Spec

-----------------------------------------------------------------------------
(* How many records are in the file and how many were returned *)

\* The reader has returned the records that its fragments end.
LEMMA GotCount ==
  ASSUME LInv, RInv
  PROVE  /\ r_mac \in 0 .. Len(frags) /\ Len(got) = RecordsIn(r_mac)
         /\ Cardinality(Closers(r_mac)) = Len(got) /\ Len(got) \in Nat
<1>1. r_mac \in 0 .. Len(frags) /\ got \in Seq(Record) /\ Consumed
  <2>1. r_mac \in Nat /\ r_mac <= Len(frags) /\ got \in Seq(Record) /\ Consumed
    BY DEF LInv, TypeOK, ReaderAt
  <2> QED
    BY <2>1, FragDomain
<1>2. Len(got) = RecordsIn(r_mac)
  <2>1. CASE r_mac = 0
    BY <1>1, <2>1 DEF Consumed, RecordsIn
  <2>2. CASE r_mac # 0
    <3>1. frags[r_mac].rec \in Nat /\ Len(got) \in Nat
      BY <1>1, <2>2, FragDomain, FragAt, FragPlace
    <3> QED
      BY <1>1, <2>2, <3>1 DEF Consumed, RecordsIn
  <2> QED
    BY <2>1, <2>2
<1> QED
  BY <1>1, <1>2 DEF RInv, Counted

\* The fragments that end a record and are whole in the file.
Whole == {i \in DOMAIN frags : Closes(frags[i]) /\ EndOf(frags[i]) <= size}

\* The complete records of the file are counted by their last fragments.
LEMMA CompleteCount ==
  ASSUME LInv
  PROVE  Complete = Cardinality(Whole) /\ IsFiniteSet(Whole) /\ Complete \in Nat
<1>1. IsFiniteSet(1 .. Len(frags)) /\ DOMAIN frags = 1 .. Len(frags)
  BY FragDomain, FS_Interval
<1>2. IsFiniteSet(Whole)
  BY <1>1, FS_Subset DEF Whole
<1>3. Complete = Cardinality(Whole)
  BY DEF Complete, Whole, Closes
<1> QED
  BY <1>2, <1>3, FS_CardinalityType

\* Never more than the file holds is returned, and all of it at the end.
LEMMA GotComplete ==
  ASSUME LInv, RInv
  PROVE  /\ Len(got) <= Complete
         /\ phase = "done" /\ eof_ => Len(got) = Complete
<1>1. /\ r_mac \in 0 .. Len(frags) /\ Cardinality(Closers(r_mac)) = Len(got)
      /\ Len(frags) \in Nat /\ DOMAIN frags = 1 .. Len(frags)
  BY GotCount, FragDomain
<1>2. Complete = Cardinality(Whole) /\ IsFiniteSet(Whole)
  BY CompleteCount
<1>3. Closers(r_mac) \subseteq Whole
  BY <1>1 DEF Closers, Whole, RInv, Taken
<1>4. Len(got) <= Complete
  BY <1>1, <1>2, <1>3, FS_Subset
<1>5. ASSUME phase = "done", eof_ PROVE Len(got) = Complete
  <2>1. ASSUME NEW i \in Whole PROVE i \in Closers(r_mac)
    <3>1. i \in 1 .. Len(frags) /\ Closes(frags[i]) /\ EndOf(frags[i]) <= size
      BY <1>1 DEF Whole
    <3>2. EndOf(frags[i]) \in Nat /\ size \in Nat
      BY <1>1, <3>1, FragAt, FragPlace, ReaderTypes
    <3>3. ~(r_mac < i)
      BY <1>1, <1>5, <3>1, <3>2 DEF RInv, AtEnd
    <3> QED
      BY <1>1, <3>1, <3>3 DEF Closers
  <2>2. Whole = Closers(r_mac)
    BY <1>3, <2>1
  <2> QED
    BY <1>1, <1>2, <2>2
<1> QED
  BY <1>4, <1>5

\* A crash leaves every acknowledged record whole, and no record that was not
\* written.
LEMMA AckedComplete ==
  ASSUME LInv, RInv, flushed <= size
  PROVE  acked <= Complete /\ Complete <= Len(written)
<1>1. /\ Len(frags) \in Nat /\ DOMAIN frags = 1 .. Len(frags)
      /\ flushed \in Nat /\ size \in Nat /\ acked \in Nat
      /\ Len(written) \in Nat
  BY FragDomain DEF LInv, TypeOK
<1>2. Complete = Cardinality(Whole) /\ IsFiniteSet(Whole) /\ Complete \in Nat
  BY CompleteCount
<1>3. acked <= Complete
  <2>1. CASE acked = 0
    BY <1>2, <2>1
  <2>2. CASE acked # 0
    <3>1. PICK k \in DOMAIN frags : /\ Closes(frags[k]) /\ frags[k].rec = acked
                                    /\ EndOf(frags[k]) <= flushed
      BY <2>2 DEF RInv, AckedKept
    <3>2. Cardinality(Closers(k)) = acked
      BY <1>1, <3>1 DEF RInv, Counted, RecordsIn
    <3>3. ASSUME NEW i \in Closers(k) PROVE i \in Whole
      <4>1. i \in DOMAIN frags /\ i <= k /\ Closes(frags[i]) /\ i \in Nat
        BY <1>1 DEF Closers
      <4>2. /\ EndOf(frags[i]) \in Nat /\ EndOf(frags[k]) \in Nat
            /\ StartOf(frags[k]) \in Nat
            /\ StartOf(frags[k]) <= EndOf(frags[k])
        <5>1. frags[i] \in Frag /\ frags[k] \in Frag
          BY <4>1, FragAt
        <5>2. /\ EndOf(frags[i]) \in Nat /\ EndOf(frags[k]) \in Nat
              /\ StartOf(frags[k]) \in Nat /\ frags[k].len \in Nat
              /\ EndOf(frags[k]) = StartOf(frags[k]) + header_size
                                     + frags[k].len
          BY <5>1, FragPlace
        <5> QED
          BY <5>2, HeaderFits
      <4>3. EndOf(frags[i]) <= EndOf(frags[k])
        <5>1. CASE i = k
          BY <4>2, <5>1
        <5>2. CASE i # k
          <6>1. EndOf(frags[i]) <= StartOf(frags[k])
            BY <1>1, <4>1, <5>2 DEF RInv, Ordered, Before
          <6> QED
            BY <4>2, <6>1
        <5> QED
          BY <5>1, <5>2
      <4>4. EndOf(frags[i]) <= size
        BY <1>1, <3>1, <4>2, <4>3
      <4> QED
        BY <4>1, <4>4 DEF Whole
    <3> QED
      BY <1>2, <3>2, <3>3, FS_Subset
  <2> QED
    BY <2>1, <2>2
<1>4. Complete <= Len(written)
  <2>1. /\ Cardinality(Closers(Len(frags))) = RecordsIn(Len(frags))
        /\ IsFiniteSet(Closers(Len(frags)))
    <3>1. IsFiniteSet(1 .. Len(frags))
      BY <1>1, FS_Interval
    <3>2. Closers(Len(frags)) \subseteq 1 .. Len(frags)
      BY DEF Closers
    <3> QED
      BY <1>1, <3>1, <3>2, FS_Subset DEF RInv, Counted
  <2>2. RecordsIn(Len(frags)) <= Len(written)
    <3>1. CASE Len(frags) = 0
      BY <1>1, <3>1 DEF RecordsIn
    <3>2. CASE Len(frags) # 0
      <4>1. Len(frags) \in DOMAIN frags
        BY <1>1, <3>2
      <4>2. frags[Len(frags)].rec \in 1 .. Len(written)
        BY <4>1 DEF LInv, Grammar, PartOf
      <4> QED
        BY <1>1, <3>2, <4>2 DEF RecordsIn
    <3> QED
      BY <3>1, <3>2
  <2>3. Whole \subseteq Closers(Len(frags))
    BY <1>1 DEF Whole, Closers
  <2>4. Complete <= Cardinality(Closers(Len(frags)))
    BY <1>2, <2>1, <2>3, FS_Subset
  <2>5. RecordsIn(Len(frags)) \in Nat
    BY <2>1, FS_CardinalityType
  <2> QED
    BY <1>1, <1>2, <2>1, <2>2, <2>4, <2>5
<1> QED
  BY <1>3, <1>4

-----------------------------------------------------------------------------
(* The properties *)

\* Without recycled log files, whose headers the reader does not understand,
\* log_decrypt ends the process only at a torn fragment, and a reader that
\* reaches the end of the file has returned every record that is whole in it.
THEOREM UntornRead ==
  ASSUME ~recycle_log_files_
  PROVE  Spec => []UntornLogReads
<1>1. ASSUME RIInv PROVE UntornLogReads
  <2>1. phase = "exited" => Torn
    BY <1>1 DEF RIInv, RInv, AtExit
  <2> QED
    BY <1>1, <2>1, GotComplete DEF RIInv, UntornLogReads
<1> QED
  BY <1>1, ReaderInvariant, PTL

\* A reader that ends without a report has returned every record whose AddRecord
\* or WriteBuffer acknowledged it, wherever the crash cut the file.
THEOREM AckedRead == Spec => []AckedRecordsRead
<1>1. ASSUME RIInv PROVE AckedRecordsRead
  <2> SUFFICES ASSUME phase = "done", ~corruption PROVE Len(got) >= acked
    BY DEF AckedRecordsRead
  <2>0. LInv /\ RInv
    BY <1>1 DEF RIInv
  <2>1. eof_ /\ flushed <= size
    BY <2>0 DEF RInv, AtEnd, Sized
  <2>2. Len(got) = Complete /\ acked <= Complete
    BY <2>0, <2>1, GotComplete, AckedComplete
  <2>3. acked \in Nat /\ Complete \in Nat
    BY <2>0, CompleteCount DEF LInv, TypeOK
  <2> QED
    BY <2>2, <2>3
<1> QED
  BY <1>1, ReaderInvariant, PTL

\* In kAbsoluteConsistency a reader that ends without a report leaves no byte of
\* a fragment behind that is not part of a record it returned.
THEOREM DropsReported == Spec => []NothingDroppedSilently
<1>1. ASSUME RIInv PROVE NothingDroppedSilently
  <2> SUFFICES ASSUME AbsoluteConsistency, phase = "done", ~corruption,
                      NEW i \in DOMAIN frags,
                      frags[i].blk * kBlockSize + frags[i].off < size
               PROVE  frags[i].rec <= Len(got)
    BY DEF NothingDroppedSilently
  <2>0. LInv /\ RInv
    BY <1>1 DEF RIInv
  <2>1. /\ ~in_fragmented_record
        /\ \A j \in DOMAIN frags : r_mac < j => size <= StartOf(frags[j])
    BY <2>0 DEF RInv, AtEnd
  <2>2. /\ StartOf(frags[i]) \in Nat /\ StartOf(frags[i]) < size
        /\ size \in Nat /\ frags[i].rec \in Nat
    BY <2>0, FragAt, FragPlace, ReaderTypes
  <2>3. /\ r_mac \in 0 .. Len(frags) /\ Len(frags) \in Nat /\ i \in Nat \ {0}
        /\ DOMAIN frags = 1 .. Len(frags)
    BY <2>0, GotCount, FragDomain
  <2>4. i <= r_mac
    BY <2>1, <2>2, <2>3
  <2>5. r_mac \in DOMAIN frags /\ r_mac # 0
    BY <2>3, <2>4
  <2>6. Len(got) = frags[r_mac].rec /\ frags[r_mac].rec \in Nat
    BY <2>0, <2>1, <2>5, FragAt, FragPlace DEF LInv, ReaderAt, Consumed
  <2>7. CASE i = r_mac
    BY <2>6, <2>7
  <2>8. CASE i # r_mac
    BY <2>0, <2>3, <2>4, <2>5, <2>6, <2>8 DEF RInv, Ordered, Before
  <2> QED
    BY <2>7, <2>8
<1> QED
  BY <1>1, ReaderInvariant, PTL

-----------------------------------------------------------------------------
(* Refinement of RecordLog *)

\* The values that stand for the log and the mode of RecordLog.
AbsLog ==
  IF phase \in {"write", "emit"} THEN written ELSE SubSeq(written, 1, Complete)

AbsMode ==
  CASE phase \in {"write", "emit"} -> "write"
    [] phase = "read"   -> "read"
    [] phase = "done"   -> IF corruption THEN "failed" ELSE "done"
    [] phase = "exited" -> "failed"

AbsRecord == [rec : 1 .. MaxRecords, len : Length]

\* The actions of RecordLog in terms of these values.
LEMMA AbsAppend ==
  ASSUME AbsMode = "write", AbsMode' = "write", acked' = acked, got' = got,
         NEW r \in AbsRecord, AbsLog' = Append(AbsLog, r)
  PROVE  Abstract!Next
<1>1. Abstract!AppendRecord
  BY DEF Abstract!AppendRecord, AbsLog, AbsMode, AbsRecord
<1> QED
  BY <1>1 DEF Abstract!Next

\* The step of RecordLog that acknowledges records.
LEMMA AbsAcknowledge ==
  ASSUME AbsMode = "write", AbsMode' = "write", acked' = Len(AbsLog),
         got' = got, AbsLog' = AbsLog
  PROVE  Abstract!Next
<1>1. Abstract!Acknowledge
  BY DEF Abstract!Acknowledge, AbsLog, AbsMode
<1> QED
  BY <1>1 DEF Abstract!Next

\* The step of RecordLog that loses what was not acknowledged.
LEMMA AbsCrash ==
  ASSUME AbsMode = "write", AbsMode' = "read", acked' = acked, got' = got,
         NEW k \in acked .. Len(AbsLog), AbsLog' = SubSeq(AbsLog, 1, k)
  PROVE  Abstract!Next
<1>1. Abstract!Crash
  BY DEF Abstract!Crash, AbsLog, AbsMode
<1> QED
  BY <1>1 DEF Abstract!Next

\* The step of RecordLog that returns the next record.
LEMMA AbsRead ==
  ASSUME AbsMode = "read", AbsMode' = "read", Len(got) < Len(AbsLog),
         got' = Append(got, AbsLog[Len(got) + 1]), AbsLog' = AbsLog,
         acked' = acked
  PROVE  Abstract!Next
<1>1. Abstract!Read
  BY DEF Abstract!Read, AbsLog, AbsMode
<1> QED
  BY <1>1 DEF Abstract!Next

\* The step of RecordLog that ends after the last record.
LEMMA AbsEndOfLog ==
  ASSUME AbsMode = "read", AbsMode' = "done", got = AbsLog, AbsLog' = AbsLog,
         acked' = acked, got' = got
  PROVE  Abstract!Next
<1>1. Abstract!EndOfLog
  BY DEF Abstract!EndOfLog, AbsLog, AbsMode
<1> QED
  BY <1>1 DEF Abstract!Next

\* The step of RecordLog that reports an error.
LEMMA AbsFail ==
  ASSUME AbsMode = "read", AbsMode' = "failed", AbsLog' = AbsLog,
         acked' = acked, got' = got
  PROVE  Abstract!Next
<1>1. Abstract!Fail
  BY DEF Abstract!Fail, AbsLog, AbsMode
<1> QED
  BY <1>1 DEF Abstract!Next

\* A step that RecordLog does not see.
LEMMA AbsStutter ==
  ASSUME AbsMode' = AbsMode, AbsLog' = AbsLog, acked' = acked, got' = got
  PROVE  UNCHANGED Abstract!vars
BY DEF Abstract!vars, AbsLog, AbsMode

\* The file holds every acknowledged record, and what is returned.
Counts ==
  /\ Len(got) <= Complete
  /\ phase = "done" /\ eof_ => Len(got) = Complete
  /\ phase \notin {"write", "emit"} => acked <= Complete
                                       /\ Complete <= Len(written)

\* The invariant gives the counts that the refinement needs.
LEMMA CountsHold == RIInv => Counts
<1> SUFFICES ASSUME LInv, RInv PROVE Counts
  BY DEF RIInv
<1>1. phase \notin {"write", "emit"} => flushed <= size
  BY DEF RInv, Sized
<1> QED
  BY <1>1, GotComplete, AckedComplete DEF Counts

\* The first records of the log.
LEMMA Prefix ==
  ASSUME NEW S, NEW s \in Seq(S), NEW k \in 0 .. Len(s)
  PROVE  /\ SubSeq(s, 1, k) \in Seq(S) /\ Len(SubSeq(s, 1, k)) = k
         /\ \A i \in 1 .. k : SubSeq(s, 1, k)[i] = s[i]
         /\ \A t \in Seq(S) : Len(t) = k /\ (\A i \in 1 .. k : t[i] = s[i])
                                => t = SubSeq(s, 1, k)
<1>1. /\ SubSeq(s, 1, k) \in Seq(S) /\ Len(SubSeq(s, 1, k)) = k
      /\ \A i \in 1 .. k : SubSeq(s, 1, k)[i] = s[i]
  BY SubSeqProperties
<1>2. ASSUME NEW t \in Seq(S), Len(t) = k, \A i \in 1 .. k : t[i] = s[i]
      PROVE  t = SubSeq(s, 1, k)
  BY <1>1, <1>2, SeqEqual
<1> QED
  BY <1>1, <1>2

\* The steps of the writer and the crash.
LEMMA WriterRefines ==
  ASSUME RIInv, Counts, Counts', WriterStep \/ Crash
  PROVE  [Abstract!Next]_Abstract!vars
<1>0. /\ LInv /\ written \in Seq(Record) /\ Len(written) \in Nat
      /\ phase \in {"write", "emit"} => AbsMode = "write" /\ AbsLog = written
      /\ phase' \in {"write", "emit"} => AbsMode' = "write"
                                         /\ AbsLog' = written'
  BY DEF RIInv, LInv, TypeOK, AbsMode, AbsLog
<1>1. ASSUME NEW n \in Length, AddRecord(n)
      PROVE  [Abstract!Next]_Abstract!vars
  <2> DEFINE r == [rec |-> Len(written) + 1, len |-> n]
  <2>1. /\ phase = "write" /\ phase' = "emit" /\ acked' = acked /\ got' = got
        /\ written' = Append(written, r) /\ Len(written) < MaxRecords
    BY <1>1 DEF AddRecord, recordVars
  <2>2. r \in AbsRecord
    BY <1>0, <2>1, SecureLogAssumption DEF AbsRecord
  <2> HIDE DEF r
  <2> QED
    BY <1>0, <2>1, <2>2, AbsAppend
<1>2. CASE EmitPhysicalRecord
  <2>1. /\ phase \in {"write", "emit"} /\ phase' \in {"write", "emit"}
        /\ got' = got /\ written' = written
        /\ acked' = acked \/ acked' = Len(written)
    BY <1>2 DEF EmitPhysicalRecord, Flush, recordVars
  <2> QED
    BY <1>0, <2>1, AbsAcknowledge, AbsStutter
<1>3. CASE WriteBuffer
  <2>1. /\ phase = "write" /\ phase' = "write" /\ got' = got
        /\ written' = written /\ acked' = Len(written)
    BY <1>3 DEF WriteBuffer, recordVars
  <2> QED
    BY <1>0, <2>1, AbsAcknowledge
<1>4. CASE Crash
  <2>1. /\ phase \in {"write", "emit"} /\ phase' = "read" /\ got' = got
        /\ written' = written /\ acked' = acked
    BY <1>4 DEF Crash, recordVars
  <2>2. AbsMode' = "read" /\ AbsLog' = SubSeq(written', 1, Complete')
    BY <2>1 DEF AbsMode, AbsLog
  <2>3. acked' <= Complete' /\ Complete' <= Len(written')
    BY <2>1 DEF Counts
  <2>4. Complete' \in Nat /\ acked \in Nat
    <3>1. IsFiniteSet(1 .. Len(frags)) /\ DOMAIN frags = 1 .. Len(frags)
      BY <1>0, FragDomain, FS_Interval
    <3>2. frags' = frags
      BY <1>4 DEF Crash
    <3>3. IsFiniteSet({i \in DOMAIN frags :
                         /\ frags[i].type \in {"full", "last"}
                         /\ EndOf(frags[i]) <= size'})
      BY <3>1, FS_Subset
    <3>4. Complete' \in Nat
      BY <3>2, <3>3, FS_CardinalityType DEF Complete, EndOf
    <3> QED
      BY <1>0, <3>4 DEF LInv, TypeOK
  <2>5. Complete' \in acked .. Len(AbsLog)
    BY <1>0, <2>1, <2>3, <2>4
  <2> QED
    BY <1>0, <2>1, <2>2, <2>5, AbsCrash
<1> QED
  BY <1>1, <1>2, <1>3, <1>4 DEF WriterStep

\* The steps of the reader.
LEMMA ReaderRefines ==
  ASSUME RIInv, RIInv', Counts, Counts', ReaderStep
  PROVE  [Abstract!Next]_Abstract!vars
<1>1. /\ phase = "read" /\ written' = written /\ acked' = acked
      /\ frags' = frags /\ size' = size
  BY DEF ReaderStep, ReadMore, ReadError, EndOfFile, ReadPhysicalRecord,
         LogDigestFail, fileVars
<1>2. Complete' = Complete
  BY <1>1 DEF Complete, EndOf
<1>3. AbsMode = "read" /\ AbsLog = SubSeq(written, 1, Complete)
  BY <1>1 DEF AbsMode, AbsLog
<1>4. phase' \in {"read", "done", "exited"}
  BY <1>1 DEF ReaderStep, ReadMore, ReadError, EndOfFile, ReadPhysicalRecord,
              LogDigestFail
<1>5. AbsLog' = AbsLog
  BY <1>1, <1>2, <1>3, <1>4 DEF AbsLog
<1>6. /\ written \in Seq(Record) /\ got \in Seq(Record)
      /\ Complete \in 0 .. Len(written) /\ Len(got) <= Complete
      /\ \A i \in 1 .. Len(got) : got[i] = written[i]
  <2>1. LInv
    BY DEF RIInv
  <2>2. Complete \in Nat /\ Complete <= Len(written) /\ Len(got) <= Complete
    BY <1>1, <2>1, CompleteCount DEF Counts
  <2>3. written \in Seq(Record) /\ got \in Seq(Record)
    BY <2>1 DEF LInv, TypeOK
  <2> QED
    BY <2>1, <2>2, <2>3 DEF LInv, ReadsPrefix
<1>7. /\ Len(AbsLog) = Complete
      /\ \A i \in 1 .. Complete : AbsLog[i] = written[i]
      /\ Len(got) = Complete => got = AbsLog
  <2>1. /\ Len(AbsLog) = Complete
        /\ \A i \in 1 .. Complete : AbsLog[i] = written[i]
    BY <1>3, <1>6, Prefix
  <2>2. Len(got) = Complete => got = AbsLog
    BY <1>3, <1>6, Prefix
  <2> QED
    BY <2>1, <2>2
<1>8. CASE ReadMore
  <2>1. AbsMode' = "read" /\ got' = got
    BY <1>8 DEF ReadMore, recordVars, AbsMode
  <2> QED
    BY <1>1, <1>3, <1>5, <2>1, AbsStutter
<1>9. CASE ReadError \/ LogDigestFail
  <2>1. AbsMode' = "failed" /\ got' = got
    BY <1>9 DEF ReadError, LogDigestFail, recordVars, AbsMode
  <2> QED
    BY <1>1, <1>3, <1>5, <2>1, AbsFail
<1>10. CASE EndOfFile
  <2>1. phase' = "done" /\ eof_' /\ got' = got
    BY <1>10 DEF EndOfFile
  <2>2. Len(got) = Complete
    BY <1>2, <2>1 DEF Counts
  <2>3. CASE corruption'
    BY <1>1, <1>3, <1>5, <2>1, <2>3, AbsFail DEF AbsMode
  <2>4. CASE ~corruption'
    BY <1>1, <1>3, <1>5, <1>7, <2>1, <2>2, <2>4, AbsEndOfLog DEF AbsMode
  <2> QED
    BY <2>3, <2>4
<1>11. CASE ReadPhysicalRecord
  <2>1. AbsMode' = "read"
    BY <1>11 DEF ReadPhysicalRecord, AbsMode
  <2>2. got' = got \/ \E x : got' = Append(got, x)
    <3>1. PICK i \in DOMAIN frags : ReadRecord(frags[i])
      BY <1>11 DEF ReadPhysicalRecord
    <3>2. frags[i].type \in Type
      BY FragAt DEF RIInv, Frag
    <3> QED
      BY <3>1, <3>2 DEF ReadRecord, Type
  <2>3. CASE got' = got
    BY <1>1, <1>3, <1>5, <2>1, <2>3, AbsStutter
  <2>4. ASSUME NEW x, got' = Append(got, x)
        PROVE  [Abstract!Next]_Abstract!vars
    <3>1. /\ Len(got') = Len(got) + 1 /\ got'[Len(got) + 1] = x
          /\ Len(got) \in Nat
      <4>1. got' \in Seq(Record)
        BY DEF RIInv, LInv, TypeOK
      <4> QED
        BY <1>6, <2>4, <4>1
    <3>2. Len(got) + 1 \in 1 .. Complete
      BY <1>2, <1>6, <3>1 DEF Counts
    <3>3. x = written[Len(got) + 1]
      <4>1. Len(got) + 1 \in 1 .. Len(got')
        BY <3>1
      <4>2. got'[Len(got) + 1] = written'[Len(got) + 1]
        BY <4>1 DEF RIInv, LInv, ReadsPrefix
      <4> QED
        BY <1>1, <3>1, <4>2
    <3>4. Len(got) < Len(AbsLog) /\ x = AbsLog[Len(got) + 1]
      BY <1>6, <1>7, <3>1, <3>2, <3>3
    <3> QED
      BY <1>1, <1>3, <1>5, <2>1, <2>4, <3>4, AbsRead
  <2> QED
    BY <2>2, <2>3, <2>4
<1> QED
  BY <1>8, <1>9, <1>10, <1>11 DEF ReaderStep

\* The log of blocks, fragments and MACs implements the log of records: an
\* acknowledged record survives the crash, and a reader returns the records that
\* are left, in order and all of them, or fails.
THEOREM LogRefines == Spec => ImplementsRecordLog
<1>1. Init => Abstract!Init
  BY DEF Init, Abstract!Init
<1>2. RIInv /\ RIInv' /\ Counts /\ Counts' /\ [Next]_vars
        => [Abstract!Next]_Abstract!vars
  <2> SUFFICES ASSUME RIInv, RIInv', Counts, Counts', [Next]_vars
               PROVE  [Abstract!Next]_Abstract!vars
    OBVIOUS
  <2>1. CASE UNCHANGED vars
    <3>1. /\ acked' = acked /\ got' = got /\ written' = written
          /\ frags' = frags /\ size' = size /\ phase' = phase
          /\ corruption' = corruption
      BY <2>1 DEF vars, fileVars, recordVars
    <3>2. Complete' = Complete
      BY <3>1 DEF Complete, EndOf
    <3>3. AbsMode' = AbsMode /\ AbsLog' = AbsLog
      BY <3>1, <3>2 DEF AbsMode, AbsLog
    <3> QED
      BY <3>1, <3>3, AbsStutter
  <2> QED
    BY <2>1, WriterRefines, ReaderRefines DEF Next, Finished
<1>3. Spec => []Counts
  BY CountsHold, ReaderInvariant, PTL
<1> QED
  BY <1>1, <1>2, <1>3, ReaderInvariant, PTL
     DEF Spec, ImplementsRecordLog, Abstract!Spec
=============================================================================
