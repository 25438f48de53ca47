-------------------------- MODULE WalSecretsProofs --------------------------
(***************************************************************************)
(* For every set of column families and every bound on writes, WALs and    *)
(* incarnations: no crash, flush, purge or replay loses an acknowledged    *)
(* batch, applies one twice or leaves it in some of its families only; the *)
(* current WAL stays; and the next open finds every secret unless a crash  *)
(* hit one of the windows.                                                 *)
(*                                                                         *)
(* The argument follows a batch.  WalInv says where it is: in exactly one  *)
(* WAL as long as that exists, and, family by family, in the memtable, in  *)
(* a sealed memtable or in the tables, on the right side of the log        *)
(* numbers each of these has (MemIn, SealedIn, TablesIn).  From that the   *)
(* disk alone is enough to rebuild the families, in every step a crash may *)
(* come in (DiskDurable), and the replay does so (Replayed, ReplayedFrom). *)
(* SecretsInv adds that the MANIFEST has the secret of every WAL that such *)
(* a recovery opens.                                                       *)
(*                                                                         *)
(* Largest and smallest WAL numbers come from the least number principle   *)
(* (WFMin of WellFoundedInduction).                                        *)
(***************************************************************************)
EXTENDS WalSecrets, TLAPS, WellFoundedInduction

-----------------------------------------------------------------------------
(* Numbers *)

\* A set of numbers that is not empty has a smallest.
LEMMA LeastNat ==
  ASSUME NEW S, S \subseteq Nat, S # {}
  PROVE  \E x \in S : \A y \in S : x <= y
  <1> DEFINE R == {ss \in Nat \X Nat : ss[1] < ss[2]}
  <1>1. IsWellFoundedOn(R, Nat)
    BY NatLessThanWellFounded DEF OpToRel
  <1>2. \A x, y \in Nat : x < y => <<x, y>> \in R
    OBVIOUS
  <1> HIDE DEF R
  <1>3. \E x \in S : \A y \in S : <<y, x>> \notin R
    BY <1>1, WFMin
  <1>4. PICK x \in S : \A y \in S : <<y, x>> \notin R
    BY <1>3
  <1>5. ASSUME NEW y \in S PROVE x <= y
    <2>0. x \in Nat /\ y \in Nat
      OBVIOUS
    <2>1. ~(y < x)
      BY <1>2, <1>4, <2>0
    <2>2. QED
      BY <2>1, <2>0
  <1>6. QED
    BY <1>4, <1>5

\* One that is bounded has a largest.
LEMMA MaxNat ==
  ASSUME NEW S, S \subseteq Nat, S # {}, NEW b \in Nat, \A x \in S : x <= b
  PROVE  Max(S) \in S /\ \A y \in S : y <= Max(S)
  <1> DEFINE U == {u \in Nat : \A x \in S : x <= u}
  <1>1. PICK u \in U : \A v \in U : u <= v
    <2>1. U \subseteq Nat /\ b \in U
      OBVIOUS
    <2>2. QED
      BY <2>1, LeastNat
  <1>2. u \in S
    <2> SUFFICES ASSUME u \notin S PROVE FALSE
      OBVIOUS
    <2>0. u \in Nat /\ \A x \in S : x <= u
      BY <1>1
    <2>1. ASSUME NEW x \in S PROVE u # 0 /\ x <= u - 1
      <3>1. x \in Nat /\ x # u /\ x <= u
        BY <2>0
      <3>2. QED
        BY <2>0, <3>1
    <2>2. u # 0
      BY <2>1
    <2>3. u - 1 \in U
      BY <2>0, <2>1, <2>2
    <2>4. u - 1 < u /\ u - 1 \in Nat
      BY <2>0, <2>2
    <2>5. QED
      BY <1>1, <2>0, <2>3, <2>4
  <1>3. \E x \in S : \A y \in S : x >= y
    BY <1>1, <1>2
  <1>4. QED
    BY <1>3 DEF Max

-----------------------------------------------------------------------------
(* The invariant *)

\* The batches that touch a family.
Of(c) == {b \in DOMAIN batch : c \in batch[b]}

\* The batch that is in the WAL and not in the memtables yet.
Pending == IF w_pc = "logged" THEN {Len(batch)} ELSE {}

\* There is a WAL, there are finitely many, and a batch is in one of them.
WalsSound ==
  /\ DOMAIN wal # {} /\ \E k \in Nat : \A n \in DOMAIN wal : n < k
  /\ \A n \in DOMAIN wal : wal[n].data \subseteq DOMAIN batch
  /\ \A n, k \in DOMAIN wal : \A b \in wal[n].data : b \in wal[k].data => n = k

\* What a family has is in tables of the MANIFEST, or in a WAL that recovery
\* replays for it.
Durable ==
  \A c \in CF : \A b \in Of(c) :
    \/ b \in m_tables[c]
    \/ \E n \in DOMAIN wal : m_log[c] <= n /\ b \in wal[n].data

\* What is in tables of the MANIFEST is in no WAL that recovery replays.
TablesPast ==
  \A c \in CF : \A b \in m_tables[c] :
    b \in Of(c) /\ \A n \in DOMAIN wal : b \in wal[n].data => n < m_log[c]

\* The log numbers of the MANIFEST were given out.
LogKnown ==
  \A c \in CF : m_log[c] <= m_next \/ \E n \in DOMAIN wal : m_log[c] <= n

\* What the flush that is in the MANIFEST and not installed yet adds.
Logged(c) == IF f_pc[c] = "logged" THEN Picked(c, mems_[c]) ELSE {}

\* The MANIFEST has the current version, and the flush that is on its way.
Tracked ==
  \A c \in CF :
    /\ m_tables[c] = tables[c] \cup Logged(c)
    /\ IF f_pc[c] = "logged" THEN m_log[c] = EditLog(c)
                             ELSE m_log[c] <= log_number_[c]

\* Reads find all batches of the family, and no other.
AllVisible == \A c \in CF : Visible(c) = Of(c) \ Pending

\* Where the batches of a family are: those of its tables in WALs below its log
\* number, those of the memtable in one from its log number and from the
\* number of every sealed memtable on, those of a sealed memtable in between.
TablesIn ==
  \A c \in CF : \A b \in tables[c] : \A n \in DOMAIN wal :
    b \in wal[n].data => n < m_log[c] /\ n < log_number_[c]

MemIn ==
  \A c \in CF : \A b \in mem[c] : \E n \in DOMAIN wal :
    /\ b \in wal[n].data /\ log_number_[c] <= n
    /\ \A i \in 1 .. Len(imm[c]) : imm[c][i].next <= n

SealedIn ==
  \A c \in CF : \A j \in 1 .. Len(imm[c]) :
   /\ log_number_[c] <= imm[c][j].next /\ imm[c][j].next <= logfile_number_
   /\ \A i \in 1 .. j - 1 : imm[c][i].next <= imm[c][j].next
   /\ \A b \in imm[c][j].data : \E n \in DOMAIN wal :
        /\ b \in wal[n].data /\ n < imm[c][j].next /\ log_number_[c] <= n
        /\ \A i \in 1 .. j - 1 : imm[c][i].next <= n

\* What a flush has picked, and when there is one.
Flushing ==
  \A c \in CF :
    /\ f_pc[c] \in {"picked", "logged"} => 1 <= mems_[c]
    /\ f_pc[c] \in {"none", "done"} => mems_[c] = 0
    /\ phase # "open" => f_pc[c] = "none" /\ imm[c] = <<>>

\* One group of edits is between the append and the installation.
OneLogged == \A c, d \in CF : f_pc[c] = "logged" /\ f_pc[d] = "logged" => c = d

\* What the leader does in which phase.
Leading ==
  /\ w_pc \in {"logged", "switch"} => phase = "open"
  /\ w_pc \in {"created", "recorded"} => phase \in {"open", "newlog"}
  /\ phase \notin {"open", "purge"} => log_delete_files = {}
  /\ w_pc = "logged" => batch # <<>>

\* Numbers in use were given out.
Numbers ==
  /\ \A n \in DOMAIN wal : n < next_file_number_
  /\ \A c \in CF : log_number_[c] <= next_file_number_
  /\ m_next <= next_file_number_
  /\ phase = "newlog" => \A c \in CF : m_log[c] <= m_next

\* The WAL being created is empty and past all others.
Fresh ==
  w_pc \in {"created", "recorded"} =>
    /\ new_log_number \in DOMAIN wal /\ wal[new_log_number].data = {}
    /\ \A n \in DOMAIN wal : n <= new_log_number
    /\ \A c \in CF : log_number_[c] <= new_log_number

\* The current WAL is alive, and no family is past it.
CurrentWal ==
  phase \in {"open", "purge"} =>
    /\ logfile_number_ \in DOMAIN wal
    /\ logfile_number_ \in alive_log_files_
    /\ \A c \in CF : log_number_[c] <= logfile_number_
    /\ log_empty_ => wal[logfile_number_].data = {}
    /\ \A n \in DOMAIN wal :
         \/ n <= logfile_number_
         \/ (w_pc \in {"created", "recorded"} /\ n = new_log_number)
    /\ w_pc \in {"created", "recorded"} => logfile_number_ < new_log_number
    /\ w_pc = "logged" => Len(batch) \in wal[logfile_number_].data
    /\ \A n \in log_delete_files : \A c \in CF : n < log_number_[c]

\* The invariant of an open database.
ServingInv ==
  /\ Tracked /\ AllVisible /\ TablesIn /\ MemIn /\ SealedIn /\ OneLogged
  /\ Numbers /\ Fresh /\ CurrentWal /\ version_edits = Nothing

\* No leader and no background work.
Quiet ==
  /\ w_pc = "idle" /\ log_delete_files = {}
  /\ \A c \in CF : f_pc[c] = "none" /\ imm[c] = <<>>

\* Memory before Recover.
DownInv ==
  /\ mem = Nothing /\ tables = Nothing /\ version_edits = Nothing
  /\ rest = {} /\ todo = {} /\ ~flushed

\* What was read from the WALs is in the memtables or in new tables ...
Replayed ==
  \A n \in DOMAIN wal \ todo : \A b \in wal[n].data \ rest : \A c \in CF :
    c \in batch[b] /\ log_number_[c] <= n => b \in mem[c] \cup version_edits[c]

\* ... and nothing else is.
ReplayedFrom ==
  \A c \in CF : \A b \in mem[c] \cup version_edits[c] :
    /\ b \in Of(c) /\ b \notin rest
    /\ \E n \in DOMAIN wal \ todo : b \in wal[n].data /\ log_number_[c] <= n

\* The invariant of the replay.
ReplayInv ==
  /\ tables = m_tables /\ log_number_ = m_log /\ m_next <= next_file_number_
  /\ todo \subseteq DOMAIN wal
  /\ rest # {} => /\ replaying \in DOMAIN wal \ todo
                  /\ rest \subseteq wal[replaying].data
  /\ (phase = "replay" => Replayed) /\ ReplayedFrom
  /\ \A c \in CF : mem[c] \cap version_edits[c] = {}
  /\ ~flushed => version_edits = Nothing

\* The client has its answer only for batches that are in the memtables.
AckedInv == acked \subseteq DOMAIN batch \ Pending

\* The invariant, phase by phase.
WalInv ==
  /\ WalsSound /\ Flushing /\ Leading /\ AckedInv
  /\ Serving => ServingInv
  /\ phase \in {"down", "replay", "exited"} =>
       Durable /\ TablesPast /\ LogKnown /\ Quiet
  /\ phase = "down" => DownInv
  /\ phase \in {"replay", "exited"} => ReplayInv

-----------------------------------------------------------------------------
(* Numbers of WALs *)

\* The smallest and the largest number of a WAL.
LEMMA MinNat ==
  ASSUME NEW S, S \subseteq Nat, S # {}
  PROVE  Min(S) \in Nat
  <1>1. \E x \in S : \A y \in S : x =< y
    BY LeastNat
  <1>2. QED
    BY <1>1 DEF Min

\* The newest WAL, and the number a recovery starts from, exist.
LEMMA MaxType ==
  ASSUME TypeOK, WalsSound
  PROVE  /\ Max(DOMAIN wal) \in DOMAIN wal /\ Max(DOMAIN wal) \in Nat
         /\ \A n \in DOMAIN wal : n <= Max(DOMAIN wal)
         /\ Max(DOMAIN wal \cup {m_next}) \in Nat
         /\ \A n \in DOMAIN wal \cup {m_next} : n <= Max(DOMAIN wal \cup {m_next})
  <1>1. /\ DOMAIN wal \subseteq Nat /\ m_next \in Nat
    BY DEF TypeOK, DiskType
  <1>2. PICK k \in Nat : \A n \in DOMAIN wal : n < k
    BY DEF WalsSound
  <1>3. /\ Max(DOMAIN wal) \in DOMAIN wal 
        /\ \A n \in DOMAIN wal : n <= Max(DOMAIN wal)
    <2>1. \A n \in DOMAIN wal : n <= k
      BY <1>1, <1>2
    <2>2. QED
      BY <1>1, <2>1, MaxNat DEF WalsSound
  <1>4. /\ Max(DOMAIN wal \cup {m_next}) \in DOMAIN wal \cup {m_next}
        /\ \A n \in DOMAIN wal \cup {m_next} : n <= Max(DOMAIN wal \cup {m_next})
    <2>1. k + m_next \in Nat /\ \A n \in DOMAIN wal \cup {m_next} : n <= k + m_next
      BY <1>1, <1>2
    <2>2. /\ DOMAIN wal \cup {m_next} \subseteq Nat
          /\ DOMAIN wal \cup {m_next} # {}
      BY <1>1
    <2>3. QED
      BY <2>1, <2>2, MaxNat
  <1>5. QED
    BY <1>1, <1>3, <1>4

\* What a flush has picked.
LEMMA PickedType ==
  ASSUME TypeOK, Flushing, NEW c \in CF, f_pc[c] \in {"picked", "logged"}
  PROVE  /\ mems_[c] \in 1 .. Len(imm[c])
         /\ Picked(c, mems_[c]) \in SUBSET Nat /\ EditLog(c) \in Nat
  <1>1. mems_[c] \in 1 .. Len(imm[c]) /\ imm[c] \in Seq(MemTable)
    BY DEF TypeOK, FlushType, FamilyType, Flushing
  <1>2. \A i \in 1 .. Len(imm[c]) : imm[c][i].data \in SUBSET Nat /\ imm[c][i].next \in Nat
    <2>1. \A i \in 1 .. Len(imm[c]) : imm[c][i] \in MemTable
      BY <1>1
    <2>2. QED
      BY <2>1 DEF MemTable
  <1>3. QED
    BY <1>1, <1>2 DEF Picked, EditLog

\* The end of a sequence.
LEMMA SubSeqTail ==
  ASSUME NEW S, NEW q \in Seq(S), NEW m \in 0 .. Len(q)
  PROVE  /\ Len(SubSeq(q, m + 1, Len(q))) = Len(q) - m
         /\ \A i \in 1 .. Len(q) - m : SubSeq(q, m + 1, Len(q))[i] = q[i + m]
  <1>1. Len(q) \in Nat /\ m \in Nat
    OBVIOUS
  <1>2. Len(SubSeq(q, m + 1, Len(q))) = Len(q) - m
    BY <1>1
  <1>3. ASSUME NEW i \in 1 .. Len(q) - m PROVE SubSeq(q, m + 1, Len(q))[i] = q[i + m]
    <2>1. i \in 1 .. (Len(q) - (m+1) + 1) /\ (m + 1) + i - 1 = i + m
    BY <1>1
    <2>2. QED 
    BY <1>1, <2>1
  <1>4. QED
    BY <1>2, <1>3

-----------------------------------------------------------------------------
(* What the steps do to the WALs *)

\* WriteToWAL adds a number to the current WAL.
LEMMA WriteEffect ==
  ASSUME TypeOK, WalInv, NEW s \in SUBSET CF \ {{}}, WriteToWAL(s)
  PROVE  /\ logfile_number_ \in DOMAIN wal
         /\ DOMAIN wal' = DOMAIN wal /\ wal' \in [DOMAIN wal' -> Wal]
         /\ \A k \in DOMAIN wal :
              /\ wal'[k].secret = wal[k].secret
              /\ wal'[k].data = IF k = logfile_number_
                                THEN wal[k].data \cup {Len(batch) + 1}
                                ELSE wal[k].data
  <1>1. \A k \in DOMAIN wal : wal[k] \in Wal
    BY DEF TypeOK, DiskType
  <1>2. logfile_number_ \in DOMAIN wal /\ Len(batch) + 1 \in Nat
    BY DEF WalInv, ServingInv, CurrentWal, Serving, TypeOK, HistoryType,
           WriteToWAL
  <1> DEFINE Wr(k) == IF k = logfile_number_
                      THEN [wal[k] EXCEPT !.data = @ \cup {Len(batch) + 1}]
                      ELSE wal[k]
  <1>3. wal' = [k \in DOMAIN wal |-> Wr(k)]
    BY <1>2 DEF WriteToWAL
  <1>4. ASSUME NEW k \in DOMAIN wal
        PROVE  /\ Wr(k) \in Wal
               /\ Wr(k).secret = wal[k].secret
               /\ Wr(k).data = IF k = logfile_number_
                               THEN wal[k].data \cup {Len(batch) + 1}
                               ELSE wal[k].data
    BY <1>1, <1>2 DEF Wal
  <1> HIDE DEF Wr
  <1>5. QED
    BY <1>2, <1>3, <1>4

\* CreateWAL adds an empty WAL.
LEMMA CreateEffect ==
  ASSUME TypeOK, CreateWAL
  PROVE  /\ DOMAIN wal' = DOMAIN wal \cup {next_file_number_}
         /\ wal' \in [DOMAIN wal' -> Wal]
         /\ wal'[next_file_number_] = [secret |-> boot, data |-> {}]
         /\ \A k \in DOMAIN wal : k # next_file_number_ => wal'[k] = wal[k]
  <1> DEFINE x == [secret |-> boot, data |-> {}]
  <1>1. \A k \in DOMAIN wal : wal[k] \in Wal
    BY DEF TypeOK, DiskType
  <1>2. x \in Wal
    BY DEF Wal, TypeOK, HistoryType
  <1>3. wal' = [k \in DOMAIN wal \cup {next_file_number_} |->
                  IF k = next_file_number_ THEN x ELSE wal[k]]
    BY DEF CreateWAL, Put
  <1> HIDE DEF x
  <1>4. /\ DOMAIN wal' = DOMAIN wal \cup {next_file_number_}
        /\ wal'[next_file_number_] = x
        /\ \A k \in DOMAIN wal : k # next_file_number_ => wal'[k] = wal[k]
    BY <1>3
  <1>5. wal' \in [DOMAIN wal' -> Wal]
    BY <1>1, <1>2, <1>3
  <1>6. QED
    BY <1>4, <1>5 DEF x

-----------------------------------------------------------------------------
(* Types *)

\* WriteToWAL keeps the types.
LEMMA WriteToWALType ==
  ASSUME TypeOK, WalInv, NEW s \in SUBSET CF \ {{}}, WriteToWAL(s)
  PROVE  TypeOK'
  <1> USE DEF TypeOK, WriteToWAL, families, versions_, flushes, replay
  <1>2. DiskType'
    <2>1. DOMAIN wal' \subseteq Nat /\ wal' \in [DOMAIN wal' -> Wal]
      BY WriteEffect DEF DiskType
    <2>2. QED
      BY <2>1 DEF DiskType
  <1>3. HistoryType'
    BY DEF HistoryType
  <1>4. FamilyType' /\ VersionType' /\ LeaderType' /\ FlushType' /\ ReplayType'
    BY DEF FamilyType, VersionType, LeaderType, FlushType, ReplayType
  <1>5. QED
    BY <1>2, <1>3, <1>4

\* InsertInto keeps the types.
LEMMA InsertIntoType ==
  ASSUME TypeOK, WalInv, InsertInto
  PROVE  TypeOK'
  <1> USE DEF TypeOK, InsertInto, disk, logState, versions_, flushes, replay
  <1>1. Len(batch) \in Nat
    BY DEF HistoryType
  <1>2. FamilyType'
    BY <1>1 DEF FamilyType
  <1>3. HistoryType'
    BY <1>1 DEF HistoryType
  <1>4. DiskType' /\ VersionType' /\ LeaderType' /\ FlushType' /\ ReplayType'
    BY DEF DiskType, VersionType, LeaderType, FlushType, ReplayType
  <1>5. QED
    BY <1>2, <1>3, <1>4

\* SwitchWAL keeps the types: the oldest WAL exists.
LEMMA SwitchWALType ==
  ASSUME TypeOK, WalInv, SwitchWAL
  PROVE  TypeOK'
  <1> USE DEF TypeOK, SwitchWAL, disk, families, logState, versions_, flushes,
              replay, history
  <1>1. Min(alive_log_files_) \in Nat
    <2>1. alive_log_files_ \subseteq Nat /\ alive_log_files_ # {}
      BY DEF WalInv, ServingInv, CurrentWal, Serving, VersionType
    <2>2. QED
      BY <2>1, MinNat
  <1>2. LeaderType'
    BY <1>1 DEF LeaderType
  <1>3. /\ DiskType' /\ FamilyType' /\ VersionType' /\ FlushType'
        /\ ReplayType' /\ HistoryType'
    BY DEF DiskType, FamilyType, VersionType, FlushType, ReplayType,
           HistoryType
  <1>4. QED
    BY <1>2, <1>3

\* ScheduleFlushes keeps the types.
LEMMA ScheduleFlushesType ==
  ASSUME TypeOK, WalInv, NEW c \in CF, ScheduleFlushes(c)
  PROVE  TypeOK'
  <1> USE DEF TypeOK, ScheduleFlushes, disk, families, logState, versions_,
              flushes, replay, history
  <1>1. /\ DiskType' /\ FamilyType' /\ VersionType' /\ LeaderType'
        /\ FlushType' /\ ReplayType' /\ HistoryType'
    BY DEF DiskType, FamilyType, VersionType, LeaderType, FlushType,
           ReplayType, HistoryType
  <1>2. QED
    BY <1>1

\* CreateWAL keeps the types.
LEMMA CreateWALType ==
  ASSUME TypeOK, WalInv, CreateWAL
  PROVE  TypeOK'
  <1> USE DEF TypeOK, CreateWAL, families, logState, flushes, replay, history
  <1>1. DiskType'
    <2>1. DOMAIN wal' \subseteq Nat /\ wal' \in [DOMAIN wal' -> Wal]
      BY CreateEffect DEF DiskType, VersionType
    <2>2. QED
      BY <2>1 DEF DiskType
  <1>2. VersionType' /\ LeaderType'
    BY DEF VersionType, LeaderType
  <1>3. FamilyType' /\ FlushType' /\ ReplayType' /\ HistoryType'
    BY DEF FamilyType, FlushType, ReplayType, HistoryType
  <1>4. QED
    BY <1>1, <1>2, <1>3

\* AddLogSecret keeps the types.
LEMMA AddLogSecretType ==
  ASSUME TypeOK, WalInv, AddLogSecret
  PROVE  TypeOK'
  <1> USE DEF TypeOK, AddLogSecret, families, logState, flushes, replay,
              history
  <1>1. PICK new \in BOOLEAN :
          LogAndApply(new, Nothing, NoSecrets,
                      [n \in {new_log_number} |-> wal[n].secret])
    OBVIOUS
  <1>2. new_log_number \in DOMAIN wal
    BY DEF WalInv, ServingInv, Fresh, Serving, Leading
  <1>3. [n \in {new_log_number} |-> wal[n].secret] \in [{new_log_number} -> Nat]
    BY <1>2 DEF DiskType, Wal
  <1>4. DiskType'
    <2>1. /\ m_tables' \in [CF -> SUBSET Nat] /\ m_log' \in [CF -> Nat]
          /\ DOMAIN m_secret' \subseteq Nat
          /\ m_secret' \in [DOMAIN m_secret' -> Nat]
      BY <1>1, <1>2, <1>3
         DEF LogAndApply, DiskType, FamilyType, Nothing, NoSecrets
    <2>2. QED
      BY <2>1 DEF DiskType, VersionType
  <1>5. VersionType' /\ LeaderType'
    BY <1>1 DEF VersionType, LeaderType, LogAndApply
  <1>6. FamilyType' /\ FlushType' /\ ReplayType' /\ HistoryType'
    BY DEF FamilyType, FlushType, ReplayType, HistoryType
  <1>7. QED
    BY <1>4, <1>5, <1>6

\* AddLogSecretFails keeps the types.
LEMMA AddLogSecretFailsType ==
  ASSUME TypeOK, WalInv, AddLogSecretFails
  PROVE  TypeOK'
  <1> USE DEF TypeOK, AddLogSecretFails, families, logState, flushes, replay,
              history
  <1>1. new_log_number \in DOMAIN wal
    BY DEF WalInv, ServingInv, Fresh, Serving, Leading
  <1>2. wal[new_log_number].secret \in Nat /\ new_log_number \in Nat
    BY <1>1 DEF DiskType, Wal
  <1>3. /\ DOMAIN m_secret' \subseteq Nat
        /\ m_secret' \in [DOMAIN m_secret' -> Nat]
    BY <1>2 DEF DiskType, Put
  <1>4. DiskType'
    BY <1>3 DEF DiskType, VersionType
  <1>5. /\ FamilyType' /\ VersionType' /\ LeaderType'
        /\ FlushType' /\ ReplayType' /\ HistoryType'
    BY DEF FamilyType, VersionType, LeaderType, FlushType, ReplayType,
           HistoryType
  <1>6. QED
    BY <1>4, <1>5

\* SwitchMemtable keeps the types.
LEMMA SwitchMemtableType ==
  ASSUME TypeOK, WalInv, NEW c \in CF, SwitchMemtable(c)
  PROVE  TypeOK'
  <1> USE DEF TypeOK, SwitchMemtable, disk, logState, versions_, flushes,
              replay, history
  <1>1. VersionType'
    BY DEF VersionType, LeaderType
  <1>2. FamilyType'
    <2>1. [data |-> mem[c], next |-> logfile_number_'] \in MemTable
      BY <1>1 DEF FamilyType, VersionType, MemTable
    <2>2. imm' \in [CF -> Seq(MemTable)]
      BY <2>1 DEF FamilyType
    <2>3. log_number_' \in [CF -> Nat]
      BY DEF FamilyType, LeaderType
    <2>4. QED
      BY <2>2, <2>3 DEF FamilyType
  <1>3. FlushType'
    <2>1. \A d \in CF : Len(imm'[d]) >= Len(imm[d]) /\ Len(imm[d]) \in Nat
      BY DEF FamilyType
    <2>2. QED
      BY <2>1 DEF FlushType, FamilyType
  <1>4. DiskType' /\ LeaderType' /\ ReplayType' /\ HistoryType'
    BY DEF DiskType, LeaderType, ReplayType, HistoryType
  <1>5. QED
    BY <1>1, <1>2, <1>3, <1>4

\* PickMemTable keeps the types.
LEMMA PickMemTableType ==
  ASSUME TypeOK, WalInv, NEW c \in CF, PickMemTable(c)
  PROVE  TypeOK'
  <1> USE DEF TypeOK, PickMemTable, disk, families, logState, versions_,
              leader, replay, history
  <1>1. FlushType'
    BY DEF FlushType, FamilyType
  <1>2. /\ DiskType' /\ FamilyType' /\ VersionType' /\ LeaderType'
        /\ ReplayType' /\ HistoryType'
    BY DEF DiskType, FamilyType, VersionType, LeaderType, ReplayType,
           HistoryType
  <1>3. QED
    BY <1>1, <1>2

\* LogFlush keeps the types.
LEMMA LogFlushType ==
  ASSUME TypeOK, WalInv, NEW c \in CF, LogFlush(c)
  PROVE  TypeOK'
  <1> USE DEF TypeOK, LogFlush, families, logState, leader, replay, history
  <1>1. PICK new \in BOOLEAN :
          LogAndApply(new, [Nothing EXCEPT ![c] = Picked(c, mems_[c])],
                      [d \in {c} |-> EditLog(c)], NoSecrets)
    OBVIOUS
  <1>2. Picked(c, mems_[c]) \in SUBSET Nat /\ EditLog(c) \in Nat
    BY PickedType DEF WalInv
  <1>3. DiskType'
    <2>1. m_tables' \in [CF -> SUBSET Nat] /\ m_log' \in [CF -> Nat]
      BY <1>1, <1>2 DEF LogAndApply, DiskType, FamilyType, Nothing
    <2>2. /\ DOMAIN m_secret' \subseteq Nat
          /\ m_secret' \in [DOMAIN m_secret' -> Nat]
      BY <1>1 DEF LogAndApply, DiskType, NoSecrets
    <2>3. m_next' \in Nat
      BY DEF DiskType, VersionType
    <2>4. QED
      BY <2>1, <2>2, <2>3 DEF DiskType
  <1>4. VersionType'
    BY <1>1 DEF VersionType, LogAndApply
  <1>5. FamilyType' /\ LeaderType' /\ FlushType' /\ ReplayType' /\ HistoryType'
    BY DEF FamilyType, LeaderType, FlushType, ReplayType, HistoryType
  <1>6. QED
    BY <1>3, <1>4, <1>5

\* InstallFlush keeps the types.
LEMMA InstallFlushType ==
  ASSUME TypeOK, WalInv, NEW c \in CF, InstallFlush(c)
  PROVE  TypeOK'
  <1> USE DEF TypeOK, InstallFlush, disk, logState, versions_, leader, replay,
              history
  <1>1. Picked(c, mems_[c]) \in SUBSET Nat /\ EditLog(c) \in Nat
    BY PickedType DEF WalInv
  <1>2. SubSeq(imm[c], mems_[c] + 1, Len(imm[c])) \in Seq(MemTable)
    BY DEF FamilyType, FlushType
  <1>3. FamilyType'
    BY <1>1, <1>2 DEF FamilyType
  <1>4. FlushType'
    <2>1. Len(SubSeq(imm[c], mems_[c] + 1, Len(imm[c]))) >= 0
      BY <1>2
    <2>2. QED
      BY <2>1 DEF FlushType, FamilyType
  <1>5. DiskType' /\ VersionType' /\ LeaderType' /\ ReplayType' /\ HistoryType'
    BY DEF DiskType, VersionType, LeaderType, ReplayType, HistoryType
  <1>6. QED
    BY <1>3, <1>4, <1>5

\* FindObsoleteFiles keeps the types.
LEMMA FindObsoleteFilesType ==
  ASSUME TypeOK, WalInv, NEW c \in CF, FindObsoleteFiles(c)
  PROVE  TypeOK'
  <1> USE DEF TypeOK, FindObsoleteFiles, disk, families, versions_, leader,
              replay, history
  <1>1. VersionType'
    BY DEF VersionType
  <1>2. FlushType'
    BY DEF FlushType, VersionType
  <1>3. DiskType' /\ FamilyType' /\ LeaderType' /\ ReplayType' /\ HistoryType'
    BY DEF DiskType, FamilyType, LeaderType, ReplayType, HistoryType
  <1>4. QED
    BY <1>1, <1>2, <1>3

\* DeleteWal keeps the types.
LEMMA DeleteWalType ==
  ASSUME TypeOK, WalInv, NEW n \in DOMAIN wal, DeleteWal(n)
  PROVE  TypeOK'
  <1> USE DEF TypeOK, DeleteWal, families, logState, versions_, leader, replay,
              history
  <1>1. DiskType'
    BY DEF DiskType, Restrict
  <1>2. FlushType'
    BY DEF FlushType
  <1>3. /\ FamilyType' /\ VersionType' /\ LeaderType' /\ ReplayType'
        /\ HistoryType'
    BY DEF FamilyType, VersionType, LeaderType, ReplayType, HistoryType
  <1>4. QED
    BY <1>1, <1>2, <1>3

\* A crash keeps the types.
LEMMA CrashType ==
  ASSUME TypeOK, WalInv, Crash
  PROVE  TypeOK'
  <1> USE DEF TypeOK, Crash, ForgetMemory, disk
  <1>1. FamilyType'
    BY DEF FamilyType, Nothing
  <1>2. VersionType'
    BY DEF VersionType, NoSecrets
  <1>3. FlushType'
    <2>1. \A c \in CF : mems_'[c] = 0 /\ Len(imm'[c]) = 0
      OBVIOUS
    <2>2. QED
      BY <2>1 DEF FlushType
  <1>4. ReplayType'
    BY DEF ReplayType, Nothing
  <1>5. DiskType' /\ LeaderType' /\ HistoryType'
    BY DEF DiskType, LeaderType, HistoryType
  <1>6. QED
    BY <1>1, <1>2, <1>3, <1>4, <1>5

\* Recover keeps the types: there is a largest number.
LEMMA RecoverType ==
  ASSUME TypeOK, WalInv, Recover
  PROVE  TypeOK'
  <1> USE DEF TypeOK, Recover, logState, leader, flushes, replay, history
  <1>1. Max(DOMAIN wal \cup {m_next}) \in Nat
    BY MaxType DEF WalInv
  <1>2. DiskType'
    BY <1>1 DEF DiskType, NoSecrets
  <1>3. VersionType'
    BY <1>1 DEF VersionType, DiskType
  <1>4. FamilyType'
    BY DEF FamilyType, DiskType
  <1>5. ReplayType'
    BY DEF ReplayType, DiskType
  <1>6. LeaderType' /\ FlushType' /\ HistoryType'
    BY DEF LeaderType, FlushType, HistoryType
  <1>7. QED
    BY <1>2, <1>3, <1>4, <1>5, <1>6

\* OpenLog keeps the types.
LEMMA OpenLogType ==
  ASSUME TypeOK, WalInv, NEW n \in DOMAIN wal, OpenLog(n)
  PROVE  TypeOK'
  <1> USE DEF TypeOK, OpenLog, disk, families, logState, leader, flushes,
              replay, history
  <1>1. n \in Nat /\ wal[n].data \in SUBSET Nat
    BY DEF DiskType, Wal
  <1>2. VersionType'
    BY <1>1 DEF VersionType, MarkFileNumberUsed
  <1>3. ReplayType'
    BY <1>1 DEF ReplayType
  <1>4. DiskType' /\ FamilyType' /\ LeaderType' /\ FlushType' /\ HistoryType'
    BY DEF DiskType, FamilyType, LeaderType, FlushType, HistoryType
  <1>5. QED
    BY <1>2, <1>3, <1>4

\* ReplayRecord keeps the types.
LEMMA ReplayRecordType ==
  ASSUME TypeOK, WalInv, NEW full \in SUBSET CF, ReplayRecord(full)
  PROVE  TypeOK'
  <1> USE DEF TypeOK, ReplayRecord, disk, logState, versions_, leader, flushes,
              replay, history
  <1>1. FamilyType' /\ ReplayType'
    BY DEF FamilyType, ReplayType
  <1>2. DiskType' /\ VersionType' /\ LeaderType' /\ FlushType' /\ HistoryType'
    BY DEF DiskType, VersionType, LeaderType, FlushType, HistoryType
  <1>3. QED
    BY <1>1, <1>2

\* FinishRecovery keeps the types.
LEMMA FinishRecoveryType ==
  ASSUME TypeOK, WalInv, FinishRecovery
  PROVE  TypeOK'
  <1> USE DEF TypeOK, FinishRecovery, leader, flushes, replay, history
  <1>1. Max(DOMAIN wal) \in Nat
    BY MaxType DEF WalInv
  <1>2. FamilyType'
    BY <1>1 DEF FamilyType, ReplayType, RecoveredLog
  <1>3. VersionType'
    <2>1. next_file_number_' \in Nat
      BY <1>1 DEF VersionType, MarkFileNumberUsed
    <2>2. alive_log_files_' \subseteq Nat /\ log_empty_' \in BOOLEAN
      BY DEF VersionType, DiskType
    <2>3. QED
      BY <2>1, <2>2 DEF VersionType, NoSecrets
  <1>4. DiskType'
    BY <1>2, <1>3 DEF FamilyType, VersionType, DiskType, NoSecrets
  <1>5. ReplayType'
    BY DEF ReplayType, Nothing
  <1>6. LeaderType' /\ FlushType' /\ HistoryType'
    BY DEF LeaderType, FlushType, HistoryType
  <1>7. QED
    BY <1>2, <1>3, <1>4, <1>5, <1>6

\* OpenDatabase keeps the types.
LEMMA OpenDatabaseType ==
  ASSUME TypeOK, WalInv, OpenDatabase
  PROVE  TypeOK'
  <1> USE DEF TypeOK, OpenDatabase, disk, families, versions_, replay, history
  <1>1. VersionType'
    BY DEF VersionType, LeaderType
  <1>2. FlushType'
    BY DEF FlushType, DiskType
  <1>3. DiskType' /\ FamilyType' /\ LeaderType' /\ ReplayType' /\ HistoryType'
    BY DEF DiskType, FamilyType, LeaderType, ReplayType, HistoryType
  <1>4. QED
    BY <1>1, <1>2, <1>3

\* OpenReturns keeps the types.
LEMMA OpenReturnsType ==
  ASSUME TypeOK, WalInv, OpenReturns
  PROVE  TypeOK'
  <1> USE DEF TypeOK, OpenReturns, disk, families, logState, versions_, leader,
              flushes, replay, history
  <1>1. /\ DiskType' /\ FamilyType' /\ VersionType' /\ LeaderType'
        /\ FlushType' /\ ReplayType' /\ HistoryType'
    BY DEF DiskType, FamilyType, VersionType, LeaderType, FlushType,
           ReplayType, HistoryType
  <1>2. QED
    BY <1>1

-----------------------------------------------------------------------------
(* Steps of an open database *)

\* While the database is open, these parts are the invariant.
LEMMA ServingStep ==
  ASSUME Serving', WalsSound', Flushing', Leading', AckedInv', ServingInv'
  PROVE  WalInv'
  BY DEF WalInv, Serving

\* WriteToWAL keeps the invariant.
LEMMA WriteToWALKeeps ==
  ASSUME TypeOK, WalInv, TypeOK', NEW s \in SUBSET CF \ {{}}, WriteToWAL(s)
  PROVE  WalInv'
  <1>1. /\ Serving /\ Serving' /\ WalsSound /\ Flushing /\ Leading /\ AckedInv
        /\ ServingInv
    BY DEF WalInv, Serving, Leading, WriteToWAL, Flushing, TypeOK, HistoryType,
           LeaderType, FlushType
  <1>2. /\ Len(batch) \in Nat /\ Len(batch') = Len(batch) + 1
        /\ DOMAIN batch' = DOMAIN batch \cup {Len(batch) + 1}
        /\ Len(batch) + 1 \notin DOMAIN batch
        /\ batch'[Len(batch) + 1] = s
        /\ \A b \in DOMAIN batch : batch'[b] = batch[b]
    BY DEF WriteToWAL, TypeOK, HistoryType
  <1>3. /\ DOMAIN wal' = DOMAIN wal /\ logfile_number_ \in DOMAIN wal
        /\ \A k \in DOMAIN wal :
             wal'[k].data = IF k = logfile_number_
                            THEN wal[k].data \cup {Len(batch) + 1}
                            ELSE wal[k].data
    BY WriteEffect
  <1>4. Flushing' /\ Tracked' /\ OneLogged' /\ (version_edits = Nothing)'
    BY <1>1
       DEF ServingInv, WriteToWAL, families, versions_, flushes, replay,
           Flushing, Tracked, Logged, Picked, EditLog, OneLogged
  <1>5. WalsSound'
    BY <1>1
       DEF ServingInv, WriteToWAL, families, versions_, flushes, replay,
           WalsSound
  <1>6. Leading'
    BY <1>1
       DEF ServingInv, WriteToWAL, families, versions_, flushes, replay,
           Leading
  <1>7. AckedInv'
    BY <1>1
       DEF ServingInv, WriteToWAL, families, versions_, flushes, replay,
           AckedInv, Pending
  <1>8. AllVisible'
    <2>1. \A c \in CF : Visible(c)' = Visible(c)
      BY DEF Visible, Picked, WriteToWAL, families
    <2>2. Pending = {} /\ Pending' = {Len(batch) + 1}
      BY <1>2 DEF Pending, WriteToWAL
    <2>3. \A c \in CF : Of(c)' = IF c \in s THEN Of(c) \cup {Len(batch) + 1} ELSE Of(c)
      BY <1>2 DEF Of
    <2>4. \A c \in CF : Len(batch) + 1 \notin Of(c)
      BY <1>2 DEF Of
    <2>5. QED
      BY <1>1, <2>1, <2>2, <2>3, <2>4 DEF ServingInv, AllVisible
  <1>9. TablesIn'
    <2> SUFFICES ASSUME NEW c \in CF, NEW b \in tables[c], NEW n \in DOMAIN wal,
                        b \in wal'[n].data
                 PROVE  n < m_log[c] /\ n < log_number_[c]
      BY <1>3 DEF TablesIn, WriteToWAL, families
    <2>1. b \in DOMAIN batch
      BY <1>1 DEF ServingInv, AllVisible, Visible, Of
    <2>2. b \in wal[n].data
      BY <1>2, <1>3, <2>1
    <2>3. QED
      BY <1>1, <2>2 DEF ServingInv, TablesIn
  <1>10. MemIn'
    BY <1>1
       DEF ServingInv, WriteToWAL, families, versions_, flushes, replay, MemIn
  <1>11. SealedIn'
    BY <1>1
       DEF ServingInv, WriteToWAL, families, versions_, flushes, replay,
           SealedIn
  <1>12. Numbers'
    BY <1>1
       DEF ServingInv, WriteToWAL, families, versions_, flushes, replay,
           Numbers
  <1>13. Fresh'
    BY <1>1
       DEF ServingInv, WriteToWAL, families, versions_, flushes, replay, Fresh
  <1>14. CurrentWal'
    <2>1. Len(batch') \in wal'[logfile_number_].data
      BY <1>2, <1>3
    <2>2. QED
      BY <1>1, <1>3, <2>1
         DEF ServingInv, CurrentWal, WriteToWAL, families, flushes
  <1>15. QED
    BY <1>1, <1>4, <1>5, <1>6, <1>7, <1>8, <1>9, <1>10, <1>11, <1>12, <1>13,
       <1>14, ServingStep
       DEF ServingInv

\* InsertInto keeps the invariant.
LEMMA InsertIntoKeeps ==
  ASSUME TypeOK, WalInv, TypeOK', InsertInto
  PROVE  WalInv'
  <1>1. /\ Serving /\ Serving' /\ WalsSound /\ Flushing /\ Leading /\ AckedInv
        /\ ServingInv
    BY DEF WalInv, Serving, Leading, InsertInto, Flushing, TypeOK, HistoryType,
           LeaderType, FlushType
  <1>2. /\ Pending = {Len(batch)} /\ Pending' = {}
        /\ Len(batch) \in DOMAIN batch
        /\ batch' = batch /\ phase = "open"
    BY <1>1 DEF Pending, InsertInto, Leading, TypeOK, HistoryType
  <1>3. /\ \A c \in CF : mem'[c] = IF c \in batch[Len(batch)] THEN mem[c] \cup {Len(batch)}
                                   ELSE mem[c]
        /\ UNCHANGED <<wal, imm, tables, log_number_, logfile_number_>>
    BY DEF InsertInto, disk, logState
  <1>4. /\ WalsSound' /\ Flushing' /\ Tracked' /\ TablesIn' /\ SealedIn'
        /\ OneLogged' /\ Numbers' /\ (version_edits = Nothing)'
    BY <1>1
       DEF ServingInv, InsertInto, disk, logState, versions_, flushes, replay,
           WalsSound, Flushing, Tracked, Logged, Picked, EditLog, TablesIn,
           SealedIn, OneLogged, Numbers
  <1>5. Leading'
    BY <1>1
       DEF ServingInv, InsertInto, disk, logState, versions_, flushes, replay,
           Leading
  <1>6. AckedInv'
    BY <1>1, <1>2 DEF AckedInv, InsertInto
  <1>7. AllVisible'
    <2>1. ASSUME NEW c \in CF PROVE Visible(c)' = Of(c)'
      <3>1. Visible(c)' = IF c \in batch[Len(batch)] THEN Visible(c) \cup {Len(batch)}
                                                     ELSE Visible(c)
        BY <1>3 DEF Visible, Picked
      <3>2. Of(c)' = Of(c) /\ (Len(batch) \in Of(c) <=> c \in batch[Len(batch)])
        BY <1>2 DEF Of
      <3>3. Visible(c) = Of(c) \ {Len(batch)}
        BY <1>1, <1>2 DEF ServingInv, AllVisible
      <3>4. QED
        BY <3>1, <3>2, <3>3
    <2>2. QED
      BY <1>2, <2>1 DEF AllVisible
  <1>8. MemIn'
    <2> SUFFICES ASSUME NEW c \in CF, NEW b \in mem'[c]
                 PROVE  \E n \in DOMAIN wal :
                          /\ b \in wal[n].data /\ log_number_[c] <= n
                          /\ \A i \in 1 .. Len(imm[c]) : imm[c][i].next <= n
      BY <1>3 DEF MemIn
    <2>1. CASE b \in mem[c]
      BY <1>1, <2>1 DEF ServingInv, MemIn
    <2>2. CASE b = Len(batch)
      <3>1. /\ logfile_number_ \in DOMAIN wal
            /\ Len(batch) \in wal[logfile_number_].data
            /\ log_number_[c] <= logfile_number_
        BY <1>1, <1>2 DEF ServingInv, CurrentWal, InsertInto
      <3>2. \A i \in 1 .. Len(imm[c]) : imm[c][i].next <= logfile_number_
        BY <1>1 DEF ServingInv, SealedIn
      <3>3. QED
        BY <2>2, <3>1, <3>2
    <2>3. QED
      BY <1>3, <2>1, <2>2
  <1>9. Fresh'
    BY <1>1
       DEF ServingInv, InsertInto, disk, logState, versions_, flushes, replay,
           Fresh
  <1>10. CurrentWal'
    BY <1>1
       DEF ServingInv, InsertInto, disk, logState, versions_, flushes, replay,
           CurrentWal
  <1>11. QED
    BY <1>1, <1>4, <1>5, <1>6, <1>7, <1>8, <1>9, <1>10, ServingStep
       DEF ServingInv

\* SwitchWAL keeps the invariant.
LEMMA SwitchWALKeeps ==
  ASSUME TypeOK, WalInv, TypeOK', SwitchWAL
  PROVE  WalInv'
  <1>1. /\ Serving /\ Serving' /\ WalsSound /\ Flushing /\ Leading /\ AckedInv
        /\ ServingInv
    BY DEF WalInv, Serving, Leading, SwitchWAL, Flushing, TypeOK, HistoryType,
           LeaderType, FlushType
  <1>2. /\ WalsSound' /\ Flushing' /\ Tracked' /\ TablesIn' /\ MemIn'
        /\ SealedIn' /\ OneLogged' /\ Numbers' /\ (version_edits = Nothing)'
    BY <1>1
       DEF ServingInv, SwitchWAL, disk, families, logState, versions_, flushes,
           replay, history, WalsSound, Flushing, Tracked, Logged, Picked,
           EditLog, TablesIn, MemIn, SealedIn, OneLogged, Numbers
  <1>3. Leading'
    BY <1>1
       DEF ServingInv, SwitchWAL, disk, families, logState, versions_, flushes,
           replay, history, Leading
  <1>4. AckedInv'
    BY <1>1
       DEF ServingInv, SwitchWAL, disk, families, logState, versions_, flushes,
           replay, history, AckedInv, Pending
  <1>5. AllVisible'
    BY <1>1
       DEF ServingInv, SwitchWAL, disk, families, logState, versions_, flushes,
           replay, history, AllVisible, Visible, Picked, Of, Pending
  <1>6. Fresh'
    BY <1>1
       DEF ServingInv, SwitchWAL, disk, families, logState, versions_, flushes,
           replay, history, Fresh
  <1>7. CurrentWal'
    BY <1>1
       DEF ServingInv, SwitchWAL, disk, families, logState, versions_, flushes,
           replay, history, CurrentWal
  <1>8. QED
    BY <1>1, <1>2, <1>3, <1>4, <1>5, <1>6, <1>7, ServingStep DEF ServingInv

\* ScheduleFlushes keeps the invariant.
LEMMA ScheduleFlushesKeeps ==
  ASSUME TypeOK, WalInv, TypeOK', NEW c \in CF, ScheduleFlushes(c)
  PROVE  WalInv'
  <1>1. /\ Serving /\ Serving' /\ WalsSound /\ Flushing /\ Leading /\ AckedInv
        /\ ServingInv
    BY DEF WalInv, Serving, Leading, ScheduleFlushes, Flushing, TypeOK,
           HistoryType, LeaderType, FlushType
  <1>2. /\ WalsSound' /\ Flushing' /\ Tracked' /\ TablesIn' /\ MemIn'
        /\ SealedIn' /\ OneLogged' /\ Numbers' /\ (version_edits = Nothing)'
    BY <1>1
       DEF ServingInv, ScheduleFlushes, disk, families, logState, versions_,
           flushes, replay, history, WalsSound, Flushing, Tracked, Logged,
           Picked, EditLog, TablesIn, MemIn, SealedIn, OneLogged, Numbers
  <1>3. Leading'
    BY <1>1
       DEF ServingInv, ScheduleFlushes, disk, families, logState, versions_,
           flushes, replay, history, Leading
  <1>4. AckedInv'
    BY <1>1
       DEF ServingInv, ScheduleFlushes, disk, families, logState, versions_,
           flushes, replay, history, AckedInv, Pending
  <1>5. AllVisible'
    BY <1>1
       DEF ServingInv, ScheduleFlushes, disk, families, logState, versions_,
           flushes, replay, history, AllVisible, Visible, Picked, Of, Pending
  <1>6. Fresh'
    BY <1>1
       DEF ServingInv, ScheduleFlushes, disk, families, logState, versions_,
           flushes, replay, history, Fresh
  <1>7. CurrentWal'
    BY <1>1
       DEF ServingInv, ScheduleFlushes, disk, families, logState, versions_,
           flushes, replay, history, CurrentWal
  <1>8. QED
    BY <1>1, <1>2, <1>3, <1>4, <1>5, <1>6, <1>7, ServingStep DEF ServingInv

\* CreateWAL keeps the invariant.
LEMMA CreateWALKeeps ==
  ASSUME TypeOK, WalInv, TypeOK', CreateWAL
  PROVE  WalInv'
  <1>1. /\ Serving /\ Serving' /\ WalsSound /\ Flushing /\ Leading /\ AckedInv
        /\ ServingInv
    BY DEF WalInv, Serving, Leading, CreateWAL, Flushing, TypeOK, HistoryType,
           LeaderType, FlushType
  <1>2. /\ next_file_number_ \in Nat /\ \A k \in DOMAIN wal : k < next_file_number_ /\ k \in Nat
        /\ \A c \in CF : log_number_[c] <= next_file_number_ /\ log_number_[c] \in Nat
    BY <1>1 DEF ServingInv, Numbers, TypeOK, VersionType, DiskType, FamilyType
  <1>3. /\ DOMAIN wal' = DOMAIN wal \cup {next_file_number_}
        /\ wal'[next_file_number_].data = {}
        /\ \A k \in DOMAIN wal : wal'[k] = wal[k]
    BY <1>2, CreateEffect
  <1>4. UNCHANGED <<m_log, m_next, mem, imm, tables, log_number_,
                    logfile_number_, phase, batch>>
    BY DEF CreateWAL, families, logState, history
  <1>5. Flushing' /\ Tracked' /\ OneLogged' /\ (version_edits = Nothing)'
    BY <1>1
       DEF ServingInv, CreateWAL, families, logState, flushes, replay, history,
           Flushing, Tracked, Logged, Picked, EditLog, OneLogged
  <1>6. WalsSound'
    <2>1. DOMAIN wal' # {} /\ \E k \in Nat : \A n \in DOMAIN wal' : n < k
      <3>1. next_file_number_ + 1 \in Nat /\ \A n \in DOMAIN wal' : n < next_file_number_ + 1
        BY <1>2, <1>3
      <3>2. QED
        BY <1>3, <3>1
    <2>2. QED
      BY <1>1, <1>3, <1>4, <2>1 DEF WalsSound
  <1>7. Leading'
    BY <1>1
       DEF ServingInv, CreateWAL, families, logState, flushes, replay, history,
           Leading
  <1>8. AckedInv'
    BY <1>1
       DEF ServingInv, CreateWAL, families, logState, flushes, replay, history,
           AckedInv, Pending
  <1>9. AllVisible'
    BY <1>1
       DEF ServingInv, CreateWAL, families, logState, flushes, replay, history,
           AllVisible, Visible, Picked, Of, Pending
  <1>10. TablesIn'
    <2> SUFFICES ASSUME NEW c \in CF, NEW b \in tables[c], NEW n \in DOMAIN wal',
                        b \in wal'[n].data
                 PROVE  n < m_log[c] /\ n < log_number_[c]
      BY <1>4 DEF TablesIn
    <2>1. n \in DOMAIN wal /\ b \in wal[n].data
      BY <1>3
    <2>2. QED
      BY <1>1, <2>1 DEF ServingInv, TablesIn
  <1>11. MemIn'
    <2> SUFFICES ASSUME NEW c \in CF, NEW b \in mem[c]
                 PROVE  \E n \in DOMAIN wal' :
                          /\ b \in wal'[n].data /\ log_number_[c] <= n
                          /\ \A i \in 1 .. Len(imm[c]) : imm[c][i].next <= n
      BY <1>4 DEF MemIn
    <2>1. PICK n \in DOMAIN wal :
            /\ b \in wal[n].data /\ log_number_[c] <= n
            /\ \A i \in 1 .. Len(imm[c]) : imm[c][i].next <= n
      BY <1>1 DEF ServingInv, MemIn
    <2>2. QED
      BY <1>3, <2>1
  <1>12. SealedIn'
    <2> SUFFICES ASSUME NEW c \in CF, NEW j \in 1 .. Len(imm[c])
                 PROVE  /\ log_number_[c] <= imm[c][j].next
                        /\ imm[c][j].next <= logfile_number_
                        /\ \A i \in 1 .. j - 1 : imm[c][i].next <= imm[c][j].next
                        /\ \A b \in imm[c][j].data : \E n \in DOMAIN wal' :
                             /\ b \in wal'[n].data /\ n < imm[c][j].next
                             /\ log_number_[c] <= n
                             /\ \A i \in 1 .. j - 1 : imm[c][i].next <= n
      BY <1>4 DEF SealedIn
    <2>1. /\ log_number_[c] <= imm[c][j].next
          /\ imm[c][j].next <= logfile_number_
          /\ \A i \in 1 .. j - 1 : imm[c][i].next <= imm[c][j].next
          /\ \A b \in imm[c][j].data : \E n \in DOMAIN wal :
               /\ b \in wal[n].data /\ n < imm[c][j].next
               /\ log_number_[c] <= n
               /\ \A i \in 1 .. j - 1 : imm[c][i].next <= n
      BY <1>1 DEF ServingInv, SealedIn
    <2>2. QED
      BY <1>3, <2>1
  <1>13. Numbers'
    <2>1. next_file_number_' = next_file_number_ + 1 /\ m_next \in Nat
      BY DEF CreateWAL, TypeOK, DiskType
    <2>2. \A n \in DOMAIN wal' : n < next_file_number_'
      BY <1>2, <1>3, <2>1
    <2>3. \A c \in CF : log_number_[c] <= next_file_number_'
      BY <1>2, <2>1
    <2>4. m_next <= next_file_number_'
      BY <1>1, <1>2, <2>1 DEF ServingInv, Numbers
    <2>5. QED
      BY <1>1, <1>4, <2>2, <2>3, <2>4 DEF ServingInv, Numbers
  <1>14. Fresh'
    <2>1. new_log_number' = next_file_number_
      BY DEF CreateWAL
    <2>2. QED
      BY <1>2, <1>3, <1>4, <2>1 DEF Fresh
  <1>15. CurrentWal'
    <2>1. CASE phase = "open"
      <3>1. /\ CurrentWal /\ w_pc' = "created" /\ w_pc = "switch"
            /\ new_log_number' = next_file_number_
        BY <1>1, <2>1 DEF ServingInv, CreateWAL
      <3>2. UNCHANGED <<alive_log_files_, log_empty_, log_delete_files>>
        BY DEF CreateWAL, logState, flushes
      <3>3. QED
        BY <1>2, <1>3, <1>4, <2>1, <3>1, <3>2 DEF CurrentWal
    <2>2. CASE phase = "newlog"
      BY <1>4, <2>2 DEF CurrentWal
    <2>3. QED
      BY <2>1, <2>2 DEF CreateWAL
  <1>16. QED
    BY <1>1, <1>5, <1>6, <1>7, <1>8, <1>9, <1>10, <1>11, <1>12, <1>13, <1>14,
       <1>15, ServingStep
       DEF ServingInv

\* AddLogSecret keeps the invariant.
LEMMA AddLogSecretKeeps ==
  ASSUME TypeOK, WalInv, TypeOK', AddLogSecret
  PROVE  WalInv'
  <1>1. /\ Serving /\ Serving' /\ WalsSound /\ Flushing /\ Leading /\ AckedInv
        /\ ServingInv
    BY DEF WalInv, Serving, Leading, AddLogSecret, Flushing, TypeOK,
           HistoryType, LeaderType, FlushType
  <1>2. PICK new \in BOOLEAN :
          LogAndApply(new, Nothing, NoSecrets,
                      [n \in {new_log_number} |-> wal[n].secret])
    BY DEF AddLogSecret
  <1>3. \A c \in CF : /\ f_pc[c] # "logged" /\ m_tables[c] = tables[c]
                      /\ m_log[c] <= log_number_[c]
    BY <1>1 DEF AddLogSecret, ManifestFree, ServingInv, Tracked, Logged
  <1>4. \A c \in CF : /\ m_tables'[c] = tables[c]
                      /\ m_log'[c] \in {m_log[c], log_number_[c]}
    BY <1>2, <1>3 DEF LogAndApply, Nothing, NoSecrets
  <1>5. UNCHANGED <<wal, imm, tables, log_number_, f_pc, mems_,
                    next_file_number_, phase>>
    BY DEF AddLogSecret, families, flushes
  <1>6. \A c \in CF : log_number_[c] \in Nat /\ m_log[c] \in Nat
    BY DEF TypeOK, FamilyType, DiskType
  <1>7. /\ WalsSound' /\ Flushing' /\ MemIn' /\ SealedIn' /\ OneLogged'
        /\ (version_edits = Nothing)'
    BY <1>1
       DEF ServingInv, AddLogSecret, families, logState, flushes, replay,
           history, WalsSound, Flushing, MemIn, SealedIn, OneLogged
  <1>8. Leading'
    BY <1>1
       DEF ServingInv, AddLogSecret, families, logState, flushes, replay,
           history, Leading
  <1>9. AckedInv'
    BY <1>1
       DEF ServingInv, AddLogSecret, families, logState, flushes, replay,
           history, AckedInv, Pending
  <1>10. Tracked'
    <2>1. \A c \in CF : Logged(c)' = {} /\ f_pc'[c] # "logged"
      BY <1>3, <1>5 DEF Logged
    <2>2. \A c \in CF : m_log'[c] <= log_number_[c]
      BY <1>3, <1>4, <1>6
    <2>3. QED
      BY <1>4, <1>5, <2>1, <2>2 DEF Tracked
  <1>11. AllVisible'
    BY <1>1
       DEF ServingInv, AddLogSecret, families, logState, flushes, replay,
           history, AllVisible, Visible, Picked, Of, Pending
  <1>12. TablesIn'
    <2> SUFFICES ASSUME NEW c \in CF, NEW b \in tables[c], NEW n \in DOMAIN wal,
                        b \in wal[n].data
                 PROVE  n < m_log'[c] /\ n < log_number_[c]
      BY <1>5 DEF TablesIn
    <2>1. n < m_log[c] /\ n < log_number_[c]
      BY <1>1 DEF ServingInv, TablesIn
    <2>2. QED
      BY <1>4, <2>1
  <1>13. Numbers'
    <2>1. /\ m_next' = next_file_number_ /\ m_next \in Nat
          /\ next_file_number_ \in Nat
      BY DEF AddLogSecret, TypeOK, DiskType, VersionType
    <2>2. phase = "newlog" => \A c \in CF : m_log'[c] <= next_file_number_
      BY <1>1, <1>4, <1>6, <2>1 DEF ServingInv, Numbers
    <2>3. QED
      BY <1>1, <1>5, <2>1, <2>2 DEF ServingInv, Numbers
  <1>14. Fresh'
    BY <1>1
       DEF ServingInv, AddLogSecret, families, logState, flushes, replay,
           history, Fresh
  <1>15. CurrentWal'
    BY <1>1
       DEF ServingInv, AddLogSecret, families, logState, flushes, replay,
           history, CurrentWal
  <1>16. QED
    BY <1>1, <1>7, <1>8, <1>9, <1>10, <1>11, <1>12, <1>13, <1>14, <1>15,
       ServingStep
       DEF ServingInv

\* AddLogSecretFails keeps the invariant.
LEMMA AddLogSecretFailsKeeps ==
  ASSUME TypeOK, WalInv, TypeOK', AddLogSecretFails
  PROVE  WalInv'
  <1>1. /\ Serving /\ Serving' /\ WalsSound /\ Flushing /\ Leading /\ AckedInv
        /\ ServingInv
    BY DEF WalInv, Serving, Leading, AddLogSecretFails, Flushing, TypeOK,
           HistoryType, LeaderType, FlushType
  <1>2. /\ WalsSound' /\ Flushing' /\ Tracked' /\ TablesIn' /\ MemIn'
        /\ SealedIn' /\ OneLogged' /\ (version_edits = Nothing)'
    BY <1>1
       DEF ServingInv, AddLogSecretFails, families, logState, flushes,
           replay, history, WalsSound, Flushing, Tracked, Logged, Picked,
           EditLog, TablesIn, MemIn, SealedIn, OneLogged
  <1>3. Leading'
    BY <1>1
       DEF ServingInv, AddLogSecretFails, families, logState, flushes,
           replay, history, Leading
  <1>4. AckedInv'
    BY <1>1
       DEF ServingInv, AddLogSecretFails, families, logState, flushes,
           replay, history, AckedInv, Pending
  <1>5. AllVisible'
    BY <1>1
       DEF ServingInv, AddLogSecretFails, families, logState, flushes,
           replay, history, AllVisible, Visible, Picked, Of, Pending
  <1>6. Fresh'
    BY <1>1
       DEF ServingInv, AddLogSecretFails, families, logState, flushes,
           replay, history, Fresh
  <1>7. CurrentWal'
    BY <1>1
       DEF ServingInv, AddLogSecretFails, families, logState, flushes,
           replay, history, CurrentWal
  <1>8. Numbers'
    <2>1. /\ m_next' \in {m_next, next_file_number_} /\ m_next \in Nat
          /\ next_file_number_ \in Nat
      BY DEF AddLogSecretFails, TypeOK, DiskType, VersionType
    <2>2. UNCHANGED <<wal, m_log, next_file_number_, phase, log_number_>>
      BY DEF AddLogSecretFails, families
    <2>3. Numbers
      BY <1>1 DEF ServingInv
    <2>4. m_next <= m_next' /\ m_next' <= next_file_number_
      BY <2>1, <2>3 DEF Numbers
    <2>5. ASSUME NEW c \in CF, phase = "newlog" PROVE m_log[c] <= m_next'
      <3>1. m_log[c] \in Nat /\ m_next' \in Nat /\ m_log[c] <= m_next
        BY <2>1, <2>3, <2>5 DEF Numbers, TypeOK, DiskType
      <3>2. QED
        BY <2>1, <2>4, <3>1
    <2>6. QED
      BY <2>2, <2>3, <2>4, <2>5 DEF Numbers
  <1>9. QED
    BY <1>1, <1>2, <1>3, <1>4, <1>5, <1>6, <1>7, <1>8, ServingStep
       DEF ServingInv

\* SwitchMemtable keeps the invariant.
LEMMA SwitchMemtableKeeps ==
  ASSUME TypeOK, WalInv, TypeOK', NEW c \in CF, SwitchMemtable(c)
  PROVE  WalInv'
  <1>1. /\ Serving /\ Serving' /\ WalsSound /\ Flushing /\ Leading /\ AckedInv
        /\ ServingInv
    BY DEF WalInv, Serving, Leading, SwitchMemtable, Flushing, TypeOK,
           HistoryType, LeaderType, FlushType
  <1>2. /\ logfile_number_' \in DOMAIN wal /\ logfile_number_' \in Nat
        /\ logfile_number_ \in Nat /\ logfile_number_ <= logfile_number_'
        /\ wal[logfile_number_'].data = {}
        /\ \A n \in DOMAIN wal : n <= logfile_number_'
    BY <1>1
       DEF ServingInv, CurrentWal, Fresh, SwitchMemtable, logState, TypeOK,
           VersionType, LeaderType
  <1>3. \A d \in CF : /\ log_number_[d] \in Nat /\ log_number_'[d] \in Nat
                      /\ log_number_[d] <= log_number_'[d]
                      /\ log_number_'[d] <= logfile_number_'
                      /\ mem[d] # {} \/ imm[d] # <<>> => log_number_'[d] = log_number_[d]
    <2> SUFFICES ASSUME NEW d \in CF
                 PROVE  /\ log_number_[d] <= log_number_'[d]
                        /\ log_number_'[d] <= logfile_number_'
                        /\ mem[d] # {} \/ imm[d] # <<>> => log_number_'[d] = log_number_[d]
      BY DEF TypeOK, FamilyType
    <2>1. /\ log_number_[d] \in Nat /\ log_number_'[d] \in Nat
          /\ log_number_[d] <= logfile_number_'
      BY <1>1
         DEF ServingInv, CurrentWal, Fresh, SwitchMemtable, logState, TypeOK,
             FamilyType
    <2>2. \/ log_number_'[d] = log_number_[d]
          \/ Unneeded(d) /\ log_number_'[d] = logfile_number_'
      BY DEF SwitchMemtable
    <2>3. QED
      BY <1>2, <2>1, <2>2 DEF Unneeded
  <1>4. /\ \A d \in CF : imm[d] \in Seq(MemTable) /\ Len(imm[d]) \in Nat
        /\ Len(imm'[c]) = Len(imm[c]) + 1
        /\ \A i \in 1 .. Len(imm[c]) : imm'[c][i] = imm[c][i]
        /\ imm'[c][Len(imm[c]) + 1] = [data |-> mem[c], next |-> logfile_number_']
        /\ \A d \in CF : d # c => imm'[d] = imm[d]
    BY DEF SwitchMemtable, TypeOK, FamilyType
  <1>5. /\ mem'[c] = {} /\ \A d \in CF : d # c => mem'[d] = mem[d]
        /\ UNCHANGED <<wal, m_tables, m_log, m_next, tables, f_pc, mems_,
                       next_file_number_,
                       batch, phase, log_delete_files>>
    BY DEF SwitchMemtable, disk, flushes, versions_, history, TypeOK,
           FamilyType
  <1>6. \A d \in CF : \A i \in 1 .. Len(imm[d]) : imm'[d][i] = imm[d][i]
    BY <1>4
  <1>7. WalsSound' /\ OneLogged' /\ (version_edits = Nothing)'
    BY <1>1
       DEF ServingInv, SwitchMemtable, disk, logState, versions_, flushes,
           replay, history, WalsSound, OneLogged
  <1>8. Flushing'
    BY <1>1
       DEF ServingInv, SwitchMemtable, disk, logState, versions_, flushes,
           replay, history, Flushing
  <1>9. Leading'
    BY <1>1
       DEF ServingInv, SwitchMemtable, disk, logState, versions_, flushes,
           replay, history, Leading
  <1>10. AckedInv'
    BY <1>1
       DEF ServingInv, SwitchMemtable, disk, logState, versions_, flushes,
           replay, history, AckedInv, Pending
  <1>11. Tracked'
    <2> SUFFICES ASSUME NEW d \in CF
                 PROVE  /\ m_tables[d] = tables[d] \cup Logged(d)'
                        /\ IF f_pc[d] = "logged" THEN m_log[d] = EditLog(d)'
                                                 ELSE m_log[d] <= log_number_'[d]
      BY <1>5 DEF Tracked
    <2>1. mems_[d] \in Nat /\ mems_[d] <= Len(imm[d])
      BY DEF TypeOK, FlushType
    <2>2. \A i \in 1 .. mems_[d] : imm'[d][i] = imm[d][i]
      BY <1>4, <1>6, <2>1
    <2>3. Logged(d)' = Logged(d)
      <3>1. mems_'[d] = mems_[d] /\ f_pc'[d] = f_pc[d]
        BY <1>5
      <3>2. ASSUME NEW x
            PROVE  x \in Picked(d, mems_[d])' <=> x \in Picked(d, mems_[d])
        <4>1. x \in Picked(d, mems_[d])' <=>
                \E i \in 1 .. mems_[d] : x \in imm'[d][i].data
          BY <3>1 DEF Picked
        <4>2. x \in Picked(d, mems_[d]) <=>
                \E i \in 1 .. mems_[d] : x \in imm[d][i].data
          BY DEF Picked
        <4>3. QED
          BY <2>2, <4>1, <4>2
      <3>3. Picked(d, mems_[d])' = Picked(d, mems_[d])
        BY <3>2
      <3>4. QED
        BY <3>1, <3>3 DEF Logged
    <2>4. f_pc[d] = "logged" => EditLog(d)' = EditLog(d)
      <3>1. f_pc[d] = "logged" => mems_[d] \in 1 .. mems_[d]
        BY <1>1, <2>1 DEF Flushing
      <3>2. QED
        BY <1>5, <2>2, <3>1 DEF EditLog
    <2>5. f_pc[d] # "logged" => m_log[d] <= log_number_'[d]
      <3>1. f_pc[d] # "logged" => m_log[d] <= log_number_[d]
        BY <1>1 DEF ServingInv, Tracked
      <3>2. m_log[d] \in Nat
        BY DEF TypeOK, DiskType
      <3>3. QED
        BY <1>3, <3>1, <3>2
    <2>6. QED
      BY <1>1, <2>3, <2>4, <2>5 DEF ServingInv, Tracked
  <1>12. AllVisible'
    <2>1. \A d \in CF : Of(d)' = Of(d)
      BY <1>5 DEF Of
    <2>2. Pending' = Pending
      BY DEF Pending, SwitchMemtable
    <2>3. \A d \in CF : d # c => Visible(d)' = Visible(d)
      BY <1>4, <1>5 DEF Visible, Picked
    <2>4. Picked(c, Len(imm[c]))' = Picked(c, Len(imm[c])) \cup mem[c]
      <3>1. 1 .. Len(imm'[c]) = 1 .. Len(imm[c]) \cup {Len(imm[c]) + 1}
        BY <1>4
      <3>2. ASSUME NEW x
            PROVE  x \in Picked(c, Len(imm[c]))' <=>
                     x \in mem[c] \/ \E i \in 1 .. Len(imm[c]) : x \in imm[c][i].data
        <4>1. x \in Picked(c, Len(imm[c]))' <=>
                \E i \in 1 .. Len(imm'[c]) : x \in imm'[c][i].data
          BY DEF Picked
        <4>2. /\ \A i \in 1 .. Len(imm[c]) : imm'[c][i].data = imm[c][i].data
              /\ imm'[c][Len(imm[c]) + 1].data = mem[c]
          BY <1>4
        <4>3. QED
          BY <3>1, <4>1, <4>2
      <3>3. ASSUME NEW x
            PROVE  x \in Picked(c, Len(imm[c])) <=>
                     \E i \in 1 .. Len(imm[c]) : x \in imm[c][i].data
        BY DEF Picked
      <3>4. QED
        BY <3>2, <3>3
    <2>5. Visible(c)' = Visible(c)
      BY <1>5, <2>4 DEF Visible
    <2>6. QED
      BY <1>1, <2>1, <2>2, <2>3, <2>5 DEF ServingInv, AllVisible
  <1>13. TablesIn'
    <2> SUFFICES ASSUME NEW d \in CF, NEW b \in tables[d], NEW n \in DOMAIN wal,
                        b \in wal[n].data
                 PROVE  n < m_log[d] /\ n < log_number_'[d]
      BY <1>5 DEF TablesIn
    <2>1. n < m_log[d] /\ n < log_number_[d] /\ n \in Nat
      BY <1>1 DEF ServingInv, TablesIn, TypeOK, DiskType
    <2>2. QED
      BY <1>3, <2>1
  <1>14. MemIn'
    <2> SUFFICES ASSUME NEW d \in CF, NEW b \in mem'[d]
                 PROVE  \E n \in DOMAIN wal :
                          /\ b \in wal[n].data /\ log_number_'[d] <= n
                          /\ \A i \in 1 .. Len(imm'[d]) : imm'[d][i].next <= n
      BY <1>5 DEF MemIn
    <2>1. /\ d # c /\ b \in mem[d] /\ imm'[d] = imm[d]
          /\ log_number_'[d] = log_number_[d]
      BY <1>3, <1>4, <1>5
    <2>2. QED
      BY <1>1, <2>1 DEF ServingInv, MemIn
  <1>15. SealedIn'
    <2> SUFFICES ASSUME NEW d \in CF, NEW j \in 1 .. Len(imm'[d])
                 PROVE  /\ log_number_'[d] <= imm'[d][j].next
                        /\ imm'[d][j].next <= logfile_number_'
                        /\ \A i \in 1 .. j - 1 : imm'[d][i].next <= imm'[d][j].next
                        /\ \A b \in imm'[d][j].data : \E n \in DOMAIN wal :
                             /\ b \in wal[n].data /\ n < imm'[d][j].next
                             /\ log_number_'[d] <= n
                             /\ \A i \in 1 .. j - 1 : imm'[d][i].next <= n
      BY <1>5 DEF SealedIn
    <2>0. \A i \in 1 .. Len(imm[d]) : imm[d][i].next \in Nat
      <3>1. \A i \in 1 .. Len(imm[d]) : imm[d][i] \in MemTable
        BY <1>4
      <3>2. QED
        BY <3>1 DEF MemTable
    <2>1. CASE j \in 1 .. Len(imm[d])
      <3>1. /\ imm[d] # <<>> /\ log_number_'[d] = log_number_[d]
            /\ imm'[d][j] = imm[d][j]
        BY <1>3, <1>4, <1>6, <2>1
      <3>2. \A i \in 1 .. j - 1 : i \in 1 .. Len(imm[d]) /\ imm'[d][i] = imm[d][i]
        BY <1>4, <1>6, <2>1
      <3>3. /\ log_number_[d] <= imm[d][j].next
            /\ imm[d][j].next <= logfile_number_
            /\ \A i \in 1 .. j - 1 : imm[d][i].next <= imm[d][j].next
            /\ \A b \in imm[d][j].data : \E n \in DOMAIN wal :
                 /\ b \in wal[n].data /\ n < imm[d][j].next
                 /\ log_number_[d] <= n
                 /\ \A i \in 1 .. j - 1 : imm[d][i].next <= n
        BY <1>1, <2>1 DEF ServingInv, SealedIn
      <3>4. imm[d][j].next <= logfile_number_'
        BY <1>2, <2>0, <2>1, <3>3
      <3>5. QED
        BY <3>1, <3>2, <3>3, <3>4
    <2>2. CASE d = c /\ j = Len(imm[c]) + 1
      <3>1. /\ imm'[d][j].next = logfile_number_' /\ imm'[d][j].data = mem[c]
            /\ 1 .. j - 1 = 1 .. Len(imm[c])
        BY <1>4, <2>2
      <3>2. \A i \in 1 .. j - 1 : imm'[d][i].next <= logfile_number_'
        <4>1. \A i \in 1 .. Len(imm[c]) : imm[c][i].next <= logfile_number_
          BY <1>1 DEF ServingInv, SealedIn
        <4>2. ASSUME NEW i \in 1 .. j - 1
              PROVE  imm'[d][i].next <= logfile_number_'
          <5>1. i \in 1 .. Len(imm[c])
            BY <3>1
          <5>2. imm'[d][i] = imm[c][i]
            BY <1>6, <2>2, <5>1
          <5>3. imm[c][i].next \in Nat /\ imm[c][i].next <= logfile_number_
            BY <2>0, <2>2, <4>1, <5>1
          <5>4. QED
            BY <1>2, <5>2, <5>3
        <4>3. QED
          BY <4>2
      <3>3. ASSUME NEW b \in mem[c]
            PROVE  \E n \in DOMAIN wal :
                     /\ b \in wal[n].data /\ n < logfile_number_'
                     /\ log_number_'[c] <= n
                     /\ \A i \in 1 .. j - 1 : imm'[c][i].next <= n
        <4>1. PICK n \in DOMAIN wal :
                /\ b \in wal[n].data /\ log_number_[c] <= n
                /\ \A i \in 1 .. Len(imm[c]) : imm[c][i].next <= n
          BY <1>1 DEF ServingInv, MemIn
        <4>2. n <= logfile_number_' /\ n # logfile_number_' /\ n \in Nat
          BY <1>2, <4>1 DEF TypeOK, DiskType
        <4>3. n < logfile_number_' /\ log_number_'[c] = log_number_[c]
          BY <1>2, <1>3, <4>2
        <4>4. QED
          BY <1>6, <3>1, <4>1, <4>3
      <3>4. QED
        BY <1>2, <1>3, <2>2, <3>1, <3>2, <3>3
    <2>3. QED
      BY <1>4, <2>1, <2>2
  <1>16. Numbers'
    <2>1. logfile_number_' < next_file_number_ /\ next_file_number_ \in Nat
      BY <1>1, <1>2 DEF ServingInv, Numbers, TypeOK, VersionType
    <2>2. \A d \in CF : log_number_'[d] <= next_file_number_
      BY <1>2, <1>3, <2>1
    <2>3. QED
      BY <1>1, <1>5, <2>2 DEF ServingInv, Numbers
  <1>17. Fresh'
    BY <1>1
       DEF ServingInv, SwitchMemtable, disk, logState, versions_, flushes,
           replay, history, Fresh
  <1>18. CurrentWal'
    <2>1. /\ logfile_number_' \in alive_log_files_'
          /\ w_pc' \in {"idle", "switch"}
      BY <1>1 DEF ServingInv, CurrentWal, SwitchMemtable, logState
    <2>2. \A n \in log_delete_files : \A d \in CF : n < log_number_'[d]
      <3>1. \A n \in log_delete_files : n \in Nat /\ \A d \in CF : n < log_number_[d]
        BY <1>1 DEF ServingInv, CurrentWal, SwitchMemtable, TypeOK, FlushType
      <3>2. QED
        BY <1>3, <3>1
    <2>3. QED
      BY <1>2, <1>3, <1>5, <2>1, <2>2 DEF CurrentWal
  <1>19. QED
    BY <1>1, <1>7, <1>8, <1>9, <1>10, <1>11, <1>12, <1>13, <1>14, <1>15, <1>16,
       <1>17, <1>18, ServingStep
       DEF ServingInv

\* PickMemTable keeps the invariant.
LEMMA PickMemTableKeeps ==
  ASSUME TypeOK, WalInv, TypeOK', NEW c \in CF, PickMemTable(c)
  PROVE  WalInv'
  <1>1. /\ Serving /\ Serving' /\ WalsSound /\ Flushing /\ Leading /\ AckedInv
        /\ ServingInv
    BY DEF WalInv, Serving, Leading, PickMemTable, Flushing, TypeOK,
           HistoryType, LeaderType, FlushType
  <1>2. /\ WalsSound' /\ Leading' /\ AckedInv' /\ AllVisible' /\ TablesIn'
        /\ MemIn' /\ SealedIn' /\ Numbers' /\ Fresh' /\ CurrentWal'
        /\ (version_edits = Nothing)'
    BY <1>1
       DEF ServingInv, PickMemTable, disk, families, logState, versions_,
           leader, replay, history, WalsSound, Leading, AckedInv, Pending,
           AllVisible, Visible, Picked, Of, TablesIn, MemIn, SealedIn, Numbers,
           Fresh, CurrentWal
  <1>3. Flushing'
    <2>1. Len(imm[c]) \in Nat /\ Len(imm[c]) # 0 /\ UNCHANGED <<imm, phase>>
      BY DEF PickMemTable, TypeOK, FamilyType, families
    <2>2. \A d \in CF : /\ f_pc'[d] = IF d = c THEN "picked" ELSE f_pc[d]
                        /\ mems_'[d] = IF d = c THEN Len(imm[c]) ELSE mems_[d]
      BY DEF PickMemTable, TypeOK, FlushType
    <2>3. QED
      BY <1>1, <2>1, <2>2 DEF Flushing, PickMemTable
  <1>4. Tracked'
    BY <1>1
       DEF ServingInv, PickMemTable, disk, families, logState, versions_,
           leader, replay, history, Tracked, Logged, Picked, EditLog
  <1>5. OneLogged'
    BY <1>1
       DEF ServingInv, PickMemTable, disk, families, logState, versions_,
           leader, replay, history, OneLogged
  <1>6. QED
    BY <1>1, <1>2, <1>3, <1>4, <1>5, ServingStep DEF ServingInv

\* LogFlush keeps the invariant.
LEMMA LogFlushKeeps ==
  ASSUME TypeOK, WalInv, TypeOK', NEW c \in CF, LogFlush(c)
  PROVE  WalInv'
  <1>1. /\ Serving /\ Serving' /\ WalsSound /\ Flushing /\ Leading /\ AckedInv
        /\ ServingInv
    BY DEF WalInv, Serving, Leading, LogFlush, Flushing, TypeOK, HistoryType,
           LeaderType, FlushType
  <1>2. PICK new \in BOOLEAN :
          LogAndApply(new, [Nothing EXCEPT ![c] = Picked(c, mems_[c])],
                      [d \in {c} |-> EditLog(c)], NoSecrets)
    BY DEF LogFlush
  <1>3. \A d \in CF : /\ f_pc[d] # "logged" /\ m_tables[d] = tables[d]
                      /\ m_log[d] <= log_number_[d]
    BY <1>1 DEF LogFlush, ManifestFree, ServingInv, Tracked, Logged
  <1>4. /\ m_tables'[c] = tables[c] \cup Picked(c, mems_[c])
        /\ m_log'[c] = EditLog(c)
        /\ \A d \in CF \ {c} : /\ m_tables'[d] = tables[d]
                               /\ m_log'[d] \in {m_log[d], log_number_[d]}
    BY <1>2, <1>3 DEF LogAndApply, Nothing
  <1>5. /\ UNCHANGED <<wal, imm, tables, log_number_, mems_, next_file_number_,
                       phase>>
        /\ f_pc'[c] = "logged" /\ \A d \in CF \ {c} : f_pc'[d] = f_pc[d]
        /\ phase = "open"
    BY <1>1 DEF LogFlush, families, flushes, TypeOK, FlushType, Flushing
  <1>6. /\ \A d \in CF : log_number_[d] \in Nat /\ m_log[d] \in Nat
        /\ mems_[c] \in 1 .. Len(imm[c]) /\ EditLog(c) \in Nat
    BY <1>1, PickedType DEF TypeOK, FamilyType, DiskType, LogFlush
  <1>7. /\ WalsSound' /\ Leading' /\ AckedInv' /\ AllVisible' /\ MemIn'
        /\ SealedIn' /\ Fresh' /\ CurrentWal' /\ (version_edits = Nothing)'
    BY <1>1
       DEF ServingInv, LogFlush, families, logState, leader, replay, history,
           WalsSound, Leading, AckedInv, Pending, AllVisible, Visible, Picked,
           Of, MemIn, SealedIn, Fresh, CurrentWal
  <1>8. Flushing'
    BY <1>1
       DEF ServingInv, LogFlush, families, logState, leader, replay, history,
           Flushing
  <1>9. Tracked'
    <2>1. \A d \in CF \ {c} : Logged(d)' = {} /\ f_pc'[d] # "logged"
      BY <1>3, <1>5 DEF Logged
    <2>2. Logged(c)' = Picked(c, mems_[c]) /\ EditLog(c)' = EditLog(c)
      BY <1>5 DEF Logged, Picked, EditLog
    <2>3. \A d \in CF \ {c} : m_log'[d] <= log_number_[d]
      BY <1>3, <1>4, <1>6
    <2>4. ASSUME NEW d \in CF
          PROVE  /\ m_tables'[d] = tables[d] \cup Logged(d)'
                 /\ IF f_pc'[d] = "logged" THEN m_log'[d] = EditLog(d)'
                                           ELSE m_log'[d] <= log_number_[d]
      BY <1>4, <1>5, <2>1, <2>2, <2>3
    <2>5. QED
      BY <1>5, <2>4 DEF Tracked
  <1>10. TablesIn'
    <2> SUFFICES ASSUME NEW d \in CF, NEW b \in tables[d], NEW n \in DOMAIN wal,
                        b \in wal[n].data
                 PROVE  n < m_log'[d] /\ n < log_number_[d]
      BY <1>5 DEF TablesIn
    <2>1. n < m_log[d] /\ n < log_number_[d] /\ n \in Nat
      BY <1>1 DEF ServingInv, TablesIn, TypeOK, DiskType
    <2>2. log_number_[c] <= EditLog(c)
      BY <1>1, <1>6 DEF ServingInv, SealedIn, EditLog
    <2>3. QED
      BY <1>4, <1>6, <2>1, <2>2
  <1>11. OneLogged'
    BY <1>3, <1>5 DEF OneLogged
  <1>12. Numbers'
    <2>1. m_next' <= next_file_number_
      BY DEF LogFlush, TypeOK, DiskType, VersionType
    <2>2. QED
      BY <1>1, <1>5, <2>1 DEF ServingInv, Numbers
  <1>13. QED
    BY <1>1, <1>7, <1>8, <1>9, <1>10, <1>11, <1>12, ServingStep DEF ServingInv

\* InstallFlush keeps the invariant.
LEMMA InstallFlushKeeps ==
  ASSUME TypeOK, WalInv, TypeOK', NEW c \in CF, InstallFlush(c)
  PROVE  WalInv'
  <1>1. /\ Serving /\ Serving' /\ WalsSound /\ Flushing /\ Leading /\ AckedInv
        /\ ServingInv
    BY DEF WalInv, Serving, Leading, InstallFlush, Flushing, TypeOK,
           HistoryType, LeaderType, FlushType
  <1>2. /\ mems_[c] \in 1 .. Len(imm[c]) /\ EditLog(c) \in Nat
        /\ EditLog(c) = imm[c][mems_[c]].next /\ mems_[c] \in Nat
        /\ Len(imm[c]) \in Nat
        /\ phase = "open" /\ m_log[c] = EditLog(c)
        /\ log_number_[c] <= EditLog(c)
        /\ EditLog(c) <= logfile_number_
        /\ m_tables[c] = tables[c] \cup Picked(c, mems_[c])
    <2>1. mems_[c] \in 1 .. Len(imm[c]) /\ EditLog(c) \in Nat
      BY <1>1, PickedType DEF InstallFlush
    <2>2. mems_[c] \in Nat /\ Len(imm[c]) \in Nat
      BY DEF TypeOK, FlushType, FamilyType
    <2>3. /\ m_log[c] = EditLog(c)
          /\ m_tables[c] = tables[c] \cup Picked(c, mems_[c])
      BY <1>1 DEF ServingInv, Tracked, Logged, InstallFlush
    <2>4. phase = "open"
      BY <1>1 DEF Flushing, InstallFlush
    <2>5. /\ log_number_[c] <= imm[c][mems_[c]].next
          /\ imm[c][mems_[c]].next <= logfile_number_
      BY <1>1, <2>1 DEF ServingInv, SealedIn
    <2>6. QED
      BY <2>1, <2>2, <2>3, <2>4, <2>5 DEF EditLog
  <1>3. /\ Len(imm'[c]) = Len(imm[c]) - mems_[c] /\ Len(imm'[c]) \in Nat
        /\ \A i \in 1 .. Len(imm'[c]) : /\ i + mems_[c] \in 1 .. Len(imm[c])
                                        /\ imm'[c][i] = imm[c][i + mems_[c]]
        /\ \A d \in CF \ {c} : imm'[d] = imm[d]
    <2>1. imm'[c] = SubSeq(imm[c], mems_[c] + 1, Len(imm[c]))
      BY DEF InstallFlush, TypeOK, FamilyType
    <2>2. imm[c] \in Seq(MemTable)
      BY DEF TypeOK, FamilyType
    <2>3. mems_[c] \in 0 .. Len(imm[c])
      BY <1>2
    <2>4. /\ Len(imm'[c]) = Len(imm[c]) - mems_[c]
          /\ \A i \in 1 .. Len(imm[c]) - mems_[c] : imm'[c][i] = imm[c][i + mems_[c]]
      <3>1. PICK q, m : q = imm[c] /\ m = mems_[c]
        OBVIOUS
      <3>2. q \in Seq(MemTable) /\ m \in 0 .. Len(q)
        BY <2>2, <2>3, <3>1
      <3>3. /\ Len(SubSeq(q, m + 1, Len(q))) = Len(q) - m
            /\ \A i \in 1 .. Len(q) - m :
                 SubSeq(q, m + 1, Len(q))[i] = q[i + m]
        BY <3>2, SubSeqTail
      <3>4. imm'[c] = SubSeq(q, m + 1, Len(q))
        BY <2>1, <3>1
      <3>5. QED
        BY <3>1, <3>3, <3>4
    <2>5. /\ Len(imm[c]) - mems_[c] \in Nat
          /\ \A i \in 1 .. Len(imm[c]) - mems_[c] : i + mems_[c] \in 1 .. Len(imm[c])
      BY <1>2
    <2>6. \A d \in CF \ {c} : imm'[d] = imm[d]
      BY DEF InstallFlush, TypeOK, FamilyType
    <2>7. QED
      BY <2>4, <2>5, <2>6
  <1>4. /\ tables'[c] = tables[c] \cup Picked(c, mems_[c])
        /\ log_number_'[c] = EditLog(c)
        /\ f_pc[c] = "logged" /\ f_pc'[c] = "done" /\ mems_'[c] = 0
        /\ \A d \in CF \ {c} : /\ tables'[d] = tables[d] /\ log_number_'[d] = log_number_[d]
                               /\ f_pc'[d] = f_pc[d] /\ mems_'[d] = mems_[d]
        /\ UNCHANGED <<wal, m_tables, m_log, m_next, mem, logfile_number_,
                       next_file_number_,
                       batch, phase, w_pc, new_log_number, log_delete_files, alive_log_files_,
                       log_empty_>>
    BY DEF InstallFlush, disk, logState, versions_, leader, history, TypeOK,
           FamilyType, FlushType
  <1>5. \A d \in CF : log_number_[d] \in Nat /\ log_number_[d] <= log_number_'[d]
    <2> SUFFICES ASSUME NEW d \in CF PROVE log_number_[d] <= log_number_'[d]
      BY DEF TypeOK, FamilyType
    <2>1. log_number_[d] \in Nat
      BY DEF TypeOK, FamilyType
    <2>2. QED
      BY <1>2, <1>4, <2>1
  <1>6. \A i \in 1 .. Len(imm[c]) :
          /\ i <= mems_[c] => imm[c][i].next <= EditLog(c)
          /\ i > mems_[c] => EditLog(c) <= imm[c][i].next
    <2> SUFFICES ASSUME NEW i \in 1 .. Len(imm[c])
                 PROVE  /\ i <= mems_[c] => imm[c][i].next <= EditLog(c)
                        /\ i > mems_[c] => EditLog(c) <= imm[c][i].next
      OBVIOUS
    <2>1. \A j, k \in 1 .. Len(imm[c]) : k \in 1 .. j - 1 => imm[c][k].next <= imm[c][j].next
      BY <1>1 DEF ServingInv, SealedIn
    <2>2. i < mems_[c] => i \in 1 .. mems_[c] - 1
      BY <1>2
    <2>3. i > mems_[c] => mems_[c] \in 1 .. i - 1
      BY <1>2
    <2>4. i = mems_[c] => imm[c][i].next <= EditLog(c)
      BY <1>2
    <2>5. QED
      BY <1>2, <2>1, <2>2, <2>3, <2>4
  <1>7. WalsSound' /\ Leading' /\ AckedInv' /\ (version_edits = Nothing)'
    BY <1>1
       DEF ServingInv, InstallFlush, disk, logState, versions_, leader, replay,
           history, WalsSound, Leading, AckedInv, Pending
  <1>8. Flushing'
    <2>1. \A d \in CF \ {c} : imm'[d] = imm[d] /\ f_pc'[d] = f_pc[d] /\ mems_'[d] = mems_[d]
      BY <1>3, <1>4
    <2>2. QED
      BY <1>1, <1>2, <1>4, <2>1 DEF Flushing
  <1>9. Tracked'
    <2> SUFFICES ASSUME NEW d \in CF
                 PROVE  /\ m_tables[d] = tables'[d] \cup Logged(d)'
                        /\ IF f_pc'[d] = "logged" THEN m_log[d] = EditLog(d)'
                                                  ELSE m_log[d] <= log_number_'[d]
      BY <1>4 DEF Tracked
    <2>1. CASE d = c
      <3>1. Logged(c)' = {}
        BY <1>4 DEF Logged
      <3>2. /\ m_tables[c] = tables'[c] /\ m_log[c] <= log_number_'[c]
            /\ f_pc'[c] # "logged"
        BY <1>2, <1>4
      <3>3. QED
        BY <2>1, <3>1, <3>2
    <2>2. CASE d # c
      <3>1. /\ imm'[d] = imm[d] /\ tables'[d] = tables[d] /\ f_pc'[d] = f_pc[d]
            /\ log_number_'[d] = log_number_[d] /\ mems_'[d] = mems_[d]
        BY <1>3, <1>4, <2>2
      <3>2. Logged(d)' = Logged(d) /\ EditLog(d)' = EditLog(d)
        BY <3>1 DEF Logged, EditLog, Picked
      <3>3. QED
        BY <1>1, <3>1, <3>2 DEF ServingInv, Tracked
    <2>3. QED
      BY <2>1, <2>2
  <1>10. AllVisible'
    <2>1. \A d \in CF : Of(d)' = Of(d) /\ Pending' = Pending
      BY <1>4 DEF Of, Pending
    <2>2. \A d \in CF : d # c => Visible(d)' = Visible(d)
      BY <1>3, <1>4 DEF Visible, Picked
    <2>3. Visible(c)' = Visible(c)
      <3>1. ASSUME NEW x
            PROVE  /\ x \in Picked(c, Len(imm[c])) <=>
                        \E i \in 1 .. Len(imm[c]) : x \in imm[c][i].data
                   /\ x \in Picked(c, mems_[c]) <=>
                        \E i \in 1 .. mems_[c] : x \in imm[c][i].data
                   /\ x \in Picked(c, Len(imm[c]))' <=>
                        \E i \in 1 .. Len(imm'[c]) : x \in imm'[c][i].data
        BY DEF Picked
      <3>2. ASSUME NEW x
            PROVE  x \in Picked(c, Len(imm[c])) <=>
                     x \in Picked(c, mems_[c]) \/ x \in Picked(c, Len(imm[c]))'
        <4>1. ASSUME NEW i \in 1 .. Len(imm[c])
              PROVE  \/ i \in 1 .. mems_[c]
                     \/ /\ i - mems_[c] \in 1 .. Len(imm'[c])
                        /\ imm'[c][i - mems_[c]] = imm[c][i]
          <5>0. /\ Len(imm[c]) \in Nat /\ mems_[c] \in Nat /\ i \in Nat
                /\ 1 <= i /\ i <= Len(imm[c])
                /\ Len(imm'[c]) = Len(imm[c]) - mems_[c]
            BY <1>2, <1>3
          <5>1. i > mems_[c] => /\ i - mems_[c] \in 1 .. Len(imm'[c])
                               /\ (i - mems_[c]) + mems_[c] = i
            BY <5>0
          <5>2. i > mems_[c] => imm'[c][i - mems_[c]] = imm[c][(i - mems_[c]) + mems_[c]]
            BY <1>3, <5>1
          <5>3. ~(i > mems_[c]) => i \in 1 .. mems_[c]
            BY <5>0
          <5>4. QED
            BY <5>1, <5>2, <5>3
        <4>2. \A i \in 1 .. mems_[c] : i \in 1 .. Len(imm[c])
          BY <1>2
        <4>3. QED
          BY <1>3, <3>1, <4>1, <4>2
      <3>3. QED
        BY <1>4, <3>2 DEF Visible
    <2>4. QED
      BY <1>1, <2>1, <2>2, <2>3 DEF ServingInv, AllVisible
  <1>11. TablesIn'
    <2> SUFFICES ASSUME NEW d \in CF, NEW b \in tables'[d], NEW n \in DOMAIN wal,
                        b \in wal[n].data
                 PROVE  n < m_log[d] /\ n < log_number_'[d]
      BY <1>4 DEF TablesIn
    <2>0. n \in Nat
      BY DEF TypeOK, DiskType
    <2>1. CASE b \in tables[d]
      <3>1. n < m_log[d] /\ n < log_number_[d]
        BY <1>1, <2>1 DEF ServingInv, TablesIn
      <3>2. QED
        BY <1>2, <1>4, <1>5, <2>0, <3>1
    <2>2. CASE d = c /\ b \in Picked(c, mems_[c])
      <3>1. PICK i \in 1 .. mems_[c] : b \in imm[c][i].data
        BY <2>2 DEF Picked
      <3>2. i \in 1 .. Len(imm[c]) /\ imm[c][i].next <= EditLog(c)
        BY <1>2, <1>6
      <3>3. PICK k \in DOMAIN wal : b \in wal[k].data /\ k < imm[c][i].next
        BY <1>1, <3>1, <3>2 DEF ServingInv, SealedIn
      <3>4. k = n
        BY <1>1, <3>3 DEF WalsSound
      <3>5. imm[c][i].next \in Nat
        <4>1. imm[c] \in Seq(MemTable)
          BY DEF TypeOK, FamilyType
        <4>2. imm[c][i] \in MemTable
          BY <3>2, <4>1
        <4>3. QED
          BY <4>2 DEF MemTable
      <3>6. QED
        BY <1>2, <1>4, <2>0, <2>2, <3>2, <3>3, <3>4, <3>5
    <2>3. QED
      BY <1>4, <2>1, <2>2
  <1>12. MemIn'
    <2> SUFFICES ASSUME NEW d \in CF, NEW b \in mem[d]
                 PROVE  \E n \in DOMAIN wal :
                          /\ b \in wal[n].data /\ log_number_'[d] <= n
                          /\ \A i \in 1 .. Len(imm'[d]) : imm'[d][i].next <= n
      BY <1>4 DEF MemIn
    <2>1. PICK n \in DOMAIN wal :
                 /\ b \in wal[n].data /\ log_number_[d] <= n
                 /\ \A i \in 1 .. Len(imm[d]) : imm[d][i].next <= n
      BY <1>1 DEF ServingInv, MemIn
    <2>2. log_number_'[d] <= n
      BY <1>2, <1>4, <2>1
    <2>3. \A i \in 1 .. Len(imm'[d]) : imm'[d][i].next <= n
      BY <1>3, <2>1
    <2>4. QED
      BY <2>1, <2>2, <2>3
  <1>13. SealedIn'
    <2> SUFFICES ASSUME NEW d \in CF, NEW j \in 1 .. Len(imm'[d])
                 PROVE  /\ log_number_'[d] <= imm'[d][j].next
                        /\ imm'[d][j].next <= logfile_number_
                        /\ \A i \in 1 .. j - 1 : imm'[d][i].next <= imm'[d][j].next
                        /\ \A b \in imm'[d][j].data : \E n \in DOMAIN wal :
                             /\ b \in wal[n].data /\ n < imm'[d][j].next
                             /\ log_number_'[d] <= n
                             /\ \A i \in 1 .. j - 1 : imm'[d][i].next <= n
      BY <1>4 DEF SealedIn
    <2>1. CASE d # c
      <3>1. imm'[d] = imm[d] /\ log_number_'[d] = log_number_[d]
        BY <1>3, <1>4, <2>1
      <3>2. QED
        BY <1>1, <3>1 DEF ServingInv, SealedIn
    <2>2. CASE d = c
      <3> DEFINE k == j + mems_[c]
      <3>1. k \in 1 .. Len(imm[c]) /\ imm'[c][j] = imm[c][k] /\ k > mems_[c]
        <4>1. j \in 1 .. Len(imm'[c]) /\ mems_[c] \in Nat /\ Len(imm'[c]) \in Nat
          BY <1>2, <1>3, <2>2
        <4>2. k \in 1 .. Len(imm[c]) /\ imm'[c][j] = imm[c][k]
          BY <1>3, <4>1
        <4>3. k > mems_[c]
          BY <4>1
        <4>4. QED
          BY <4>2, <4>3
      <3>2. /\ imm[c][k].next <= logfile_number_
            /\ \A i \in 1 .. k - 1 : imm[c][i].next <= imm[c][k].next
            /\ \A b \in imm[c][k].data : \E n \in DOMAIN wal :
                 /\ b \in wal[n].data /\ n < imm[c][k].next
                 /\ \A i \in 1 .. k - 1 : imm[c][i].next <= n
        BY <1>1, <3>1 DEF ServingInv, SealedIn
      <3>3. \A i \in 1 .. j - 1 : i + mems_[c] \in 1 .. k - 1 /\ imm'[c][i] = imm[c][i + mems_[c]]
        <4>1. /\ Len(imm'[c]) \in Nat /\ j \in 1 .. Len(imm'[c])
              /\ mems_[c] \in Nat
          BY <1>2, <1>3, <2>2
        <4>2. \A i \in 1 .. j - 1 : i + mems_[c] \in 1 .. k - 1 /\ i \in 1 .. Len(imm'[c])
          BY <4>1
        <4>3. QED
          BY <1>3, <4>2
      <3>4. mems_[c] \in 1 .. k - 1
        BY <1>2, <3>1
      <3>5. EditLog(c) <= imm[c][k].next
        BY <1>6, <3>1
      <3> HIDE DEF k
      <3>6. ASSUME NEW b \in imm[c][k].data
            PROVE  \E n \in DOMAIN wal : /\ b \in wal[n].data /\ n < imm[c][k].next
                                         /\ EditLog(c) <= n
                                         /\ \A i \in 1 .. j - 1 : imm'[c][i].next <= n
        <4>1. PICK n \in DOMAIN wal :
                /\ b \in wal[n].data /\ n < imm[c][k].next
                /\ \A i \in 1 .. k - 1 : imm[c][i].next <= n
          BY <3>2
        <4>2. EditLog(c) <= n
          BY <1>2, <3>4, <4>1
        <4>3. ASSUME NEW i \in 1 .. j - 1 PROVE imm'[c][i].next <= n
          <5>1. i + mems_[c] \in 1 .. k - 1 /\ imm'[c][i] = imm[c][i + mems_[c]]
            BY <3>3
          <5>2. QED
            BY <4>1, <5>1
        <4>4. QED
          BY <4>1, <4>2, <4>3
      <3>7. /\ log_number_'[c] <= imm'[c][j].next
            /\ imm'[c][j].next <= logfile_number_
        BY <1>4, <3>1, <3>2, <3>5
      <3>8. ASSUME NEW i \in 1 .. j - 1 PROVE imm'[c][i].next <= imm'[c][j].next
        <4>1. i + mems_[c] \in 1 .. k - 1 /\ imm'[c][i] = imm[c][i + mems_[c]]
          BY <3>3
        <4>2. QED
          BY <3>1, <3>2, <4>1
      <3>9. \A b \in imm'[c][j].data : \E n \in DOMAIN wal :
              /\ b \in wal[n].data /\ n < imm'[c][j].next
              /\ log_number_'[c] <= n
              /\ \A i \in 1 .. j - 1 : imm'[c][i].next <= n
        <4>1. log_number_'[c] = EditLog(c) /\ imm'[c][j] = imm[c][k]
          BY <1>4, <3>1
        <4>2. QED
          BY <3>6, <4>1
      <3>10. QED
        BY <2>2, <3>7, <3>8, <3>9
    <2>3. QED
      BY <2>1, <2>2
  <1>14. OneLogged'
    BY <1>1
       DEF ServingInv, InstallFlush, disk, logState, versions_, leader, replay,
           history, OneLogged
  <1>15. Numbers'
    <2>1. logfile_number_ < next_file_number_
      BY <1>1, <1>2 DEF ServingInv, Numbers, CurrentWal
    <2>2. EditLog(c) <= next_file_number_
      BY <1>2, <2>1 DEF TypeOK, VersionType
    <2>3. \A d \in CF : log_number_'[d] <= next_file_number_
      BY <1>1, <1>4, <2>2 DEF ServingInv, Numbers
    <2>4. QED
      BY <1>1, <1>4, <2>3 DEF ServingInv, Numbers
  <1>16. Fresh'
    <2> SUFFICES ASSUME w_pc \in {"created", "recorded"}
                 PROVE  \A d \in CF : log_number_'[d] <= new_log_number
      BY <1>1, <1>4 DEF ServingInv, Fresh
    <2>1. logfile_number_ < new_log_number
      BY <1>1, <1>2 DEF ServingInv, CurrentWal
    <2>2. EditLog(c) <= new_log_number
      <3>1. logfile_number_ \in Nat /\ new_log_number \in Nat
        BY DEF TypeOK, VersionType, LeaderType
      <3>2. QED
        BY <1>2, <2>1, <3>1
    <2>3. QED
      BY <1>1, <1>4, <2>2 DEF ServingInv, Fresh
  <1>17. CurrentWal'
    <2>1. \A d \in CF : log_number_'[d] <= logfile_number_
      BY <1>1, <1>2, <1>4 DEF ServingInv, CurrentWal
    <2>2. ASSUME NEW n \in log_delete_files, NEW d \in CF
          PROVE  n < log_number_'[d]
      <3>1. n < log_number_[d] /\ n \in Nat
        BY <1>1, <1>2 DEF ServingInv, CurrentWal, TypeOK, FlushType
      <3>2. log_number_'[d] \in Nat
        BY DEF TypeOK, FamilyType
      <3>3. QED
        BY <1>5, <3>1, <3>2
    <2>3. QED
      BY <1>1, <1>4, <2>1, <2>2 DEF ServingInv, CurrentWal
  <1>18. QED
    BY <1>1, <1>7, <1>8, <1>9, <1>10, <1>11, <1>12, <1>13, <1>14, <1>15, <1>16,
       <1>17, ServingStep
       DEF ServingInv

\* FindObsoleteFiles keeps the invariant.
LEMMA FindObsoleteFilesKeeps ==
  ASSUME TypeOK, WalInv, TypeOK', NEW c \in CF, FindObsoleteFiles(c)
  PROVE  WalInv'
  <1>1. /\ Serving /\ Serving' /\ WalsSound /\ Flushing /\ Leading /\ AckedInv
        /\ ServingInv
    BY DEF WalInv, Serving, Leading, FindObsoleteFiles, Flushing, TypeOK,
           HistoryType, LeaderType, FlushType
  <1>2. /\ phase = "open" /\ phase' = phase /\ w_pc' = w_pc /\ batch' = batch
        /\ UNCHANGED <<wal, log_number_, logfile_number_, log_empty_,
                       new_log_number>>
    BY <1>1 DEF Flushing, FindObsoleteFiles, disk, families, leader, history
  <1>3. /\ WalsSound' /\ AckedInv' /\ AllVisible' /\ TablesIn' /\ MemIn'
        /\ SealedIn' /\ Numbers' /\ Fresh' /\ (version_edits = Nothing)'
    BY <1>1
       DEF ServingInv, FindObsoleteFiles, disk, families, versions_, leader,
           replay, history, WalsSound, AckedInv, Pending, AllVisible, Visible,
           Picked, Of, TablesIn, MemIn, SealedIn, Numbers, Fresh
  <1>4. Flushing'
    BY <1>1
       DEF ServingInv, FindObsoleteFiles, disk, families, versions_, leader,
           replay, history, Flushing
  <1>5. Leading'
    BY <1>1, <1>2 DEF Leading
  <1>6. Tracked'
    BY <1>1
       DEF ServingInv, FindObsoleteFiles, disk, families, versions_, leader,
           replay, history, Tracked, Logged, Picked, EditLog
  <1>7. OneLogged'
    BY <1>1
       DEF ServingInv, FindObsoleteFiles, disk, families, versions_, leader,
           replay, history, OneLogged
  <1>8. CurrentWal'
    <2>1. ~BelowMinLog(logfile_number_)
      <3>1. /\ log_number_[c] <= logfile_number_ /\ log_number_[c] \in Nat
            /\ logfile_number_ \in Nat
        BY <1>1, <1>2
           DEF ServingInv, CurrentWal, TypeOK, FamilyType, VersionType
      <3>2. QED
        BY <3>1 DEF BelowMinLog
    <2>2. logfile_number_ \in alive_log_files_'
      BY <1>1, <1>2, <2>1 DEF ServingInv, CurrentWal, FindObsoleteFiles
    <2>3. \A n \in log_delete_files' : \A d \in CF : n < log_number_[d]
      BY <1>1, <1>2 DEF ServingInv, CurrentWal, FindObsoleteFiles, BelowMinLog
    <2>4. QED
      BY <1>1, <1>2, <2>2, <2>3 DEF ServingInv, CurrentWal
  <1>9. QED
    BY <1>1, <1>3, <1>4, <1>5, <1>6, <1>7, <1>8, ServingStep DEF ServingInv

\* DeleteWal keeps the invariant.
LEMMA DeleteWalKeeps ==
  ASSUME TypeOK, WalInv, TypeOK', NEW n \in DOMAIN wal, DeleteWal(n)
  PROVE  WalInv'
  <1>1. /\ Serving /\ Serving' /\ WalsSound /\ Flushing /\ Leading /\ AckedInv
        /\ ServingInv
    BY DEF WalInv, Serving, Leading, DeleteWal, Flushing, TypeOK, HistoryType,
           LeaderType, FlushType
  <1>2. /\ DOMAIN wal' = DOMAIN wal \ {n} /\ \A k \in DOMAIN wal \ {n} : wal'[k] = wal[k]
        /\ phase \in {"open", "purge"}
    BY <1>1 DEF DeleteWal, Restrict, Leading
  <1>3. UNCHANGED <<m_log, m_next, mem, imm, tables, log_number_,
                    logfile_number_,
                     next_file_number_, alive_log_files_, log_empty_, phase, batch, w_pc,
                     new_log_number>>
    BY DEF DeleteWal, families, logState, versions_, leader, history
  <1>4. /\ n \in Nat /\ \A k \in DOMAIN wal : k \in Nat
        /\ \A c \in CF : n < log_number_[c] /\ log_number_[c] \in Nat
    BY <1>1, <1>2
       DEF ServingInv, CurrentWal, DeleteWal, TypeOK, DiskType, FamilyType
  <1>5. \A c \in CF : \A k \in DOMAIN wal : log_number_[c] <= k => k \in DOMAIN wal'
    BY <1>2, <1>4
  <1>6. \A k \in DOMAIN wal : (\E c \in CF : log_number_[c] <= k) => k # n
    BY <1>4
  <1>7. logfile_number_ \in DOMAIN wal'
    BY <1>1, <1>2, <1>5, WalSecretsAssumption DEF ServingInv, CurrentWal
  <1>8. /\ Flushing' /\ AckedInv' /\ Tracked' /\ AllVisible' /\ OneLogged'
        /\ (version_edits = Nothing)'
    BY <1>1
       DEF ServingInv, DeleteWal, families, logState, versions_, leader,
           replay, history, Flushing, AckedInv, Pending, Tracked, Logged,
           Picked, EditLog, AllVisible, Visible, Of, OneLogged
  <1>9. WalsSound'
    <2>1. \E k \in Nat : \A i \in DOMAIN wal' : i < k
      <3>1. PICK k \in Nat : \A i \in DOMAIN wal : i < k
        BY <1>1 DEF WalsSound
      <3>2. QED
        BY <1>2, <3>1
    <2>2. /\ \A i \in DOMAIN wal' : wal'[i].data \subseteq DOMAIN batch
          /\ \A i, k \in DOMAIN wal' : \A b \in wal'[i].data : b \in wal'[k].data => i = k
      BY <1>1, <1>2 DEF WalsSound
    <2>3. QED
      BY <1>3, <1>7, <2>1, <2>2 DEF WalsSound
  <1>10. Leading'
    BY <1>1, <1>2, <1>3 DEF Leading
  <1>11. TablesIn'
    <2>1. \A c \in CF : \A b \in tables[c] : \A k \in DOMAIN wal' :
            b \in wal'[k].data => k < m_log[c] /\ k < log_number_[c]
      BY <1>1, <1>2 DEF ServingInv, TablesIn
    <2>2. QED
      BY <1>3, <2>1 DEF TablesIn
  <1>12. MemIn'
    <2> SUFFICES ASSUME NEW c \in CF, NEW b \in mem[c]
                 PROVE  \E k \in DOMAIN wal' :
                          /\ b \in wal'[k].data /\ log_number_[c] <= k
                          /\ \A i \in 1 .. Len(imm[c]) : imm[c][i].next <= k
      BY <1>3 DEF MemIn
    <2>1. PICK k \in DOMAIN wal :
            /\ b \in wal[k].data /\ log_number_[c] <= k
            /\ \A i \in 1 .. Len(imm[c]) : imm[c][i].next <= k
      BY <1>1 DEF ServingInv, MemIn
    <2>2. k \in DOMAIN wal' /\ wal'[k] = wal[k]
      BY <1>2, <1>5, <2>1
    <2>3. QED
      BY <2>1, <2>2
  <1>13. SealedIn'
    <2> SUFFICES ASSUME NEW c \in CF, NEW j \in 1 .. Len(imm[c])
                 PROVE  /\ log_number_[c] <= imm[c][j].next
                        /\ imm[c][j].next <= logfile_number_
                        /\ \A i \in 1 .. j - 1 : imm[c][i].next <= imm[c][j].next
                        /\ \A b \in imm[c][j].data : \E k \in DOMAIN wal' :
                             /\ b \in wal'[k].data /\ k < imm[c][j].next
                             /\ log_number_[c] <= k
                             /\ \A i \in 1 .. j - 1 : imm[c][i].next <= k
      BY <1>3 DEF SealedIn
    <2>1. /\ log_number_[c] <= imm[c][j].next
          /\ imm[c][j].next <= logfile_number_
          /\ \A i \in 1 .. j - 1 : imm[c][i].next <= imm[c][j].next
          /\ \A b \in imm[c][j].data : \E k \in DOMAIN wal :
               /\ b \in wal[k].data /\ k < imm[c][j].next
               /\ log_number_[c] <= k
               /\ \A i \in 1 .. j - 1 : imm[c][i].next <= k
      BY <1>1 DEF ServingInv, SealedIn
    <2>2. ASSUME NEW b \in imm[c][j].data
          PROVE  \E k \in DOMAIN wal' :
                   /\ b \in wal'[k].data /\ k < imm[c][j].next
                   /\ log_number_[c] <= k
                   /\ \A i \in 1 .. j - 1 : imm[c][i].next <= k
      <3>1. PICK k \in DOMAIN wal :
              /\ b \in wal[k].data /\ k < imm[c][j].next /\ log_number_[c] <= k
              /\ \A i \in 1 .. j - 1 : imm[c][i].next <= k
        BY <2>1
      <3>2. k \in DOMAIN wal' /\ wal'[k] = wal[k]
        BY <1>2, <1>5, <3>1
      <3>3. QED
        BY <3>1, <3>2
    <2>3. QED
      BY <2>1, <2>2
  <1>14. Numbers'
    <2>1. \A k \in DOMAIN wal' : k < next_file_number_
      BY <1>1, <1>2 DEF ServingInv, Numbers
    <2>2. QED
      BY <1>1, <1>3, <2>1 DEF ServingInv, Numbers
  <1>15. Fresh'
    <2> SUFFICES ASSUME w_pc \in {"created", "recorded"}
                 PROVE  /\ new_log_number \in DOMAIN wal'
                        /\ wal'[new_log_number].data = {}
                        /\ \A k \in DOMAIN wal' : k <= new_log_number
                        /\ \A c \in CF : log_number_[c] <= new_log_number
      BY <1>3 DEF Fresh
    <2>1. /\ new_log_number \in DOMAIN wal /\ wal[new_log_number].data = {}
          /\ \A k \in DOMAIN wal : k <= new_log_number
          /\ \A c \in CF : log_number_[c] <= new_log_number
      BY <1>1 DEF ServingInv, Fresh
    <2>2. new_log_number \in DOMAIN wal'
      BY <1>5, <2>1, WalSecretsAssumption
    <2>3. QED
      BY <1>2, <2>1, <2>2
  <1>16. CurrentWal'
    <2>1. log_delete_files' \subseteq log_delete_files
      BY DEF DeleteWal
    <2>2. QED
      BY <1>1, <1>2, <1>3, <1>7, <2>1 DEF ServingInv, CurrentWal
  <1>17. QED
    BY <1>1, <1>8, <1>9, <1>10, <1>11, <1>12, <1>13, <1>14, <1>15, <1>16,
       ServingStep
       DEF ServingInv

\* OpenDatabase keeps the invariant.
LEMMA OpenDatabaseKeeps ==
  ASSUME TypeOK, WalInv, TypeOK', OpenDatabase
  PROVE  WalInv'
  <1>1. /\ Serving /\ Serving' /\ WalsSound /\ Flushing /\ Leading /\ AckedInv
        /\ ServingInv
    BY DEF WalInv, Serving, Leading, OpenDatabase, Flushing, TypeOK,
           HistoryType, LeaderType, FlushType
  <1>2. /\ new_log_number \in DOMAIN wal /\ wal[new_log_number].data = {}
        /\ \A k \in DOMAIN wal : k <= new_log_number
        /\ \A c \in CF : log_number_[c] <= new_log_number
    BY <1>1 DEF ServingInv, Fresh, OpenDatabase
  <1>3. \A c \in CF : imm[c] = <<>> /\ imm'[c] = <<>>
    BY <1>1 DEF Flushing, OpenDatabase, families
  <1>4. /\ WalsSound' /\ Tracked' /\ TablesIn' /\ MemIn' /\ OneLogged'
        /\ (version_edits = Nothing)'
    BY <1>1
       DEF ServingInv, OpenDatabase, disk, families, versions_, replay,
           history, WalsSound, Tracked, Logged, Picked, EditLog, TablesIn,
           MemIn, OneLogged
  <1>5. Flushing'
    BY <1>1
       DEF ServingInv, OpenDatabase, disk, families, versions_, replay,
           history, Flushing
  <1>6. Leading'
    BY <1>1
       DEF ServingInv, OpenDatabase, disk, families, versions_, replay,
           history, Leading
  <1>7. AckedInv'
    BY <1>1
       DEF ServingInv, OpenDatabase, disk, families, versions_, replay,
           history, AckedInv, Pending
  <1>8. AllVisible'
    BY <1>1
       DEF ServingInv, OpenDatabase, disk, families, versions_, replay,
           history, AllVisible, Visible, Picked, Of, Pending
  <1>9. SealedIn'
    BY <1>3 DEF SealedIn
  <1>10. Numbers'
    BY <1>1
       DEF ServingInv, OpenDatabase, disk, families, versions_, replay,
           history, Numbers
  <1>11. Fresh'
    BY <1>1
       DEF ServingInv, OpenDatabase, disk, families, versions_, replay,
           history, Fresh
  <1>12. CurrentWal'
    <2>1. ~BelowMinLog(new_log_number)
      <3>1. /\ log_number_[default] <= new_log_number /\ new_log_number \in Nat
            /\ log_number_[default] \in Nat
        BY <1>2, WalSecretsAssumption DEF TypeOK, FamilyType, LeaderType
      <3>2. QED
        BY <3>1, WalSecretsAssumption DEF BelowMinLog
    <2>2. /\ UNCHANGED <<wal, log_number_, log_empty_>>
          /\ logfile_number_' = new_log_number /\ w_pc' = "idle"
          /\ log_delete_files' = {n \in DOMAIN wal : BelowMinLog(n)}
          /\ new_log_number \in alive_log_files_'
      BY <2>1 DEF OpenDatabase, disk, families
    <2>3. \A n \in log_delete_files' : \A c \in CF : n < log_number_[c]
      BY <2>2 DEF BelowMinLog
    <2>4. QED
      BY <1>2, <2>2, <2>3 DEF CurrentWal
  <1>13. QED
    BY <1>1, <1>4, <1>5, <1>6, <1>7, <1>8, <1>9, <1>10, <1>11, <1>12,
       ServingStep
       DEF ServingInv

\* OpenReturns keeps the invariant.
LEMMA OpenReturnsKeeps ==
  ASSUME TypeOK, WalInv, TypeOK', OpenReturns
  PROVE  WalInv'
  <1>1. /\ Serving /\ Serving' /\ WalsSound /\ Flushing /\ Leading /\ AckedInv
        /\ ServingInv
    BY DEF WalInv, Serving, Leading, OpenReturns, Flushing, TypeOK,
           HistoryType, LeaderType, FlushType
  <1>2. /\ WalsSound' /\ AckedInv' /\ Tracked' /\ AllVisible' /\ TablesIn'
        /\ MemIn' /\ SealedIn' /\ OneLogged' /\ Fresh'
        /\ (version_edits = Nothing)'
    BY <1>1
       DEF ServingInv, OpenReturns, disk, families, logState, versions_,
           leader, flushes, replay, history, WalsSound, AckedInv, Pending,
           Tracked, Logged, Picked, EditLog, AllVisible, Visible, Of, TablesIn,
           MemIn, SealedIn, OneLogged, Fresh
  <1>3. Flushing'
    BY <1>1
       DEF ServingInv, OpenReturns, disk, families, logState, versions_,
           leader, flushes, replay, history, Flushing
  <1>4. Leading'
    BY <1>1
       DEF ServingInv, OpenReturns, disk, families, logState, versions_,
           leader, flushes, replay, history, Leading
  <1>5. Numbers'
    BY <1>1
       DEF ServingInv, OpenReturns, disk, families, logState, versions_,
           leader, flushes, replay, history, Numbers
  <1>6. CurrentWal'
    BY <1>1
       DEF ServingInv, OpenReturns, disk, families, logState, versions_,
           leader, flushes, replay, history, CurrentWal
  <1>7. QED
    BY <1>1, <1>2, <1>3, <1>4, <1>5, <1>6, ServingStep DEF ServingInv

-----------------------------------------------------------------------------
(* Crash and recovery *)

\* The log number the MANIFEST has for a family is not past the current WAL,
\* nor past a WAL that holds something of the memtables.
LEMMA ManifestLog ==
  ASSUME TypeOK, WalInv, Serving, NEW c \in CF
  PROVE  /\ m_log[c] \in Nat /\ log_number_[c] \in Nat
         /\ f_pc[c] = "logged" =>
              /\ mems_[c] \in 1 .. Len(imm[c])
              /\ m_log[c] = imm[c][mems_[c]].next
              /\ m_tables[c] = tables[c] \cup Picked(c, mems_[c])
         /\ f_pc[c] # "logged" => m_log[c] <= log_number_[c] /\ m_tables[c] = tables[c]
         /\ phase # "newlog" => m_log[c] <= logfile_number_ /\ logfile_number_ \in DOMAIN wal
  <1>1. m_log[c] \in Nat /\ log_number_[c] \in Nat /\ logfile_number_ \in Nat
    BY DEF TypeOK, DiskType, FamilyType, VersionType
  <1>2. f_pc[c] = "logged" =>
          /\ mems_[c] \in 1 .. Len(imm[c]) /\ m_log[c] = imm[c][mems_[c]].next
          /\ m_tables[c] = tables[c] \cup Picked(c, mems_[c])
    BY PickedType DEF WalInv, ServingInv, Tracked, Logged, EditLog
  <1>3. f_pc[c] # "logged" => m_log[c] <= log_number_[c] /\ m_tables[c] = tables[c]
    BY DEF WalInv, ServingInv, Tracked, Logged
  <1>4. ASSUME phase # "newlog"
        PROVE  m_log[c] <= logfile_number_ /\ logfile_number_ \in DOMAIN wal
    <2>1. logfile_number_ \in DOMAIN wal /\ log_number_[c] <= logfile_number_
      BY <1>4 DEF WalInv, ServingInv, CurrentWal, Serving
    <2>2. \A j \in 1 .. Len(imm[c]) : imm[c][j].next <= logfile_number_
      BY DEF WalInv, ServingInv, SealedIn
    <2>3. QED
      BY <1>1, <1>2, <1>3, <2>1, <2>2
  <1>5. QED
    BY <1>1, <1>2, <1>3, <1>4

\* While the database is open, what a family needs is in the MANIFEST's tables
\* or in a WAL from its log number on.
LEMMA ServingDurable ==
  ASSUME TypeOK, WalInv, Serving
  PROVE  Durable
  <1> SUFFICES ASSUME NEW c \in CF, NEW b \in Of(c), b \notin m_tables[c]
               PROVE  \E n \in DOMAIN wal : m_log[c] <= n /\ b \in wal[n].data
    BY DEF Durable
  <1>0. ServingInv /\ Leading /\ \A n \in DOMAIN wal : n \in Nat
    BY DEF WalInv, TypeOK, DiskType
  <1>1. CASE b \in Pending
    <2>1. phase = "open" /\ w_pc = "logged" /\ b = Len(batch)
      BY <1>0, <1>1 DEF Pending, Leading
    <2>2. b \in wal[logfile_number_].data
      BY <1>0, <2>1 DEF ServingInv, CurrentWal
    <2>3. QED
      BY <2>1, <2>2, ManifestLog
  <1>2. CASE b \in mem[c]
    <2>1. PICK n \in DOMAIN wal :
            /\ b \in wal[n].data /\ log_number_[c] <= n
            /\ \A i \in 1 .. Len(imm[c]) : imm[c][i].next <= n
      BY <1>0, <1>2 DEF ServingInv, MemIn
    <2>2. m_log[c] <= n
      BY <1>0, <2>1, ManifestLog
    <2>3. QED
      BY <2>1, <2>2
  <1>3. CASE b \in Picked(c, Len(imm[c]))
    <2>1. PICK j \in 1 .. Len(imm[c]) : b \in imm[c][j].data
      BY <1>3 DEF Picked
    <2>2. PICK n \in DOMAIN wal :
            /\ b \in wal[n].data /\ log_number_[c] <= n
            /\ \A i \in 1 .. j - 1 : imm[c][i].next <= n
      BY <1>0, <2>1 DEF ServingInv, SealedIn
    <2>3. CASE f_pc[c] = "logged"
      <3>1. /\ mems_[c] \in 1 .. Len(imm[c])
            /\ m_log[c] = imm[c][mems_[c]].next
            /\ b \notin Picked(c, mems_[c])
        BY <2>3, ManifestLog
      <3>2. j \notin 1 .. mems_[c]
        BY <2>1, <3>1 DEF Picked
      <3>3. mems_[c] \in 1 .. j - 1
        BY <2>1, <3>1, <3>2 DEF TypeOK, FamilyType
      <3>4. QED
        BY <2>2, <3>1, <3>3
    <2>4. CASE f_pc[c] # "logged"
      <3>1. m_log[c] <= n
        BY <1>0, <2>2, <2>4, ManifestLog
      <3>2. QED
        BY <2>2, <3>1
    <2>5. QED
      BY <2>3, <2>4
  <1>4. b \notin tables[c]
    BY ManifestLog
  <1>5. QED
    BY <1>0, <1>1, <1>2, <1>3, <1>4 DEF ServingInv, AllVisible, Visible

\* ... and what is in the MANIFEST's tables is in no WAL that is replayed for
\* the family.
LEMMA ServingTablesPast ==
  ASSUME TypeOK, WalInv, Serving
  PROVE  TablesPast
  <1> SUFFICES ASSUME NEW c \in CF, NEW b \in m_tables[c]
               PROVE  b \in Of(c) /\ \A n \in DOMAIN wal : b \in wal[n].data => n < m_log[c]
    BY DEF TablesPast
  <1>0. ServingInv /\ WalsSound /\ \A n \in DOMAIN wal : n \in Nat
    BY DEF WalInv, TypeOK, DiskType
  <1>1. CASE b \in tables[c]
    <2>1. b \in Of(c)
      BY <1>0, <1>1 DEF ServingInv, AllVisible, Visible
    <2>2. QED
      BY <1>0, <1>1, <2>1 DEF ServingInv, TablesIn
  <1>2. CASE b \notin tables[c]
    <2>1. /\ f_pc[c] = "logged" /\ mems_[c] \in 1 .. Len(imm[c])
          /\ m_log[c] = imm[c][mems_[c]].next /\ b \in Picked(c, mems_[c])
      BY <1>2, ManifestLog
    <2>2. PICK j \in 1 .. mems_[c] : b \in imm[c][j].data
      BY <2>1 DEF Picked
    <2>3. imm[c] \in Seq(MemTable) /\ Len(imm[c]) \in Nat
      BY DEF TypeOK, FamilyType
    <2>4. j \in 1 .. Len(imm[c]) /\ (j = mems_[c] \/ j \in 1 .. mems_[c] - 1)
      BY <2>1, <2>3
    <2>5. imm[c][j].next \in Nat /\ imm[c][mems_[c]].next \in Nat
      <3>1. imm[c][j] \in MemTable /\ imm[c][mems_[c]] \in MemTable
        BY <2>1, <2>3, <2>4
      <3>2. QED
        BY <3>1 DEF MemTable
    <2>6. imm[c][j].next <= imm[c][mems_[c]].next
      BY <1>0, <2>1, <2>4, <2>5 DEF ServingInv, SealedIn
    <2>7. PICK k \in DOMAIN wal : b \in wal[k].data /\ k < imm[c][j].next
      BY <1>0, <2>2, <2>4 DEF ServingInv, SealedIn
    <2>8. b \in Of(c)
      <3>1. b \in Picked(c, Len(imm[c]))
        BY <2>2, <2>4 DEF Picked
      <3>2. QED
        BY <1>0, <3>1 DEF ServingInv, AllVisible, Visible
    <2>9. \A n \in DOMAIN wal : b \in wal[n].data => n = k
      BY <1>0, <2>7 DEF WalsSound
    <2>10. k < m_log[c]
      BY <1>0, <2>1, <2>5, <2>6, <2>7
    <2>11. QED
      BY <2>8, <2>9, <2>10
  <1>3. QED
    BY <1>1, <1>2

\* What a crash leaves on disk, in whatever step it comes.
LEMMA DiskDurable ==
  ASSUME TypeOK, WalInv
  PROVE  Durable /\ TablesPast /\ LogKnown
  <1>1. CASE Serving
    <2>1. LogKnown
      <3> SUFFICES ASSUME NEW c \in CF
                   PROVE  m_log[c] <= m_next \/ \E n \in DOMAIN wal : m_log[c] <= n
        BY DEF LogKnown
      <3>1. phase = "newlog" => m_log[c] <= m_next
        BY <1>1 DEF WalInv, ServingInv, Numbers
      <3>2. QED
        BY <1>1, <3>1, ManifestLog
    <2>2. QED
      BY <1>1, <2>1, ServingDurable, ServingTablesPast
  <1>2. CASE ~Serving
    BY <1>2 DEF WalInv, Serving, TypeOK, HistoryType
  <1>3. QED
    BY <1>1, <1>2

\* A crash keeps the invariant.
LEMMA CrashKeeps ==
  ASSUME TypeOK, WalInv, Crash
  PROVE  WalInv'
  <1>1. UNCHANGED <<wal, m_tables, m_log, m_next, batch, acked>> /\ phase' =
                    "down"
    BY DEF Crash, disk
  <1>2. Durable' /\ TablesPast' /\ LogKnown' /\ WalsSound'
    BY <1>1, DiskDurable
       DEF Durable, TablesPast, LogKnown, WalsSound, Of, WalInv
  <1>3. Quiet' /\ DownInv'
    BY DEF Crash, ForgetMemory, Quiet, DownInv
  <1>4. Flushing' /\ Leading' /\ AckedInv'
    BY <1>1
       DEF Crash, ForgetMemory, Flushing, Leading, AckedInv, WalInv, Pending
  <1>5. QED
    BY <1>1, <1>2, <1>3, <1>4 DEF WalInv, Serving

\* Recover keeps the invariant.
LEMMA RecoverKeeps ==
  ASSUME TypeOK, WalInv, Recover
  PROVE  WalInv'
  <1>1. /\ UNCHANGED <<wal, m_tables, m_log, batch, acked, mem, imm, w_pc,
                       f_pc, mems_,
                       log_delete_files, rest, version_edits, flushed>>
        /\ phase = "down" /\ phase' = "replay" /\ tables' = m_tables
        /\ log_number_' = m_log
        /\ todo' = DOMAIN wal /\ m_next' = next_file_number_'
    BY DEF Recover, leader, flushes, history
  <1>2. m_next <= m_next' /\ m_next \in Nat /\ m_next' \in Nat
    BY MaxType DEF Recover, TypeOK, DiskType, WalInv
  <1>3. Durable' /\ TablesPast' /\ LogKnown' /\ WalsSound'
    <2>1. \A c \in CF : m_log[c] \in Nat
      BY DEF TypeOK, DiskType
    <2>2. LogKnown'
      BY <1>1, <1>2, <2>1 DEF LogKnown, WalInv
    <2>3. QED
      BY <1>1, <2>2 DEF Durable, TablesPast, WalsSound, Of, WalInv
  <1>4. Quiet' /\ Flushing' /\ Leading' /\ AckedInv'
    BY <1>1 DEF WalInv, Quiet, Flushing, Leading, AckedInv, Pending
  <1>5. ReplayInv'
    <2>1. rest' = {} /\ \A c \in CF : mem'[c] = {} /\ version_edits'[c] = {}
      BY <1>1 DEF WalInv, DownInv, Nothing
    <2>2. Replayed' /\ ReplayedFrom'
      BY <1>1, <2>1 DEF Replayed, ReplayedFrom
    <2>3. QED
      BY <1>1, <1>2, <2>1, <2>2 DEF ReplayInv, WalInv, DownInv
  <1>6. QED
    BY <1>1, <1>3, <1>4, <1>5 DEF WalInv, Serving

\* OpenLog keeps the invariant: the WAL it opens is one the families have
\* nothing of yet.
LEMMA OpenLogKeeps ==
  ASSUME TypeOK, WalInv, NEW n \in DOMAIN wal, OpenLog(n)
  PROVE  WalInv'
  <1>1. /\ UNCHANGED <<wal, m_tables, m_log, m_next, batch, acked, mem, imm,
                       tables,
                       log_number_, w_pc, f_pc, mems_, log_delete_files, version_edits, flushed>>
        /\ phase = "replay" /\ phase' \in {"replay", "exited"}
        /\ rest = {} /\ n \in todo /\ todo' = todo \ {n}
    BY DEF OpenLog, disk, families, leader, flushes, history
  <1>2. /\ WalsSound /\ Flushing /\ Leading /\ AckedInv
        /\ Durable /\ TablesPast /\ LogKnown /\ Quiet /\ ReplayInv
    BY <1>1 DEF WalInv
  <1>3. WalsSound' /\ Durable' /\ TablesPast' /\ LogKnown'
    BY <1>1, <1>2 DEF WalsSound, Durable, TablesPast, LogKnown, Of
  <1>4. Quiet' /\ Flushing' /\ Leading' /\ AckedInv'
    BY <1>1, <1>2 DEF Quiet, Flushing, Leading, AckedInv, Pending
  <1>5. \/ BelowMinLog(n) /\ rest' = {} /\ phase' = "replay"
        \/ rest' = wal[n].data /\ replaying' = n /\ phase' = "replay"
        \/ rest' = {} /\ phase' = "exited"
    BY <1>1 DEF OpenLog
  <1>6. m_next' <= next_file_number_'
    <2>1. /\ m_next <= next_file_number_ /\ m_next \in Nat
          /\ next_file_number_ \in Nat /\ n \in Nat
      BY <1>2 DEF ReplayInv, TypeOK, DiskType, VersionType
    <2>2. next_file_number_' \in {next_file_number_, MarkFileNumberUsed(n)}
      BY DEF OpenLog
    <2>3. QED
      BY <1>1, <2>1, <2>2 DEF MarkFileNumberUsed
  <1>7. phase' = "replay" => Replayed'
    <2> SUFFICES ASSUME phase' = "replay", NEW k \in DOMAIN wal \ todo',
                        NEW b \in wal[k].data \ rest', NEW c \in CF,
                        c \in batch[b], log_number_[c] <= k
                 PROVE  b \in mem[c] \cup version_edits[c]
      BY <1>1 DEF Replayed
    <2>1. k # n
      <3>1. BelowMinLog(n) => n < log_number_[c]
        BY DEF BelowMinLog
      <3>2. BelowMinLog(n) => k # n
        BY <3>1 DEF TypeOK, DiskType, FamilyType
      <3>3. QED
        BY <1>5, <3>2
    <2>2. QED
      BY <1>1, <1>2, <2>1 DEF ReplayInv, Replayed
  <1>8. ReplayedFrom'
    <2> SUFFICES ASSUME NEW c \in CF, NEW b \in mem[c] \cup version_edits[c]
                 PROVE  /\ b \in Of(c) /\ b \notin rest'
                        /\ \E k \in DOMAIN wal \ todo' : b \in wal[k].data /\ log_number_[c] <= k
      BY <1>1 DEF ReplayedFrom, Of
    <2>1. PICK k \in DOMAIN wal \ todo : b \in wal[k].data /\ log_number_[c] <= k
      BY <1>2 DEF ReplayInv, ReplayedFrom
    <2>2. b \notin wal[n].data
      BY <1>1, <1>2, <2>1 DEF WalsSound
    <2>3. QED
      BY <1>1, <1>2, <1>5, <2>1, <2>2 DEF ReplayInv, ReplayedFrom
  <1>9. ReplayInv'
    BY <1>1, <1>2, <1>5, <1>6, <1>7, <1>8 DEF ReplayInv
  <1>10. QED
    BY <1>1, <1>3, <1>4, <1>9 DEF WalInv, Serving

\* ReplayRecord keeps the invariant.
LEMMA ReplayRecordKeeps ==
  ASSUME TypeOK, WalInv, NEW full \in SUBSET CF, ReplayRecord(full)
  PROVE  WalInv'
  <1>1. /\ UNCHANGED <<wal, m_tables, m_log, m_next, batch, acked, imm, tables,
                       log_number_, w_pc, f_pc, mems_, log_delete_files, next_file_number_,
                       todo, replaying, phase>>
        /\ phase = "replay"
    BY DEF ReplayRecord, disk, leader, flushes, history, logState, versions_
  <1>2. /\ WalsSound /\ Flushing /\ Leading /\ AckedInv
        /\ Durable /\ TablesPast /\ LogKnown /\ Quiet /\ ReplayInv
    BY <1>1 DEF WalInv
  <1>3. WalsSound' /\ Durable' /\ TablesPast' /\ LogKnown'
    BY <1>1, <1>2 DEF WalsSound, Durable, TablesPast, LogKnown, Of
  <1>4. Quiet' /\ Flushing' /\ Leading' /\ AckedInv'
    BY <1>1, <1>2 DEF Quiet, Flushing, Leading, AckedInv, Pending
  <1> DEFINE grown(c, b) == IF Replays(c, b) THEN mem[c] \cup {b} ELSE mem[c]
  <1>5. PICK b \in rest :
          /\ \A c \in full : Replays(c, b)
          /\ rest' = rest \ {b}
          /\ mem' = [c \in CF |-> IF c \in full THEN {} ELSE grown(c, b)]
          /\ version_edits' = [c \in CF |-> IF c \in full THEN version_edits[c] \cup grown(c, b)
                                                          ELSE version_edits[c]]
    BY DEF ReplayRecord
  <1>6. /\ replaying \in DOMAIN wal \ todo /\ b \in wal[replaying].data
        /\ rest \subseteq wal[replaying].data /\ b \in DOMAIN batch
    BY <1>2, <1>5 DEF ReplayInv, WalsSound
  <1>7. \A c \in CF : mem'[c] \cup version_edits'[c] = version_edits[c] \cup grown(c, b)
    BY <1>5
  <1>8. Replayed'
    <2> SUFFICES ASSUME NEW k \in DOMAIN wal \ todo, NEW x \in wal[k].data \ rest', NEW c \in CF,
                        c \in batch[x], log_number_[c] <= k
                 PROVE  x \in mem'[c] \cup version_edits'[c]
      BY <1>1 DEF Replayed
    <2>1. CASE x = b
      <3>1. k = replaying
        BY <1>2, <1>6, <2>1 DEF WalsSound
      <3>2. QED
        BY <1>7, <2>1, <3>1 DEF Replays
    <2>2. CASE x # b
      <3>1. x \in mem[c] \cup version_edits[c]
        BY <1>1, <1>2, <1>5, <2>2 DEF ReplayInv, Replayed
      <3>2. QED
        BY <1>7, <3>1
    <2>3. QED
      BY <2>1, <2>2
  <1>9. ReplayedFrom'
    <2> SUFFICES ASSUME NEW c \in CF, NEW x \in mem'[c] \cup version_edits'[c]
                 PROVE  /\ x \in Of(c) /\ x \notin rest'
                        /\ \E k \in DOMAIN wal \ todo : x \in wal[k].data /\ log_number_[c] <= k
      BY <1>1 DEF ReplayedFrom, Of
    <2>1. CASE x \in mem[c] \cup version_edits[c]
      BY <1>2, <1>5, <2>1 DEF ReplayInv, ReplayedFrom
    <2>2. CASE x = b /\ Replays(c, b)
      BY <1>5, <1>6, <2>2 DEF Replays, Of
    <2>3. QED
      BY <1>7, <2>1, <2>2
  <1>10. \A c \in CF : mem'[c] \cap version_edits'[c] = {}
    <2> SUFFICES ASSUME NEW c \in CF, c \notin full PROVE mem'[c] \cap version_edits'[c] = {}
      BY <1>5
    <2>1. b \notin version_edits[c] /\ mem[c] \cap version_edits[c] = {}
      BY <1>2 DEF ReplayInv, ReplayedFrom
    <2>2. QED
      BY <1>5, <2>1
  <1>11. ~flushed' => version_edits' = Nothing
    <2> SUFFICES ASSUME ~flushed' PROVE version_edits' = Nothing
      OBVIOUS
    <2>1. ~flushed /\ full = {}
      BY DEF ReplayRecord
    <2>2. version_edits = Nothing
      BY <1>2, <2>1 DEF ReplayInv
    <2>3. QED
      BY <1>5, <2>1, <2>2 DEF Nothing
  <1>12. rest' # {} => replaying \in DOMAIN wal \ todo /\ rest' \subseteq wal[replaying].data
    BY <1>5, <1>6
  <1>13. ReplayInv'
    BY <1>1, <1>2, <1>8, <1>9, <1>10, <1>11, <1>12 DEF ReplayInv
  <1>14. QED
    BY <1>1, <1>3, <1>4, <1>13 DEF WalInv, Serving

\* FinishRecovery keeps the invariant: the replay has left every family with
\* what it had, and the new log numbers are past the WALs of what is in tables.
LEMMA FinishRecoveryKeeps ==
  ASSUME TypeOK, WalInv, TypeOK', FinishRecovery
  PROVE  WalInv'
  <1> DEFINE M == Max(DOMAIN wal)
             flush == flushed \/ ~avoid_flush_during_recovery
             stays(c) == mem[c] # {} /\ ~flush
  <1>1. /\ UNCHANGED <<wal, batch, acked, imm, w_pc, f_pc, mems_,
                       log_delete_files>>
        /\ phase = "replay" /\ phase' = "newlog" /\ todo = {} /\ rest = {}
        /\ m_tables' = tables' /\ m_log' = log_number_'
        /\ m_next' = next_file_number_'
        /\ version_edits' = Nothing
    BY DEF FinishRecovery, leader, flushes, history
  <1>2. /\ WalsSound /\ Flushing /\ Leading /\ AckedInv
        /\ Durable /\ TablesPast /\ LogKnown /\ Quiet /\ ReplayInv /\ Replayed
    BY <1>1 DEF WalInv, ReplayInv
  <1>3. M \in Nat /\ \A n \in DOMAIN wal : n <= M /\ n \in Nat
    BY <1>2, MaxType DEF TypeOK, DiskType
  <1>4. ASSUME NEW c \in CF
        PROVE  /\ tables'[c] = tables[c] \cup version_edits[c] \cup (IF flush THEN mem[c] ELSE {})
               /\ mem'[c] = IF flush THEN {} ELSE mem[c]
               /\ log_number_'[c] = IF stays(c) THEN log_number_[c] ELSE RecoveredLog(c, M)
    BY DEF FinishRecovery
  <1>5. next_file_number_' = MarkFileNumberUsed(M + 1)
    BY DEF FinishRecovery
  <1>6. ASSUME NEW c \in CF
        PROVE  /\ log_number_[c] \in Nat /\ log_number_[c] = m_log[c]
               /\ tables[c] = m_tables[c]
    BY <1>2 DEF ReplayInv, TypeOK, FamilyType
  <1> HIDE DEF M, flush
  <1>7. ASSUME NEW c \in CF, stays(c)
        PROVE  /\ tables'[c] = tables[c] /\ log_number_'[c] = log_number_[c]
               /\ log_number_[c] <= M
    <2>1. version_edits[c] = {} /\ ~flush
      BY <1>2, <1>7 DEF flush, ReplayInv, Nothing
    <2>2. PICK b \in mem[c] : TRUE
      BY <1>7
    <2>3. PICK n \in DOMAIN wal : log_number_[c] <= n
      BY <1>2 DEF ReplayInv, ReplayedFrom
    <2>4. log_number_[c] <= M
      BY <1>3, <1>6, <2>3
    <2>5. tables'[c] = tables[c] /\ log_number_'[c] = log_number_[c]
      BY <1>4, <1>7, <2>1
    <2>6. QED
      BY <2>4, <2>5
  <1>8. ASSUME NEW c \in CF, ~stays(c)
        PROVE  /\ log_number_'[c] > M
               /\ log_number_'[c] \in {log_number_[c], M + 1}
    BY <1>3, <1>4, <1>6, <1>8 DEF RecoveredLog
  <1>9. ASSUME NEW c \in CF
        PROVE  imm'[c] = <<>> /\ imm[c] = <<>> /\ f_pc'[c] = "none"
    BY <1>1, <1>2 DEF Quiet
  <1>10. WalsSound' /\ Flushing' /\ Leading' /\ AckedInv'
    BY <1>1, <1>2, <1>9
       DEF WalsSound, Flushing, Leading, AckedInv, Pending, Quiet
  <1>11. Tracked'
    <2>1. ASSUME NEW c \in CF PROVE Logged(c)' = {} /\ log_number_'[c] <= log_number_'[c]
      BY <1>9 DEF Logged, TypeOK, FamilyType
    <2>2. QED
      BY <1>1, <1>9, <2>1 DEF Tracked
  <1>12. AllVisible'
    <2> SUFFICES ASSUME NEW c \in CF PROVE Visible(c)' = Of(c)' \ Pending'
      BY DEF AllVisible
    <2>1. Of(c)' = Of(c) /\ Pending' = {}
      BY <1>1, <1>2 DEF Of, Pending, Quiet
    <2>2. Picked(c, Len(imm[c]))' = {}
      BY <1>9 DEF Picked
    <2>3. Visible(c)' = tables[c] \cup version_edits[c] \cup mem[c]
      BY <1>4, <2>2 DEF Visible
    <2>4. \A b \in tables[c] \cup version_edits[c] \cup mem[c] : b \in Of(c)
      BY <1>2, <1>6 DEF TablesPast, ReplayInv, ReplayedFrom
    <2>5. ASSUME NEW b \in Of(c), b \notin tables[c] PROVE b \in version_edits[c] \cup mem[c]
      <3>1. PICK n \in DOMAIN wal : log_number_[c] <= n /\ b \in wal[n].data
        BY <1>2, <1>6, <2>5 DEF Durable
      <3>2. QED
        BY <1>1, <1>2, <3>1 DEF Replayed, Of
    <2>6. QED
      BY <2>1, <2>3, <2>4, <2>5
  <1>13. TablesIn'
    <2> SUFFICES ASSUME NEW c \in CF, NEW b \in tables'[c], NEW n \in DOMAIN wal,
                        b \in wal[n].data
                 PROVE  n < log_number_'[c]
      BY <1>1 DEF TablesIn
    <2>1. CASE stays(c)
      BY <1>2, <1>6, <1>7, <2>1 DEF TablesPast
    <2>2. CASE ~stays(c)
      <3>1. log_number_'[c] > M /\ log_number_'[c] \in Nat
        BY <1>8, <2>2 DEF TypeOK, FamilyType
      <3>2. QED
        BY <1>3, <3>1
    <2>3. QED
      BY <2>1, <2>2
  <1>14. MemIn'
    <2> SUFFICES ASSUME NEW c \in CF, NEW b \in mem'[c]
                 PROVE  \E n \in DOMAIN wal : b \in wal[n].data /\ log_number_'[c] <= n
      BY <1>1, <1>9 DEF MemIn
    <2>1. stays(c) /\ b \in mem[c]
      BY <1>4
    <2>2. PICK n \in DOMAIN wal : b \in wal[n].data /\ log_number_[c] <= n
      BY <1>2, <2>1 DEF ReplayInv, ReplayedFrom
    <2>3. QED
      BY <1>7, <2>1, <2>2
  <1>15. SealedIn' /\ OneLogged'
    BY <1>9 DEF SealedIn, OneLogged
  <1>16. Numbers'
    <2>1. /\ next_file_number_ \in Nat /\ m_next \in Nat
          /\ m_next <= next_file_number_
      BY <1>2 DEF ReplayInv, TypeOK, DiskType, VersionType
    <2>2. M + 1 < next_file_number_' /\ next_file_number_ <= next_file_number_'
          /\ next_file_number_' \in Nat
      BY <1>3, <1>5, <2>1 DEF MarkFileNumberUsed
    <2>3. \A n \in DOMAIN wal : n < next_file_number_'
      BY <1>3, <2>2
    <2>4. ASSUME NEW c \in CF PROVE log_number_'[c] <= next_file_number_'
      <3>1. log_number_[c] <= m_next \/ log_number_[c] <= M
        <4>1. m_log[c] <= m_next \/ \E n \in DOMAIN wal : m_log[c] <= n
          BY <1>2 DEF LogKnown
        <4>2. QED
          BY <1>3, <1>6, <4>1
      <3>2. log_number_[c] <= next_file_number_'
        BY <1>3, <1>6, <2>1, <2>2, <3>1
      <3>3. log_number_'[c] \in {log_number_[c], M + 1}
        BY <1>7, <1>8
      <3>4. QED
        BY <1>3, <2>2, <3>2, <3>3
    <2>5. QED
      BY <1>1, <2>2, <2>3, <2>4 DEF Numbers
  <1>17. Fresh' /\ CurrentWal'
    BY <1>1, <1>2 DEF Fresh, CurrentWal, Quiet
  <1>18. QED
    BY <1>1, <1>10, <1>11, <1>12, <1>13, <1>14, <1>15, <1>16, <1>17,
       ServingStep
       DEF ServingInv, Serving

\* Nothing changes.
LEMMA UnchangedKeeps ==
  ASSUME TypeOK, WalInv, UNCHANGED vars
  PROVE  TypeOK' /\ WalInv'
  <1> USE DEF vars, disk, families, logState, versions_, leader, flushes,
              replay, history
  <1>1. TypeOK'
    BY SMTT(60) DEF TypeOK, DiskType, FamilyType, VersionType, LeaderType, FlushType,
           ReplayType, HistoryType
  <1>2. WalsSound' /\ Flushing' /\ Leading' /\ AckedInv'
    BY DEF WalInv, WalsSound, Flushing, Leading, AckedInv, Pending
  <1>3. Serving => ServingInv'
    <2> SUFFICES ASSUME Serving PROVE ServingInv'
      OBVIOUS
    <2>1. Tracked' /\ AllVisible'
      BY DEF WalInv, ServingInv, Tracked, AllVisible, Visible, Logged, Picked,
             EditLog, Of, Pending
    <2>2. TablesIn' /\ MemIn' /\ SealedIn' /\ OneLogged'
      BY DEF WalInv, ServingInv, TablesIn, MemIn, SealedIn, OneLogged
    <2>3. Numbers' /\ Fresh' /\ CurrentWal' /\ (version_edits = Nothing)'
      BY DEF WalInv, ServingInv, Numbers, Fresh, CurrentWal
    <2>4. QED
      BY <2>1, <2>2, <2>3 DEF ServingInv
  <1>4. phase \in {"down", "replay", "exited"} => Durable' /\ TablesPast' /\ LogKnown' /\ Quiet'
    BY DEF WalInv, Durable, TablesPast, LogKnown, Quiet, Of
  <1>5. phase = "down" => DownInv'
    BY DEF WalInv, DownInv
  <1>6. phase \in {"replay", "exited"} => ReplayInv'
    BY DEF WalInv, ReplayInv, Replayed, ReplayedFrom, Of
  <1>7. QED
    BY <1>1, <1>2, <1>3, <1>4, <1>5, <1>6 DEF WalInv, Serving

-----------------------------------------------------------------------------
(* The invariant *)

WalIInv == TypeOK /\ WalInv

\* The database that DB::Open has created satisfies the invariant.
LEMMA InitKeeps ==
  ASSUME Init
  PROVE  WalIInv
  <1>1. TypeOK
    <2>1. DiskType /\ FamilyType /\ VersionType
      BY DEF Init, DiskType, FamilyType, VersionType, Wal, Nothing, NoSecrets
    <2>2. LeaderType /\ ReplayType /\ HistoryType
      <3>1. LeaderType
        BY DEF Init, LeaderType
      <3>2. ReplayType
        BY DEF Init, ReplayType, Nothing
      <3>3. batch \in Seq(SUBSET CF)
        BY DEF Init
      <3>4. HistoryType
        BY <3>3 DEF Init, HistoryType
      <3>5. QED
        BY <3>1, <3>2, <3>4
    <2>3. FlushType
      <3>1. \A c \in CF : mems_[c] = 0 /\ Len(imm[c]) = 0
        BY DEF Init
      <3>2. QED
        BY <3>1 DEF Init, FlushType
    <2>4. QED
      BY <2>1, <2>2, <2>3 DEF TypeOK
  <1>2. /\ DOMAIN wal = {1} /\ wal[1].data = {} /\ DOMAIN batch = {}
        /\ phase = "open"
        /\ \A c \in CF : /\ m_tables[c] = {} /\ tables[c] = {} /\ mem[c] = {} /\ imm[c] = <<>>
                         /\ f_pc[c] = "none" /\ mems_[c] = 0
                         /\ log_number_[c] \in {0, 1}
                         /\ m_log[c] = log_number_[c]
    BY DEF Init, Nothing
  <1>3. WalsSound /\ Flushing /\ Leading /\ AckedInv
    <2>1. 2 \in Nat /\ \A n \in DOMAIN wal : n < 2
      BY <1>2
    <2>2. WalsSound
      BY <1>2, <2>1 DEF WalsSound
    <2>3. QED
      BY <1>2, <2>2 DEF Init, Flushing, Leading, AckedInv, Pending
  <1>4. Tracked /\ AllVisible /\ TablesIn /\ MemIn /\ SealedIn /\ OneLogged
    <2>1. \A c \in CF : Picked(c, Len(imm[c])) = {} /\ Logged(c) = {} /\ Of(c) = {}
      BY <1>2 DEF Picked, Logged, Of
    <2>2. QED
      BY <1>2, <2>1
         DEF Tracked, AllVisible, Visible, TablesIn, MemIn, SealedIn, OneLogged
  <1>5. Numbers /\ Fresh /\ CurrentWal /\ version_edits = Nothing
    BY <1>2 DEF Init, Numbers, Fresh, CurrentWal
  <1>6. QED
    BY <1>1, <1>2, <1>3, <1>4, <1>5 DEF WalIInv, WalInv, ServingInv, Serving

\* Every step keeps the invariant.
LEMMA NextKeeps ==
  ASSUME WalIInv, [Next]_vars
  PROVE  WalIInv'
  <1> SUFFICES TypeOK' /\ WalInv'
    BY DEF WalIInv
  <1>0. TypeOK /\ WalInv
    BY DEF WalIInv
  <1>1. ASSUME NEW s \in SUBSET CF \ {{}}, WriteToWAL(s) PROVE TypeOK' /\ WalInv'
    BY <1>0, <1>1, WriteToWALType, WriteToWALKeeps
  <1>2. ASSUME InsertInto PROVE TypeOK' /\ WalInv'
    BY <1>0, <1>2, InsertIntoType, InsertIntoKeeps
  <1>3. ASSUME SwitchWAL PROVE TypeOK' /\ WalInv'
    BY <1>0, <1>3, SwitchWALType, SwitchWALKeeps
  <1>4. ASSUME NEW c \in CF, ScheduleFlushes(c) PROVE TypeOK' /\ WalInv'
    BY <1>0, <1>4, ScheduleFlushesType, ScheduleFlushesKeeps
  <1>5. ASSUME NEW c \in CF, SwitchMemtable(c) PROVE TypeOK' /\ WalInv'
    BY <1>0, <1>5, SwitchMemtableType, SwitchMemtableKeeps
  <1>6. ASSUME CreateWAL PROVE TypeOK' /\ WalInv'
    BY <1>0, <1>6, CreateWALType, CreateWALKeeps
  <1>7. ASSUME AddLogSecret PROVE TypeOK' /\ WalInv'
    BY <1>0, <1>7, AddLogSecretType, AddLogSecretKeeps
  <1>8. ASSUME AddLogSecretFails PROVE TypeOK' /\ WalInv'
    BY <1>0, <1>8, AddLogSecretFailsType, AddLogSecretFailsKeeps
  <1>9. ASSUME NEW c \in CF, PickMemTable(c) PROVE TypeOK' /\ WalInv'
    BY <1>0, <1>9, PickMemTableType, PickMemTableKeeps
  <1>10. ASSUME NEW c \in CF, LogFlush(c) PROVE TypeOK' /\ WalInv'
    BY <1>0, <1>10, LogFlushType, LogFlushKeeps
  <1>11. ASSUME NEW c \in CF, InstallFlush(c) PROVE TypeOK' /\ WalInv'
    BY <1>0, <1>11, InstallFlushType, InstallFlushKeeps
  <1>12. ASSUME NEW c \in CF, FindObsoleteFiles(c) PROVE TypeOK' /\ WalInv'
    BY <1>0, <1>12, FindObsoleteFilesType, FindObsoleteFilesKeeps
  <1>13. ASSUME NEW n \in DOMAIN wal, DeleteWal(n) PROVE TypeOK' /\ WalInv'
    BY <1>0, <1>13, DeleteWalType, DeleteWalKeeps
  <1>14. ASSUME Recover PROVE TypeOK' /\ WalInv'
    BY <1>0, <1>14, RecoverType, RecoverKeeps
  <1>15. ASSUME NEW n \in DOMAIN wal, OpenLog(n) PROVE TypeOK' /\ WalInv'
    BY <1>0, <1>15, OpenLogType, OpenLogKeeps
  <1>16. ASSUME NEW full \in SUBSET CF, ReplayRecord(full) PROVE TypeOK' /\ WalInv'
    BY <1>0, <1>16, ReplayRecordType, ReplayRecordKeeps
  <1>17. ASSUME FinishRecovery PROVE TypeOK' /\ WalInv'
    BY <1>0, <1>17, FinishRecoveryType, FinishRecoveryKeeps
  <1>18. ASSUME OpenDatabase PROVE TypeOK' /\ WalInv'
    BY <1>0, <1>18, OpenDatabaseType, OpenDatabaseKeeps
  <1>19. ASSUME OpenReturns PROVE TypeOK' /\ WalInv'
    BY <1>0, <1>19, OpenReturnsType, OpenReturnsKeeps
  <1>20. ASSUME Crash PROVE TypeOK' /\ WalInv'
    BY <1>0, <1>20, CrashType, CrashKeeps
  <1>21. CASE Stopped \/ UNCHANGED vars
    BY <1>0, <1>21, UnchangedKeeps DEF Stopped
  <1>22. QED
    BY <1>1, <1>2, <1>3, <1>4, <1>5, <1>6, <1>7, <1>8, <1>9, <1>10, <1>11,
       <1>12, <1>13, <1>14, <1>15, <1>16, <1>17, <1>18, <1>19, <1>20, <1>21
       DEF Next, WriterStep, BackgroundStep, RecoveryStep

\* In every reachable state the variables have their types and the invariant
\* holds: what memory, the WALs and the MANIFEST say of a batch agrees.
THEOREM WalInvariant == Spec => []WalIInv
  <1>1. Init => WalIInv
    BY InitKeeps
  <1>2. WalIInv /\ [Next]_vars => WalIInv'
    BY NextKeeps
  <1>3. QED
    BY <1>1, <1>2, PTL DEF Spec

\* Every variable of the WALs, the MANIFEST, the families and the recovery has
\* its type.
THEOREM WalTypes == Spec => []TypeOK
  <1>1. WalIInv => TypeOK
    BY DEF WalIInv
  <1>2. QED
    BY <1>1, WalInvariant, PTL

\* An acknowledged batch is in every family it touches whenever the database is
\* open, for any number of crashes, families, writes and WALs: InsertInto,
\* flush, purge and replay lose nothing.
THEOREM AckedStay == Spec => []AckedVisible
  <1>1. ASSUME WalIInv PROVE AckedVisible
    <2> SUFFICES ASSUME Serving, NEW b \in acked, NEW c \in batch[b] PROVE b \in Visible(c)
      BY DEF AckedVisible
    <2>1. b \in DOMAIN batch /\ b \notin Pending
      BY <1>1 DEF WalIInv, WalInv, AckedInv
    <2>2. c \in CF
      BY <1>1, <2>1 DEF WalIInv, TypeOK, HistoryType
    <2>3. QED
      BY <1>1, <2>1, <2>2 DEF WalIInv, WalInv, ServingInv, AllVisible, Of
  <1>2. QED
    BY <1>1, WalInvariant, PTL

\* A batch that is in one family is in all that it touches, whatever crash came
\* between its record and its acknowledgement.
THEOREM BatchesAtomic == Spec => []BatchAtomic
  <1>1. ASSUME WalIInv PROVE BatchAtomic
    <2> SUFFICES ASSUME Serving, NEW b \in DOMAIN batch, NEW d \in CF, b \in Visible(d),
                        NEW c \in batch[b]
                 PROVE  b \in Visible(c)
      BY DEF BatchAtomic
    <2>1. b \notin Pending /\ c \in CF
      BY <1>1 DEF WalIInv, WalInv, ServingInv, AllVisible, TypeOK, HistoryType
    <2>2. QED
      BY <1>1, <2>1 DEF WalIInv, WalInv, ServingInv, AllVisible, Of
  <1>2. QED
    BY <1>1, WalInvariant, PTL

\* The log number of a flush's edit is not below the family's, and was given
\* out: the assertions of LogAndApplyHelper hold.
THEOREM FlushLogNumbers == Spec => []LogNumbersForward
  <1>1. ASSUME WalIInv PROVE LogNumbersForward
    <2> SUFFICES ASSUME NEW c \in CF, f_pc[c] \in {"picked", "logged"}
                 PROVE  /\ log_number_[c] <= EditLog(c)
                        /\ EditLog(c) < next_file_number_
      BY DEF LogNumbersForward
    <2>0. TypeOK /\ WalInv
      BY <1>1 DEF WalIInv
    <2>1. mems_[c] \in 1 .. Len(imm[c]) /\ EditLog(c) \in Nat /\ phase = "open"
      BY <2>0, PickedType DEF WalInv, Flushing
    <2>2. /\ log_number_[c] <= EditLog(c) /\ EditLog(c) <= logfile_number_
          /\ logfile_number_ < next_file_number_
      BY <2>0, <2>1
         DEF WalInv, ServingInv, Serving, SealedIn, EditLog, CurrentWal,
             Numbers
    <2>3. logfile_number_ \in Nat /\ next_file_number_ \in Nat
      BY <2>0 DEF TypeOK, VersionType
    <2>4. QED
      BY <2>1, <2>2, <2>3
  <1>2. QED
    BY <1>1, WalInvariant, PTL

\* The WAL that is written to exists, is alive and is in no purge: the
\* assertions of FindObsoleteFiles hold.
THEOREM CurrentWalStays == Spec => []CurrentWalKept
  <1>1. ASSUME WalIInv PROVE CurrentWalKept
    <2> SUFFICES ASSUME phase = "open"
                 PROVE  /\ logfile_number_ \in DOMAIN wal
                        /\ logfile_number_ \in alive_log_files_
                        /\ logfile_number_ \notin log_delete_files
      BY DEF CurrentWalKept
    <2>1. CurrentWal
      BY <1>1 DEF WalIInv, WalInv, ServingInv, Serving
    <2>2. log_number_[default] \in Nat /\ logfile_number_ \in Nat
      BY <1>1, WalSecretsAssumption
         DEF WalIInv, TypeOK, FamilyType, VersionType
    <2>3. QED
      BY <2>1, <2>2, WalSecretsAssumption DEF CurrentWal
  <1>2. QED
    BY <1>1, WalInvariant, PTL

\* A batch is in a family once, in the memtables, the tables of the replay or
\* the version, in every state: recovery applies no update twice.
THEOREM NothingAppliedTwice == Spec => []AppliedOnce
  <1>1. ASSUME WalIInv PROVE AppliedOnce
    <2> SUFFICES ASSUME NEW c \in CF
                 PROVE  /\ mem[c] \cap Picked(c, Len(imm[c])) = {}
                        /\ tables[c] \cap (mem[c] \cup Picked(c, Len(imm[c]))) = {}
                        /\ version_edits[c] \cap (mem[c] \cup tables[c]) = {}
                        /\ \A i, j \in DOMAIN imm[c] :
                             i # j => imm[c][i].data \cap imm[c][j].data = {}
      BY DEF AppliedOnce
    <2>0. TypeOK /\ WalInv /\ WalsSound
      BY <1>1 DEF WalIInv, WalInv
    <2>1. /\ log_number_[c] \in Nat /\ m_log[c] \in Nat /\ \A n \in DOMAIN wal : n \in Nat
          /\ imm[c] \in Seq(MemTable) /\ Len(imm[c]) \in Nat
          /\ DOMAIN imm[c] = 1 .. Len(imm[c])
      BY <2>0 DEF TypeOK, DiskType, FamilyType
    <2>2. \A i \in 1 .. Len(imm[c]) : imm[c][i].next \in Nat
      <3>1. \A i \in 1 .. Len(imm[c]) : imm[c][i] \in MemTable
        BY <2>1
      <3>2. QED
        BY <3>1 DEF MemTable
    <2>3. \A n, k \in DOMAIN wal : \A b : b \in wal[n].data /\ b \in wal[k].data => n = k
      BY <2>0 DEF WalsSound
    <2>4. CASE Serving
      <3>1. ServingInv
        BY <2>0, <2>4 DEF WalInv
      <3>2. ASSUME NEW b \in mem[c]
            PROVE  \E n \in DOMAIN wal : /\ b \in wal[n].data /\ log_number_[c] <= n
                                         /\ \A i \in 1 .. Len(imm[c]) : imm[c][i].next <= n
        BY <3>1 DEF ServingInv, MemIn
      <3>3. ASSUME NEW j \in 1 .. Len(imm[c]), NEW b \in imm[c][j].data
            PROVE  \E n \in DOMAIN wal :
                     /\ b \in wal[n].data /\ n < imm[c][j].next
                     /\ log_number_[c] <= n
                     /\ \A i \in 1 .. j - 1 : imm[c][i].next <= n
        BY <3>1 DEF ServingInv, SealedIn
      <3>4. ASSUME NEW b \in tables[c], NEW n \in DOMAIN wal, b \in wal[n].data
            PROVE  n < log_number_[c]
        BY <3>1, <3>4 DEF ServingInv, TablesIn
      <3>5. ASSUME NEW b \in mem[c], b \in Picked(c, Len(imm[c])) PROVE FALSE
        <4>1. PICK j \in 1 .. Len(imm[c]) : b \in imm[c][j].data
          BY <3>5 DEF Picked
        <4>2. PICK n \in DOMAIN wal : b \in wal[n].data /\ imm[c][j].next <= n
          BY <3>2
        <4>3. PICK k \in DOMAIN wal : b \in wal[k].data /\ k < imm[c][j].next
          BY <3>3, <4>1
        <4>4. QED
          BY <2>1, <2>2, <2>3, <4>2, <4>3
      <3>6. ASSUME NEW b \in tables[c], b \in mem[c] \cup Picked(c, Len(imm[c])) PROVE FALSE
        <4>1. \E n \in DOMAIN wal : b \in wal[n].data /\ log_number_[c] <= n
          <5>1. CASE b \in mem[c]
            BY <3>2, <5>1
          <5>2. CASE b \in Picked(c, Len(imm[c]))
            <6>1. PICK j \in 1 .. Len(imm[c]) : b \in imm[c][j].data
              BY <5>2 DEF Picked
            <6>2. QED
              BY <3>3, <6>1
          <5>3. QED
            BY <3>6, <5>1, <5>2
        <4>2. QED
          BY <2>1, <3>4, <4>1
      <3>7. ASSUME NEW i \in 1 .. Len(imm[c]), NEW j \in 1 .. Len(imm[c]), i < j,
                   NEW b \in imm[c][i].data, b \in imm[c][j].data
            PROVE  FALSE
        <4>1. PICK n \in DOMAIN wal : b \in wal[n].data /\ n < imm[c][i].next
          BY <3>3
        <4>2. PICK k \in DOMAIN wal :
                b \in wal[k].data /\ \A l \in 1 .. j - 1 : imm[c][l].next <= k
          BY <3>3, <3>7
        <4>3. i \in 1 .. j - 1
          BY <3>7, <2>1
        <4>4. QED
          BY <2>1, <2>2, <2>3, <4>1, <4>2, <4>3
      <3>8. version_edits[c] = {}
        BY <3>1 DEF ServingInv, Nothing
      <3>9. ASSUME NEW i \in 1 .. Len(imm[c]), NEW j \in 1 .. Len(imm[c]), i # j
            PROVE  imm[c][i].data \cap imm[c][j].data = {}
        <4>1. i < j \/ j < i
          BY <2>1, <3>9
        <4>2. QED
          BY <3>7, <4>1
      <3>10. QED
        BY <2>1, <3>5, <3>6, <3>8, <3>9
    <2>5. CASE ~Serving
      <3>1. phase \in {"down", "replay", "exited"}
        BY <2>0, <2>5 DEF Serving, TypeOK, HistoryType
      <3>2. imm[c] = <<>> /\ TablesPast
        BY <2>0, <3>1 DEF WalInv, Quiet
      <3>3. Picked(c, Len(imm[c])) = {} /\ DOMAIN imm[c] = {}
        BY <3>2 DEF Picked
      <3>4. CASE phase = "down"
        <4>1. mem[c] = {} /\ tables[c] = {} /\ version_edits[c] = {}
          BY <2>0, <3>4 DEF WalInv, DownInv, Nothing
        <4>2. QED
          BY <3>3, <4>1
      <3>5. CASE phase \in {"replay", "exited"}
        <4>1. ReplayInv
          BY <2>0, <3>5 DEF WalInv
        <4>2. /\ tables[c] = m_tables[c] /\ log_number_[c] = m_log[c]
              /\ mem[c] \cap version_edits[c] = {}
          BY <4>1 DEF ReplayInv
        <4>3. ASSUME NEW b \in tables[c], b \in mem[c] \cup version_edits[c] PROVE FALSE
          <5>1. PICK n \in DOMAIN wal : b \in wal[n].data /\ log_number_[c] <= n
            BY <4>1, <4>3 DEF ReplayInv, ReplayedFrom
          <5>2. n < m_log[c]
            BY <3>2, <4>2, <5>1 DEF TablesPast
          <5>3. QED
            BY <2>1, <4>2, <5>1, <5>2
        <4>4. QED
          BY <3>3, <4>2, <4>3
      <3>6. QED
        BY <3>1, <3>4, <3>5
    <2>6. QED
      BY <2>4, <2>5
  <1>2. QED
    BY <1>1, WalInvariant, PTL

-----------------------------------------------------------------------------
(* The secrets *)

\* The options and events under which the secret of a WAL stays in the MANIFEST
\* for as long as the WAL is needed.
SecretsStay ==
  ~avoid_flush_during_recovery /\ ~AllowRoll /\ ~AllowManifestError

\* The WALs a recovery from the MANIFEST as it is would open.
Needed(n) == \E c \in CF : m_log[c] <= n

\* The MANIFEST has the secret of WAL n.
Recorded(n) == n \in DOMAIN m_secret /\ m_secret[n] = wal[n].secret

\* The WAL whose secret is not recorded yet.
Unrecorded == IF w_pc = "created" THEN {new_log_number} ELSE {}

\* While the database is open, after a crash, and in the replay.
ServingSecrets ==
  /\ descriptor_log_
  /\ \A n \in DOMAIN m_secret : n < next_file_number_ /\ n \notin Unrecorded
  /\ \A n \in DOMAIN wal : Needed(n) => n \in Unrecorded \/ Recorded(n)

DownSecrets == \A n \in DOMAIN wal : Needed(n) => Recorded(n)

ReplaySecrets ==
  \A n \in todo : ~BelowMinLog(n) =>
    n \in DOMAIN log_secret /\ log_secret[n] = wal[n].secret

\* The invariant of the secrets.
SecretsInv ==
  /\ Serving => ServingSecrets
  /\ phase = "down" => window \/ DownSecrets
  /\ phase = "replay" => descriptor_log_ /\ (window \/ ReplaySecrets)
  /\ phase = "exited" => window

\* A step of an open database that writes no MANIFEST and creates no WAL.
LEMMA SecretsFrame ==
  ASSUME SecretsInv, Serving, Serving',
         UNCHANGED <<m_log, m_secret, descriptor_log_, next_file_number_>>,
         Unrecorded' = Unrecorded, DOMAIN wal' \subseteq DOMAIN wal,
         \A n \in DOMAIN wal' : wal'[n].secret = wal[n].secret
  PROVE  SecretsInv'
  <1>1. ServingSecrets
    BY DEF SecretsInv
  <1>2. \A n : Needed(n)' <=> Needed(n)
    BY DEF Needed
  <1>3. \A n \in DOMAIN wal' : Recorded(n)' <=> Recorded(n)
    BY DEF Recorded
  <1>4. ServingSecrets'
    BY <1>1, <1>2, <1>3 DEF ServingSecrets
  <1>5. QED
    BY <1>4 DEF SecretsInv, Serving

\* The leader's writes and switches keep the secrets.
LEMMA LeaderSecrets ==
  ASSUME WalIInv, SecretsInv,
         \/ \E s \in SUBSET CF \ {{}} : WriteToWAL(s)
         \/ InsertInto \/ SwitchWAL
         \/ \E c \in CF : ScheduleFlushes(c) \/ SwitchMemtable(c)
  PROVE  SecretsInv'
  <1>0. TypeOK /\ WalInv /\ Leading
    BY DEF WalIInv, WalInv
  <1>1. ASSUME NEW s \in SUBSET CF \ {{}}, WriteToWAL(s) PROVE SecretsInv'
    <2>1. /\ DOMAIN wal' = DOMAIN wal
          /\ \A n \in DOMAIN wal : wal'[n].secret = wal[n].secret
      BY <1>0, <1>1, WriteEffect
    <2>2. /\ UNCHANGED <<m_log, m_secret, descriptor_log_, next_file_number_>>
          /\ Serving /\ Serving' /\ Unrecorded' = Unrecorded
      BY <1>1 DEF WriteToWAL, versions_, Serving, Unrecorded
    <2>3. QED
      BY <2>1, <2>2, SecretsFrame
  <1>2. ASSUME InsertInto \/ SwitchWAL \/ \E c \in CF : ScheduleFlushes(c) \/ SwitchMemtable(c)
        PROVE  SecretsInv'
    <2>1. /\ UNCHANGED <<wal, m_log, m_secret, descriptor_log_,
                         next_file_number_>>
          /\ Serving /\ Serving' /\ w_pc # "created" /\ w_pc' # "created"
      BY <1>0, <1>2
         DEF InsertInto, SwitchWAL, ScheduleFlushes, SwitchMemtable, disk,
             versions_, Serving, Leading
    <2>2. Unrecorded' = Unrecorded
      BY <2>1 DEF Unrecorded
    <2>3. QED
      BY <2>1, <2>2, SecretsFrame
  <1>3. QED
    BY <1>1, <1>2

\* Flushes short of the MANIFEST, the purge and the end of Open keep the
\* secrets.
LEMMA BackgroundSecrets ==
  ASSUME WalIInv, SecretsInv,
         \/ \E c \in CF : PickMemTable(c) \/ InstallFlush(c) \/ FindObsoleteFiles(c)
         \/ \E n \in DOMAIN wal : DeleteWal(n)
         \/ OpenDatabase \/ OpenReturns
  PROVE  SecretsInv'
  <1>0. Leading /\ Flushing
    BY DEF WalIInv, WalInv
  <1>1. ASSUME \E c \in CF : PickMemTable(c) \/ InstallFlush(c) \/ FindObsoleteFiles(c)
        PROVE  SecretsInv'
    <2>1. /\ UNCHANGED <<wal, m_log, m_secret, descriptor_log_,
                         next_file_number_, w_pc,
                         new_log_number, phase>>
          /\ phase = "open"
      BY <1>0, <1>1
         DEF PickMemTable, InstallFlush, FindObsoleteFiles, disk, versions_,
             leader, Flushing
    <2>2. Serving /\ Serving' /\ Unrecorded' = Unrecorded
      BY <2>1 DEF Serving, Unrecorded
    <2>3. QED
      BY <2>1, <2>2, SecretsFrame
  <1>2. ASSUME NEW n \in DOMAIN wal, DeleteWal(n) PROVE SecretsInv'
    <2>1. /\ UNCHANGED <<m_log, m_secret, descriptor_log_, next_file_number_,
                         w_pc,
                         new_log_number, phase>>
          /\ phase \in {"open", "purge"}
      BY <1>0, <1>2 DEF DeleteWal, versions_, leader, Leading
    <2>2. Serving /\ Serving' /\ Unrecorded' = Unrecorded
      BY <2>1 DEF Serving, Unrecorded
    <2>3. DOMAIN wal' \subseteq DOMAIN wal /\ \A k \in DOMAIN wal' : wal'[k] = wal[k]
      BY <1>2 DEF DeleteWal, Restrict
    <2>4. QED
      BY <2>1, <2>2, <2>3, SecretsFrame
  <1>3. ASSUME OpenDatabase \/ OpenReturns PROVE SecretsInv'
    <2>1. /\ UNCHANGED <<wal, m_log, m_secret, descriptor_log_,
                         next_file_number_, new_log_number>>
          /\ Serving /\ Serving' /\ (w_pc = "created" <=> w_pc' = "created")
      BY <1>3 DEF OpenDatabase, OpenReturns, disk, versions_, leader, Serving
    <2>2. Unrecorded' = Unrecorded
      BY <2>1 DEF Unrecorded
    <2>3. QED
      BY <2>1, <2>2, SecretsFrame
  <1>4. QED
    BY <1>1, <1>2, <1>3

\* CreateWAL takes a number no secret was recorded for.
LEMMA CreateSecrets ==
  ASSUME WalIInv, SecretsInv, CreateWAL
  PROVE  SecretsInv'
  <1>0. TypeOK /\ WalInv
    BY DEF WalIInv
  <1>1. /\ Serving /\ Serving' /\ w_pc # "created"
        /\ UNCHANGED <<m_log, m_secret, descriptor_log_>>
        /\ next_file_number_' = next_file_number_ + 1
        /\ next_file_number_ \in Nat
        /\ Unrecorded = {} /\ Unrecorded' = {next_file_number_}
    BY <1>0 DEF CreateWAL, Serving, Unrecorded, TypeOK, VersionType
  <1>2. /\ DOMAIN wal' = DOMAIN wal \cup {next_file_number_}
        /\ \A k \in DOMAIN wal : k # next_file_number_ => wal'[k] = wal[k]
    BY <1>0, CreateEffect
  <1>3. ServingSecrets
    BY <1>1 DEF SecretsInv
  <1>4. \A n \in DOMAIN m_secret : n < next_file_number_ + 1 /\ n # next_file_number_
    <2>1. \A n \in DOMAIN m_secret : n \in Nat /\ n < next_file_number_
      BY <1>0, <1>3 DEF ServingSecrets, TypeOK, DiskType
    <2>2. QED
      BY <1>1, <2>1
  <1>5. ASSUME NEW n \in DOMAIN wal', Needed(n)', n # next_file_number_
        PROVE  Recorded(n)'
    <2>1. n \in DOMAIN wal /\ Needed(n) /\ wal'[n] = wal[n]
      BY <1>1, <1>2, <1>5 DEF Needed
    <2>2. QED
      BY <1>1, <1>3, <2>1 DEF ServingSecrets, Recorded
  <1>6. ServingSecrets'
    BY <1>1, <1>3, <1>4, <1>5 DEF ServingSecrets
  <1>7. QED
    BY <1>1, <1>6 DEF SecretsInv, Serving

\* The MANIFEST that is open is written to, and keeps what it has.
LEMMA SameManifest ==
  ASSUME SecretsStay, NEW new \in BOOLEAN, descriptor_log_, NewDescriptorLog(new)
  PROVE  ~new
  BY DEF SecretsStay, NewDescriptorLog

\* The record of CreateWAL adds the secret of the new WAL.
LEMMA AddLogSecretSecrets ==
  ASSUME SecretsStay, WalIInv, SecretsInv, AddLogSecret
  PROVE  SecretsInv'
  <1>0. TypeOK /\ WalInv
    BY DEF WalIInv
  <1>1. /\ Serving /\ Serving' /\ Unrecorded = {new_log_number}
        /\ Unrecorded' = {}
        /\ UNCHANGED <<wal, next_file_number_>>
    BY <1>0 DEF AddLogSecret, Serving, Unrecorded, WalInv, Leading
  <1>2. ServingSecrets
    BY <1>1 DEF SecretsInv
  <1>3. new_log_number \in DOMAIN wal /\ new_log_number < next_file_number_
    BY <1>0, <1>1 DEF WalInv, ServingInv, Fresh, Numbers, AddLogSecret
  <1> DEFINE secret == [n \in {new_log_number} |-> wal[n].secret]
  <1>4. PICK new \in BOOLEAN :
          NewDescriptorLog(new) /\ LogAndApply(new, Nothing, NoSecrets, secret)
    BY DEF AddLogSecret
  <1>5. ~new
    BY <1>2, <1>4, SameManifest DEF ServingSecrets
  <1>6. /\ \A c \in CF : m_log'[c] = m_log[c]
        /\ descriptor_log_'
        /\ DOMAIN m_secret' = DOMAIN m_secret \cup {new_log_number}
        /\ \A n \in DOMAIN m_secret : m_secret'[n] = m_secret[n]
        /\ new_log_number \notin DOMAIN m_secret
             => m_secret'[new_log_number] = wal[new_log_number].secret
    BY <1>4, <1>5 DEF LogAndApply, NoSecrets
  <1>7. ASSUME NEW n \in DOMAIN wal, Needed(n)' PROVE Recorded(n)'
    <2>1. Needed(n)
      BY <1>6, <1>7 DEF Needed
    <2>2. CASE n = new_log_number
      BY <1>1, <1>2, <1>6, <2>2 DEF ServingSecrets, Recorded
    <2>3. CASE n # new_log_number
      BY <1>1, <1>2, <1>6, <2>1, <2>3 DEF ServingSecrets, Recorded
    <2>4. QED
      BY <2>2, <2>3
  <1>8. ServingSecrets'
    BY <1>1, <1>2, <1>3, <1>6, <1>7 DEF ServingSecrets
  <1>9. QED
    BY <1>1, <1>8 DEF SecretsInv, Serving

\* A flush moves a log number forward, and no secret goes.
LEMMA LogFlushSecrets ==
  ASSUME SecretsStay, WalIInv, SecretsInv, NEW c \in CF, LogFlush(c)
  PROVE  SecretsInv'
  <1>0. TypeOK /\ WalInv
    BY DEF WalIInv
  <1>1. /\ Serving /\ Serving' /\ Unrecorded' = Unrecorded
        /\ UNCHANGED <<wal, next_file_number_>>
    BY <1>0 DEF LogFlush, Serving, Unrecorded, WalInv, Flushing, leader
  <1>2. ServingSecrets
    BY <1>1 DEF SecretsInv
  <1>3. PICK new \in BOOLEAN :
          /\ NewDescriptorLog(new)
          /\ LogAndApply(new, [Nothing EXCEPT ![c] = Picked(c, mems_[c])],
                         [d \in {c} |-> EditLog(c)], NoSecrets)
    BY DEF LogFlush
  <1>4. ~new
    BY <1>2, <1>3, SameManifest DEF ServingSecrets
  <1>5. /\ m_log'[c] = EditLog(c) /\ \A d \in CF \ {c} : m_log'[d] = m_log[d]
        /\ descriptor_log_'
        /\ DOMAIN m_secret' = DOMAIN m_secret
        /\ \A n \in DOMAIN m_secret : m_secret'[n] = m_secret[n]
    BY <1>3, <1>4 DEF LogAndApply, NoSecrets
  <1>6. m_log[c] <= EditLog(c) /\ m_log[c] \in Nat /\ EditLog(c) \in Nat
    <2>1. mems_[c] \in 1 .. Len(imm[c]) /\ EditLog(c) \in Nat
      BY <1>0, PickedType DEF WalInv, LogFlush
    <2>2. /\ m_log[c] <= log_number_[c] /\ m_log[c] \in Nat
          /\ log_number_[c] \in Nat
      BY <1>0, <1>1, ManifestLog DEF LogFlush
    <2>3. log_number_[c] <= EditLog(c)
      BY <1>0, <1>1, <2>1 DEF WalInv, ServingInv, SealedIn, EditLog
    <2>4. QED
      BY <2>1, <2>2, <2>3
  <1>7. ASSUME NEW n \in DOMAIN wal, Needed(n)', n \notin Unrecorded PROVE Recorded(n)'
    <2>1. PICK d \in CF : m_log'[d] <= n
      BY <1>7 DEF Needed
    <2>2. n \in Nat
      BY <1>0 DEF TypeOK, DiskType
    <2>3. m_log[d] <= n
      BY <1>5, <1>6, <2>1, <2>2
    <2>4. Recorded(n)
      BY <1>2, <1>7, <2>3 DEF ServingSecrets, Needed
    <2>5. QED
      BY <1>1, <1>5, <2>4 DEF Recorded
  <1>8. ServingSecrets'
    BY <1>1, <1>2, <1>5, <1>7 DEF ServingSecrets
  <1>9. QED
    BY <1>1, <1>8 DEF SecretsInv, Serving

\* A crash outside the windows leaves the secrets on disk.
LEMMA CrashSecrets ==
  ASSUME WalIInv, SecretsInv, Crash
  PROVE  SecretsInv'
  <1>1. /\ UNCHANGED <<wal, m_log, m_secret>> /\ phase' = "down"
        /\ window' = (window \/ InWindow)
    BY DEF Crash, disk
  <1>2. window' \/ DownSecrets'
    <2> SUFFICES ASSUME ~InWindow PROVE DownSecrets'
      BY <1>1
    <2>1. Serving /\ Unrecorded = {}
      BY DEF InWindow, Serving, Unrecorded, WalIInv, TypeOK, HistoryType, Crash
    <2>2. ServingSecrets
      BY <2>1 DEF SecretsInv
    <2>3. QED
      BY <1>1, <2>1, <2>2 DEF ServingSecrets, DownSecrets, Needed, Recorded
  <1>3. QED
    BY <1>1, <1>2 DEF SecretsInv, Serving

\* Recover reads the secrets before the new MANIFEST drops them.
LEMMA RecoverSecrets ==
  ASSUME WalIInv, SecretsInv, Recover
  PROVE  SecretsInv'
  <1>1. /\ UNCHANGED <<wal, m_log, window>> /\ phase = "down" /\ phase' =
                       "replay"
        /\ log_number_' = m_log /\ log_secret' = m_secret /\ todo' = DOMAIN wal
        /\ descriptor_log_'
    BY DEF Recover, history
  <1>2. window \/ DownSecrets
    BY <1>1 DEF SecretsInv
  <1>3. DownSecrets => ReplaySecrets'
    <2> SUFFICES ASSUME DownSecrets, NEW n \in DOMAIN wal, ~BelowMinLog(n)'
                 PROVE  n \in DOMAIN m_secret /\ m_secret[n] = wal[n].secret
      BY <1>1 DEF ReplaySecrets
    <2>1. PICK c \in CF : ~(n < m_log[c])
      BY <1>1 DEF BelowMinLog
    <2>2. m_log[c] <= n
      BY <2>1 DEF WalIInv, TypeOK, DiskType
    <2>3. QED
      BY <2>2 DEF DownSecrets, Needed, Recorded
  <1>4. QED
    BY <1>1, <1>2, <1>3 DEF SecretsInv, Serving

\* The replay ends the process only when a crash hit a window before.
LEMMA ReplaySecretsKept ==
  ASSUME WalIInv, SecretsInv,
         \/ \E n \in DOMAIN wal : OpenLog(n)
         \/ \E full \in SUBSET CF : ReplayRecord(full)
  PROVE  SecretsInv'
  <1>1. ASSUME NEW n \in DOMAIN wal, OpenLog(n) PROVE SecretsInv'
    <2>1. /\ UNCHANGED <<wal, window, log_number_, log_secret,
                         descriptor_log_>>
          /\ phase = "replay" /\ n \in todo /\ todo' = todo \ {n}
          /\ phase' \in {"replay", "exited"}
      BY <1>1 DEF OpenLog, disk, families, history
    <2>2. descriptor_log_ /\ (window \/ ReplaySecrets)
      BY <2>1 DEF SecretsInv
    <2>3. ReplaySecrets => ReplaySecrets'
      BY <2>1 DEF ReplaySecrets, BelowMinLog
    <2>4. ReplaySecrets => phase' = "replay"
      BY <1>1, <2>1 DEF ReplaySecrets, OpenLog
    <2>5. QED
      BY <2>1, <2>2, <2>3, <2>4 DEF SecretsInv, Serving
  <1>2. ASSUME NEW full \in SUBSET CF, ReplayRecord(full) PROVE SecretsInv'
    <2>1. /\ UNCHANGED <<wal, window, log_number_, log_secret, descriptor_log_,
                         todo, phase>>
          /\ phase = "replay"
      BY <1>2 DEF ReplayRecord, disk, families, history, versions_
    <2>2. ReplaySecrets => ReplaySecrets'
      BY <2>1 DEF ReplaySecrets, BelowMinLog
    <2>3. QED
      BY <2>1, <2>2 DEF SecretsInv, Serving
  <1>3. QED
    BY <1>1, <1>2

\* When the replay has flushed everything, no WAL it has read is needed: the
\* MANIFEST without secrets is enough.
LEMMA FinishSecrets ==
  ASSUME SecretsStay, WalIInv, WalIInv', SecretsInv, FinishRecovery
  PROVE  SecretsInv'
  <1>0. TypeOK /\ WalInv /\ WalsSound
    BY DEF WalIInv, WalInv
  <1>1. /\ UNCHANGED <<wal, descriptor_log_>> /\ phase = "replay" /\ phase' =
                       "newlog"
        /\ m_secret' = NoSecrets /\ m_log' = log_number_'
    BY DEF FinishRecovery
  <1>2. Max(DOMAIN wal) \in Nat /\ \A n \in DOMAIN wal : n \in Nat /\ n <= Max(DOMAIN wal)
    BY <1>0, MaxType DEF TypeOK, DiskType
  <1>3. ASSUME NEW c \in CF PROVE log_number_'[c] > Max(DOMAIN wal) /\ log_number_'[c] \in Nat
    <2>1. log_number_'[c] = RecoveredLog(c, Max(DOMAIN wal))
      BY DEF FinishRecovery, SecretsStay
    <2>2. log_number_[c] \in Nat
      BY <1>0 DEF TypeOK, FamilyType
    <2>3. QED
      BY <1>2, <2>1, <2>2 DEF RecoveredLog
  <1>4. \A n \in DOMAIN wal : ~Needed(n)'
    BY <1>1, <1>2, <1>3 DEF Needed
  <1>5. DOMAIN m_secret' = {} /\ descriptor_log_'
    BY <1>1 DEF NoSecrets, SecretsInv
  <1>6. ServingSecrets'
    BY <1>1, <1>4, <1>5 DEF ServingSecrets
  <1>7. QED
    BY <1>1, <1>6 DEF SecretsInv, Serving

\* With the flush at the end of recovery, no roll of the MANIFEST and no error of
\* its writer, the next open finds every secret it needs unless a crash came in
\* the replay or between the creation of a WAL and the record of its secret.
THEOREM ReopensUnlessInWindow ==
  ASSUME SecretsStay
  PROVE  Spec => []ReopensOutsideWindows
  <1>1. Init => SecretsInv
    <2> SUFFICES ASSUME Init PROVE SecretsInv
      OBVIOUS
    <2>1. /\ DOMAIN m_secret = {1} /\ m_secret[1] = 1 /\ DOMAIN wal = {1}
          /\ wal[1].secret = 1
          /\ descriptor_log_ /\ Unrecorded = {} /\ phase = "open"
          /\ next_file_number_ = 2
      BY DEF Init, Unrecorded
    <2>2. QED
      BY <2>1 DEF SecretsInv, ServingSecrets, Recorded
  <1>2. ASSUME WalIInv, WalIInv', SecretsInv, [Next]_vars PROVE SecretsInv'
    <2>1. CASE WriterStep
      <3>1. ~AddLogSecretFails
        BY DEF AddLogSecretFails, SecretsStay
      <3>2. QED
        BY <1>2, <2>1, <3>1, LeaderSecrets, CreateSecrets, AddLogSecretSecrets
           DEF WriterStep
    <2>2. CASE BackgroundStep
      BY <1>2, <2>2, BackgroundSecrets, LogFlushSecrets DEF BackgroundStep
    <2>3. CASE RecoveryStep
      BY <1>2, <2>3, RecoverSecrets, ReplaySecretsKept, FinishSecrets,
         BackgroundSecrets
         DEF RecoveryStep
    <2>4. CASE Crash
      BY <1>2, <2>4, CrashSecrets
    <2>5. CASE UNCHANGED vars
      <3>1. UNCHANGED <<wal, m_log, m_secret, next_file_number_,
                        descriptor_log_, log_secret,
                        log_number_, w_pc, new_log_number, todo, window, phase>>
        BY <2>5 DEF vars, disk, families, versions_, leader, replay, history
      <3>2. QED
        BY <1>2, <3>1
           DEF SecretsInv, Serving, ServingSecrets, DownSecrets, ReplaySecrets,
               Needed, Recorded, Unrecorded, BelowMinLog
    <2>6. QED
      BY <1>2, <2>1, <2>2, <2>3, <2>4, <2>5 DEF Next, Stopped
  <1>3. SecretsInv => ReopensOutsideWindows
    BY DEF SecretsInv, ReopensOutsideWindows
  <1>4. QED
    BY <1>1, <1>2, <1>3, WalInvariant, PTL DEF Spec
=============================================================================
