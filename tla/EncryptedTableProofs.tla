------------------------ MODULE EncryptedTableProofs ------------------------
(***************************************************************************)
(* A table can be read, and reads right, whatever was put into it.         *)
(*                                                                         *)
(* What Ready decodes from the key list of a block is the list of entries  *)
(* its builder was given: offsets, lengths and keys that were cut at what  *)
(* they share with the key before.  So every value that an iterator of the *)
(* table reads verifies, and what is left to say of an iterator is where   *)
(* it stands: in the block of its index entry, unless its status reports a *)
(* failed read.  The keys of a table go up from place to place, and the    *)
(* index leads to the block in which the search for a target ends.  This   *)
(* gives the key that Seek, Next, Prev and SeekForPrev show; a Get visits  *)
(* the keys from there on in their order, and its answer is right for the  *)
(* part of the table that it has seen after every call of SaveValue.       *)
(***************************************************************************)
EXTENDS EncryptedTable, SequenceTheorems, FiniteSetTheorems,
        WellFoundedInduction, TLAPS

USE EncryptedTableAssumption

-----------------------------------------------------------------------------
(* Numbers and recursion *)

\* A set of numbers that is not empty has a smallest.
LEMMA LeastNat ==
  ASSUME NEW S, S \subseteq Nat, S # {}
  PROVE  \E x \in S : \A y \in S : x <= y
<1> DEFINE R == {ss \in Nat \X Nat : ss[1] < ss[2]}
<1>1. IsWellFoundedOn(R, Nat)
  BY NatLessThanWellFounded DEF OpToRel
<1>2. \A x, y \in Nat : x < y => <<x, y>> \in R
  OBVIOUS
<1> HIDE DEF R
<1>3. PICK x \in S : \A y \in S : <<y, x>> \notin R
  BY <1>1, WFMin
<1>4. ASSUME NEW y \in S PROVE x <= y
  <2>1. x \in Nat /\ y \in Nat
    OBVIOUS
  <2>2. ~(y < x)
    BY <1>2, <1>3, <2>1
  <2> QED
    BY <2>1, <2>2
<1> QED
  BY <1>3, <1>4

\* The choice of the least element.
LEMMA MinNat ==
  ASSUME NEW S, S \subseteq Nat, S # {}
  PROVE  Min(S) \in S /\ \A y \in S : Min(S) <= y
<1>1. \E x \in S : \A y \in S : x <= y
  BY LeastNat
<1> QED
  BY <1>1 DEF Min

\* A set of numbers with a bound has a largest.
LEMMA MaxNat ==
  ASSUME NEW S, S \subseteq Nat, S # {}, NEW b \in Nat, \A x \in S : x <= b
  PROVE  Max(S) \in S /\ \A y \in S : y <= Max(S)
<1> DEFINE U == {u \in Nat : \A x \in S : x <= u}
<1>1. PICK u \in U : \A v \in U : u <= v
  <2>1. U \subseteq Nat /\ b \in U
    OBVIOUS
  <2> QED
    BY <2>1, LeastNat
<1>2. u \in S
  <2> SUFFICES ASSUME u \notin S PROVE FALSE
    OBVIOUS
  <2>1. PICK y : y \in S
    OBVIOUS
  <2>2. y \in Nat /\ y <= u /\ y # u /\ u \in Nat
    BY <1>1, <2>1
  <2>3. u - 1 \in Nat /\ ~(u <= u - 1)
    BY <2>2
  <2>4. ASSUME NEW x \in S PROVE x <= u - 1
    <3>1. x \in Nat /\ x <= u /\ x # u
      BY <1>1
    <3> QED
      BY <2>2, <3>1
  <2>5. u - 1 \in U
    BY <2>3, <2>4
  <2> QED
    BY <1>1, <2>3, <2>5
<1>3. \E x \in S : \A y \in S : y <= x
  BY <1>1, <1>2
<1> QED
  BY <1>3 DEF Max

\* Induction from lo to hi.
LEMMA UpTo ==
  ASSUME NEW lo \in Nat, NEW hi \in Nat, NEW G, lo \in G,
         \A n \in lo .. hi : n # lo /\ n - 1 \in G => n \in G
  PROVE  \A n \in lo .. hi : n \in G
<1> DEFINE Bad == {n \in lo .. hi : n \notin G}
<1> SUFFICES ASSUME Bad # {} PROVE FALSE
  OBVIOUS
<1>1. Bad \subseteq Nat
  OBVIOUS
<1>2. PICK n \in Bad : \A m \in Bad : n <= m
  BY <1>1, LeastNat
<1>3. n \in Nat /\ lo <= n /\ n <= hi /\ n \notin G /\ n # lo
  OBVIOUS
<1>4. n - 1 \in lo .. hi /\ ~(n <= n - 1) /\ n \in lo .. hi
  BY <1>3
<1>5. n - 1 \in G
  BY <1>2, <1>4
<1> QED
  BY <1>3, <1>4, <1>5

\* What each value of a function from lo to hi makes of the one before it.
Steps(F, lo, hi, S) == \A n \in lo .. hi : n # lo => F[n] \in [S -> S]

\* A function that begins with a and goes on by F.
Runs(f, lo, hi, a, F, S) ==
  /\ f \in [lo .. hi -> S]
  /\ \A n \in lo .. hi : f[n] = IF n = lo THEN a ELSE F[n][f[n - 1]]

\* There is one.
LEMMA Recursion ==
  ASSUME NEW lo \in Nat, NEW hi \in Nat, NEW S, NEW a \in S,
         NEW F, Steps(F, lo, hi, S)
  PROVE  \E f : Runs(f, lo, hi, a, F, S)
<1> USE DEF Steps, Runs
<1> DEFINE Def(f, h) == \A n \in lo .. h :
                          f[n] = IF n = lo THEN a ELSE F[n][f[n - 1]]
           Done == {h \in Nat : h <= hi => \E f \in [lo .. h -> S] : Def(f, h)}
           Bad == Nat \ Done
<1> SUFFICES hi \in Done
  OBVIOUS
<1> SUFFICES ASSUME Bad # {} PROVE FALSE
  OBVIOUS
<1>1. PICK h \in Bad : \A k \in Bad : h <= k
  <2>1. Bad \subseteq Nat
    OBVIOUS
  <2> QED
    BY <2>1, LeastNat
<1>2. h \in Nat /\ h <= hi /\ ~ \E f \in [lo .. h -> S] : Def(f, h)
  OBVIOUS
<1>3. CASE h <= lo
  <2>1. [n \in lo .. h |-> a] \in [lo .. h -> S]
    OBVIOUS
  <2>2. \A n \in lo .. h : n = lo
    BY <1>2, <1>3
  <2>3. Def([n \in lo .. h |-> a], h)
    BY <2>2
  <2> QED
    BY <1>2, <2>1, <2>3
<1>4. CASE ~(h <= lo)
  <2>1. h - 1 \in Nat /\ h - 1 <= hi /\ ~(h <= h - 1) /\ h - 1 \in lo .. (h - 1)
    BY <1>2, <1>4
  <2>2. h - 1 \in Done
    BY <1>1, <2>1
  <2>3. PICK g \in [lo .. (h - 1) -> S] : Def(g, h - 1)
    BY <2>1, <2>2
  <2>4. g[h - 1] \in S /\ h \in lo .. hi /\ h # lo
    BY <1>2, <1>4, <2>1
  <2>5. F[h][g[h - 1]] \in S
    BY <2>4
  <2> DEFINE f == [n \in lo .. h |-> IF n = h THEN F[h][g[h - 1]] ELSE g[n]]
  <2>6. \A n \in lo .. h : n # h => n \in lo .. (h - 1)
    BY <1>2
  <2>7. f \in [lo .. h -> S]
    BY <2>5, <2>6
  <2>8. ASSUME NEW n \in lo .. h
        PROVE  f[n] = IF n = lo THEN a ELSE F[n][f[n - 1]]
    <3>1. CASE n = h
      <4>1. h - 1 \in lo .. h /\ h - 1 # h /\ n # lo
        BY <1>2, <1>4, <3>1
      <4> QED
        BY <3>1, <4>1
    <3>2. CASE n # h
      <4>1. n \in lo .. (h - 1)
        BY <2>6, <3>2
      <4>2. n # lo => n - 1 \in lo .. h /\ n - 1 # h
        BY <1>2, <3>2, <4>1
      <4> QED
        BY <2>3, <3>2, <4>1, <4>2
    <3> QED
      BY <3>1, <3>2
  <2>9. Def(f, h)
    BY <2>8
  <2> QED
    BY <1>2, <2>7, <2>9
<1> QED
  BY <1>2, <1>3, <1>4

-----------------------------------------------------------------------------
(* Keys *)

\* What a key is made of.
Part == Nat \cup Type \cup {"seek"}

\* All keys: those of entries, of the index, and targets.
AnyKey == Key \cup ShortKey \cup Target

\* The parts of a key are numbers.
LEMMA KeyShape ==
  ASSUME NEW k \in AnyKey
  PROVE  /\ k \in Seq(Part) /\ Len(k) = 4 /\ DOMAIN k = 1 .. 4
         /\ k[1] \in Nat /\ k[2] \in Nat /\ k[3] \in Nat
<1>1. PICK u \in Digits \X Digits, s \in Nat, t \in Type \cup {"seek"} :
        k = <<u[1], u[2], s, t>>
  BY DEF AnyKey, Key, ShortKey, Target, Type
<1>2. u[1] \in Nat /\ u[2] \in Nat /\ s \in Part /\ u[1] \in Part /\ u[2] \in Part
  BY DEF Digits, Part
<1>3. t \in Part
  BY DEF Part
<1>4. k \in Seq(Part) /\ Len(k) = 4 /\ DOMAIN k = 1 .. 4
  BY <1>1, <1>2, <1>3
<1> QED
  BY <1>1, <1>2, <1>4

\* The orders of keys: both are strict, and what neither of two keys is before
\* is before the same keys.
LEMMA KeyOrder ==
  ASSUME NEW a \in AnyKey, NEW b \in AnyKey, NEW c \in AnyKey
  PROVE  /\ ~Less(a, a) /\ (UserLess(a, b) => Less(a, b))
         /\ Less(a, b) => ~Less(b, a)
         /\ Less(a, b) /\ Less(b, c) => Less(a, c)
         /\ Less(a, b) /\ ~Less(c, b) => Less(a, c)
         /\ ~Less(b, a) /\ Less(b, c) => Less(a, c)
         /\ UserLess(a, b) /\ ~UserLess(c, b) => UserLess(a, c)
         /\ ~UserLess(b, a) /\ UserLess(b, c) => UserLess(a, c)
         /\ Less(a, b) /\ ~SameUser(a, b) => UserLess(a, b)
         /\ Less(a, b) => ~UserLess(b, a)
<1>1. /\ a[1] \in Nat /\ a[2] \in Nat /\ a[3] \in Nat
      /\ b[1] \in Nat /\ b[2] \in Nat /\ b[3] \in Nat
      /\ c[1] \in Nat /\ c[2] \in Nat /\ c[3] \in Nat
  BY KeyShape
<1> QED
  BY <1>1 DEF Less, UserLess, SameUser

\* What a key shares with the one before it.
LEMMA SharedPrefix ==
  ASSUME NEW a \in Seq(Part), NEW b \in Seq(Part)
  PROVE  /\ Shared(a, b) \in 0 .. Len(b)
         /\ \A j \in 1 .. Shared(a, b) : a[j] = b[j]
<1> DEFINE Same(n) == \A j \in 1 .. n : a[j] = b[j]
           U == {n \in 0 .. Len(b) : Same(n)}
<1>1. Len(b) \in Nat
  OBVIOUS
<1>2. 0 \in U
  BY <1>1
<1>3. Max(U) \in U /\ \A n \in U : n <= Max(U)
  <2>1. U \subseteq Nat /\ U # {} /\ \A n \in U : n <= Len(b)
    BY <1>1, <1>2
  <2> HIDE DEF U
  <2> QED
    BY <1>1, <2>1, MaxNat
<1> DEFINE k == Max(U)
<1> HIDE DEF U, k
<1>4. k \in 0 .. Len(b) /\ Same(k) /\ k \in Nat
  BY <1>1, <1>3 DEF U, k
<1>5. {n \in 1 .. Len(b) : Same(n)} = 1 .. k
  <2>1. ASSUME NEW n \in 1 .. Len(b), Same(n) PROVE n \in 1 .. k
    <3>1. n \in U
      BY <1>1, <2>1 DEF U
    <3> QED
      BY <1>3, <1>4, <3>1 DEF k
  <2>2. ASSUME NEW n \in 1 .. k PROVE n \in 1 .. Len(b) /\ Same(n)
    <3>1. n \in 1 .. Len(b) /\ \A j \in 1 .. n : j \in 1 .. k
      BY <1>1, <1>4
    <3> QED
      BY <1>4, <3>1
  <2> QED
    BY <2>1, <2>2
<1>6. Cardinality(1 .. k) = k
  BY <1>4, FS_Interval
<1>7. Shared(a, b) = k
  BY <1>5, <1>6 DEF Shared
<1> QED
  BY <1>4, <1>7

\* A cut key and the key before it give the key back.
LEMMA KeyRestored ==
  ASSUME NEW a \in Seq(Part), NEW b \in Seq(Part), Len(a) = Len(b)
  PROVE  SubSeq(b, 1, Shared(a, b)) \o SubSeq(a, Shared(a, b) + 1, Len(a)) = a
<1> DEFINE k == Shared(a, b)
           p == SubSeq(b, 1, k)
           q == SubSeq(a, k + 1, Len(a))
<1>1. k \in 0 .. Len(a) /\ k \in Nat /\ Len(a) \in Nat /\ Len(b) \in Nat
      /\ \A j \in 1 .. k : a[j] = b[j]
  BY SharedPrefix
<1> HIDE DEF k
<1>2. p \in Seq(Part) /\ Len(p) = k /\ \A j \in 1 .. k : p[j] = b[j]
  BY <1>1, SubSeqProperties
<1>3. q \in Seq(Part) /\ Len(q) = Len(a) - k
      /\ \A j \in 1 .. (Len(a) - k) : q[j] = a[k + j]
  BY <1>1, SubSeqProperties
<1> HIDE DEF p, q
<1>4. p \o q \in Seq(Part) /\ Len(p \o q) = Len(a)
  BY <1>1, <1>2, <1>3, ConcatProperties
<1>5. ASSUME NEW j \in 1 .. Len(a) PROVE (p \o q)[j] = a[j]
  <2>1. CASE j <= k
    BY <1>1, <1>2, <1>3, <2>1, ConcatProperties
  <2>2. CASE ~(j <= k)
    <3>1. j - k \in 1 .. (Len(a) - k) /\ k + (j - k) = j
      BY <1>1, <2>2
    <3>2. (p \o q)[j] = q[j - k]
      BY <1>1, <1>2, <1>3, <2>2, ConcatProperties
    <3> QED
      BY <1>3, <3>1, <3>2
  <2> QED
    BY <2>1, <2>2
<1>6. p \o q = a
  BY <1>4, <1>5, SeqEqual
<1> QED
  BY <1>6 DEF k, p, q

-----------------------------------------------------------------------------
(* What Ready decodes *)

\* An entry of a block, and of its key list.
Entry  == [key : Key, off : Nat, len : Nat]
Packed == [shared : Nat, rest : Seq(Part), len : Nat]

\* The key before the n-th.
Before(s, n) == IF n = 1 THEN <<>> ELSE s[n - 1].key

\* The n-th entry of a block lies behind the one before it, and the key list
\* has its length and its key without what it shares with the key before it.
EncodedAt(b, n) ==
  LET e == b.buffer[n]
      shared == Shared(e.key, Before(b.buffer, n))
  IN /\ b.meta[n] = [shared |-> shared,
                     rest |-> SubSeq(e.key, shared + 1, Len(e.key)),
                     len |-> e.len]
     /\ e.off = IF n = 1 THEN 0
                ELSE b.buffer[n - 1].off + b.buffer[n - 1].len + MacSize

\* A block, and a builder, of n entries.  The keys go up.
Encoded(b) ==
  /\ b.buffer \in Seq(Entry) /\ b.meta \in Seq(Packed)
  /\ Len(b.meta) = Len(b.buffer)
  /\ \A n \in 1 .. Len(b.buffer) : EncodedAt(b, n)
  /\ \A k, n \in 1 .. Len(b.buffer) :
       k < n => Less(b.buffer[k].key, b.buffer[n].key)
  /\ b.meta_offset = IF b.buffer = <<>> THEN 0
                     ELSE b.buffer[Len(b.buffer)].off
                            + b.buffer[Len(b.buffer)].len + MacSize

\* The types of an entry.
LEMMA EntryAt ==
  ASSUME NEW s \in Seq(Entry), NEW n \in 1 .. Len(s)
  PROVE  /\ s[n] \in Entry /\ s[n].key \in Key /\ s[n].off \in Nat
         /\ s[n].len \in Nat /\ s[n].key \in AnyKey
         /\ s[n].key \in Seq(Part) /\ Len(s[n].key) = 4
         /\ s[n] = [key |-> s[n].key, off |-> s[n].off, len |-> s[n].len]
<1>1. s[n] \in Entry
  OBVIOUS
<1>2. s[n].key \in Key /\ s[n].key \in AnyKey
  BY <1>1 DEF Entry, AnyKey
<1> QED
  BY <1>1, <1>2, KeyShape DEF Entry

\* One round of Ready: from the first n - 1 entries and the n-th of the key
\* list to the first n entries.
LEMMA ReadyStep ==
  ASSUME NEW b, Encoded(b), NEW n \in 1 .. Len(b.buffer)
  PROVE  LET m == SubSeq(b.buffer, 1, n - 1)
             e == b.meta[n]
         IN SubSeq(b.buffer, 1, n)
              = Append(m, IF m = <<>> THEN [key |-> e.rest, off |-> 0,
                                            len |-> e.len]
                          ELSE [key |-> SubSeq(Last(m).key, 1, e.shared)
                                          \o e.rest,
                                off |-> Last(m).off + Last(m).len + MacSize,
                                len |-> e.len])
<1> DEFINE s == b.buffer
           m == SubSeq(s, 1, n - 1)
           e == b.meta[n]
           shared == Shared(s[n].key, Before(s, n))
<1>1. s \in Seq(Entry) /\ EncodedAt(b, n) /\ Len(s) \in Nat /\ n \in Nat /\ 1 <= n
  BY DEF Encoded
<1>2. /\ e.shared = shared /\ e.rest = SubSeq(s[n].key, shared + 1, Len(s[n].key))
      /\ e.len = s[n].len
      /\ s[n].off = IF n = 1 THEN 0 ELSE s[n - 1].off + s[n - 1].len + MacSize
  <2>1. /\ e = [shared |-> shared,
                 rest |-> SubSeq(s[n].key, shared + 1, Len(s[n].key)),
                 len |-> s[n].len]
        /\ s[n].off = IF n = 1 THEN 0 ELSE s[n - 1].off + s[n - 1].len + MacSize
    BY <1>1, Zenon DEF EncodedAt
  <2> HIDE DEF e, s, shared
  <2> QED
    BY <2>1
<1>3. m \in Seq(Entry) /\ Len(m) = n - 1 /\ \A i \in 1 .. (n - 1) : m[i] = s[i]
  <2>1. \A i \in 1 .. (n - 1) : s[i] \in Entry
    BY <1>1
  <2>2. (IF 1 <= n - 1 THEN (n - 1) - 1 + 1 ELSE 0) = n - 1
    BY <1>1
  <2>3. \A i \in 1 .. (n - 1) : 1 + i - 1 = i /\ i \in 1 .. ((n - 1) - 1 + 1)
    BY <1>1
  <2> QED
    BY <1>1, <2>1, <2>2, <2>3, SubSeqProperties
<1>4. s[n] = [key |-> s[n].key, off |-> s[n].off, len |-> s[n].len]
      /\ s[n].key \in Seq(Part) /\ Len(s[n].key) = 4 /\ s[n] \in Entry
  BY <1>1, EntryAt
<1>5. SubSeq(s, 1, n) = Append(m, s[n])
  <2>1. SubSeq(s, 1, n) = m \o <<s[n]>>
    BY <1>1, SubSeqRecursiveSecond
  <2> QED
    BY <1>3, <1>4, <2>1, AppendIsConcat
<1>6. CASE n = 1
  <2>1. m = <<>> /\ Before(s, n) = <<>> /\ <<>> \in Seq(Part)
    BY <1>3, <1>6 DEF Before
  <2>2. shared = 0
    <3>1. Shared(s[n].key, <<>>) \in 0 .. Len(<<>>) /\ Len(<<>>) = 0
      BY <1>4, <2>1, SharedPrefix
    <3> HIDE DEF s
    <3> QED
      BY <2>1, <3>1
  <2>3. e.rest = s[n].key
    BY <1>2, <1>4, <2>2, SubSeqFull
  <2>4. s[n] = [key |-> e.rest, off |-> 0, len |-> e.len]
    BY <1>2, <1>4, <1>6, <2>3
  <2> QED
    BY <1>5, <2>1, <2>4
<1>7. CASE n # 1
  <2>1. n - 1 \in 1 .. Len(s) /\ n - 1 \in 1 .. (n - 1)
    BY <1>1, <1>7
  <2>2. m # <<>> /\ Last(m) = s[n - 1]
    BY <1>3, <2>1 DEF Last
  <2>3. Before(s, n) = s[n - 1].key /\ s[n - 1].key \in Seq(Part)
        /\ Len(s[n - 1].key) = 4
    BY <1>1, <1>7, <2>1, EntryAt DEF Before
  <2>4. SubSeq(Last(m).key, 1, e.shared) \o e.rest = s[n].key
    <3>1. SubSeq(s[n - 1].key, 1, shared) \o e.rest = s[n].key
      <4>1. SubSeq(s[n - 1].key, 1, Shared(s[n].key, s[n - 1].key))
              \o SubSeq(s[n].key, Shared(s[n].key, s[n - 1].key) + 1,
                        Len(s[n].key)) = s[n].key
        BY <1>4, <2>3, KeyRestored
      <4> HIDE DEF s, e
      <4> QED
        BY <1>2, <2>3, <4>1
    <3> HIDE DEF s, e, m, shared
    <3> QED
      BY <1>2, <2>2, <3>1
  <2> HIDE DEF m, e, s
  <2>5. s[n] = [key |-> SubSeq(Last(m).key, 1, e.shared) \o e.rest,
                off |-> Last(m).off + Last(m).len + MacSize, len |-> e.len]
    BY <1>2, <1>4, <1>7, <2>2, <2>4
  <2> QED
    BY <1>5, <2>2, <2>5 DEF m, e, s
<1> QED
  BY <1>6, <1>7

\* The key list of a block decodes to the entries that were added to it.
LEMMA DecodedIsBuffer ==
  ASSUME NEW b, Encoded(b)
  PROVE  Decoded(b) = b.buffer
<1> DEFINE Next1(m, e) ==
             Append(m, IF m = <<>> THEN [key |-> e.rest, off |-> 0,
                                         len |-> e.len]
                       ELSE [key |-> SubSeq(Last(m).key, 1, e.shared)
                                       \o e.rest,
                             off |-> Last(m).off + Last(m).len + MacSize,
                             len |-> e.len])
           IsReady(f) == f = [n \in 0 .. Len(b.meta) |->
                              IF n = 0 THEN <<>>
                              ELSE Next1(f[n - 1], b.meta[n])]
           g == [n \in 0 .. Len(b.meta) |-> SubSeq(b.buffer, 1, n)]
           Ready == CHOOSE f : IsReady(f)
<1>1. b.buffer \in Seq(Entry) /\ Len(b.meta) = Len(b.buffer) /\ Len(b.meta) \in Nat
  BY DEF Encoded
<1>2. ASSUME NEW n \in 0 .. Len(b.meta)
      PROVE  g[n] = IF n = 0 THEN <<>> ELSE Next1(g[n - 1], b.meta[n])
  <2>1. CASE n = 0
    <3>1. SubSeq(b.buffer, 1, 0) = <<>>
      BY SubSeqEmpty
    <3> QED
      BY <2>1, <3>1
  <2>2. CASE n # 0
    <3>1. n \in 1 .. Len(b.buffer) /\ n - 1 \in 0 .. Len(b.meta)
      BY <1>1, <2>2
    <3>2. SubSeq(b.buffer, 1, n) = Next1(SubSeq(b.buffer, 1, n - 1), b.meta[n])
      BY <3>1, ReadyStep
    <3> HIDE DEF Next1
    <3> QED
      BY <2>2, <3>1, <3>2
  <2> QED
    BY <2>1, <2>2
<1> HIDE DEF Next1
<1>3. IsReady(g)
  BY <1>2
<1>4. IsReady(Ready)
  <2>1. \E f : IsReady(f)
    BY <1>3
  <2> HIDE DEF IsReady, g
  <2> QED
    BY <2>1
<1>5. Decoded(b) = Ready[Len(b.meta)]
  BY DEF Decoded, Next1
<1> HIDE DEF Ready
<1>6. \A n \in 0 .. Len(b.meta) : Ready[n] = g[n]
  <2> DEFINE G == {n \in 0 .. Len(b.meta) : Ready[n] = g[n]}
  <2>1. 0 \in G
    <3>1. 0 \in 0 .. Len(b.meta)
      BY <1>1
    <3>2. Ready[0] = <<>>
      BY <1>4, <3>1
    <3> QED
      BY <1>2, <3>1, <3>2
  <2>2. ASSUME NEW n \in 0 .. Len(b.meta), n # 0, n - 1 \in G PROVE n \in G
    <3>1. Ready[n] = Next1(Ready[n - 1], b.meta[n])
      BY <1>4, <2>2
    <3>2. g[n] = Next1(g[n - 1], b.meta[n])
      BY <1>2, <2>2
    <3> QED
      BY <2>2, <3>1, <3>2
  <2> HIDE DEF G
  <2>3. \A n \in 0 .. Len(b.meta) : n \in G
    BY <1>1, <2>1, <2>2, UpTo
  <2> QED
    BY <2>3 DEF G
<1>7. Decoded(b) = SubSeq(b.buffer, 1, Len(b.meta))
  <2>1. Len(b.meta) \in 0 .. Len(b.meta)
    BY <1>1
  <2> QED
    BY <1>5, <1>6, <2>1
<1> QED
  BY <1>1, <1>7, SubSeqFull

-----------------------------------------------------------------------------
(* The table *)

IndexKey == Key \cup ShortKey
Stored   == [buffer : Seq(Entry), meta : Seq(Packed), meta_offset : Nat]
Builder  == [buffer : Seq(Entry), meta : Seq(Packed), meta_offset : Nat,
             last_key : Key \cup {<<>>}]

\* All keys of a block come before all keys of another.
Precedes(b, c) == \A k \in KeysOf(b), l \in KeysOf(c) : Less(k, l)

\* An index key that leads to the left of a key.
Separates(sep, k) ==
  Less(sep, k) /\ (~seperator_is_key_plus_seq_ => UserLess(sep, k))

\* The types of the table.
TableType ==
  /\ phase \in {"build", "ready"} /\ seperator_is_key_plus_seq_ \in BOOLEAN
  /\ blocks \in Seq(Stored) /\ index \in Seq(IndexKey)
  /\ Len(blocks) = Len(index) /\ data_block \in Builder

\* Every block decodes to what was added.
BlocksEncoded ==
  /\ Encoded(data_block)
  /\ data_block.last_key = IF data_block.buffer = <<>> THEN <<>>
                           ELSE data_block.buffer[Len(data_block.buffer)].key
  /\ \A b \in Blocks : Encoded(blocks[b]) /\ blocks[b].buffer # <<>>

\* The keys go up from block to block, and the index lies between the blocks.
BlocksOrdered ==
  /\ \A b \in Blocks :
       /\ Precedes(blocks[b], data_block)
       /\ \A k \in KeysOf(blocks[b]) : ~Less(index[b], k)
       /\ \A k \in KeysOf(data_block) : Separates(index[b], k)
  /\ \A b, c \in Blocks : b < c =>
       /\ Precedes(blocks[b], blocks[c])
       /\ \A k \in KeysOf(blocks[c]) : Separates(index[b], k)

\* Reading begins when the table is complete.
Phases ==
  /\ phase = "build" => /\ blocks # <<>> => data_block.buffer # <<>>
                        /\ it = NoIterator /\ answer = NoAnswer /\ failed = FALSE
  /\ phase = "ready" => blocks # <<>> /\ data_block = EmptyBuilder

BInv == TableType /\ BlocksEncoded /\ BlocksOrdered /\ Phases

-----------------------------------------------------------------------------
(* The iterator *)

Iterator ==
  [idx : 0 .. Len(blocks), real : BOOLEAN, prev : 0 .. Len(blocks),
   key_offset_map : Seq(Entry), map : 0 .. Len(blocks), data : BOOLEAN,
   ci : Nat, cur : Nat, lim : Nat, err : BOOLEAN, fault : Fault]

\* An iterator in any step of an operation: its list is that of some block,
\* and none of the blocks it has read failed its verification.
Formed(i) ==
  /\ i \in Iterator /\ i.ci <= Len(i.key_offset_map) + 2
  /\ i.map = 0 => i.key_offset_map = <<>> /\ i.lim = 0 /\ ~i.data
  /\ i.map # 0 => /\ i.key_offset_map = blocks[i.map].buffer
                  /\ i.lim = blocks[i.map].meta_offset
  /\ i.fault # "exit" /\ (i.fault = "null" => i.err)

\* It stands at an entry, or past the last of them: Valid, it is at the offset of
\* its entry or has passed it.
Positioned(i) ==
  Valid(i) =>
    /\ i.ci \in 1 .. Len(i.key_offset_map)
    /\ i.cur >= i.key_offset_map[i.ci].off + MacSize

\* It stands in the block of its index entry, unless a read has failed.
Placed(i) ==
  /\ i.err => i.real /\ ~i.data
  /\ i.real => i.idx # 0 /\ (i.err \/ (i.map = i.idx /\ i.data))

\* An iterator whose block is loaded, and one between two calls.
Steady(i) == Formed(i) /\ (i.fault = "none" => Positioned(i) /\ Placed(i))
Rested(i) == Steady(i) /\ (i.fault = "none" /\ i.real => i.err \/ Valid(i))
-----------------------------------------------------------------------------
(* Building a block *)

\* The keys of a block by position.
LEMMA KeysAt ==
  ASSUME NEW b, b.buffer \in Seq(Entry)
  PROVE  /\ KeysOf(b) \subseteq Key
         /\ \A n \in 1 .. Len(b.buffer) : b.buffer[n].key \in KeysOf(b)
         /\ \A k \in KeysOf(b) : \E n \in 1 .. Len(b.buffer) : k = b.buffer[n].key
<1> DEFINE s == b.buffer
<1>1. DOMAIN s = 1 .. Len(s)
  OBVIOUS
<1>2. \A n \in 1 .. Len(s) : s[n].key \in Key
  BY EntryAt
<1> QED
  BY <1>1, <1>2 DEF KeysOf, ToSet

\* Two blocks with the same entries have the same keys.
LEMMA SameKeys ==
  ASSUME NEW b, NEW c, b.buffer = c.buffer
  PROVE  KeysOf(b) = KeysOf(c)
BY DEF KeysOf

\* An empty builder has no keys.
LEMMA NoKeys == KeysOf(EmptyBuilder) = {}
<1>1. EmptyBuilder.buffer = <<>> /\ <<>> \in Seq(Entry) /\ Len(<<>>) = 0
  BY DEF EmptyBuilder
<1>2. \A n : n \notin 1 .. 0
  OBVIOUS
<1> QED
  BY <1>1, <1>2, KeysAt

\* What is before the last key of a block is before all that follow it.
LEMMA LastKey ==
  ASSUME NEW b, Encoded(b), b.buffer # <<>>
  PROVE  /\ Len(b.buffer) \in 1 .. Len(b.buffer)
         /\ b.buffer[Len(b.buffer)].key \in KeysOf(b)
         /\ \A k \in KeysOf(b) : ~Less(b.buffer[Len(b.buffer)].key, k)
<1> DEFINE s == b.buffer
           last == s[Len(s)].key
<1>1. s \in Seq(Entry) /\ Len(s) \in 1 .. Len(s)
  BY DEF Encoded
<1>2. last \in KeysOf(b) /\ last \in AnyKey
  BY <1>1, KeysAt, EntryAt
<1>3. ASSUME NEW k \in KeysOf(b) PROVE ~Less(last, k)
  <2>1. PICK n \in 1 .. Len(s) : k = s[n].key
    BY <1>1, KeysAt
  <2>2. k \in AnyKey
    BY <1>1, <2>1, EntryAt
  <2>3. CASE n = Len(s)
    BY <2>1, <2>2, <2>3, KeyOrder
  <2>4. CASE n # Len(s)
    <3>1. n < Len(s)
      BY <1>1, <2>4
    <3>2. Less(k, last)
      BY <1>1, <2>1, <3>1 DEF Encoded
    <3> QED
      BY <1>2, <2>2, <3>2, KeyOrder
  <2> QED
    BY <2>3, <2>4
<1> QED
  BY <1>1, <1>2, <1>3

\* The builder of no entry.
LEMMA EmptyEncoded ==
  /\ EmptyBuilder \in Builder /\ Encoded(EmptyBuilder)
  /\ EmptyBuilder.buffer = <<>> /\ EmptyBuilder.last_key = <<>>
<1>1. /\ EmptyBuilder.buffer = <<>> /\ EmptyBuilder.meta = <<>>
      /\ EmptyBuilder.meta_offset = 0 /\ EmptyBuilder.last_key = <<>>
      /\ <<>> \in Seq(Entry) /\ <<>> \in Seq(Packed) /\ Len(<<>>) = 0
  BY DEF EmptyBuilder
<1>2. \A n : n \notin 1 .. 0
  OBVIOUS
<1>3. EmptyBuilder \in Builder
  BY <1>1 DEF EmptyBuilder, Builder
<1> QED
  BY <1>1, <1>2, <1>3 DEF Encoded

\* A builder is one of a block whose last key it has at hand.
Tracks(b) ==
  /\ b \in Builder /\ Encoded(b)
  /\ b.last_key = IF b.buffer = <<>> THEN <<>>
                  ELSE b.buffer[Len(b.buffer)].key

\* The buffers of a builder after Add.
LEMMA AddFields ==
  ASSUME NEW b, Tracks(b), NEW key \in Key, NEW n \in Nat
  PROVE  LET c == BuilderAdd(b, key, n)
             e == [key |-> key, off |-> b.meta_offset, len |-> n]
             p == [shared |-> Shared(key, b.last_key),
                   rest |-> SubSeq(key, Shared(key, b.last_key) + 1, Len(key)),
                   len |-> n]
         IN /\ c \in Builder /\ c.last_key = key
            /\ c.meta_offset = b.meta_offset + n + MacSize
            /\ e \in Entry /\ p \in Packed
            /\ c.buffer = Append(b.buffer, e) /\ c.meta = Append(b.meta, p)
<1> DEFINE shared == Shared(key, b.last_key)
           e == [key |-> key, off |-> b.meta_offset, len |-> n]
           p == [shared |-> shared,
                 rest |-> SubSeq(key, shared + 1, Len(key)), len |-> n]
           c == BuilderAdd(b, key, n)
<1>1. b.meta_offset \in Nat /\ b.buffer \in Seq(Entry) /\ b.meta \in Seq(Packed)
  BY DEF Tracks, Builder
<1>2. key \in Seq(Part) /\ Len(key) = 4
  BY KeyShape DEF AnyKey
<1>3. b.last_key \in Seq(Part)
  <2>1. CASE b.buffer = <<>>
    BY <2>1 DEF Tracks
  <2>2. CASE b.buffer # <<>>
    <3>1. Len(b.buffer) \in 1 .. Len(b.buffer)
      BY <2>2, LastKey DEF Tracks
    <3> QED
      BY <1>1, <2>2, <3>1, EntryAt DEF Tracks
  <2> QED
    BY <2>1, <2>2
<1>4. shared \in Nat
  BY <1>2, <1>3, SharedPrefix
<1> HIDE DEF shared
<1>5. SubSeq(key, shared + 1, Len(key)) \in Seq(Part)
  <2>1. \A i \in (shared + 1) .. Len(key) : key[i] \in Part
    BY <1>2, <1>4
  <2> QED
    BY <1>2, <1>4, <2>1, SubSeqProperties
<1>6. e \in Entry /\ p \in Packed
  BY <1>1, <1>4, <1>5 DEF Entry, Packed
<1> HIDE DEF e, p
<1>7. Append(b.buffer, e) \in Seq(Entry) /\ Append(b.meta, p) \in Seq(Packed)
  BY <1>1, <1>6, AppendProperties
<1>8. c = [buffer |-> Append(b.buffer, e), meta |-> Append(b.meta, p),
           meta_offset |-> b.meta_offset + n + MacSize, last_key |-> key]
  BY DEF BuilderAdd, e, p, shared
<1>9. MacSize \in Nat
  OBVIOUS
<1> HIDE DEF c
<1>10. /\ c \in Builder /\ c.last_key = key
       /\ c.meta_offset = b.meta_offset + n + MacSize
       /\ c.buffer = Append(b.buffer, e) /\ c.meta = Append(b.meta, p)
  <2>1. b.meta_offset + n + MacSize \in Nat
    BY <1>1, <1>9
  <2>2. key \in Key \cup {<<>>}
    OBVIOUS
  <2>3. c \in Builder
    BY <1>7, <1>8, <2>1, <2>2 DEF Builder
  <2> QED
    BY <1>8, <2>3
<1> QED
  BY <1>6, <1>10 DEF c, e, p, shared

\* Add keeps the block encoded and its keys in order.
LEMMA AddEncoded ==
  ASSUME NEW b, Tracks(b), NEW key \in Key, NEW n \in Nat,
         b.last_key # <<>> => Less(b.last_key, key)
  PROVE  /\ Tracks(BuilderAdd(b, key, n))
         /\ BuilderAdd(b, key, n).buffer # <<>>
         /\ Len(BuilderAdd(b, key, n).meta) = Len(b.meta) + 1
         /\ KeysOf(BuilderAdd(b, key, n)) = KeysOf(b) \cup {key}
         /\ \A k \in KeysOf(b) : Less(k, key)
<1> DEFINE c == BuilderAdd(b, key, n)
           e == [key |-> key, off |-> b.meta_offset, len |-> n]
           p == [shared |-> Shared(key, b.last_key),
                 rest |-> SubSeq(key, Shared(key, b.last_key) + 1, Len(key)),
                 len |-> n]
           L == Len(b.buffer)
<1>1. /\ c \in Builder /\ c.last_key = key
      /\ c.meta_offset = b.meta_offset + n + MacSize
      /\ e \in Entry /\ p \in Packed
      /\ c.buffer = Append(b.buffer, e) /\ c.meta = Append(b.meta, p)
  BY SMTT(40), AddFields
<1>2. /\ b.buffer \in Seq(Entry) /\ b.meta \in Seq(Packed) /\ Len(b.meta) = L
      /\ L \in Nat /\ \A i \in 1 .. L : EncodedAt(b, i)
      /\ \A i, j \in 1 .. L : i < j => Less(b.buffer[i].key, b.buffer[j].key)
      /\ b.meta_offset = IF b.buffer = <<>> THEN 0
                         ELSE b.buffer[L].off + b.buffer[L].len + MacSize
      /\ b.last_key = IF b.buffer = <<>> THEN <<>> ELSE b.buffer[L].key
  BY DEF Tracks, Encoded
<1>3. e.key = key /\ e.off = b.meta_offset /\ e.len = n
  OBVIOUS
<1> HIDE DEF c, e
<1>4. /\ c.buffer \in Seq(Entry) /\ Len(c.buffer) = L + 1
      /\ \A i \in 1 .. L : c.buffer[i] = b.buffer[i]
      /\ c.buffer[L + 1] = e /\ c.buffer # <<>>
  <2> HIDE DEF p
  <2>1. e \in Entry /\ b.buffer \in Seq(Entry)
    BY <1>1, <1>2
  <2>2. /\ Append(b.buffer, e) \in Seq(Entry) /\ Append(b.buffer, e) # <<>>
        /\ Len(Append(b.buffer, e)) = L + 1
        /\ \A i \in 1 .. L : Append(b.buffer, e)[i] = b.buffer[i]
        /\ Append(b.buffer, e)[L + 1] = e
    BY <2>1, AppendProperties
  <2> QED
    BY <1>1, <2>2
<1>5. /\ c.meta \in Seq(Packed) /\ Len(c.meta) = L + 1
      /\ \A i \in 1 .. L : c.meta[i] = b.meta[i]
      /\ c.meta[L + 1] = p
  BY <1>1, <1>2, AppendProperties
<1>6. \A k \in KeysOf(b) : Less(k, key)
  <2> SUFFICES ASSUME NEW k \in KeysOf(b) PROVE Less(k, key)
    OBVIOUS
  <2>1. b.buffer # <<>>
    <3>1. PICK i \in 1 .. L : k = b.buffer[i].key
      BY <1>2, KeysAt
    <3> QED
      BY <1>2, <3>1
  <2>2. b.last_key \in KeysOf(b) /\ ~Less(b.last_key, k)
    BY <1>2, <2>1, LastKey DEF Tracks
  <2>3. k \in AnyKey /\ b.last_key \in AnyKey /\ key \in AnyKey
    BY <1>2, <2>2, KeysAt DEF AnyKey
  <2>4. b.last_key # <<>>
    BY <2>3, KeyShape
  <2> QED
    BY <2>2, <2>3, <2>4, KeyOrder
<1>7. KeysOf(c) = KeysOf(b) \cup {key}
  <2>1. ASSUME NEW k \in KeysOf(c) PROVE k \in KeysOf(b) \cup {key}
    <3>1. PICK i \in 1 .. Len(c.buffer) : k = c.buffer[i].key
      BY <1>4, KeysAt
    <3>2. CASE i = L + 1
      BY <1>3, <1>4, <3>1, <3>2
    <3>3. CASE i # L + 1
      <4>1. i \in 1 .. L
        BY <1>2, <1>4, <3>3
      <4> QED
        BY <1>2, <1>4, <3>1, <4>1, KeysAt
    <3> QED
      BY <3>2, <3>3
  <2>2. ASSUME NEW k \in KeysOf(b) PROVE k \in KeysOf(c)
    <3>1. PICK i \in 1 .. L : k = b.buffer[i].key
      BY <1>2, KeysAt
    <3>2. i \in 1 .. Len(c.buffer) /\ k = c.buffer[i].key
      BY <1>2, <1>4, <3>1
    <3> QED
      BY <1>4, <3>2, KeysAt
  <2>3. key \in KeysOf(c)
    <3>1. L + 1 \in 1 .. Len(c.buffer)
      BY <1>2, <1>4
    <3> QED
      BY <1>3, <1>4, <3>1, KeysAt
  <2> QED
    BY <2>1, <2>2, <2>3
<1>8. \A i \in 1 .. Len(c.buffer) : EncodedAt(c, i)
  <2> SUFFICES ASSUME NEW i \in 1 .. Len(c.buffer) PROVE EncodedAt(c, i)
    OBVIOUS
  <2>1. Before(c.buffer, i) = Before(b.buffer, i)
        /\ (i # 1 => c.buffer[i - 1] = b.buffer[i - 1] /\ i - 1 \in 1 .. L)
    <3>1. i # 1 => i - 1 \in 1 .. L
      BY <1>2, <1>4
    <3> QED
      BY <1>4, <3>1 DEF Before
  <2>2. CASE i \in 1 .. L
    <3>1. EncodedAt(b, i) /\ c.buffer[i] = b.buffer[i] /\ c.meta[i] = b.meta[i]
      BY <1>2, <1>4, <1>5, <2>2
    <3> QED
      BY <2>1, <3>1 DEF EncodedAt
  <2>3. CASE i \notin 1 .. L
    <3>1. i = L + 1
      BY <1>2, <1>4, <2>3
    <3>2. (i = 1) <=> (b.buffer = <<>>)
      BY <1>2, <3>1
    <3>3. Before(b.buffer, i) = b.last_key
      BY <1>2, <3>1, <3>2 DEF Before
    <3>4. e.off = IF i = 1 THEN 0
                  ELSE c.buffer[i - 1].off + c.buffer[i - 1].len + MacSize
      <4>1. i - 1 = L
        BY <1>2, <3>1
      <4> QED
        BY <1>2, <1>3, <2>1, <3>2, <4>1
    <3>5. c.buffer[i] = e /\ c.meta[i] = p
      BY <1>4, <1>5, <3>1
    <3> QED
      BY <1>3, <2>1, <3>3, <3>4, <3>5 DEF EncodedAt
  <2> QED
    BY <2>2, <2>3
<1>9. \A i, j \in 1 .. Len(c.buffer) :
        i < j => Less(c.buffer[i].key, c.buffer[j].key)
  <2> SUFFICES ASSUME NEW i \in 1 .. Len(c.buffer), NEW j \in 1 .. Len(c.buffer),
                      i < j
               PROVE  Less(c.buffer[i].key, c.buffer[j].key)
    OBVIOUS
  <2>1. i \in 1 .. L /\ c.buffer[i] = b.buffer[i]
    BY SMTT(40), <1>2, <1>4
  <2>2. CASE j \in 1 .. L
    BY <1>2, <1>4, <2>1, <2>2
  <2>3. CASE j \notin 1 .. L
    <3>1. j = L + 1
      BY <1>2, <1>4, <2>3
    <3>2. c.buffer[j].key = key /\ b.buffer[i].key \in KeysOf(b)
      BY <1>2, <1>3, <1>4, <2>1, <3>1, KeysAt
    <3> QED
      BY <1>6, <2>1, <3>2
  <2> QED
    BY <2>2, <2>3
<1>10. c.meta_offset = c.buffer[Len(c.buffer)].off
                         + c.buffer[Len(c.buffer)].len + MacSize
       /\ c.last_key = c.buffer[Len(c.buffer)].key
  BY <1>1, <1>3, <1>4
<1>11. Tracks(c)
  BY <1>1, <1>4, <1>5, <1>8, <1>9, <1>10 DEF Tracks, Encoded
<1> QED
  BY <1>2, <1>4, <1>5, <1>6, <1>7, <1>11 DEF c

-----------------------------------------------------------------------------
(* Building a table *)

\* What the invariant says of one block.
LEMMA BlockAt ==
  ASSUME BInv, NEW b \in Blocks
  PROVE  /\ b \in Nat /\ blocks[b] \in Stored /\ Encoded(blocks[b])
         /\ blocks[b].buffer \in Seq(Entry) /\ blocks[b].buffer # <<>>
         /\ index[b] \in IndexKey /\ index[b] \in AnyKey
         /\ KeysOf(blocks[b]) \subseteq AnyKey
         /\ KeysOf(blocks[b]) \subseteq Key
<1>1. blocks \in Seq(Stored) /\ index \in Seq(IndexKey) /\ Len(index) = Len(blocks)
  BY DEF BInv, TableType
<1>2. b \in Nat /\ blocks[b] \in Stored /\ index[b] \in IndexKey
  BY <1>1 DEF Blocks
<1>3. Encoded(blocks[b]) /\ blocks[b].buffer # <<>>
  BY DEF BInv, BlocksEncoded
<1>4. blocks[b].buffer \in Seq(Entry)
  BY <1>2 DEF Stored
<1>5. KeysOf(blocks[b]) \subseteq Key
  BY <1>4, KeysAt
<1> QED
  BY <1>2, <1>3, <1>4, <1>5 DEF AnyKey, IndexKey

\* A block that is written with an index key at or past its last key.
Closes(sep) ==
  /\ sep \in IndexKey /\ data_block.buffer # <<>>
  /\ \A k \in KeysOf(data_block) : ~Less(sep, k)
  /\ blocks' = Append(blocks, Finished(data_block))
  /\ index' = Append(index, sep)
  /\ ~seperator_is_key_plus_seq_' => ~seperator_is_key_plus_seq_
  /\ seperator_is_key_plus_seq_' \in BOOLEAN

\* What writing a block keeps.
LEMMA CloseFields ==
  ASSUME BInv, NEW sep, Closes(sep)
  PROVE  /\ blocks' \in Seq(Stored) /\ index' \in Seq(IndexKey)
         /\ Len(blocks') = Len(index') /\ Len(blocks') = Len(blocks) + 1
         /\ Len(blocks) \in Nat
         /\ \A b \in Blocks : blocks'[b] = blocks[b] /\ index'[b] = index[b]
         /\ blocks'[Len(blocks) + 1] = Finished(data_block)
         /\ index'[Len(blocks) + 1] = sep
         /\ Blocks' = Blocks \cup {Len(blocks) + 1}
         /\ Encoded(Finished(data_block))
         /\ Finished(data_block).buffer = data_block.buffer
         /\ KeysOf(Finished(data_block)) = KeysOf(data_block)
<1>1. /\ blocks \in Seq(Stored) /\ index \in Seq(IndexKey)
      /\ Len(blocks) = Len(index) /\ data_block \in Builder
      /\ Encoded(data_block)
  BY DEF BInv, TableType, BlocksEncoded
<1>2. /\ Finished(data_block).buffer = data_block.buffer
      /\ Finished(data_block).meta = data_block.meta
      /\ Finished(data_block).meta_offset = data_block.meta_offset
      /\ Finished(data_block) \in Stored
  BY <1>1 DEF Finished, Builder, Stored
<1>3. Encoded(Finished(data_block))
  BY <1>1, <1>2 DEF Encoded, EncodedAt
<1>4. KeysOf(Finished(data_block)) = KeysOf(data_block)
  BY <1>2, SameKeys
<1> DEFINE f == Finished(data_block)
           L == Len(blocks)
<1>5. f \in Stored /\ sep \in IndexKey /\ blocks' = Append(blocks, f)
      /\ index' = Append(index, sep)
  BY <1>2 DEF Closes
<1> HIDE DEF f
<1>6. /\ blocks' \in Seq(Stored) /\ Len(blocks') = L + 1 /\ blocks'[L + 1] = f
      /\ \A b \in 1 .. L : blocks'[b] = blocks[b]
  BY <1>1, <1>5, AppendProperties
<1>7. /\ index' \in Seq(IndexKey) /\ Len(index') = L + 1 /\ index'[L + 1] = sep
      /\ \A b \in 1 .. L : index'[b] = index[b]
  BY <1>1, <1>5, AppendProperties
<1>8. L \in Nat
  BY <1>1
<1>9. Blocks' = Blocks \cup {L + 1}
  BY <1>6, <1>8 DEF Blocks
<1> QED
  BY <1>2, <1>3, <1>4, <1>6, <1>7, <1>8, <1>9 DEF f, Blocks

\* The blocks stay encoded and ordered, and the index between them.
LEMMA CloseKeeps ==
  ASSUME BInv, NEW sep, Closes(sep)
  PROVE  /\ \A b \in Blocks' :
              /\ Encoded(blocks'[b]) /\ blocks'[b].buffer # <<>>
              /\ \A k \in KeysOf(blocks'[b]) : ~Less(index'[b], k)
         /\ (\A b, c \in Blocks : b < c =>
               /\ Precedes(blocks[b], blocks[c])
               /\ \A k \in KeysOf(blocks[c]) : Separates(index[b], k))'
<1>1. /\ \A b \in Blocks : blocks'[b] = blocks[b] /\ index'[b] = index[b]
      /\ blocks'[Len(blocks) + 1] = Finished(data_block)
      /\ index'[Len(blocks) + 1] = sep /\ Len(blocks) \in Nat
      /\ Blocks' = Blocks \cup {Len(blocks) + 1}
      /\ Encoded(Finished(data_block))
      /\ Finished(data_block).buffer = data_block.buffer
      /\ KeysOf(Finished(data_block)) = KeysOf(data_block)
  BY CloseFields
<1>2. ASSUME NEW b \in Blocks'
      PROVE  /\ Encoded(blocks'[b]) /\ blocks'[b].buffer # <<>>
             /\ \A k \in KeysOf(blocks'[b]) : ~Less(index'[b], k)
  <2>1. CASE b \in Blocks
    BY <1>1, <2>1 DEF BInv, BlocksEncoded, BlocksOrdered
  <2>2. CASE b \notin Blocks
    <3>1. b = Len(blocks) + 1
      BY <1>1, <2>2
    <3> QED
      BY <1>1, <3>1 DEF Closes
  <2> QED
    BY <2>1, <2>2
<1>3. ASSUME NEW b \in Blocks', NEW c \in Blocks', b < c
      PROVE  /\ Precedes(blocks'[b], blocks'[c])
             /\ \A k \in KeysOf(blocks'[c]) : Separates(index[b], k)'
  <2>1. b \in Blocks /\ blocks'[b] = blocks[b] /\ index'[b] = index[b]
    <3>1. b # Len(blocks) + 1
      BY <1>1, <1>3 DEF Blocks
    <3> QED
      BY <1>1, <3>1
  <2>2. ASSUME NEW k, Separates(index[b], k) PROVE Separates(index[b], k)'
    BY <2>1, <2>2 DEF Separates, Closes
  <2>3. CASE c \in Blocks
    <3>1. Precedes(blocks[b], blocks[c])
          /\ \A k \in KeysOf(blocks[c]) : Separates(index[b], k)
      BY <1>3, <2>1, <2>3 DEF BInv, BlocksOrdered
    <3> QED
      BY <1>1, <2>1, <2>2, <2>3, <3>1
  <2>4. CASE c \notin Blocks
    <3>1. blocks'[c] = Finished(data_block)
      BY <1>1, <2>4
    <3>2. Precedes(blocks[b], data_block)
          /\ \A k \in KeysOf(data_block) : Separates(index[b], k)
      BY <2>1 DEF BInv, BlocksOrdered
    <3>3. Precedes(blocks[b], Finished(data_block))
      BY <1>1, <3>2 DEF Precedes
    <3> QED
      BY <1>1, <2>1, <2>2, <3>1, <3>2, <3>3
  <2> QED
    BY <2>3, <2>4
<1>4. \A b, c \in Blocks' : b < c =>
        /\ Precedes(blocks'[b], blocks'[c])
        /\ \A k \in KeysOf(blocks'[c]) : Separates(index[b], k)'
  BY <1>3
<1> QED
  BY <1>2, <1>4

\* The entries of the first blocks.
Sums(f) ==
  /\ f \in [0 .. Len(blocks) -> Nat]
  /\ \A b \in 0 .. Len(blocks) :
       f[b] = IF b = 0 THEN 0 ELSE f[b - 1] + Len(blocks[b].meta)

\* The entries of the table are their sum and those of the builder.
Counted == \E f : Sums(f) /\ Entries = f[Len(blocks)] + Len(data_block.meta)

\* Entries counts what was added to the blocks and to the builder.
LEMMA EntriesCounted == TableType => Counted
<1> SUFFICES ASSUME TableType PROVE Counted
  OBVIOUS
<1> DEFINE N == Len(blocks)
           meta(b) == Len(blocks[b].meta)
           IsSum(f) == f = [b \in 0 .. N |->
                              IF b = 0 THEN 0 ELSE f[b - 1] + meta(b)]
           upTo == CHOOSE f : IsSum(f)
           F == [b \in 0 .. N |-> [n \in Nat |-> n + meta(b)]]
<1>1. N \in Nat /\ \A b \in 1 .. N : meta(b) \in Nat
  <2>1. blocks \in Seq(Stored)
    BY DEF TableType
  <2>2. ASSUME NEW b \in 1 .. N PROVE meta(b) \in Nat
    <3>0. blocks[b] \in Stored
      BY <2>1
    <3>1. blocks[b].meta \in Seq(Packed)
      BY <3>0 DEF Stored
    <3> QED
      BY <3>1
  <2> QED
    BY <2>1, <2>2
<1> HIDE DEF meta
<1>2. Steps(F, 0, N, Nat)
  BY <1>1 DEF Steps
<1>3. PICK g : Runs(g, 0, N, 0, F, Nat)
  <2> HIDE DEF F, N
  <2>1. 0 \in Nat
    OBVIOUS
  <2> QED
    BY <1>1, <1>2, <2>1, Recursion, Zenon
<1> USE <1>3 DEF Runs
<1>4. ASSUME NEW b \in 0 .. N PROVE g[b] = IF b = 0 THEN 0 ELSE g[b - 1] + meta(b)
  <2>1. CASE b # 0
    <3>1. b - 1 \in 0 .. N
      BY <1>1, <2>1
    <3>2. g[b - 1] \in Nat
      BY <3>1
    <3> QED
      BY <1>3, <2>1, <3>1, <3>2
  <2> QED
    BY <1>3, <2>1
<1>5. g = [b \in 0 .. N |-> g[b]]
  OBVIOUS
<1>6. IsSum(g)
  BY <1>4, <1>5
<1>7. IsSum(upTo)
  <2>1. \E f : IsSum(f)
    BY <1>6
  <2> HIDE DEF IsSum
  <2> QED
    BY <2>1
<1>8. Entries = upTo[N] + Len(data_block.meta)
  BY DEF Entries, meta
<1> HIDE DEF upTo
<1> DEFINE G == {b \in 0 .. N : upTo[b] = g[b]}
<1>9. 0 \in G
  BY <1>1, <1>4, <1>7
<1>10. ASSUME NEW b \in 0 .. N, b # 0, b - 1 \in G PROVE b \in G
  BY <1>4, <1>7, <1>10
<1>11. \A b \in 0 .. N : b \in G
  <2> HIDE DEF G
  <2> QED
    BY <1>1, <1>9, <1>10, UpTo
<1>12. N \in 0 .. N
  BY <1>1
<1>13. Entries = g[N] + Len(data_block.meta)
  BY <1>8, <1>11, <1>12
<1>14. Sums(g)
  BY <1>4 DEF Sums, meta
<1> QED
  BY <1>13, <1>14 DEF Counted

\* Sums of the same blocks are the same.
LEMMA SumsAgree ==
  ASSUME TableType, NEW f, Sums(f), NEW g,
         \A b \in 0 .. Len(blocks) :
           g[b] = IF b = 0 THEN 0 ELSE g[b - 1] + Len(blocks[b].meta)
  PROVE  g[Len(blocks)] = f[Len(blocks)]
<1> DEFINE N == Len(blocks)
           G == {b \in 0 .. N : g[b] = f[b]}
<1>1. N \in Nat
  BY DEF TableType
<1>2. 0 \in G
  BY <1>1 DEF Sums
<1>3. ASSUME NEW b \in 0 .. N, b # 0, b - 1 \in G PROVE b \in G
  BY <1>3 DEF Sums
<1>4. \A b \in 0 .. N : b \in G
  <2> HIDE DEF G
  <2> QED
    BY <1>1, <1>2, <1>3, UpTo
<1>5. N \in 0 .. N
  BY <1>1
<1> QED
  BY <1>4, <1>5

\* Add counts one entry more.
LEMMA AddCounts ==
  ASSUME TableType, TableType', blocks' = blocks,
         Len(data_block'.meta) = Len(data_block.meta) + 1
  PROVE  Entries' = Entries + 1 /\ Entries \in Nat
<1>1. Counted /\ Counted'
  BY EntriesCounted, PTL
<1>2. PICK f : Sums(f) /\ Entries = f[Len(blocks)] + Len(data_block.meta)
  BY <1>1 DEF Counted
<1>3. PICK g : Sums(g)' /\ Entries' = g[Len(blocks')] + Len(data_block'.meta)
  BY <1>1 DEF Counted
<1>4. g[Len(blocks)] = f[Len(blocks)]
  <2>1. \A b \in 0 .. Len(blocks) :
          g[b] = IF b = 0 THEN 0 ELSE g[b - 1] + Len(blocks[b].meta)
    BY <1>3 DEF Sums
  <2> QED
    BY <1>2, <2>1, SumsAgree
<1>5. f[Len(blocks)] \in Nat /\ Len(data_block.meta) \in Nat
  <2>1. Len(blocks) \in 0 .. Len(blocks) /\ Len(data_block.meta) \in Nat
    BY DEF TableType, Builder
  <2> QED
    BY <1>2, <2>1 DEF Sums
<1> QED
  BY SMTT(40), <1>2, <1>3, <1>4, <1>5

\* A block that is written takes its entries from the builder to the blocks.
LEMMA CloseCounts ==
  ASSUME BInv, NEW sep, Closes(sep), TableType'
  PROVE  Entries' = Entries + Len(data_block'.meta) /\ Entries \in Nat
<1> DEFINE N == Len(blocks)
<1>0. TableType
  BY DEF BInv
<1>1. Counted /\ Counted'
  BY <1>0, EntriesCounted, PTL
<1>2. PICK f : Sums(f) /\ Entries = f[Len(blocks)] + Len(data_block.meta)
  BY <1>1 DEF Counted
<1>3. PICK g : Sums(g)' /\ Entries' = g[Len(blocks')] + Len(data_block'.meta)
  BY <1>1 DEF Counted
<1>4. /\ Len(blocks') = N + 1 /\ N \in Nat
      /\ \A b \in 1 .. N : blocks'[b] = blocks[b]
      /\ blocks'[N + 1].meta = data_block.meta
  BY CloseFields DEF Blocks, Finished
<1>5. \A b \in 0 .. (N + 1) :
        g[b] = IF b = 0 THEN 0 ELSE g[b - 1] + Len(blocks'[b].meta)
  BY <1>3, <1>4 DEF Sums
<1>6. \A b \in 0 .. N : g[b] = IF b = 0 THEN 0 ELSE g[b - 1] + Len(blocks[b].meta)
  <2> SUFFICES ASSUME NEW b \in 0 .. N
               PROVE  g[b] = IF b = 0 THEN 0 ELSE g[b - 1] + Len(blocks[b].meta)
    OBVIOUS
  <2>1. b \in 0 .. (N + 1) /\ (b # 0 => b \in 1 .. N)
    BY <1>4
  <2> QED
    BY <1>4, <1>5, <2>1
<1>7. g[N] = f[N]
  BY <1>0, <1>2, <1>6, SumsAgree
<1>8. g[N + 1] = g[N] + Len(data_block.meta)
  <2>1. N + 1 \in 0 .. (N + 1) /\ N + 1 # 0 /\ (N + 1) - 1 = N
    BY <1>4
  <2> QED
    BY <1>4, <1>5, <2>1
<1>9. f[N] \in Nat /\ Len(data_block.meta) \in Nat /\ Len(data_block'.meta) \in Nat
  <2>1. N \in 0 .. N /\ Len(data_block.meta) \in Nat /\ Len(data_block'.meta) \in Nat
    BY <1>0, <1>4 DEF TableType, Builder
  <2> QED
    BY <1>2, <2>1 DEF Sums
<1> QED
  BY <1>2, <1>3, <1>4, <1>7, <1>8, <1>9

\* A key behind the builder's last key is behind every block.
LEMMA BehindAll ==
  ASSUME BInv, data_block.buffer # <<>>, NEW key \in Key,
         Less(data_block.last_key, key), NEW b \in Blocks
  PROVE  Separates(index[b], key) /\ \A k \in KeysOf(blocks[b]) : Less(k, key)
<1> DEFINE last == data_block.last_key
<1>1. Encoded(data_block) /\ data_block.buffer \in Seq(Entry)
      /\ last = data_block.buffer[Len(data_block.buffer)].key
  BY DEF BInv, BlocksEncoded, Encoded
<1>2. last \in KeysOf(data_block)
  BY <1>1, LastKey
<1>3. last \in AnyKey /\ key \in AnyKey /\ index[b] \in AnyKey
      /\ KeysOf(blocks[b]) \subseteq AnyKey
  BY <1>1, <1>2, KeysAt, BlockAt DEF AnyKey
<1>4. Separates(index[b], last) /\ \A k \in KeysOf(blocks[b]) : Less(k, last)
  BY <1>2 DEF BInv, BlocksOrdered, Precedes
<1>5. Separates(index[b], key)
  BY <1>3, <1>4, KeyOrder DEF Separates
<1>6. \A k \in KeysOf(blocks[b]) : Less(k, key)
  BY <1>3, <1>4, KeyOrder
<1> QED
  BY <1>5, <1>6

\* An entry goes to the block that is being built.
LEMMA AddBuilt ==
  ASSUME BInv, NEW key \in Key, NEW n \in Nat, Add(key, n)
  PROVE  BInv' /\ (Entries <= MaxEntries)'
<1>1. /\ phase = "build" /\ data_block' = BuilderAdd(data_block, key, n)
      /\ data_block.last_key # <<>> => Less(data_block.last_key, key)
      /\ Entries < MaxEntries
      /\ UNCHANGED <<phase, blocks, index, seperator_is_key_plus_seq_, it,
                     failed, answer>>
  BY DEF Add
<1>2. Tracks(data_block)
  BY DEF BInv, BlocksEncoded, TableType, Tracks
<1>3. /\ Tracks(data_block') /\ data_block'.buffer # <<>>
      /\ Len(data_block'.meta) = Len(data_block.meta) + 1
      /\ KeysOf(data_block') = KeysOf(data_block) \cup {key}
  BY <1>1, <1>2, AddEncoded
<1>4. Blocks' = Blocks
  BY <1>1 DEF Blocks
<1>5. TableType'
  BY <1>1, <1>3 DEF BInv, TableType, Tracks
<1>6. BlocksEncoded'
  BY <1>1, <1>3, <1>4 DEF BInv, BlocksEncoded, Tracks
<1>7. BlocksOrdered'
  <2>1. ASSUME NEW b \in Blocks
        PROVE  /\ Precedes(blocks[b], data_block')
               /\ \A k \in KeysOf(data_block') : Separates(index[b], k)
    <3>1. data_block.buffer # <<>>
      BY <1>1 DEF BInv, Phases, Blocks
    <3>2. Less(data_block.last_key, key)
      <4>1. data_block.last_key \in KeysOf(data_block)
        BY <1>2, <3>1, LastKey DEF Tracks
      <4>2. KeysOf(data_block) \subseteq AnyKey
        BY <1>2, KeysAt DEF Tracks, Encoded, AnyKey
      <4>3. data_block.last_key # <<>>
        BY <4>1, <4>2, KeyShape
      <4> QED
        BY <1>1, <4>3
    <3>3. Separates(index[b], key) /\ \A k \in KeysOf(blocks[b]) : Less(k, key)
      BY <3>1, <3>2, BehindAll
    <3> QED
      BY <1>3, <3>3 DEF BInv, BlocksOrdered, Precedes
  <2> QED
    BY <1>1, <1>4, <2>1 DEF BInv, BlocksOrdered, Separates
<1>8. Phases'
  BY <1>1, <1>3 DEF BInv, Phases
<1>9. Entries' = Entries + 1 /\ Entries \in Nat
  BY <1>1, <1>3, <1>5, AddCounts DEF BInv
<1> QED
  BY <1>1, <1>5, <1>6, <1>7, <1>8, <1>9 DEF BInv

\* The entry goes to the next block.
LEMMA FlushAndAddBuilt ==
  ASSUME BInv, NEW key \in Key, NEW n \in Nat, FlushAndAdd(key, n)
  PROVE  BInv' /\ (Entries <= MaxEntries)'
<1> DEFINE last == data_block.last_key
<1>1. /\ phase = "build" /\ data_block.meta # <<>> /\ Less(last, key)
      /\ blocks' = Append(blocks, Finished(data_block))
      /\ data_block' = BuilderAdd(EmptyBuilder, key, n)
      /\ Entries < MaxEntries
      /\ UNCHANGED <<phase, it, failed, answer>>
  BY DEF FlushAndAdd
<1>2. PICK sep \in Separators(last, key) :
        /\ index' = Append(index, sep)
        /\ seperator_is_key_plus_seq_' =
             (seperator_is_key_plus_seq_ \/ SameUser(sep, key))
  BY DEF FlushAndAdd
<1>3. Tracks(data_block) /\ data_block.buffer # <<>>
  <2>1. Tracks(data_block)
    BY DEF BInv, BlocksEncoded, TableType, Tracks
  <2>2. Len(data_block.meta) = Len(data_block.buffer)
        /\ data_block.meta \in Seq(Packed)
    BY <2>1 DEF Tracks, Encoded
  <2> QED
    BY <1>1, <2>1, <2>2
<1>4. last \in KeysOf(data_block) /\ KeysOf(data_block) \subseteq Key
      /\ \A k \in KeysOf(data_block) : ~Less(last, k)
  BY <1>3, LastKey, KeysAt DEF Tracks, Encoded
<1>5. sep \in IndexKey /\ sep \in AnyKey /\ last \in AnyKey /\ key \in AnyKey
      /\ KeysOf(data_block) \subseteq AnyKey
  BY <1>2, <1>4 DEF Separators, IndexKey, AnyKey
<1>6. sep = last \/ (UserLess(last, sep) /\ UserLess(sep, key))
  BY <1>2 DEF Separators
<1>7. \A k \in KeysOf(data_block) : ~Less(sep, k)
  <2> SUFFICES ASSUME NEW k \in KeysOf(data_block), Less(sep, k) PROVE FALSE
    OBVIOUS
  <2>1. k \in AnyKey /\ ~Less(last, k)
    BY <1>4, <1>5
  <2>2. sep # last
    BY <2>1
  <2> QED
    BY <1>5, <1>6, <2>1, <2>2, KeyOrder
<1>8. Closes(sep)
  BY <1>1, <1>2, <1>3, <1>5, <1>7 DEF Closes, BInv, TableType
<1>9. Separates(sep, key)'
  <2>1. Less(sep, key)
    BY <1>1, <1>5, <1>6, KeyOrder
  <2>2. ~SameUser(sep, key) => UserLess(sep, key)
    BY <1>5, <2>1, KeyOrder
  <2> QED
    BY <1>2, <2>1, <2>2 DEF Separates
<1>10. /\ Tracks(data_block') /\ data_block'.buffer # <<>>
       /\ Len(data_block'.meta) = 1 /\ KeysOf(data_block') = {key}
  <2>1. Tracks(EmptyBuilder) /\ EmptyBuilder.last_key = <<>>
        /\ Len(EmptyBuilder.meta) = 0
    BY EmptyEncoded DEF Tracks, Encoded
  <2>2. EmptyBuilder.last_key # <<>> => Less(EmptyBuilder.last_key, key)
    BY <2>1
  <2> DEFINE c == BuilderAdd(EmptyBuilder, key, n)
  <2>3. /\ Tracks(c) /\ c.buffer # <<>>
        /\ Len(c.meta) = Len(EmptyBuilder.meta) + 1
        /\ KeysOf(c) = KeysOf(EmptyBuilder) \cup {key}
    BY <2>1, <2>2, AddEncoded
  <2> HIDE DEF c
  <2> QED
    BY <1>1, <2>1, <2>3, NoKeys DEF c
<1>11. /\ Blocks' = Blocks \cup {Len(blocks) + 1}
       /\ \A b \in Blocks : blocks'[b] = blocks[b] /\ index'[b] = index[b]
       /\ blocks'[Len(blocks) + 1] = Finished(data_block)
       /\ index'[Len(blocks) + 1] = sep
       /\ KeysOf(Finished(data_block)) = KeysOf(data_block)
  BY <1>8, CloseFields
<1>12. TableType'
  BY <1>1, <1>8, <1>10, CloseFields DEF BInv, TableType, Tracks, Closes
<1>13. BlocksEncoded'
  BY <1>8, <1>10, CloseKeeps DEF BlocksEncoded, Tracks
<1>14. BlocksOrdered'
  <2>1. ASSUME NEW b \in Blocks'
        PROVE  /\ \A k \in KeysOf(blocks'[b]) : Less(k, key)
               /\ Separates(index[b], key)'
    <3>1. CASE b \in Blocks
      <4>1. Separates(index[b], key) /\ \A k \in KeysOf(blocks[b]) : Less(k, key)
        BY <1>1, <1>3, <3>1, BehindAll
      <4> QED
        BY <1>2, <1>11, <3>1, <4>1 DEF Separates
    <3>2. CASE b \notin Blocks
      <4>1. b = Len(blocks) + 1
        BY <1>11, <3>2
      <4>2. \A k \in KeysOf(data_block) : Less(k, key)
        BY <1>1, <1>4, <1>5, KeyOrder
      <4>3. index'[b] = sep
        BY <1>11, <4>1
      <4>4. Separates(index[b], key)'
        BY <1>9, <4>3 DEF Separates
      <4> QED
        BY <1>11, <4>1, <4>2, <4>4
    <3> QED
      BY <3>1, <3>2
  <2>2. \A b \in Blocks' :
          /\ Precedes(blocks'[b], data_block')
          /\ \A k \in KeysOf(data_block') : Separates(index[b], k)'
    BY <1>10, <2>1 DEF Precedes
  <2> QED
    BY <1>8, <2>2, CloseKeeps DEF BlocksOrdered
<1>15. Phases'
  BY <1>1, <1>10 DEF BInv, Phases
<1>16. Entries' = Entries + 1 /\ Entries \in Nat
  BY <1>8, <1>10, <1>12, CloseCounts
<1> QED
  BY <1>1, <1>12, <1>13, <1>14, <1>15, <1>16 DEF BInv

\* The last block is written.
LEMMA FinishBuilt ==
  ASSUME BInv, Entries <= MaxEntries, Finish
  PROVE  BInv' /\ (Entries <= MaxEntries)'
<1> DEFINE last == data_block.last_key
<1>1. /\ phase = "build" /\ data_block.meta # <<>>
      /\ blocks' = Append(blocks, Finished(data_block))
      /\ index' = Append(index, last)
      /\ data_block' = EmptyBuilder /\ phase' = "ready"
      /\ UNCHANGED <<seperator_is_key_plus_seq_, it, failed, answer>>
  BY DEF Finish
<1>2. Tracks(data_block) /\ data_block.buffer # <<>>
  <2>1. Tracks(data_block)
    BY DEF BInv, BlocksEncoded, TableType, Tracks
  <2>2. Len(data_block.meta) = Len(data_block.buffer)
        /\ data_block.meta \in Seq(Packed)
    BY <2>1 DEF Tracks, Encoded
  <2> QED
    BY <1>1, <2>1, <2>2
<1>3. last \in KeysOf(data_block) /\ KeysOf(data_block) \subseteq Key
      /\ \A k \in KeysOf(data_block) : ~Less(last, k)
  BY <1>2, LastKey, KeysAt DEF Tracks, Encoded
<1>4. Closes(last)
  BY <1>1, <1>2, <1>3 DEF Closes, BInv, TableType, IndexKey
<1>5. Tracks(data_block') /\ KeysOf(data_block') = {} /\ Len(data_block'.meta) = 0
  <2>1. Tracks(EmptyBuilder) /\ Len(EmptyBuilder.meta) = 0
    BY EmptyEncoded DEF Tracks, Encoded
  <2> QED
    BY <1>1, <2>1, NoKeys
<1>6. TableType'
  BY <1>1, <1>4, <1>5, CloseFields DEF BInv, TableType, Tracks, Closes
<1>7. BlocksEncoded'
  BY <1>4, <1>5, CloseKeeps DEF BlocksEncoded, Tracks
<1>8. BlocksOrdered'
  BY <1>4, <1>5, CloseKeeps DEF BlocksOrdered, Precedes
<1>9. Phases'
  <2>1. blocks' # <<>>
    BY <1>4, CloseFields
  <2> QED
    BY <1>1, <2>1 DEF Phases
<1>10. Entries' = Entries /\ Entries \in Nat
  BY <1>4, <1>5, <1>6, CloseCounts
<1> QED
  BY <1>6, <1>7, <1>8, <1>9, <1>10 DEF BInv

-----------------------------------------------------------------------------
(* Moving in a block *)

\* What a move leaves of an iterator.
Goes(i, j) ==
  /\ Formed(j)
  /\ j.fault = "none" =>
       /\ Positioned(j) /\ j.idx = i.idx /\ j.real = i.real /\ j.prev = i.prev
       /\ j.map = i.map /\ j.data = i.data /\ j.err = i.err
       /\ j.key_offset_map = i.key_offset_map

\* The fields of an iterator.
LEMMA IteratorFields ==
  ASSUME NEW i \in Iterator
  PROVE  /\ i.idx \in 0 .. Len(blocks) /\ i.real \in BOOLEAN
         /\ i.prev \in 0 .. Len(blocks) /\ i.key_offset_map \in Seq(Entry)
         /\ i.map \in 0 .. Len(blocks) /\ i.data \in BOOLEAN /\ i.ci \in Nat
         /\ i.cur \in Nat /\ i.lim \in Nat /\ i.err \in BOOLEAN
         /\ i.fault \in Fault
BY DEF Iterator

\* A move that meets a fault stops there.
LEMMA BrokenGoes ==
  ASSUME NEW i, Formed(i), i.fault = "none", NEW f \in {"bounds", "loop"}
  PROVE  Goes(i, Broken(i, f))
<1>1. i \in Iterator
  BY DEF Formed
<1>2. Broken(i, f) \in Iterator /\ Broken(i, f).fault = f
  BY <1>1 DEF Broken, Iterator, Fault
<1>3. /\ Broken(i, f).ci = i.ci /\ Broken(i, f).key_offset_map = i.key_offset_map
      /\ Broken(i, f).map = i.map /\ Broken(i, f).lim = i.lim
      /\ Broken(i, f).data = i.data
  BY <1>1 DEF Broken, Iterator
<1> QED
  BY <1>2, <1>3 DEF Formed, Goes

\* To an entry of the list.
LEMMA AtEntry ==
  ASSUME NEW i, Formed(i), NEW n \in 1 .. Len(i.key_offset_map)
  PROVE  /\ Goes(i, At(i, n)) /\ At(i, n).fault = i.fault
         /\ At(i, n).ci = n /\ At(i, n).lim = i.lim
         /\ At(i, n).key_offset_map = i.key_offset_map
         /\ At(i, n).cur = i.key_offset_map[n].off + MacSize
<1> DEFINE m == i.key_offset_map
           j == [i EXCEPT !.ci = n, !.cur = m[n].off + MacSize]
<1>1. i \in Iterator /\ m \in Seq(Entry) /\ Len(m) \in Nat /\ DOMAIN m = 1 .. Len(m)
  BY IteratorFields DEF Formed
<1>2. m[n].off + MacSize \in Nat
  <2>1. m[n].off \in Nat
    BY <1>1, EntryAt
  <2> QED
    BY <2>1
<1>3. At(i, n) = j
  BY <1>1 DEF At
<1>4. j \in Iterator
  <2>1. n \in Nat
    BY <1>1
  <2> DEFINE c == m[n].off + MacSize
  <2> HIDE DEF m
  <2>2. c \in Nat /\ j = [i EXCEPT !.ci = n, !.cur = c]
    BY <1>2
  <2> HIDE DEF c, j
  <2> QED
    BY <1>1, <2>1, <2>2 DEF Iterator
<1>5. /\ j.ci = n /\ j.cur = m[n].off + MacSize
      /\ j.idx = i.idx /\ j.real = i.real /\ j.prev = i.prev /\ j.map = i.map
      /\ j.data = i.data /\ j.err = i.err /\ j.lim = i.lim
      /\ j.key_offset_map = m /\ j.fault = i.fault
  BY <1>1 DEF Iterator
<1> HIDE DEF j
<1>6. n <= Len(m) + 2
  BY <1>1
<1>7. Formed(j)
  BY <1>4, <1>5, <1>6 DEF Formed
<1>8. Positioned(j)
  <2>1. j.cur >= j.key_offset_map[j.ci].off + MacSize
    BY <1>2, <1>5
  <2>2. j.ci \in 1 .. Len(j.key_offset_map)
    BY <1>5
  <2> QED
    BY <2>1, <2>2 DEF Positioned
<1> QED
  BY <1>3, <1>5, <1>7, <1>8 DEF Goes

\* To any position: outside the list it is a fault.
LEMMA AtGoes ==
  ASSUME NEW i, Formed(i), i.fault = "none", NEW n
  PROVE  Goes(i, At(i, n))
<1>1. DOMAIN i.key_offset_map = 1 .. Len(i.key_offset_map)
  BY IteratorFields DEF Formed
<1>2. CASE n \in DOMAIN i.key_offset_map
  BY <1>1, <1>2, AtEntry
<1>3. CASE n \notin DOMAIN i.key_offset_map
  BY <1>3, BrokenGoes DEF At
<1> QED
  BY <1>2, <1>3

\* The entries of the list are those of its block.
LEMMA ListOf ==
  ASSUME BInv, NEW i, Formed(i), i.key_offset_map # <<>>
  PROVE  /\ i.map \in Blocks /\ i.key_offset_map = blocks[i.map].buffer
         /\ Encoded(blocks[i.map]) /\ i.lim = blocks[i.map].meta_offset
         /\ Len(i.key_offset_map) \in 1 .. Len(i.key_offset_map)
         /\ i.lim = i.key_offset_map[Len(i.key_offset_map)].off
                      + i.key_offset_map[Len(i.key_offset_map)].len + MacSize
<1>1. i.map \in Blocks
  BY IteratorFields DEF Formed, Blocks
<1>2. i.key_offset_map = blocks[i.map].buffer /\ i.lim = blocks[i.map].meta_offset
  BY <1>1 DEF Formed, Blocks
<1>3. Encoded(blocks[i.map]) /\ i.key_offset_map \in Seq(Entry)
  BY <1>1, <1>2, BlockAt
<1> QED
  BY SMTT(40), <1>1, <1>2, <1>3 DEF Encoded

\* NextImpl: to the next entry, or past the last.
LEMMA NextGoes ==
  ASSUME BInv, NEW i, Formed(i), i.fault = "none", Positioned(i),
         Valid(i)
  PROVE  /\ Goes(i, NextImpl(i))
         /\ i.ci = Len(i.key_offset_map) =>
              /\ NextImpl(i).fault = "none" /\ NextImpl(i).ci = i.ci
              /\ Last(blocks[i.map].buffer).len <= Skip => ~Valid(NextImpl(i))
<1> DEFINE m == i.key_offset_map
           L == Len(m)
           j == [i EXCEPT !.cur = @ + Skip]
<1>1. i \in Iterator /\ m \in Seq(Entry) /\ L \in Nat /\ i.ci \in 1 .. L
      /\ i.cur \in Nat /\ i.lim \in Nat
  BY IteratorFields DEF Formed, Positioned
<1>2. CASE i.ci < L
  <2>1. NextImpl(i) = At(i, i.ci + 1)
    BY <1>2 DEF NextImpl
  <2> QED
    BY <1>1, <1>2, <2>1, AtGoes
<1>3. CASE ~(i.ci < L)
  <2>1. NextImpl(i) = j /\ i.ci = L
    BY <1>1, <1>3 DEF NextImpl
  <2>2. i.cur + Skip \in Nat
    BY <1>1
  <2>3. j \in Iterator
    BY <1>1, <2>2 DEF Iterator
  <2>4. /\ j.ci = L /\ j.cur = i.cur + Skip
        /\ j.idx = i.idx /\ j.real = i.real /\ j.prev = i.prev /\ j.map = i.map
        /\ j.data = i.data /\ j.err = i.err /\ j.lim = i.lim
        /\ j.key_offset_map = m /\ j.fault = i.fault
    BY <1>1, <2>1 DEF Iterator
  <2> HIDE DEF j
  <2>5. Formed(j)
    BY <2>1, <2>3, <2>4 DEF Formed
  <2>6. /\ i.map \in Blocks /\ m = blocks[i.map].buffer
        /\ i.lim = m[L].off + m[L].len + MacSize
        /\ m[L].off \in Nat /\ m[L].len \in Nat /\ Last(m) = m[L]
    <3>1. m # <<>> /\ L \in 1 .. L
      BY <1>1, <2>1
    <3>2. i.map \in Blocks /\ m = blocks[i.map].buffer
          /\ i.lim = m[L].off + m[L].len + MacSize
      BY <3>1, ListOf
    <3>3. m[L].off \in Nat /\ m[L].len \in Nat
      BY <1>1, <3>1, EntryAt
    <3> QED
      BY <3>2, <3>3 DEF Last
  <2>7. i.cur >= m[L].off + MacSize
    BY <2>1 DEF Positioned
  <2>8. j.cur >= m[L].off + MacSize
    <3> DEFINE o == m[L].off
    <3>1. o \in Nat /\ i.cur >= o + MacSize
      BY <2>6, <2>7
    <3> HIDE DEF o
    <3>2. i.cur + Skip >= o + MacSize
      BY <1>1, <3>1
    <3> QED
      BY <2>4, <3>2 DEF o
  <2>9. ASSUME Last(blocks[i.map].buffer).len <= Skip PROVE ~Valid(j)
    <3> DEFINE o == m[L].off
               l == m[L].len
    <3>1. /\ o \in Nat /\ l \in Nat /\ l <= Skip /\ i.cur >= o + MacSize
          /\ i.lim = o + l + MacSize
      BY <2>6, <2>7, <2>9
    <3> HIDE DEF o, l
    <3>2. ~(i.cur + Skip < i.lim)
      BY <1>1, <3>1
    <3> QED
      BY <2>4, <3>2 DEF Valid
  <2>10. Positioned(j)
    BY <1>1, <2>1, <2>4, <2>8 DEF Positioned
  <2>11. Goes(i, j)
    BY <2>4, <2>5, <2>10 DEF Goes
  <2>12. /\ j.fault = "none" /\ j.ci = i.ci
         /\ Last(blocks[i.map].buffer).len <= Skip => ~Valid(j)
    BY <2>1, <2>4, <2>9
  <2> HIDE DEF m, L
  <2> QED
    BY <2>1, <2>11, <2>12
<1> QED
  BY <1>2, <1>3

\* PrevImpl, too, goes to an entry or out of bounds.
LEMMA PrevGoes ==
  ASSUME NEW i, Formed(i), i.fault = "none"
  PROVE  Goes(i, PrevImpl(i))
BY AtGoes DEF PrevImpl

\* An iterator to which a block was just given: the block is loaded, or its
\* read has failed.
Opened(i) ==
  /\ Formed(i) /\ i.fault = "none" /\ i.real /\ i.idx # 0
  /\ \/ i.err /\ ~i.data /\ Positioned(i)
     \/ ~i.err /\ i.data /\ i.map = i.idx

\* From the block to its first entry.
LEMMA SeekToFirstGoes ==
  ASSUME BInv, NEW i, Opened(i)
  PROVE  Goes(i, SeekToFirstImpl(i))
<1>1. i \in Iterator /\ Formed(i) /\ i.fault = "none"
  BY DEF Opened, Formed
<1>2. CASE i.data
  <2> DEFINE j == [i EXCEPT !.ci = 0]
  <2>1. i.map \in Blocks
    BY <1>1, <1>2, IteratorFields DEF Formed, Blocks
  <2>2. i.key_offset_map # <<>> /\ i.key_offset_map \in Seq(Entry)
    BY <1>1, <2>1, BlockAt DEF Formed, Blocks
  <2>3. j \in Iterator
    BY <1>1 DEF Iterator
  <2>4. /\ j.ci = 0 /\ j.cur = i.cur
        /\ j.idx = i.idx /\ j.real = i.real /\ j.prev = i.prev /\ j.map = i.map
        /\ j.data = i.data /\ j.err = i.err /\ j.lim = i.lim
        /\ j.key_offset_map = i.key_offset_map /\ j.fault = i.fault
    BY <1>1 DEF Iterator
  <2>5. SeekToFirstImpl(i) = NextImpl(j)
    BY <1>2 DEF SeekToFirstImpl
  <2> HIDE DEF j
  <2>6. Formed(j)
    BY <1>1, <2>3, <2>4 DEF Formed
  <2>7. NextImpl(j) = At(j, 0 + 1)
    BY <2>2, <2>4 DEF NextImpl
  <2>8. Goes(j, NextImpl(j))
    BY <1>1, <2>4, <2>6, <2>7, AtGoes
  <2> QED
    BY <2>4, <2>5, <2>8 DEF Goes
<1>3. CASE ~i.data
  BY <1>1, <1>3 DEF SeekToFirstImpl, Opened, Goes
<1> QED
  BY <1>2, <1>3

\* SeekToLastImpl takes one step back from two behind the end.
LEMMA SeekToLastGoes ==
  ASSUME BInv, NEW i, Formed(i), i.fault = "none", ~i.data => Positioned(i)
  PROVE  Goes(i, SeekToLastImpl(i))
<1>1. i \in Iterator
  BY DEF Formed
<1>2. CASE i.data
  <2> DEFINE L == Len(i.key_offset_map)
             j == [i EXCEPT !.ci = L + 2]
  <2>1. L + 2 \in Nat
    BY <1>1, IteratorFields
  <2>2. j \in Iterator
    BY <1>1, <2>1 DEF Iterator
  <2>3. /\ j.ci = L + 2 /\ j.cur = i.cur
        /\ j.idx = i.idx /\ j.real = i.real /\ j.prev = i.prev /\ j.map = i.map
        /\ j.data = i.data /\ j.err = i.err /\ j.lim = i.lim
        /\ j.key_offset_map = i.key_offset_map /\ j.fault = i.fault
    BY <1>1 DEF Iterator
  <2>4. SeekToLastImpl(i) = PrevImpl(j)
    BY <1>2 DEF SeekToLastImpl
  <2> HIDE DEF j
  <2>5. Formed(j)
    BY <2>1, <2>2, <2>3 DEF Formed
  <2>6. Goes(j, PrevImpl(j))
    BY <2>3, <2>5, PrevGoes
  <2> QED
    BY <2>3, <2>4, <2>6 DEF Goes
<1>3. CASE ~i.data
  BY <1>3 DEF SeekToLastImpl, Goes
<1> QED
  BY <1>2, <1>3

\* To the first entry at or past a target, or past the last.
LEMMA SeekGoes ==
  ASSUME NEW i, Formed(i), i.fault = "none", NEW t
  PROVE  Goes(i, SeekImpl(i, t))
<1> DEFINE m == i.key_offset_map
           past == {n \in DOMAIN m : ~Less(m[n].key, t)}
           j == [i EXCEPT !.ci = Len(m), !.cur = i.lim]
<1>1. i \in Iterator /\ m \in Seq(Entry) /\ Len(m) \in Nat /\ i.lim \in Nat
  BY IteratorFields DEF Formed
<1>2. CASE m = <<>>
  BY <1>2, BrokenGoes DEF SeekImpl
<1>3. CASE m # <<>> /\ past # {}
  <2>1. SeekImpl(i, t) = At(i, Min(past))
    BY <1>3 DEF SeekImpl
  <2> QED
    BY <2>1, AtGoes
<1>4. CASE m # <<>> /\ past = {}
  <2>1. SeekImpl(i, t) = j
    BY <1>4 DEF SeekImpl
  <2>2. j \in Iterator
    BY <1>1 DEF Iterator
  <2>3. /\ j.ci = Len(m) /\ j.cur = i.lim
        /\ j.idx = i.idx /\ j.real = i.real /\ j.prev = i.prev /\ j.map = i.map
        /\ j.data = i.data /\ j.err = i.err /\ j.lim = i.lim
        /\ j.key_offset_map = m /\ j.fault = i.fault
    BY <1>1 DEF Iterator
  <2> HIDE DEF j
  <2>4. Len(m) <= Len(m) + 2
    BY <1>1
  <2>5. Formed(j)
    BY <2>2, <2>3, <2>4 DEF Formed
  <2>6. ~Valid(j)
    BY <1>1, <2>3 DEF Valid
  <2> QED
    BY <2>1, <2>3, <2>5, <2>6 DEF Goes, Positioned
<1> QED
  BY <1>2, <1>3, <1>4

\* To the last entry at or before a target; an iterator that has run past the
\* last entry goes to SeekToLastImpl.
LEMMA SeekForPrevGoes ==
  ASSUME BInv, NEW i, Formed(i), i.fault = "none", NEW t
  PROVE  Goes(i, SeekForPrevImpl(i, t))
<1> DEFINE j == SeekImpl(i, t)
           before == {n \in 1 .. j.ci : ~Less(t, j.key_offset_map[n].key)}
<1>1. Goes(i, j)
  BY SeekGoes
<1> SUFFICES ASSUME j.fault = "none" PROVE Goes(i, SeekForPrevImpl(i, t))
  BY <1>1 DEF SeekForPrevImpl
<1>2. /\ Formed(j) /\ Positioned(j) /\ j.idx = i.idx /\ j.real = i.real
      /\ j.prev = i.prev /\ j.map = i.map /\ j.data = i.data /\ j.err = i.err
      /\ j.key_offset_map = i.key_offset_map
  BY <1>1 DEF Goes
<1> HIDE DEF j
<1>3. CASE ~Valid(j)
  <2>1. SeekForPrevImpl(i, t) = SeekToLastImpl(j)
    BY <1>3 DEF SeekForPrevImpl, j
  <2>2. Goes(j, SeekToLastImpl(j))
    BY <1>2, SeekToLastGoes
  <2> QED
    BY <1>2, <2>1, <2>2 DEF Goes
<1>4. CASE Valid(j) /\ before = {}
  <2>1. SeekForPrevImpl(i, t) = Broken(j, "loop")
    BY <1>4 DEF SeekForPrevImpl, j
  <2>2. Goes(j, Broken(j, "loop"))
    BY <1>2, BrokenGoes
  <2> QED
    BY <1>2, <2>1, <2>2 DEF Goes
<1>5. CASE Valid(j) /\ before # {}
  <2>1. SeekForPrevImpl(i, t) = At(j, Max(before))
    BY <1>5 DEF SeekForPrevImpl, j
  <2>2. Goes(j, At(j, Max(before)))
    BY <1>2, AtGoes
  <2> QED
    BY <1>2, <2>1, <2>2 DEF Goes
<1> QED
  BY <1>3, <1>4, <1>5

-----------------------------------------------------------------------------
(* Loading a block *)

\* An iterator without a block.
Bare(i) == Formed(i) /\ i.fault = "none" /\ ~i.real /\ ~i.err

\* ResetDataIter leaves none, and clears the status.
LEMMA ResetBare ==
  ASSUME NEW i, Formed(i), i.fault = "none", i.err => i.real
  PROVE  /\ Bare(ResetDataIter(i)) /\ ResetDataIter(i).idx = i.idx
         /\ ResetDataIter(i).prev = i.prev
         /\ i.real \/ Positioned(i) => Positioned(ResetDataIter(i))
<1>1. i \in Iterator /\ i.err \in BOOLEAN /\ i.real \in BOOLEAN /\ i.lim \in Nat
  BY IteratorFields DEF Formed
<1>2. CASE i.real
  <2> DEFINE j == [i EXCEPT !.data = FALSE, !.cur = i.lim, !.err = FALSE,
                            !.real = FALSE]
  <2>1. j \in Iterator
    BY <1>1 DEF Iterator
  <2>2. /\ j.ci = i.ci /\ j.cur = i.lim /\ j.idx = i.idx /\ j.real = FALSE
        /\ j.prev = i.prev /\ j.map = i.map /\ j.data = FALSE /\ j.err = FALSE
        /\ j.lim = i.lim /\ j.key_offset_map = i.key_offset_map
        /\ j.fault = i.fault
    BY <1>1 DEF Iterator
  <2>3. ResetDataIter(i) = j
    BY <1>1, <1>2 DEF ResetDataIter, Invalidate, Iterator
  <2> HIDE DEF j
  <2>4. Formed(j)
    BY <2>1, <2>2 DEF Formed
  <2>5. ~Valid(j)
    BY <1>1, <2>2 DEF Valid
  <2> QED
    BY <2>2, <2>3, <2>4, <2>5 DEF Bare, Positioned
<1>3. CASE ~i.real
  BY <1>1, <1>3 DEF ResetDataIter, Bare
<1> QED
  BY <1>2, <1>3

\* The keys of a block do not go down, so Ready does not exit.
LEMMA BlockSorted ==
  ASSUME BInv, NEW b \in Blocks
  PROVE  Decoded(blocks[b]) = blocks[b].buffer /\ Sorted(Decoded(blocks[b]))
<1> DEFINE s == blocks[b].buffer
<1>1. Encoded(blocks[b]) /\ s \in Seq(Entry)
  BY BlockAt
<1>2. Decoded(blocks[b]) = s
  BY <1>1, DecodedIsBuffer
<1>3. ASSUME NEW n \in 2 .. Len(s) PROVE ~UserLess(s[n].key, s[n - 1].key)
  <2>1. n \in 1 .. Len(s) /\ n - 1 \in 1 .. Len(s) /\ n - 1 < n
    BY <1>1
  <2>2. Less(s[n - 1].key, s[n].key)
    BY <1>1, <2>1 DEF Encoded
  <2>3. s[n].key \in AnyKey /\ s[n - 1].key \in AnyKey
    BY <1>1, <2>1, EntryAt
  <2> QED
    BY <2>2, <2>3, KeyOrder
<1> QED
  BY <1>2, <1>3 DEF Sorted

\* NewDataBlockIterator loads the block of the index entry, or reports that it
\* cannot be read.
LEMMA NewOpens ==
  ASSUME BInv, NEW i, Bare(i), i.idx \in Blocks, NEW bad
  PROVE  LET j == NewDataBlockIterator(i, bad)
         IN /\ Formed(j) /\ j.fault = "none" /\ j.idx = i.idx
            /\ j.real = i.real /\ j.prev = i.prev
            /\ IF i.idx \in bad THEN j.err /\ ~j.data /\ ~Valid(j)
               ELSE ~j.err /\ j.data /\ j.map = j.idx
<1> DEFINE m == Decoded(blocks[i.idx])
           s == blocks[i.idx].buffer
           o == blocks[i.idx].meta_offset
           ready == [i EXCEPT !.key_offset_map = m, !.map = i.idx, !.data = TRUE,
                              !.ci = 0, !.cur = 0, !.lim = o]
           j == NewDataBlockIterator(i, bad)
<1>1. i \in Iterator /\ i.lim \in Nat /\ i.fault = "none" /\ Formed(i)
      /\ i.err = FALSE /\ i.real = FALSE
  BY IteratorFields DEF Formed, Bare
<1>2. CASE i.idx \in bad
  <2> DEFINE k == [i EXCEPT !.data = FALSE, !.cur = i.lim, !.err = TRUE]
  <2>1. j = k
    BY <1>2 DEF NewDataBlockIterator, Invalidate
  <2>2. k \in Iterator
    BY <1>1 DEF Iterator
  <2>3. /\ k.ci = i.ci /\ k.cur = i.lim /\ k.idx = i.idx /\ k.real = i.real
        /\ k.prev = i.prev /\ k.map = i.map /\ k.data = FALSE /\ k.err = TRUE
        /\ k.lim = i.lim /\ k.key_offset_map = i.key_offset_map
        /\ k.fault = i.fault
    BY <1>1 DEF Iterator
  <2> HIDE DEF k, j
  <2>4. Formed(k)
    BY <1>1, <2>2, <2>3 DEF Formed
  <2>5. ~Valid(k)
    BY <1>1, <2>3 DEF Valid
  <2> QED
    BY <1>1, <1>2, <2>1, <2>3, <2>4, <2>5 DEF j
<1>3. CASE i.idx \notin bad
  <2>1. m = s /\ Sorted(m) /\ s \in Seq(Entry) /\ o \in Nat
    <3>1. blocks[i.idx] \in Stored
      BY BlockAt
    <3> QED
      BY <3>1, BlockSorted, BlockAt DEF Stored
  <2>2. j = ready
    BY <1>3, <2>1 DEF NewDataBlockIterator
  <2>3. i.idx \in 0 .. Len(blocks) /\ i.idx # 0
    BY <1>1, IteratorFields DEF Blocks
  <2> HIDE DEF m, s, o
  <2>4. ready \in Iterator
    BY <1>1, <2>1, <2>3 DEF Iterator
  <2>5. /\ ready.ci = 0 /\ ready.idx = i.idx /\ ready.real = i.real
        /\ ready.prev = i.prev /\ ready.map = i.idx /\ ready.data = TRUE
        /\ ready.err = i.err /\ ready.lim = o /\ ready.key_offset_map = s
        /\ ready.fault = i.fault
    BY <1>1, <2>1 DEF Iterator
  <2> HIDE DEF ready, j
  <2>6. 0 <= Len(s) + 2
    BY <2>1
  <2>7. Formed(ready)
    BY <1>1, <2>3, <2>4, <2>5, <2>6 DEF Formed, s, o
  <2> QED
    BY <1>1, <1>3, <2>2, <2>5, <2>7 DEF j
<1> QED
  BY <1>2, <1>3


\* The iterator without its block may be given another index entry.
LEMMA BareMoves ==
  ASSUME NEW i, Bare(i), NEW b \in 0 .. Len(blocks)
  PROVE  /\ Bare([i EXCEPT !.idx = b]) /\ [i EXCEPT !.idx = b].idx = b
         /\ Positioned(i) => Positioned([i EXCEPT !.idx = b])
<1> DEFINE j == [i EXCEPT !.idx = b]
<1>1. i \in Iterator
  BY DEF Bare, Formed
<1>2. j \in Iterator
  BY <1>1 DEF Iterator
<1>3. /\ j.ci = i.ci /\ j.cur = i.cur /\ j.idx = b /\ j.real = i.real
      /\ j.prev = i.prev /\ j.map = i.map /\ j.data = i.data /\ j.err = i.err
      /\ j.lim = i.lim /\ j.key_offset_map = i.key_offset_map
      /\ j.fault = i.fault
  BY <1>1 DEF Iterator
<1> HIDE DEF j
<1>4. Bare(j)
  BY <1>2, <1>3 DEF Bare, Formed
<1>5. Positioned(i) => Positioned(j)
  BY <1>3 DEF Positioned, Valid
<1> QED
  BY <1>3, <1>4, <1>5 DEF j

\* InitDataBlock loads the block of the index entry, unless it is loaded.
LEMMA InitOpens ==
  ASSUME BInv, NEW i, Formed(i), i.fault = "none", i.idx \in Blocks, NEW bad,
         i.err => i.real /\ ~i.data /\ Positioned(i),
         i.real /\ i.idx = i.prev => i.err \/ (i.data /\ i.map = i.idx)
  PROVE  /\ Opened(InitDataBlock(i, bad)) /\ InitDataBlock(i, bad).idx = i.idx
         /\ ~i.err /\ i.idx \notin bad => ~InitDataBlock(i, bad).err
<1>1. CASE i.real /\ i.idx = i.prev
  <2>1. InitDataBlock(i, bad) = i /\ i.idx # 0 /\ i.err \in BOOLEAN
    BY <1>1, IteratorFields DEF InitDataBlock, Blocks, Formed
  <2> QED
    BY <1>1, <2>1 DEF Opened
<1>2. CASE ~(i.real /\ i.idx = i.prev)
  <2> DEFINE r == ResetDataIter(i)
             k == NewDataBlockIterator(r, bad)
             j == [k EXCEPT !.real = TRUE]
  <2>1. InitDataBlock(i, bad) = j
    BY <1>2 DEF InitDataBlock
  <2>2. Bare(r) /\ r.idx = i.idx
    BY ResetBare
  <2>3. /\ Formed(k) /\ k.fault = "none" /\ k.idx = r.idx
        /\ IF r.idx \in bad THEN k.err /\ ~k.data /\ ~Valid(k)
           ELSE ~k.err /\ k.data /\ k.map = k.idx
    BY <2>2, NewOpens
  <2> HIDE DEF k, r
  <2>4. k \in Iterator
    BY <2>3 DEF Formed
  <2>5. j \in Iterator
    BY <2>4 DEF Iterator
  <2>6. /\ j.ci = k.ci /\ j.cur = k.cur /\ j.idx = k.idx /\ j.real = TRUE
        /\ j.prev = k.prev /\ j.map = k.map /\ j.data = k.data /\ j.err = k.err
        /\ j.lim = k.lim /\ j.key_offset_map = k.key_offset_map
        /\ j.fault = k.fault
    BY <2>4 DEF Iterator
  <2> HIDE DEF j
  <2>7. Formed(j)
    BY <2>3, <2>5, <2>6 DEF Formed
  <2>8. ~Valid(k) => Positioned(j)
    BY <2>6 DEF Positioned, Valid
  <2>9. i.idx # 0
    BY DEF Blocks
  <2> QED
    BY <2>1, <2>2, <2>3, <2>6, <2>7, <2>8, <2>9 DEF Opened
<1> QED
  BY <1>1, <1>2

\* A move in a block that was just given leaves a steady iterator.
LEMMA OpenedGoes ==
  ASSUME NEW i, Opened(i), NEW j, Goes(i, j)
  PROVE  /\ Steady(j)
         /\ j.fault = "none" => j.real /\ j.idx = i.idx /\ j.idx # 0
BY DEF Opened, Goes, Steady, Placed

-----------------------------------------------------------------------------
(* From block to block *)

\* FindBlockForward: an iterator goes to the first entry of a block.
OpenAt(j, b, bad) ==
  SeekToFirstImpl(InitDataBlock([ResetDataIter(j) EXCEPT !.idx = b], bad))

\* That keeps it steady.
LEMMA OpenSteady ==
  ASSUME BInv, NEW i, Steady(i), i.fault = "none", NEW b \in Blocks, NEW bad
  PROVE  /\ Steady(OpenAt(i, b, bad))
         /\ OpenAt(i, b, bad).fault = "none" => OpenAt(i, b, bad).idx = b
<1> DEFINE r == ResetDataIter(i)
           s == [r EXCEPT !.idx = b]
           o == InitDataBlock(s, bad)
<1>1. Formed(i) /\ (i.err => i.real)
  BY DEF Steady, Placed
<1>2. Bare(r)
  BY <1>1, ResetBare
<1>3. Bare(s) /\ s.idx = b
  <2>1. b \in 0 .. Len(blocks)
    <3>1. Len(blocks) \in Nat
      BY DEF BInv, TableType
    <3> QED
      BY <3>1 DEF Blocks
  <2> HIDE DEF r
  <2> QED
    BY <1>2, <2>1, BareMoves
<1> HIDE DEF s
<1>4. Opened(o) /\ o.idx = b
  BY <1>3, InitOpens DEF Bare
<1> HIDE DEF o
<1>5. Goes(o, SeekToFirstImpl(o))
  BY <1>4, SeekToFirstGoes
<1>6. OpenAt(i, b, bad) = SeekToFirstImpl(o)
  BY DEF OpenAt, o, s, r
<1> QED
  BY <1>4, <1>5, <1>6, OpenedGoes

\* What FindKeyForward looks at: a function over the blocks from idx on.
Walk(f, i, bad) ==
  \A b \in i.idx .. Len(blocks) :
    f[b] = IF b = i.idx THEN i
           ELSE IF Settled(f[b - 1]) THEN f[b - 1] ELSE OpenAt(f[b - 1], b, bad)

\* That function exists, all its iterators are steady, and the one at the end
\* is the result, unless there is no next block.
LEMMA Walks ==
  ASSUME BInv, NEW i, Steady(i), NEW bad
  PROVE  \E f : /\ Walk(f, i, bad)
                /\ \A b \in i.idx .. Len(blocks) : Steady(f[b])
                /\ FindKeyForward(i, bad) =
                     IF Settled(f[Len(blocks)]) THEN f[Len(blocks)]
                     ELSE [ResetDataIter(f[Len(blocks)]) EXCEPT !.idx = 0]
<1> DEFINE N == Len(blocks)
           S == {j \in Iterator : Steady(j)}
           go(j, b) == IF Settled(j) THEN j ELSE OpenAt(j, b, bad)
           F == [b \in i.idx .. N |-> [j \in S |-> go(j, b)]]
           IsWalk(f) == f = [b \in i.idx .. N |->
                               IF b = i.idx THEN i
                               ELSE go(f[b - 1], b)]
           k == CHOOSE f : IsWalk(f)
<1>1. N \in Nat /\ i \in S /\ i.idx \in Nat /\ i.idx \in 0 .. N
  BY IteratorFields DEF BInv, TableType, Steady, Formed
<1>2. ASSUME NEW j \in S, NEW b \in i.idx .. N, b # i.idx
      PROVE  go(j, b) \in S
  <2>1. b \in Blocks
    BY <1>1, <1>2 DEF Blocks
  <2>2. CASE ~Settled(j)
    <3>1. Steady(OpenAt(j, b, bad))
      BY <2>1, <2>2, OpenSteady DEF Settled
    <3> QED
      BY <2>2, <3>1 DEF Steady, Formed
  <2> QED
    BY <2>2
<1>3. Steps(F, i.idx, N, S)
  <2>1. ASSUME NEW b \in i.idx .. N, b # i.idx PROVE F[b] \in [S -> S]
    <3>1. \A j \in S : go(j, b) \in S
      BY <1>2, <2>1
    <3> HIDE DEF go, S
    <3>2. F[b] = [j \in S |-> go(j, b)]
      OBVIOUS
    <3> QED
      BY <3>1, <3>2
  <2> HIDE DEF F
  <2> QED
    BY <2>1 DEF Steps
<1>4. PICK g : Runs(g, i.idx, N, i, F, S)
  <2> HIDE DEF S, F, N
  <2> QED
    BY <1>1, <1>3, Recursion
<1>5. IsWalk(g)
  <2>1. ASSUME NEW b \in i.idx .. N
        PROVE  g[b] = IF b = i.idx THEN i ELSE go(g[b - 1], b)
    <3>1. g[b] = IF b = i.idx THEN i ELSE F[b][g[b - 1]]
      BY <1>4 DEF Runs
    <3>2. b # i.idx => b - 1 \in i.idx .. N
      BY <1>1
    <3>3. b # i.idx => g[b - 1] \in S
      BY <1>4, <3>2 DEF Runs
    <3> HIDE DEF go, S
    <3> QED
      BY <3>1, <3>3
  <2>2. g \in [i.idx .. N -> S]
    BY <1>4 DEF Runs
  <2> HIDE DEF go, S, N
  <2> QED
    BY <2>1, <2>2
<1>6. IsWalk(k)
  <2>1. \E f : IsWalk(f)
    BY <1>5
  <2> HIDE DEF IsWalk
  <2> QED
    BY <2>1
<1>7. FindKeyForward(i, bad) =
        IF Settled(k[N]) THEN k[N] ELSE [ResetDataIter(k[N]) EXCEPT !.idx = 0]
  BY Zenon DEF FindKeyForward, OpenAt
<1> HIDE DEF k
<1>8. \A b \in i.idx .. N : k[b] = IF b = i.idx THEN i ELSE go(k[b - 1], b)
  <2> HIDE DEF go
  <2> QED
    BY <1>6
<1>9. \A b \in i.idx .. N : k[b] \in S
  <2> DEFINE G == {b \in i.idx .. N : k[b] \in S}
  <2>1. i.idx \in G
    <3>1. i.idx \in i.idx .. N
      BY <1>1
    <3> HIDE DEF go, S, N
    <3> QED
      BY <1>1, <1>8, <3>1
  <2>2. ASSUME NEW b \in i.idx .. N, b # i.idx, b - 1 \in G PROVE b \in G
    <3>1. k[b - 1] \in S
      BY <2>2
    <3>2. k[b] = go(k[b - 1], b)
      <4> HIDE DEF go, S
      <4> QED
        BY <1>8, <2>2
    <3>3. go(k[b - 1], b) \in S
      <4> HIDE DEF go, S
      <4> QED
        BY <1>2, <2>2, <3>1
    <3> QED
      BY <3>2, <3>3
  <2> HIDE DEF G, N
  <2>3. \A b \in i.idx .. N : b \in G
    BY <1>1, <2>1, <2>2, UpTo
  <2> QED
    BY <2>3 DEF G
<1>10. Walk(k, i, bad)
  BY <1>8 DEF Walk
<1> QED
  BY <1>7, <1>9, <1>10

-----------------------------------------------------------------------------
(* The operations of the table iterator *)

\* An iterator without its block, outside the index, rests.
LEMMA OutsideRests ==
  ASSUME BInv, NEW i, Formed(i), i.fault = "none", i.err => i.real,
         i.real \/ Positioned(i)
  PROVE  /\ Rested([ResetDataIter(i) EXCEPT !.idx = 0])
         /\ i.idx = 0 => Rested(ResetDataIter(i))
<1> DEFINE r == ResetDataIter(i)
           j == [r EXCEPT !.idx = 0]
<1>1. Bare(r) /\ Positioned(r) /\ r.idx = i.idx
  BY ResetBare
<1>2. Bare(j) /\ Positioned(j)
  <2>1. 0 \in 0 .. Len(blocks)
    BY DEF BInv, TableType
  <2> HIDE DEF r
  <2> QED
    BY <1>1, <2>1, BareMoves
<1> HIDE DEF r, j
<1>3. \A x : Bare(x) /\ Positioned(x) => Rested(x)
  BY DEF Bare, Rested, Steady, Placed
<1> QED
  BY <1>1, <1>2, <1>3 DEF j, r

\* FindKeyForward ends at an entry, at a failed read, or without a block.
LEMMA ForwardRests ==
  ASSUME BInv, NEW i, Steady(i), NEW bad
  PROVE  Rested(FindKeyForward(i, bad))
<1> DEFINE N == Len(blocks)
<1>1. PICK f : /\ Walk(f, i, bad)
               /\ \A b \in i.idx .. N : Steady(f[b])
               /\ FindKeyForward(i, bad) =
                    IF Settled(f[N]) THEN f[N]
                    ELSE [ResetDataIter(f[N]) EXCEPT !.idx = 0]
  BY Walks
<1>2. N \in i.idx .. N
  <2>1. N \in Nat
    BY DEF BInv, TableType
  <2>2. i.idx \in 0 .. N
    BY IteratorFields DEF Steady, Formed
  <2> QED
    BY <2>1, <2>2
<1>3. Steady(f[N])
  BY <1>1, <1>2
<1>4. CASE Settled(f[N])
  BY <1>1, <1>3, <1>4 DEF Settled, Rested
<1>5. CASE ~Settled(f[N])
  <2>1. f[N].fault = "none" /\ ~f[N].err
    BY <1>5 DEF Settled
  <2>2. Formed(f[N]) /\ Positioned(f[N])
    BY <1>3, <2>1 DEF Steady
  <2> QED
    BY <1>1, <1>5, <2>1, <2>2, OutsideRests
<1> QED
  BY <1>4, <1>5

\* SeekToLastImpl looks behind the end of the list.
LEMMA SeekToLastReads ==
  ASSUME NEW i \in Iterator, i.data
  PROVE  SeekToLastImpl(i).fault = "bounds"
<1> DEFINE L == Len(i.key_offset_map)
           j == [i EXCEPT !.ci = L + 2]
<1>1. i.key_offset_map \in Seq(Entry) /\ L \in Nat
  BY IteratorFields
<1>2. j.ci = L + 2 /\ j.key_offset_map = i.key_offset_map
  BY <1>1 DEF Iterator
<1>3. SeekToLastImpl(i) = PrevImpl(j)
  BY DEF SeekToLastImpl
<1>4. j \in Iterator
  <2>1. L + 2 \in Nat
    BY <1>1
  <2> HIDE DEF L
  <2> QED
    BY <2>1 DEF Iterator
<1> HIDE DEF j
<1>5. PrevImpl(j) = At(j, L + 1)
  <2>1. L + 2 > 1 /\ (L + 2) - 1 = L + 1
    BY <1>1
  <2> QED
    BY <1>2, <2>1 DEF PrevImpl
<1>6. L + 1 \notin DOMAIN j.key_offset_map
  BY <1>1, <1>2
<1>7. At(j, L + 1).fault = "bounds"
  BY <1>4, <1>6 DEF At, Broken, Iterator
<1> QED
  BY <1>3, <1>5, <1>7

\* So it ends in a fault, or leaves a block that could not be read.
LEMMA SeekToLastFails ==
  ASSUME BInv, NEW i, Opened(i)
  PROVE  Rested(SeekToLastImpl(i))
<1>1. Steady(SeekToLastImpl(i))
  BY SeekToLastGoes, OpenedGoes DEF Opened
<1>2. CASE i.data
  <2>1. SeekToLastImpl(i).fault = "bounds"
    BY <1>2, SeekToLastReads DEF Opened, Formed
  <2> QED
    BY <1>1, <2>1 DEF Rested
<1>3. CASE ~i.data
  BY <1>1, <1>3 DEF SeekToLastImpl, Opened, Rested
<1> QED
  BY <1>2, <1>3

\* FindKeyBackward ends at an entry, at a failed read, at a fault, or without
\* a block.
LEMMA BackwardRests ==
  ASSUME BInv, NEW i, Steady(i), i.fault = "none" => i.real, NEW bad
  PROVE  Rested(FindKeyBackward(i, bad))
<1>1. CASE Settled(i)
  BY <1>1 DEF FindKeyBackward, Rested, Settled
<1>2. CASE ~Settled(i)
  <2>1. /\ i.fault = "none" /\ ~i.err /\ i.real /\ Formed(i) /\ Positioned(i)
        /\ i.idx # 0
    BY <1>2 DEF Settled, Steady, Placed
  <2>2. CASE i.idx = 1
    BY <1>2, <2>1, <2>2, OutsideRests DEF FindKeyBackward
  <2>3. CASE i.idx # 1
    <3> DEFINE r == ResetDataIter(i)
               s == [r EXCEPT !.idx = i.idx - 1]
               o == InitDataBlock(s, bad)
    <3>1. i.idx - 1 \in Blocks /\ i.idx - 1 \in 0 .. Len(blocks)
      <4>1. i.idx \in 0 .. Len(blocks) /\ Len(blocks) \in Nat
        BY <2>1, IteratorFields DEF Formed, BInv, TableType
      <4> QED
        BY <2>1, <2>3, <4>1 DEF Blocks
    <3>2. Bare(r)
      BY <2>1, ResetBare
    <3>3. Bare(s) /\ s.idx = i.idx - 1
      <4> HIDE DEF r
      <4> QED
        BY <3>1, <3>2, BareMoves
    <3> HIDE DEF s
    <3>4. Opened(o)
      BY <3>1, <3>3, InitOpens DEF Bare
    <3>5. FindKeyBackward(i, bad) = SeekToLastImpl(o)
      BY <1>2, <2>3 DEF FindKeyBackward, s
    <3> QED
      BY <3>4, <3>5, SeekToLastFails
  <2> QED
    BY <2>2, <2>3
<1> QED
  BY <1>1, <1>2

\* An iterator between two calls that is about to go to block b, or to none,
\* with the block that it remembers.
Turns(i, b, j) ==
  /\ Formed(j) /\ j.fault = "none" /\ j.idx = b /\ Positioned(j)
  /\ j.err = i.err /\ j.real = i.real /\ j.data = i.data /\ j.map = i.map
  /\ j.key_offset_map = i.key_offset_map /\ j.ci = i.ci /\ j.cur = i.cur
  /\ j.lim = i.lim
  /\ j.err => j.real /\ ~j.data
  /\ j.real /\ j.idx = j.prev => j.err \/ (j.data /\ j.map = j.idx)

\* What it remembers is the block in which it stands.
LEMMA PrevTurns ==
  ASSUME BInv, NEW i, Rested(i), i.fault = "none", NEW b \in 0 .. Len(blocks),
         NEW p \in {i.idx, i.prev}, i.real /\ ~i.err => p = i.idx
  PROVE  Turns(i, b, [i EXCEPT !.prev = p, !.idx = b])
<1> DEFINE j == [i EXCEPT !.prev = p, !.idx = b]
<1>1. /\ i \in Iterator /\ Formed(i) /\ Positioned(i) /\ Placed(i)
      /\ p \in 0 .. Len(blocks)
  BY IteratorFields DEF Rested, Steady, Formed
<1>2. j \in Iterator
  BY <1>1 DEF Iterator
<1>3. /\ j.ci = i.ci /\ j.cur = i.cur /\ j.idx = b /\ j.real = i.real
      /\ j.prev = p /\ j.map = i.map /\ j.data = i.data /\ j.err = i.err
      /\ j.lim = i.lim /\ j.key_offset_map = i.key_offset_map
      /\ j.fault = i.fault
  BY <1>1 DEF Iterator
<1> HIDE DEF j
<1>4. Formed(j)
  BY <1>1, <1>2, <1>3 DEF Formed
<1>5. Positioned(j)
  BY <1>1, <1>3 DEF Positioned, Valid
<1> QED
  BY <1>1, <1>3, <1>4, <1>5 DEF Turns, Placed, j

\* Remember and SavePrevIndexValue.
LEMMA RememberTurns ==
  ASSUME BInv, NEW i, Rested(i), i.fault = "none", NEW b \in 0 .. Len(blocks)
  PROVE  /\ Turns(i, b, [Remember(i) EXCEPT !.idx = b])
         /\ Turns(i, b, [SavePrev(i) EXCEPT !.idx = b])
         /\ b = i.idx => Turns(i, b, Remember(i))
<1>1. i \in Iterator
  BY DEF Rested, Steady, Formed
<1> DEFINE j(p) == [i EXCEPT !.prev = p, !.idx = b]
           p1 == IF TValid(i) THEN i.idx ELSE i.prev
           p2 == IF i.real THEN i.idx ELSE i.prev
<1>2. /\ [Remember(i) EXCEPT !.idx = b] = j(p1)
      /\ [SavePrev(i) EXCEPT !.idx = b] = j(p2)
      /\ b = i.idx => Remember(i) = j(p1)
  BY <1>1 DEF Remember, SavePrev, Iterator
<1>3. p1 \in {i.idx, i.prev} /\ (i.real /\ ~i.err => p1 = i.idx)
  BY DEF Rested, TValid
<1>4. p2 \in {i.idx, i.prev} /\ (i.real /\ ~i.err => p2 = i.idx)
  OBVIOUS
<1> HIDE DEF p1, p2
<1>5. Turns(i, b, j(p1)) /\ Turns(i, b, j(p2))
  BY <1>3, <1>4, PrevTurns
<1> QED
  BY <1>2, <1>5

\* The block that it turns to is loaded.
LEMMA TurnsOpens ==
  ASSUME BInv, NEW i, NEW b \in Blocks, NEW j, Turns(i, b, j), NEW bad
  PROVE  /\ Opened(InitDataBlock(j, bad)) /\ InitDataBlock(j, bad).idx = b
         /\ ~i.err /\ b \notin bad => ~InitDataBlock(j, bad).err
BY InitOpens DEF Turns

\* The index leads to the first block that is not before the target.
LEMMA IndexLeads ==
  ASSUME BInv, NEW t
  PROVE  /\ IndexSeek(t) \in 0 .. Len(blocks)
         /\ IndexSeek(t) = 0 => \A b \in Blocks : IndexBefore(index[b], t)
         /\ IndexSeek(t) # 0 =>
              /\ IndexSeek(t) \in Blocks /\ ~IndexBefore(index[IndexSeek(t)], t)
              /\ \A b \in Blocks : b < IndexSeek(t) => IndexBefore(index[b], t)
<1> DEFINE N == Len(blocks)
           S == {b \in Blocks : ~IndexBefore(index[b], t)}
<1>1. N \in Nat /\ Blocks = 1 .. N /\ S \subseteq Nat
  BY DEF BInv, TableType, Blocks
<1>2. IndexSeek(t) = IF S = {} THEN 0 ELSE Min(S)
  BY DEF IndexSeek
<1>3. CASE S = {}
  BY <1>1, <1>2, <1>3
<1>4. CASE S # {}
  <2>1. Min(S) \in S /\ \A y \in S : Min(S) <= y
    BY <1>1, <1>4, MinNat
  <2>2. Min(S) \in Blocks /\ ~IndexBefore(index[Min(S)], t)
    BY <2>1
  <2>3. ASSUME NEW b \in Blocks, b < Min(S) PROVE IndexBefore(index[b], t)
    <3>1. b \in Nat /\ Min(S) \in Nat
      BY <1>1, <2>2
    <3>2. ~(Min(S) <= b)
      BY <2>3, <3>1
    <3> QED
      BY <2>1, <3>2
  <2>4. Min(S) \in 0 .. N /\ Min(S) # 0
    BY <1>1, <2>2
  <2> QED
    BY <1>2, <1>4, <2>2, <2>3, <2>4
<1> QED
  BY <1>3, <1>4

\* The table iterator after Seek, ...
LEMMA SeekRests ==
  ASSUME BInv, NEW i, Rested(i), i.fault = "none", NEW t, NEW bad
  PROVE  Rested(TableSeek(i, t, bad))
<1> DEFINE j == SeekBlock(i, t)
           o == InitDataBlock(j, bad)
           s == SeekImpl(o, t)
<1>1. PICK b \in 0 .. Len(blocks) : Turns(i, b, j)
  <2>1. i.idx \in 0 .. Len(blocks)
    BY IteratorFields DEF Rested, Steady, Formed
  <2>2. IndexSeek(t) \in 0 .. Len(blocks)
    BY IndexLeads
  <2> QED
    BY <2>1, <2>2, RememberTurns DEF SeekBlock
<1> HIDE DEF j
<1>2. CASE j.idx = 0
  <2>1. Rested(ResetDataIter(j))
    BY <1>1, <1>2, OutsideRests DEF Turns
  <2> QED
    BY <1>2, <2>1 DEF TableSeek, j
<1>3. CASE j.idx # 0
  <2>1. b \in Blocks
    BY <1>1, <1>3 DEF Turns, Blocks
  <2>2. Opened(o)
    BY <1>1, <2>1, TurnsOpens
  <2>3. Steady(s)
    BY <2>2, SeekGoes, OpenedGoes DEF Opened
  <2>4. Rested(FindKeyForward(s, bad))
    BY <2>3, ForwardRests
  <2> QED
    BY <1>3, <2>4 DEF TableSeek, j
<1> QED
  BY <1>2, <1>3

\* ... SeekToFirst, ...
LEMMA SeekToFirstRests ==
  ASSUME BInv, phase = "ready", NEW i, Rested(i), i.fault = "none", NEW bad
  PROVE  Rested(TableSeekToFirst(i, bad))
<1> DEFINE j == [Remember(i) EXCEPT !.idx = 1]
           o == InitDataBlock(j, bad)
           s == SeekToFirstImpl(o)
<1>1. 1 \in Blocks /\ 1 \in 0 .. Len(blocks)
  BY DEF BInv, TableType, Phases, Blocks
<1>2. Turns(i, 1, j)
  BY <1>1, RememberTurns
<1> HIDE DEF j
<1>3. Opened(o)
  BY <1>1, <1>2, TurnsOpens
<1>4. Steady(s)
  BY <1>3, SeekToFirstGoes, OpenedGoes
<1>5. Rested(FindKeyForward(s, bad))
  BY <1>4, ForwardRests
<1> QED
  BY <1>5 DEF TableSeekToFirst, j

\* ... SeekForPrev, ...
LEMMA SeekForPrevRests ==
  ASSUME BInv, phase = "ready", NEW i, Rested(i), i.fault = "none", NEW t,
         NEW bad
  PROVE  Rested(TableSeekForPrev(i, t, bad))
<1> DEFINE b == PrevBlock(t)
           k == [SavePrev(i) EXCEPT !.idx = b]
           o == InitDataBlock(k, bad)
           s == SeekForPrevImpl(o, t)
<1>1. b \in Blocks /\ b \in 0 .. Len(blocks)
  <2>1. Len(blocks) \in Nat /\ Len(blocks) # 0
    BY DEF BInv, TableType, Phases
  <2> QED
    BY <2>1, IndexLeads DEF PrevBlock, Blocks
<1> HIDE DEF b
<1>2. Turns(i, b, k)
  BY <1>1, RememberTurns
<1> HIDE DEF k
<1>3. Opened(o)
  BY <1>1, <1>2, TurnsOpens
<1>4. Steady(s) /\ (s.fault = "none" => s.real)
  BY <1>3, SeekForPrevGoes, OpenedGoes DEF Opened
<1>5. Rested(FindKeyBackward(s, bad))
  <2> HIDE DEF s
  <2> QED
    BY <1>4, BackwardRests
<1> QED
  BY <1>5 DEF TableSeekForPrev, k, b

\* ... SeekToLast, ...
LEMMA SeekToLastRests ==
  ASSUME BInv, phase = "ready", NEW i, Rested(i), i.fault = "none", NEW bad
  PROVE  Rested(TableSeekToLast(i, bad))
<1> DEFINE b == Len(blocks)
           j == [SavePrev(i) EXCEPT !.idx = b]
           o == InitDataBlock(j, bad)
           s == SeekToLastImpl(o)
<1>1. b \in Blocks /\ b \in 0 .. Len(blocks)
  BY DEF BInv, TableType, Phases, Blocks
<1>2. Turns(i, b, j)
  BY <1>1, RememberTurns
<1> HIDE DEF j
<1>3. Opened(o)
  BY <1>1, <1>2, TurnsOpens
<1>4. Steady(s) /\ (s.fault = "none" => s.real)
  BY <1>3, SeekToLastGoes, OpenedGoes DEF Opened
<1>5. Rested(FindKeyBackward(s, bad))
  <2> HIDE DEF s
  <2> QED
    BY <1>4, BackwardRests
<1> QED
  BY <1>5 DEF TableSeekToLast, j

\* ... and after Next, Prev and value().
LEMMA MovesRest ==
  ASSUME BInv, NEW i, Rested(i), i.fault = "none", TValid(i), NEW bad
  PROVE  /\ Rested(FindKeyForward(NextImpl(i), bad))
         /\ Rested(FindKeyBackward(PrevImpl(i), bad))
         /\ Rested(ReadValue(i))
<1>1. /\ Formed(i) /\ Positioned(i) /\ Placed(i) /\ Valid(i) /\ i.real
  BY DEF Rested, Steady, TValid
<1>2. ASSUME NEW j, Goes(i, j)
      PROVE  Steady(j) /\ (j.fault = "none" => j.real)
  BY <1>1, <1>2 DEF Goes, Steady, Placed
<1>3. Rested(FindKeyForward(NextImpl(i), bad))
  BY <1>1, <1>2, NextGoes, ForwardRests
<1>4. Rested(FindKeyBackward(PrevImpl(i), bad))
  BY <1>1, <1>2, PrevGoes, BackwardRests
<1>5. Rested(ReadValue(i))
  <2>1. CASE ~i.data
    <3>1. i.err /\ i \in Iterator
      BY <1>1, <2>1 DEF Placed, Formed
    <3> DEFINE j == [i EXCEPT !.fault = "null"]
    <3>2. j \in Iterator
      BY <3>1 DEF Iterator, Fault
    <3>3. /\ j.ci = i.ci /\ j.map = i.map /\ j.data = i.data /\ j.err = i.err
          /\ j.lim = i.lim /\ j.key_offset_map = i.key_offset_map
          /\ j.fault = "null"
      BY <3>1 DEF Iterator
    <3> HIDE DEF j
    <3>4. Rested(j)
      BY <1>1, <3>1, <3>2, <3>3 DEF Formed, Steady, Rested
    <3> QED
      BY <2>1, <3>4 DEF ReadValue, Broken, j
  <2>2. CASE i.data
    <3> DEFINE m == i.key_offset_map
    <3>1. i.ci \in 1 .. Len(m) /\ i.map \in Blocks
      BY <1>1, <2>2, IteratorFields DEF Positioned, Formed, Blocks
    <3>2. m = blocks[i.map].buffer /\ m \in Seq(Entry)
      BY <1>1, <3>1, BlockAt DEF Formed, Blocks
    <3>3. m[i.ci] \in ToSet(m)
      BY <3>1, <3>2 DEF ToSet
    <3>4. Authentic(blocks[i.map], m[i.ci])
      <4> HIDE DEF m
      <4> QED
        BY <3>2, <3>3 DEF Authentic
    <3> QED
      BY <2>2, <3>4 DEF ReadValue
  <2> QED
    BY <2>1, <2>2, <1>1, IteratorFields DEF Formed
<1> QED
  BY <1>3, <1>4, <1>5

-----------------------------------------------------------------------------
(* Get *)

Answer ==
  [target : Target \cup {<<>>},
   state : {"none", "notfound", "found", "deleted", "merge"},
   ops : Seq(Key), fault : Fault]

\* What the loop of Get carries.
Scan == [done : BOOLEAN, answer : Answer]

\* Get looks at entries of the block.
LEMMA SeenEntries ==
  ASSUME NEW m \in Seq(Entry), m # <<>>, NEW t
  PROVE  /\ Seen(m, t) \in Seq(Entry) /\ Visits(Last(m).len) \in Nat
         /\ {n \in DOMAIN m : ~Less(m[n].key, t)} # {} =>
              /\ Min({n \in DOMAIN m : ~Less(m[n].key, t)}) \in 1 .. Len(m)
              /\ SubSeq(m, Min({n \in DOMAIN m : ~Less(m[n].key, t)}), Len(m) - 1)
                   \in Seq(Entry)
<1> DEFINE past == {n \in DOMAIN m : ~Less(m[n].key, t)}
           L == Len(m)
           p == SubSeq(m, Min(past), L - 1)
           v == Visits(Last(m).len)
           q == [n \in 1 .. v |-> Last(m)]
<1>1. L \in 1 .. L /\ L \in Nat /\ DOMAIN m = 1 .. L /\ Last(m) = m[L]
  BY DEF Last
<1>2. Last(m) \in Entry /\ Last(m).len \in Nat
  BY <1>1, EntryAt
<1>3. v \in Nat
  <2> DEFINE x == Last(m).len + Skip - 1
  <2>1. x \in Nat /\ Skip \in Nat \ {0} /\ v = x \div Skip
    BY <1>2 DEF Visits
  <2> HIDE DEF x, v
  <2> QED
    BY <2>1
<1> HIDE DEF v
<1>4. q \in Seq(Entry)
  <2> DEFINE last == Last(m)
  <2> HIDE DEF last
  <2>1. last \in Entry
    BY <1>2 DEF last
  <2>2. [n \in 1 .. v |-> last] \in Seq(Entry)
    BY <1>3, <2>1
  <2> QED
    BY <2>2 DEF last
<1>5. CASE past = {}
  <2>1. Seen(m, t) = <<>>
    BY <1>5 DEF Seen
  <2> QED
    BY <1>3, <1>5, <2>1 DEF v
<1>6. CASE past # {}
  <2>1. past \subseteq Nat
    BY <1>1
  <2>2. Min(past) \in 1 .. L
    BY <1>1, <1>6, <2>1, MinNat
  <2>3. p \in Seq(Entry)
    <3> DEFINE lo == Min(past)
    <3> HIDE DEF lo
    <3>0. lo \in 1 .. L
      BY <2>2 DEF lo
    <3>1. \A x \in lo .. (L - 1) : m[x] \in Entry
      BY <1>1, <3>0
    <3>2. SubSeq(m, lo, L - 1) \in Seq(Entry)
      BY <1>1, <3>0, <3>1, SubSeqProperties
    <3> QED
      BY <3>2 DEF lo
  <2>4. Seen(m, t) = p \o q
    BY <1>6 DEF Seen, v
  <2> HIDE DEF p, q
  <2>5. p \o q \in Seq(Entry)
    BY <1>4, <2>3, ConcatProperties
  <2> QED
    BY <1>3, <1>6, <2>2, <2>3, <2>4, <2>5 DEF v, p
<1> QED
  BY <1>5, <1>6

\* They are entries of the block.
LEMMA SeenWithin ==
  ASSUME NEW m \in Seq(Entry), m # <<>>, NEW t
  PROVE  \A n \in DOMAIN Seen(m, t) : Seen(m, t)[n] \in ToSet(m)
<1> DEFINE M == ToSet(m)
           past == {n \in DOMAIN m : ~Less(m[n].key, t)}
           L == Len(m)
           v == Visits(Last(m).len)
           lo == Min(past)
           p == SubSeq(m, lo, L - 1)
           last == Last(m)
           q == [n \in 1 .. v |-> last]
<1>0. v \in Nat
  BY SeenEntries
<1>1. L \in 1 .. L /\ L \in Nat /\ DOMAIN m = 1 .. L /\ last = m[L]
  BY DEF Last
<1>2. \A n \in 1 .. L : m[n] \in M
  BY <1>1 DEF ToSet
<1>3. CASE past = {}
  BY <1>3 DEF Seen
<1>4. CASE past # {}
  <2>1. lo \in 1 .. L
    BY <1>4, SeenEntries
  <2>2. Seen(m, t) = p \o q
    BY <1>4 DEF Seen
  <2> HIDE DEF lo, M, v, last
  <2>3. \A x \in lo .. (L - 1) : m[x] \in M
    BY <1>1, <1>2, <2>1
  <2>4. p \in Seq(M)
    BY <1>1, <2>1, <2>3, SubSeqProperties
  <2>5. q \in Seq(M)
    BY <1>0, <1>1, <1>2
  <2> HIDE DEF p, q
  <2>6. p \o q \in Seq(M)
    BY <2>4, <2>5, ConcatProperties
  <2> QED
    BY <2>2, <2>6 DEF M
<1> QED
  BY <1>3, <1>4

\* GetContext::SaveValue.
LEMMA SaveScans ==
  ASSUME NEW a \in Scan, NEW e \in Entry, NEW t
  PROVE  SaveValue(a, e, t) \in Scan
<1> DEFINE r == a.answer
           ops == Append(r.ops, e.key)
<1>1. r \in Answer /\ r.ops \in Seq(Key) /\ e.key \in Key
  BY DEF Scan, Answer, Entry
<1>2. ops \in Seq(Key)
  BY <1>1
<1>3. [r EXCEPT !.ops = Append(@, e.key)] = [r EXCEPT !.ops = ops]
  BY <1>1 DEF Answer
<1> DEFINE more == [r EXCEPT !.ops = ops]
<1> HIDE DEF ops
<1>4. more \in Answer
  BY <1>1, <1>2 DEF Answer
<1> HIDE DEF more
<1>5. \A x \in Answer, s \in {"found", "deleted", "merge"} :
        [x EXCEPT !.state = s] \in Answer
  BY DEF Answer
<1>6. \A x \in Answer : [a EXCEPT !.answer = x] \in Scan
                        /\ [done |-> TRUE, answer |-> x] \in Scan
  BY DEF Scan
<1>7. [a EXCEPT !.done = TRUE] \in Scan
  BY DEF Scan
<1>8. SaveValue(a, e, t) =
        IF a.done THEN a
        ELSE IF ~SameUser(e.key, t) THEN [a EXCEPT !.done = TRUE]
        ELSE IF e.key[4] = "merge"
        THEN [a EXCEPT !.answer = [more EXCEPT !.state = "merge"]]
        ELSE [done |-> TRUE,
              answer |-> IF e.key[4] = "put" THEN [more EXCEPT !.state = "found"]
                         ELSE [r EXCEPT !.state = IF r.state = "merge"
                                                  THEN "found" ELSE "deleted"]]
  BY <1>3 DEF SaveValue, more, ops
<1>9. [more EXCEPT !.state = "merge"] \in Answer
      /\ [more EXCEPT !.state = "found"] \in Answer
      /\ [r EXCEPT !.state = IF r.state = "merge" THEN "found" ELSE "deleted"]
           \in Answer
  BY <1>1, <1>4, <1>5
<1> HIDE DEF r
<1> QED
  BY <1>6, <1>7, <1>8, <1>9

\* A scan that ends with a fault.
Stops(a, f) == [done |-> TRUE, answer |-> [a.answer EXCEPT !.fault = f]]

\* It is one.
LEMMA StopScans ==
  ASSUME NEW a \in Scan, NEW f \in Fault
  PROVE  /\ Stops(a, f) \in Scan /\ Stops(a, f).done
         /\ Stops(a, f).answer.fault = f
         /\ Stops(a, f).answer.target = a.answer.target
<1> DEFINE r == a.answer
           j == [r EXCEPT !.fault = f]
<1>1. r \in Answer
  BY DEF Scan
<1>2. j \in Answer /\ j.fault = f /\ j.target = r.target
  BY <1>1 DEF Answer
<1>3. Stops(a, f) = [done |-> TRUE, answer |-> j]
  BY DEF Stops
<1> HIDE DEF j
<1> QED
  BY <1>2, <1>3 DEF Scan

\* What Get does with a block: it shows SaveValue one entry after the other.
Saves(f, a, s, t) ==
  \A n \in 0 .. Len(s) :
    /\ f[n] \in Scan
    /\ f[n] = IF n = 0 THEN a ELSE SaveValue(f[n - 1], s[n], t)

\* So it goes on with a scan.
LEMMA GetBlockSaves ==
  ASSUME BInv, NEW b \in Blocks, NEW a \in Scan, NEW t, NEW bad
  PROVE  LET m == blocks[b].buffer
             s == Seen(m, t)
         IN \E f :
              /\ Saves(f, a, s, t)
              /\ GetBlock(a, b, t, bad) =
                   IF a.done THEN a
                   ELSE IF b \in bad THEN Stops(a, "bounds")
                   ELSE IF check_corruption(b) THEN f[Len(s)]
                   ELSE Stops(a, "exit")
<1> DEFINE m == Decoded(blocks[b])
           s == Seen(m, t)
           L == Len(s)
           F == [n \in 0 .. L |-> [x \in Scan |-> SaveValue(x, s[n], t)]]
           IsScan(f) == f = [n \in 0 .. L |->
                               IF n = 0 THEN a ELSE SaveValue(f[n - 1], s[n], t)]
           k == CHOOSE f : IsScan(f)
<1>1. m \in Seq(Entry) /\ m # <<>> /\ m = blocks[b].buffer /\ Sorted(m)
  BY BlockAt, BlockSorted
<1> HIDE DEF m
<1>2. s \in Seq(Entry) /\ L \in Nat
  <2>1. Seen(m, t) \in Seq(Entry)
    BY <1>1, SeenEntries
  <2> QED
    BY <2>1
<1>3. ASSUME NEW x \in Scan, NEW n \in 0 .. L, n # 0
      PROVE  SaveValue(x, s[n], t) \in Scan
  <2>1. s[n] \in Entry
    BY <1>2, <1>3
  <2> QED
    BY <2>1, SaveScans
<1> HIDE DEF s, L
<1>4. Steps(F, 0, L, Scan)
  <2>1. ASSUME NEW n \in 0 .. L, n # 0 PROVE F[n] \in [Scan -> Scan]
    <3>1. \A x \in Scan : SaveValue(x, s[n], t) \in Scan
      BY <1>3, <2>1
    <3>2. F[n] = [x \in Scan |-> SaveValue(x, s[n], t)]
      OBVIOUS
    <3> QED
      BY <3>1, <3>2
  <2> HIDE DEF F
  <2> QED
    BY <2>1 DEF Steps
<1>5. PICK g : Runs(g, 0, L, a, F, Scan)
  <2> HIDE DEF F
  <2>1. 0 \in Nat
    OBVIOUS
  <2> QED
    BY <1>2, <1>4, <2>1, Recursion
<1>6. IsScan(g)
  <2>1. ASSUME NEW n \in 0 .. L
        PROVE  g[n] = IF n = 0 THEN a ELSE SaveValue(g[n - 1], s[n], t)
    <3>1. g[n] = IF n = 0 THEN a ELSE F[n][g[n - 1]]
      BY <1>5 DEF Runs
    <3>2. n # 0 => n - 1 \in 0 .. L
      BY <1>2
    <3>3. n # 0 => g[n - 1] \in Scan
      BY <1>5, <3>2 DEF Runs
    <3> QED
      BY <3>1, <3>3
  <2>2. g \in [0 .. L -> Scan]
    BY <1>5 DEF Runs
  <2> QED
    BY <2>1, <2>2
<1>7. IsScan(k)
  <2>1. \E f : IsScan(f)
    BY <1>6
  <2> HIDE DEF IsScan
  <2> QED
    BY <2>1
<1>8. /\ \A e \in ToSet(s) : Authentic(blocks[b], e)
  <2>1. ASSUME NEW e \in ToSet(s) PROVE Authentic(blocks[b], e)
    <3>1. e \in ToSet(m)
      <4>1. \A n \in DOMAIN s : s[n] \in ToSet(m)
        BY <1>1, SeenWithin DEF s
      <4> QED
        BY <2>1, <4>1 DEF ToSet
    <3> QED
      BY <1>1, <3>1 DEF Authentic
  <2> QED
    BY <2>1
<1>9. GetBlock(a, b, t, bad) =
        IF a.done THEN a
        ELSE IF b \in bad THEN Stops(a, "bounds")
        ELSE IF check_corruption(b) THEN k[L]
        ELSE Stops(a, "exit")
  <2>1. GetBlock(a, b, t, bad) =
          IF a.done THEN a
          ELSE IF b \in bad THEN Stops(a, "bounds")
          ELSE IF /\ Sorted(m) /\ check_corruption(b)
                  /\ \A e \in ToSet(s) : Authentic(blocks[b], e)
          THEN k[L] ELSE Stops(a, "exit")
    BY Zenon DEF GetBlock, Stops, L, s, m
  <2> HIDE DEF k, L
  <2> QED
    BY <1>1, <1>8, <2>1
<1> HIDE DEF k
<1>10. \A n \in 0 .. L : k[n] = IF n = 0 THEN a ELSE SaveValue(k[n - 1], s[n], t)
  BY <1>7
<1>11. \A n \in 0 .. L : k[n] \in Scan
  <2> DEFINE G == {n \in 0 .. L : k[n] \in Scan}
  <2>1. 0 \in G
    BY <1>2, <1>10
  <2>2. ASSUME NEW n \in 0 .. L, n # 0, n - 1 \in G PROVE n \in G
    BY <1>3, <1>10, <2>2
  <2> HIDE DEF G
  <2>3. \A n \in 0 .. L : n \in G
    <3>1. 0 \in Nat
      OBVIOUS
    <3> QED
      BY <1>2, <2>1, <2>2, <3>1, UpTo
  <2> QED
    BY <2>3 DEF G
<1>12. Saves(k, a, s, t)
  BY <1>10, <1>11 DEF Saves, L
<1> QED
  BY <1>1, <1>9, <1>12 DEF L, s

\* GetBlock goes on with a scan.
LEMMA GetBlockScans ==
  ASSUME BInv, NEW b \in Blocks, NEW a \in Scan, NEW t, NEW bad
  PROVE  GetBlock(a, b, t, bad) \in Scan
<1> DEFINE m == blocks[b].buffer
           s == Seen(m, t)
<1>1. m \in Seq(Entry) /\ m # <<>>
  BY BlockAt
<1>2. Len(s) \in Nat
  <2>1. s \in Seq(Entry)
    BY <1>1, SeenEntries
  <2> HIDE DEF s
  <2> QED
    BY <2>1
<1>3. PICK f : /\ Saves(f, a, s, t)
               /\ GetBlock(a, b, t, bad) =
                    IF a.done THEN a
                    ELSE IF b \in bad THEN Stops(a, "bounds")
                    ELSE IF check_corruption(b) THEN f[Len(s)]
                    ELSE Stops(a, "exit")
  BY GetBlockSaves
<1> HIDE DEF s
<1>4. f[Len(s)] \in Scan
  BY <1>2, <1>3 DEF Saves
<1>5. Stops(a, "bounds") \in Scan /\ Stops(a, "exit") \in Scan
  BY StopScans DEF Fault
<1> QED
  BY <1>3, <1>4, <1>5

\* No answer is one.
LEMMA NoAnswerTyped ==
  /\ NoAnswer \in Answer
  /\ NoAnswer.target = <<>> /\ NoAnswer.ops = <<>> /\ NoAnswer.fault = "none"
<1> DEFINE no == <<>>
<1>1. no \in Seq(Key) /\ no \in Target \cup {<<>>} /\ no = <<>>
  OBVIOUS
<1>2. NoAnswer = [target |-> no, state |-> "none", ops |-> no, fault |-> "none"]
  BY DEF NoAnswer
<1> HIDE DEF no
<1> QED
  BY <1>1, <1>2 DEF Answer, Fault

\* How a Get begins.
Begin(t) ==
  [done |-> FALSE,
   answer |-> [NoAnswer EXCEPT !.target = t, !.state = "notfound"]]

\* Nothing is found yet.
LEMMA BeginScans ==
  ASSUME NEW t \in Target
  PROVE  /\ Begin(t) \in Scan /\ ~Begin(t).done
         /\ Begin(t).answer.target = t /\ Begin(t).answer.state = "notfound"
         /\ Begin(t).answer.ops = <<>> /\ Begin(t).answer.fault = "none"
<1> DEFINE n == NoAnswer
           r == [n EXCEPT !.target = t, !.state = "notfound"]
<1>1. /\ n \in Answer
      /\ n.target = <<>> /\ n.ops = <<>> /\ n.fault = "none"
  BY NoAnswerTyped
<1>2. Begin(t) = [done |-> FALSE, answer |-> r]
  BY DEF Begin
<1> HIDE DEF n
<1>3. /\ r \in Answer
      /\ r.target = t /\ r.state = "notfound" /\ r.ops = n.ops
      /\ r.fault = n.fault
  BY <1>1 DEF Answer
<1> HIDE DEF r
<1> QED
  BY <1>1, <1>2, <1>3 DEF Scan, n

\* What Get does with the table: one block after the other.
Loops(f, t, bad) ==
  \A b \in IndexSeek(t) - 1 .. Len(blocks) :
    /\ f[b] \in Scan
    /\ f[b] = IF b = IndexSeek(t) - 1 THEN Begin(t)
              ELSE GetBlock(f[b - 1], b, t, bad)

\* It begins at the block that the index names.
LEMMA GetLoops ==
  ASSUME BInv, NEW t \in Target, NEW bad
  PROVE  /\ IndexSeek(t) = 0 => GetResult(t, bad) = Begin(t).answer
         /\ IndexSeek(t) # 0 =>
              \E f : /\ Loops(f, t, bad)
                     /\ GetResult(t, bad) = f[Len(blocks)].answer
<1> DEFINE N == Len(blocks)
           first == IndexSeek(t)
<1>1. N \in Nat /\ first \in 0 .. N
  BY IndexLeads DEF BInv, TableType
<1>2. ASSUME first = 0 PROVE GetResult(t, bad) = Begin(t).answer
  BY <1>2 DEF GetResult, Begin
<1>3. ASSUME first # 0
      PROVE  \E f : Loops(f, t, bad) /\ GetResult(t, bad) = f[N].answer
  <2> DEFINE lo == first - 1
             start == Begin(t)
             F == [b \in lo .. N |-> [x \in Scan |-> GetBlock(x, b, t, bad)]]
             IsLoop(f) == f = [b \in lo .. N |->
                                 IF b = lo THEN start
                                 ELSE GetBlock(f[b - 1], b, t, bad)]
             k == CHOOSE f : IsLoop(f)
  <2>1. start \in Scan /\ lo \in Nat
    BY <1>1, <1>3, BeginScans
  <2>2. ASSUME NEW x \in Scan, NEW b \in lo .. N, b # lo
        PROVE  GetBlock(x, b, t, bad) \in Scan
    <3>1. b \in Blocks
      BY <1>1, <1>3, <2>2 DEF Blocks
    <3> QED
      BY <3>1, GetBlockScans
  <2>9. GetResult(t, bad) = k[N].answer
    BY <1>3, Zenon DEF GetResult, Begin
  <2> HIDE DEF lo, start, first
  <2>3. Steps(F, lo, N, Scan)
    <3>1. ASSUME NEW b \in lo .. N, b # lo PROVE F[b] \in [Scan -> Scan]
      <4>1. \A x \in Scan : GetBlock(x, b, t, bad) \in Scan
        BY <2>2, <3>1
      <4>2. F[b] = [x \in Scan |-> GetBlock(x, b, t, bad)]
        OBVIOUS
      <4> QED
        BY <4>1, <4>2
    <3> HIDE DEF F
    <3> QED
      BY <3>1 DEF Steps
  <2>4. PICK g : Runs(g, lo, N, start, F, Scan)
    <3> HIDE DEF F
    <3> QED
      BY <1>1, <2>1, <2>3, Recursion
  <2>5. IsLoop(g)
    <3>1. ASSUME NEW b \in lo .. N
          PROVE  g[b] = IF b = lo THEN start ELSE GetBlock(g[b - 1], b, t, bad)
      <4>1. g[b] = IF b = lo THEN start ELSE F[b][g[b - 1]]
        BY <2>4 DEF Runs
      <4>2. b # lo => b - 1 \in lo .. N
        BY <1>1, <2>1
      <4>3. b # lo => g[b - 1] \in Scan
        BY <2>4, <4>2 DEF Runs
      <4> QED
        BY <4>1, <4>3
    <3>2. g \in [lo .. N -> Scan]
      BY <2>4 DEF Runs
    <3> QED
      BY <3>1, <3>2
  <2>6. IsLoop(k)
    <3>1. \E f : IsLoop(f)
      BY <2>5
    <3> HIDE DEF IsLoop
    <3> QED
      BY <3>1
  <2> HIDE DEF k
  <2>7. \A b \in lo .. N :
          k[b] = IF b = lo THEN start ELSE GetBlock(k[b - 1], b, t, bad)
    BY <2>6
  <2>8. \A b \in lo .. N : k[b] \in Scan
    <3> DEFINE G == {b \in lo .. N : k[b] \in Scan}
    <3>1. lo \in G
      <4>1. lo \in lo .. N
        BY <1>1, <2>1 DEF lo, first
      <4> QED
        BY <2>1, <2>7, <4>1
    <3>2. ASSUME NEW b \in lo .. N, b # lo, b - 1 \in G PROVE b \in G
      BY <2>2, <2>7, <3>2
    <3> HIDE DEF G
    <3>3. \A b \in lo .. N : b \in G
      BY <1>1, <2>1, <3>1, <3>2, UpTo
    <3> QED
      BY <3>3 DEF G
  <2>10. Loops(k, t, bad)
    BY <2>7, <2>8 DEF Loops, lo, start, first
  <2> QED
    BY <2>9, <2>10
<1> QED
  BY <1>2, <1>3

\* An answer has its types.
LEMMA GetTyped ==
  ASSUME BInv, NEW t \in Target, NEW bad
  PROVE  GetResult(t, bad) \in Answer
<1>1. CASE IndexSeek(t) = 0
  BY <1>1, GetLoops, BeginScans DEF Scan
<1>2. CASE IndexSeek(t) # 0
  <2>1. PICK f : /\ Loops(f, t, bad)
                 /\ GetResult(t, bad) = f[Len(blocks)].answer
    BY <1>2, GetLoops
  <2>2. Len(blocks) \in IndexSeek(t) - 1 .. Len(blocks)
    <3>1. Len(blocks) \in Nat /\ IndexSeek(t) \in 0 .. Len(blocks)
      BY IndexLeads DEF BInv, TableType
    <3> QED
      BY <3>1
  <2>3. f[Len(blocks)] \in Scan
    BY <2>1, <2>2 DEF Loops
  <2> QED
    BY <2>1, <2>3 DEF Scan
<1> QED
  BY <1>1, <1>2

-----------------------------------------------------------------------------
(* The inductive invariant *)

IInv ==
  /\ BInv /\ Entries <= MaxEntries
  /\ Rested(it) /\ (it.err => failed) /\ failed \in BOOLEAN
  /\ answer \in Answer

\* An iterator without a block rests.
LEMMA NoIteratorRests ==
  ASSUME TableType
  PROVE  Rested(NoIterator) /\ ~NoIterator.err
<1> DEFINE n == NoIterator
<1>1. /\ n.idx = 0 /\ n.real = FALSE /\ n.key_offset_map = <<>> /\ n.map = 0
      /\ n.data = FALSE /\ n.ci = 0 /\ n.cur = 0 /\ n.lim = 0
      /\ n.err = FALSE /\ n.fault = "none"
  BY DEF NoIterator
<1>2. n \in Iterator
  <2> DEFINE no == <<>>
  <2>1. no \in Seq(Entry) /\ 0 \in 0 .. Len(blocks)
    BY DEF TableType
  <2>2. n = [idx |-> 0, real |-> FALSE, prev |-> 0, key_offset_map |-> no,
             map |-> 0, data |-> FALSE, ci |-> 0, cur |-> 0, lim |-> 0,
             err |-> FALSE, fault |-> "none"]
    BY DEF NoIterator
  <2> HIDE DEF n, no
  <2> QED
    BY <2>1, <2>2 DEF Iterator, Fault
<1>3. Len(<<>>) = 0
  OBVIOUS
<1> HIDE DEF n
<1>4. Formed(n)
  BY <1>1, <1>2, <1>3 DEF Formed
<1>5. Rested(n)
  BY <1>1, <1>4 DEF Rested, Steady, Positioned, Placed, Valid
<1> QED
  BY <1>1, <1>5 DEF n

\* The same of the iterator of a state.
LEMMA NoneRests == TableType /\ it = NoIterator => Rested(it) /\ ~it.err
BY NoIteratorRests

\* It begins with an empty builder and no iterator.
LEMMA InitIInv == Init => IInv
<1> SUFFICES ASSUME Init PROVE IInv
  OBVIOUS
<1>1. /\ phase = "build" /\ data_block = EmptyBuilder
      /\ blocks = <<>> /\ index = <<>> /\ seperator_is_key_plus_seq_ = FALSE
      /\ it = NoIterator /\ failed = FALSE /\ answer = NoAnswer
  BY DEF Init
<1>2. Len(blocks) = 0 /\ Len(index) = 0 /\ Blocks = {}
  <2>1. 1 .. 0 = {} /\ Len(<<>>) = 0
    OBVIOUS
  <2> QED
    BY <1>1, <2>1 DEF Blocks
<1>3. TableType
  <2>1. <<>> \in Seq(Stored) /\ <<>> \in Seq(IndexKey)
    OBVIOUS
  <2> QED
    BY <1>1, <1>2, <2>1, EmptyEncoded DEF TableType
<1>4. BInv
  BY <1>1, <1>2, <1>3, EmptyEncoded
     DEF BInv, BlocksEncoded, BlocksOrdered, Phases
<1>5. Entries <= MaxEntries
  <2>1. PICK f : Sums(f) /\ Entries = f[Len(blocks)] + Len(data_block.meta)
    BY <1>3, EntriesCounted DEF Counted
  <2>2. f[0] = 0
    BY <1>2, <2>1 DEF Sums
  <2>3. data_block.meta = <<>>
    BY <1>1 DEF EmptyBuilder
  <2> QED
    BY <1>2, <2>1, <2>2, <2>3
<1>6. Rested(it) /\ ~it.err
  BY <1>1, <1>3, NoIteratorRests
<1> QED
  BY <1>1, <1>4, <1>5, <1>6, NoAnswerTyped DEF IInv

\* Reading leaves the table as it is.
LEMMA ReadingKeeps ==
  ASSUME BInv, Entries <= MaxEntries, phase = "ready", UNCHANGED tableVars,
         Rested(it')
  PROVE  BInv' /\ (Entries <= MaxEntries)' /\ Rested(it)'
<1>1. /\ phase' = phase /\ data_block' = data_block /\ blocks' = blocks
      /\ index' = index
      /\ seperator_is_key_plus_seq_' = seperator_is_key_plus_seq_
  BY DEF tableVars
<1>2. BInv'
  BY <1>1 DEF BInv, TableType, BlocksEncoded, BlocksOrdered, Phases, Blocks,
              Precedes, Separates
<1>3. Entries' = Entries
  BY <1>1 DEF Entries
<1>4. Rested(it)'
  BY <1>1 DEF Rested, Steady, Formed, Iterator, Positioned, Placed, Regular,
              Blocks, Valid
<1> QED
  BY <1>2, <1>3, <1>4

\* A call of the iterator that rests afterwards keeps the invariant.
LEMMA IterateKeeps ==
  ASSUME IInv, phase = "ready", it.fault = "none", NEW bad,
         Rested(it'), failed' = (failed \/ it'.err),
         UNCHANGED <<tableVars, answer>>
  PROVE  IInv'
<1>1. BInv' /\ (Entries <= MaxEntries)' /\ Rested(it)'
  BY ReadingKeeps DEF IInv
<1>2. it' \in Iterator /\ it'.err \in BOOLEAN
  <2>1. it' \in Iterator
    BY DEF Rested, Steady, Formed
  <2> QED
    BY <2>1, IteratorFields
<1>3. failed' \in BOOLEAN /\ (it.err => failed)'
  BY <1>2 DEF IInv
<1>4. (answer \in Answer)'
  BY DEF IInv, Answer
<1> QED
  BY <1>1, <1>3, <1>4 DEF IInv

\* Every step keeps it.
LEMMA NextIInv == IInv /\ [Next]_vars => IInv'
<1> SUFFICES ASSUME IInv, [Next]_vars PROVE IInv'
  OBVIOUS
<1> USE DEF IInv
<1>1. ASSUME NEW key \in Key,
             NEW n \in {v[2] : v \in {v \in Values : v[1] = key[4]}},
             Add(key, n) \/ FlushAndAdd(key, n)
      PROVE  IInv'
  <2>1. n \in Nat
    <3>1. PICK v \in Values : n = v[2]
      OBVIOUS
    <3>2. v \in Type \X Nat
      OBVIOUS
    <3> QED
      BY <3>1, <3>2
  <2>2. BInv' /\ (Entries <= MaxEntries)'
    BY <1>1, <2>1, AddBuilt, FlushAndAddBuilt
  <2>3. phase = "build" /\ phase' = "build" /\ UNCHANGED <<it, failed, answer>>
    BY <1>1 DEF Add, FlushAndAdd
  <2>4. it' = NoIterator /\ answer' = NoAnswer /\ failed' = FALSE
    BY <2>2, <2>3 DEF BInv, Phases
  <2>5. (TableType /\ it = NoIterator)'
    BY <2>2, <2>4 DEF BInv
  <2>6. (Rested(it) /\ ~it.err)'
    BY <2>5, NoneRests, PTL
  <2>7. (answer \in Answer)'
    BY <2>4, NoAnswerTyped DEF Answer
  <2> QED
    BY <2>2, <2>4, <2>6, <2>7
<1>2. CASE Finish
  <2>1. BInv' /\ (Entries <= MaxEntries)'
    BY <1>2, FinishBuilt
  <2>2. phase = "build" /\ UNCHANGED <<it, failed, answer>>
    BY <1>2 DEF Finish
  <2>3. it' = NoIterator /\ answer' = NoAnswer /\ failed' = FALSE
    BY <2>2 DEF BInv, Phases
  <2>4. (TableType /\ it = NoIterator)'
    BY <2>1, <2>3 DEF BInv
  <2>5. (Rested(it) /\ ~it.err)'
    BY <2>4, NoneRests, PTL
  <2>6. (answer \in Answer)'
    BY <2>3, NoAnswerTyped DEF Answer
  <2> QED
    BY <2>1, <2>3, <2>5, <2>6
<1>3. ASSUME NEW t \in Target, Seek(t) PROVE IInv'
  BY <1>3, SeekRests, IterateKeeps DEF Seek, Iterate
<1>4. ASSUME NEW t \in Target, SeekForPrev(t) PROVE IInv'
  BY <1>4, SeekForPrevRests, IterateKeeps DEF SeekForPrev, Iterate
<1>5. ASSUME NEW t \in Target, Get(t) PROVE IInv'
  <2>1. PICK bad \in Unreadable : answer' = GetResult(t, bad)
    BY <1>5 DEF Get
  <2>2. answer' \in Answer
    BY <2>1, GetTyped
  <2>3. phase = "ready" /\ UNCHANGED <<tableVars, it, failed>>
    BY <1>5 DEF Get
  <2>4. BInv' /\ (Entries <= MaxEntries)' /\ Rested(it)'
    BY <2>3, ReadingKeeps
  <2>5. (answer \in Answer)'
    BY <2>2 DEF Answer
  <2> QED
    BY <2>3, <2>4, <2>5
<1>6. CASE SeekToFirst
  BY <1>6, SeekToFirstRests, IterateKeeps DEF SeekToFirst, Iterate
<1>7. CASE SeekToLast
  BY <1>7, SeekToLastRests, IterateKeeps DEF SeekToLast, Iterate
<1>8. CASE NextEntry
  BY <1>8, MovesRest, IterateKeeps DEF NextEntry, Iterate
<1>9. CASE PrevEntry
  BY <1>9, MovesRest, IterateKeeps DEF PrevEntry, Iterate
<1>10. CASE Value
  BY <1>10, MovesRest, IterateKeeps DEF Value, Iterate
<1>11. CASE NewIterator
  <2>1. /\ phase = "ready" /\ it' = NoIterator /\ failed' = FALSE
        /\ answer' = NoAnswer /\ UNCHANGED tableVars
    BY <1>11 DEF NewIterator
  <2>2. Rested(it') /\ ~it'.err
    BY <2>1, NoIteratorRests DEF BInv
  <2>3. BInv' /\ (Entries <= MaxEntries)' /\ Rested(it)'
    BY <2>1, <2>2, ReadingKeeps
  <2>4. (answer \in Answer)'
    BY <2>1, NoAnswerTyped DEF Answer
  <2> QED
    BY <2>1, <2>2, <2>3, <2>4
<1>12. CASE UNCHANGED vars
  <2>1. UNCHANGED tableVars /\ it' = it /\ failed' = failed /\ answer' = answer
    BY <1>12 DEF vars
  <2>2. /\ phase' = phase /\ data_block' = data_block /\ blocks' = blocks
        /\ index' = index
        /\ seperator_is_key_plus_seq_' = seperator_is_key_plus_seq_
    BY <2>1 DEF tableVars
  <2>3. BInv'
    BY <2>1, <2>2 DEF BInv, TableType, BlocksEncoded, BlocksOrdered, Phases,
                Blocks, Precedes, Separates
  <2>4. Entries' = Entries
    BY <2>2 DEF Entries
  <2>5. Rested(it)'
    BY <2>1, <2>2 DEF Rested, Steady, Formed, Iterator, Positioned, Placed,
                      Regular, Blocks, Valid
  <2>6. (answer \in Answer)'
    BY <2>1 DEF Answer
  <2> QED
    BY <2>1, <2>3, <2>4, <2>5, <2>6
<1> QED
  BY <1>1, <1>2, <1>3, <1>4, <1>5, <1>6, <1>7, <1>8, <1>9, <1>10, <1>11, <1>12
     DEF Next

\* It holds in every state.
THEOREM Inductive == Spec => []IInv
<1>1. Init => IInv
  BY InitIInv
<1>2. IInv /\ [Next]_vars => IInv'
  BY NextIInv
<1> QED
  BY <1>1, <1>2, PTL DEF Spec

\* What it says of the types.
LEMMA Typed == IInv => TypeOK
<1> SUFFICES ASSUME IInv PROVE TypeOK
  OBVIOUS
<1> USE DEF IInv
<1>1. /\ it \in Iterator /\ it.ci <= Len(it.key_offset_map) + 2
      /\ it.key_offset_map \in Seq(Entry)
  BY IteratorFields DEF Rested, Steady, Formed
<1>2. it.ci \in 0 .. Len(it.key_offset_map) + 2
  <2>1. it.ci \in Nat /\ Len(it.key_offset_map) \in Nat
    BY <1>1, IteratorFields
  <2> QED
    BY <1>1, <2>1
<1>3. ASSUME NEW b \in Blocks PROVE index[b] \in Key \cup ShortKey
  BY BlockAt DEF IndexKey
<1>4. answer.fault \in Fault
      /\ answer.state \in {"none", "notfound", "found", "deleted", "merge"}
  BY DEF Answer
<1>5. /\ phase \in {"build", "ready"} /\ Len(blocks) = Len(index)
      /\ seperator_is_key_plus_seq_ \in BOOLEAN
  BY DEF BInv, TableType
<1>6. {it.real, it.data, it.err} \subseteq BOOLEAN
  BY <1>1, IteratorFields
<1> QED
  BY <1>1, <1>2, <1>3, <1>4, <1>5, <1>6, IteratorFields DEF TypeOK

\* The state of a table and its reader has its types: the positions of an
\* iterator stay in the list that it holds, or two behind it, and the builder
\* never takes more entries than it may.
THEOREM TypeCorrect == Spec => []TypeOK
BY Inductive, Typed, PTL

\* An iterator that is Valid with an OK status stands in the block of its index
\* entry and can read its value, whatever reads failed before; a null pointer
\* is only read while status() reports the failed read; and every value that
\* the builder sealed verifies where Ready says it is, so verification never
\* ends the process.
THEOREM ReadsVerify == Spec => []StatusTellsStaleBlock
<1>1. IInv => StatusTellsStaleBlock
  BY DEF IInv, Rested, Steady, Formed, Placed, TValid, StatusTellsStaleBlock
<1> QED
  BY <1>1, Inductive, PTL

-----------------------------------------------------------------------------
(* The order of the keys that were written *)

\* The place of a key.
KeyAt(b, n) == blocks[b].buffer[n].key

\* One place lies before another.
PlaceBefore(b, n, c, m) == b < c \/ (b = c /\ n < m)

\* Every key that was written has a place.
LEMMA Places ==
  ASSUME BInv
  PROVE  /\ WrittenKeys \subseteq AnyKey
         /\ \A b \in Blocks : \A n \in 1 .. Len(blocks[b].buffer) :
              KeyAt(b, n) \in WrittenKeys /\ KeyAt(b, n) \in KeysOf(blocks[b])
         /\ \A k \in WrittenKeys : \E b \in Blocks :
              \E n \in 1 .. Len(blocks[b].buffer) : k = KeyAt(b, n)
         /\ \A b \in Blocks : \A k \in KeysOf(blocks[b]) :
              \E n \in 1 .. Len(blocks[b].buffer) : k = KeyAt(b, n)
<1>1. ASSUME NEW b \in Blocks
      PROVE  /\ KeysOf(blocks[b]) \subseteq AnyKey
             /\ \A n \in 1 .. Len(blocks[b].buffer) :
                  KeyAt(b, n) \in KeysOf(blocks[b])
             /\ \A k \in KeysOf(blocks[b]) :
                  \E n \in 1 .. Len(blocks[b].buffer) : k = KeyAt(b, n)
  <2>1. blocks[b].buffer \in Seq(Entry)
    BY BlockAt
  <2> QED
    BY <2>1, BlockAt, KeysAt DEF KeyAt
<1>2. \A k : k \in WrittenKeys <=> \E b \in Blocks : k \in KeysOf(blocks[b])
  BY DEF WrittenKeys
<1> QED
  BY <1>1, <1>2

\* The keys go up with their places.
LEMMA KeysGoUp ==
  ASSUME BInv, NEW b \in Blocks, NEW n \in 1 .. Len(blocks[b].buffer),
         NEW c \in Blocks, NEW m \in 1 .. Len(blocks[c].buffer)
  PROVE  /\ PlaceBefore(b, n, c, m) => Less(KeyAt(b, n), KeyAt(c, m))
         /\ PlaceBefore(c, m, b, n) => Less(KeyAt(c, m), KeyAt(b, n))
         /\ PlaceBefore(b, n, c, m) \/ PlaceBefore(c, m, b, n) \/ (b = c /\ n = m)
<1>1. /\ b \in Nat /\ c \in Nat /\ n \in Nat /\ m \in Nat
      /\ Encoded(blocks[b]) /\ Encoded(blocks[c])
  <2>1. blocks[b].buffer \in Seq(Entry) /\ blocks[c].buffer \in Seq(Entry)
    BY BlockAt
  <2> QED
    BY <2>1, BlockAt
<1>2. KeyAt(b, n) \in KeysOf(blocks[b]) /\ KeyAt(c, m) \in KeysOf(blocks[c])
  BY Places
<1>3. b < c => Less(KeyAt(b, n), KeyAt(c, m))
  BY <1>2 DEF BInv, BlocksOrdered, Precedes
<1>4. c < b => Less(KeyAt(c, m), KeyAt(b, n))
  BY <1>2 DEF BInv, BlocksOrdered, Precedes
<1>5. b = c /\ n < m => Less(KeyAt(b, n), KeyAt(c, m))
  BY <1>1 DEF Encoded, KeyAt
<1>6. b = c /\ m < n => Less(KeyAt(c, m), KeyAt(b, n))
  BY <1>1 DEF Encoded, KeyAt
<1>7. b < c \/ c < b \/ b = c
  BY <1>1
<1>8. n < m \/ m < n \/ n = m
  BY <1>1
<1> QED
  BY <1>3, <1>4, <1>5, <1>6, <1>7, <1>8 DEF PlaceBefore

\* Of two keys that were written one is before the other.
LEMMA KeysDiffer ==
  ASSUME BInv, NEW k \in WrittenKeys, NEW l \in WrittenKeys
  PROVE  Less(k, l) \/ Less(l, k) \/ k = l
<1>1. PICK b \in Blocks : \E n \in 1 .. Len(blocks[b].buffer) : k = KeyAt(b, n)
  BY Places
<1>2. PICK n \in 1 .. Len(blocks[b].buffer) : k = KeyAt(b, n)
  BY <1>1
<1>3. PICK c \in Blocks : \E m \in 1 .. Len(blocks[c].buffer) : l = KeyAt(c, m)
  BY Places
<1>4. PICK m \in 1 .. Len(blocks[c].buffer) : l = KeyAt(c, m)
  BY <1>3
<1> QED
  BY <1>2, <1>4, KeysGoUp

\* The first and the last key of a set, and none of an empty set.
LEMMA FirstIs ==
  ASSUME BInv, NEW K, K \subseteq WrittenKeys
  PROVE  /\ K = {} => FirstOf(K) = {} /\ LastOf(K) = {}
         /\ \A k \in K : (\A x \in K : ~Less(x, k)) => FirstOf(K) = {k}
         /\ \A k \in K : (\A x \in K : ~Less(k, x)) => LastOf(K) = {k}
<1>1. K = {} => FirstOf(K) = {} /\ LastOf(K) = {}
  BY DEF FirstOf, LastOf
<1>2. \A k, x \in K : Less(k, x) \/ Less(x, k) \/ k = x
  BY KeysDiffer
<1>3. ASSUME NEW k \in K, \A x \in K : ~Less(x, k) PROVE FirstOf(K) = {k}
  BY <1>2, <1>3 DEF FirstOf
<1>4. ASSUME NEW k \in K, \A x \in K : ~Less(k, x) PROVE LastOf(K) = {k}
  BY <1>2, <1>4 DEF LastOf
<1> QED
  BY <1>1, <1>3, <1>4

\* The offsets of a block go up.
LEMMA OffsetsGoUp ==
  ASSUME NEW b, Encoded(b), NEW n \in 1 .. Len(b.buffer)
  PROVE  b.buffer[n].off <= b.buffer[Len(b.buffer)].off
<1> DEFINE s == b.buffer
           L == Len(s)
           G == {m \in n .. L : s[n].off <= s[m].off}
<1>1. s \in Seq(Entry) /\ L \in Nat /\ n \in Nat /\ n \in 1 .. L /\ L \in n .. L
  BY DEF Encoded
<1>2. \A m \in 1 .. L : s[m].off \in Nat /\ s[m].len \in Nat
  BY <1>1, EntryAt
<1>3. n \in G
  BY <1>1, <1>2
<1>4. ASSUME NEW m \in n .. L, m # n, m - 1 \in G PROVE m \in G
  <2>1. m \in Nat /\ m # 1 /\ m \in 1 .. L /\ m - 1 \in 1 .. L
    BY <1>1, <1>4
  <2>2. s[m].off = s[m - 1].off + s[m - 1].len + MacSize
    BY <2>1 DEF Encoded, EncodedAt
  <2>3. s[n].off <= s[m - 1].off
    BY <1>4
  <2>4. \A x, y, z, w \in Nat : x <= y => x <= y + z + w
    OBVIOUS
  <2>5. s[n].off <= s[m].off
    <3>1. s[n].off \in Nat /\ s[m - 1].off \in Nat /\ s[m - 1].len \in Nat
          /\ MacSize \in Nat
      BY <1>1, <1>2, <2>1
    <3> HIDE DEF s, L
    <3> QED
      BY <2>2, <2>3, <2>4, <3>1
  <2> QED
    BY <2>5
<1> HIDE DEF G
<1>5. \A m \in n .. L : m \in G
  BY <1>1, <1>3, <1>4, UpTo
<1> QED
  BY <1>1, <1>5 DEF G

\* When no block ends in an empty value, an iterator is Valid at every entry.
LEMMA ValidAt ==
  ASSUME BInv, NoEmptyEnd, NEW b \in Blocks, NEW n \in 1 .. Len(blocks[b].buffer)
  PROVE  blocks[b].buffer[n].off + MacSize < blocks[b].meta_offset
<1> DEFINE s == blocks[b].buffer
           L == Len(s)
<1>1. Encoded(blocks[b]) /\ s \in Seq(Entry) /\ s # <<>> /\ L \in 1 .. L
  BY BlockAt
<1>2. blocks[b].meta_offset = s[L].off + s[L].len + MacSize
  BY <1>1 DEF Encoded
<1>3. s[n].off <= s[L].off /\ s[L].len # 0
  BY <1>1, OffsetsGoUp DEF NoEmptyEnd, Last
<1>4. s[n].off \in Nat /\ s[L].off \in Nat /\ s[L].len \in Nat
  BY <1>1, EntryAt
<1>5. \A x, y, w, z \in Nat : x <= y /\ z # 0 => x + w < y + z + w
  OBVIOUS
<1>6. MacSize \in Nat
  OBVIOUS
<1> HIDE DEF L
<1>7. s[n].off + MacSize < s[L].off + s[L].len + MacSize
  <2> HIDE DEF s
  <2> QED
    BY <1>3, <1>4, <1>5, <1>6
<1> QED
  BY <1>2, <1>7

-----------------------------------------------------------------------------
(* Where an iterator stands *)

\* An iterator that has loaded block b.
InBlock(i, b) ==
  /\ Formed(i) /\ i.fault = "none" /\ i.real /\ ~i.err /\ i.data
  /\ i.map = b /\ i.idx = b

\* It stands at the n-th entry.
Stands(i, b, n) ==
  InBlock(i, b) /\ i.ci = n /\ Valid(i) /\ Shown(i) = {KeyAt(b, n)}

\* What it has loaded.
LEMMA InBlockList ==
  ASSUME BInv, NEW b \in Blocks, NEW i, InBlock(i, b)
  PROVE  /\ i \in Iterator /\ i.key_offset_map = blocks[b].buffer
         /\ i.lim = blocks[b].meta_offset
         /\ blocks[b].buffer \in Seq(Entry) /\ blocks[b].buffer # <<>>
         /\ Len(blocks[b].buffer) \in 1 .. Len(blocks[b].buffer)
         /\ DOMAIN blocks[b].buffer = 1 .. Len(blocks[b].buffer)
<1>1. i \in Iterator /\ i.key_offset_map = blocks[b].buffer
      /\ i.lim = blocks[b].meta_offset
  BY DEF InBlock, Formed, Blocks
<1>2. blocks[b].buffer \in Seq(Entry) /\ blocks[b].buffer # <<>>
  BY BlockAt
<1> QED
  BY <1>1, <1>2

\* An iterator that was just given a block that could be read has loaded it.
LEMMA OpenedInBlock ==
  ASSUME NEW i, Opened(i), ~i.err
  PROVE  InBlock(i, i.idx)
BY DEF Opened, InBlock

\* When no block ends in an empty value, it can go to every entry.
LEMMA AtStands ==
  ASSUME BInv, NoEmptyEnd, NEW b \in Blocks, NEW i, InBlock(i, b),
         NEW n \in 1 .. Len(blocks[b].buffer)
  PROVE  Stands(At(i, n), b, n)
<1> DEFINE s == blocks[b].buffer
           j == At(i, n)
<1>1. /\ i.key_offset_map = s /\ i.lim = blocks[b].meta_offset
      /\ Formed(i) /\ i.fault = "none" /\ n \in 1 .. Len(i.key_offset_map)
  BY InBlockList DEF InBlock
<1>2. /\ Goes(i, j) /\ j.fault = i.fault /\ j.ci = n /\ j.lim = i.lim
      /\ j.key_offset_map = i.key_offset_map
      /\ j.cur = i.key_offset_map[n].off + MacSize
  BY <1>1, AtEntry
<1> HIDE DEF j
<1>3. InBlock(j, b)
  BY <1>1, <1>2 DEF Goes, InBlock
<1>4. Valid(j)
  <2>1. s[n].off + MacSize < blocks[b].meta_offset
    BY ValidAt
  <2> QED
    BY <1>1, <1>2, <2>1 DEF Valid
<1>5. Shown(j) = {KeyAt(b, n)}
  BY <1>1, <1>2, <1>3, <1>4 DEF Shown, TValid, InBlock, KeyAt
<1> QED
  BY <1>2, <1>3, <1>4, <1>5 DEF Stands, j

\* To the first entry.
LEMMA FirstStands ==
  ASSUME BInv, NoEmptyEnd, NEW b \in Blocks, NEW i, InBlock(i, b)
  PROVE  Stands(SeekToFirstImpl(i), b, 1)
<1> DEFINE j == [i EXCEPT !.ci = 0]
           s == blocks[b].buffer
<1>1. i \in Iterator /\ i.key_offset_map = s /\ Len(s) \in Nat /\ 1 \in 1 .. Len(s)
  <2>1. i \in Iterator /\ i.key_offset_map = s /\ s \in Seq(Entry) /\ s # <<>>
    BY InBlockList
  <2> HIDE DEF s
  <2> QED
    BY <2>1
<1>2. j \in Iterator
  BY <1>1 DEF Iterator
<1>3. /\ j.ci = 0 /\ j.cur = i.cur /\ j.idx = i.idx /\ j.real = i.real
      /\ j.prev = i.prev /\ j.map = i.map /\ j.data = i.data /\ j.err = i.err
      /\ j.lim = i.lim /\ j.key_offset_map = i.key_offset_map
      /\ j.fault = i.fault
  BY <1>1 DEF Iterator
<1>4. SeekToFirstImpl(i) = NextImpl(j)
  BY DEF SeekToFirstImpl, InBlock
<1> HIDE DEF j
<1>5. InBlock(j, b)
  <2>1. 0 <= Len(j.key_offset_map) + 2
    BY <1>1, <1>3
  <2> QED
    BY <1>2, <1>3, <2>1 DEF InBlock, Formed
<1>6. NextImpl(j) = At(j, 0 + 1)
  <2>1. 0 < Len(j.key_offset_map)
    BY <1>1, <1>3
  <2> QED
    BY <1>3, <2>1 DEF NextImpl
<1>7. Stands(At(j, 1), b, 1)
  BY <1>1, <1>5, AtStands
<1> QED
  BY <1>4, <1>6, <1>7

\* FindKeyForward leaves an iterator alone that has settled.
LEMMA ForwardStays ==
  ASSUME BInv, NEW i, Steady(i), NEW bad, Settled(i)
  PROVE  FindKeyForward(i, bad) = i
<1> DEFINE N == Len(blocks)
<1>1. PICK f : /\ Walk(f, i, bad)
               /\ \A b \in i.idx .. N : Steady(f[b])
               /\ FindKeyForward(i, bad) =
                    IF Settled(f[N]) THEN f[N]
                    ELSE [ResetDataIter(f[N]) EXCEPT !.idx = 0]
  BY Walks
<1>2. N \in Nat /\ i.idx \in 0 .. N /\ i.idx \in Nat
  BY IteratorFields DEF BInv, TableType, Steady, Formed
<1> DEFINE G == {b \in i.idx .. N : f[b] = i}
<1> HIDE DEF N
<1>3. i.idx \in i.idx .. N /\ N \in i.idx .. N
  BY <1>2
<1>4. i.idx \in G
  BY <1>1, <1>3 DEF Walk, N
<1>5. ASSUME NEW b \in i.idx .. N, b # i.idx, b - 1 \in G PROVE b \in G
  BY <1>1, <1>5 DEF Walk, N
<1> HIDE DEF G
<1>6. \A b \in i.idx .. N : b \in G
  BY <1>2, <1>4, <1>5, UpTo
<1>7. f[N] = i
  BY <1>3, <1>6 DEF G
<1> QED
  BY <1>1, <1>7 DEF N

\* Past the last entry of a block, it goes to the first entry of the next.
LEMMA ForwardOpens ==
  ASSUME BInv, NoEmptyEnd, NEW b \in Blocks, NEW i, InBlock(i, b), ~Valid(i)
  PROVE  /\ b + 1 \in Blocks => Stands(FindKeyForward(i, {}), b + 1, 1)
         /\ b + 1 \notin Blocks => Shown(FindKeyForward(i, {})) = {}
<1> DEFINE N == Len(blocks)
<1>1. Steady(i) /\ i.idx = b /\ ~Settled(i) /\ b # 0
  BY DEF InBlock, Steady, Positioned, Placed, Settled, Blocks
<1>2. PICK f : /\ Walk(f, i, {})
               /\ \A c \in i.idx .. N : Steady(f[c])
               /\ FindKeyForward(i, {}) =
                    IF Settled(f[N]) THEN f[N]
                    ELSE [ResetDataIter(f[N]) EXCEPT !.idx = 0]
  BY <1>1, Walks
<1>3. N \in Nat /\ b \in Nat /\ b \in 1 .. N /\ b \in b .. N /\ Blocks = 1 .. N
  BY DEF BInv, TableType, Blocks
<1> HIDE DEF N
<1>4. f[b] = i
  BY <1>1, <1>2, <1>3 DEF Walk, N
<1>5. CASE b + 1 \in Blocks
  <2> DEFINE o == OpenAt(i, b + 1, {})
             G == {c \in b + 1 .. N : f[c] = o}
  <2>1. Stands(o, b + 1, 1)
    <3> DEFINE r == ResetDataIter(i)
               s == [r EXCEPT !.idx = b + 1]
               p == InitDataBlock(s, {})
    <3>1. Bare(r)
      BY ResetBare DEF InBlock
    <3>2. Bare(s) /\ s.idx = b + 1
      <4>1. b + 1 \in 0 .. Len(blocks)
        BY <1>3, <1>5 DEF N
      <4> HIDE DEF r
      <4> QED
        BY <3>1, <4>1, BareMoves
    <3> HIDE DEF s
    <3>3. Opened(p) /\ p.idx = b + 1 /\ ~p.err
      BY <1>5, <3>2, InitOpens DEF Bare
    <3>4. InBlock(p, b + 1)
      BY <3>3, OpenedInBlock
    <3>5. Stands(SeekToFirstImpl(p), b + 1, 1)
      BY <1>5, <3>4, FirstStands
    <3> QED
      BY <3>5 DEF OpenAt, p, s, r
  <2>2. b + 1 \in b .. N /\ b + 1 # b /\ (b + 1) - 1 = b /\ b + 1 \in Nat
        /\ b + 1 \in b + 1 .. N /\ N \in b + 1 .. N
    BY <1>3, <1>5
  <2>3. f[b + 1] = o
    <3>1. f[b + 1] = IF b + 1 = b THEN i
                     ELSE IF Settled(f[(b + 1) - 1]) THEN f[(b + 1) - 1]
                     ELSE OpenAt(f[(b + 1) - 1], b + 1, {})
      BY <1>1, <1>2, <2>2 DEF Walk, N
    <3> QED
      BY <1>1, <1>4, <2>2, <3>1
  <2>4. Settled(o)
    BY <2>1 DEF Stands, Settled
  <2> HIDE DEF o
  <2>5. b + 1 \in G
    BY <2>2, <2>3
  <2>6. ASSUME NEW c \in b + 1 .. N, c # b + 1, c - 1 \in G PROVE c \in G
    <3>1. c \in b .. N /\ c # b
      BY <1>3
    <3>2. f[c] = IF Settled(f[c - 1]) THEN f[c - 1] ELSE OpenAt(f[c - 1], c, {})
      BY <1>1, <1>2, <3>1 DEF Walk, N
    <3> QED
      BY <2>4, <2>6, <3>2
  <2> HIDE DEF G
  <2>7. \A c \in b + 1 .. N : c \in G
    BY <1>3, <2>2, <2>5, <2>6, UpTo
  <2>8. f[N] = o
    BY <2>2, <2>7 DEF G
  <2> QED
    BY <1>2, <1>5, <2>1, <2>4, <2>8 DEF N
<1>6. CASE b + 1 \notin Blocks
  <2>1. b = N
    BY <1>3, <1>6
  <2> DEFINE r == ResetDataIter(i)
             s == [r EXCEPT !.idx = 0]
  <2>2. FindKeyForward(i, {}) = s
    BY <1>1, <1>2, <1>4, <2>1 DEF N
  <2>3. Bare(r)
    BY ResetBare DEF InBlock
  <2>4. Bare(s)
    <3>1. 0 \in 0 .. Len(blocks)
      BY <1>3 DEF N
    <3> HIDE DEF r
    <3> QED
      BY <2>3, <3>1, BareMoves
  <2> HIDE DEF s
  <2>5. Shown(s) = {}
    BY <2>4 DEF Bare, Shown, TValid
  <2> QED
    BY <1>6, <2>2, <2>5
<1> QED
  BY <1>5, <1>6

-----------------------------------------------------------------------------
(* Forward *)

\* The first and the last place of a set of keys.
LEMMA FirstPlace ==
  ASSUME BInv, NEW K, K \subseteq WrittenKeys,
         NEW b \in Blocks, NEW n \in 1 .. Len(blocks[b].buffer),
         KeyAt(b, n) \in K
  PROVE  /\ (\A c \in Blocks : \A m \in 1 .. Len(blocks[c].buffer) :
               PlaceBefore(c, m, b, n) => KeyAt(c, m) \notin K)
            => FirstOf(K) = {KeyAt(b, n)}
         /\ (\A c \in Blocks : \A m \in 1 .. Len(blocks[c].buffer) :
               PlaceBefore(b, n, c, m) => KeyAt(c, m) \notin K)
            => LastOf(K) = {KeyAt(b, n)}
<1> DEFINE k == KeyAt(b, n)
<1>1. k \in AnyKey /\ K \subseteq AnyKey
  BY Places
<1>2. ASSUME NEW x \in K
      PROVE  \E c \in Blocks : \E m \in 1 .. Len(blocks[c].buffer) :
               /\ x = KeyAt(c, m)
               /\ PlaceBefore(c, m, b, n) \/ ~Less(x, k)
               /\ PlaceBefore(b, n, c, m) \/ ~Less(k, x)
  <2>1. PICK c \in Blocks : \E m \in 1 .. Len(blocks[c].buffer) : x = KeyAt(c, m)
    BY Places
  <2>2. PICK m \in 1 .. Len(blocks[c].buffer) : x = KeyAt(c, m)
    BY <2>1
  <2>3. x \in AnyKey /\ ~Less(x, x)
    BY <1>1, KeyOrder
  <2>4. PlaceBefore(b, n, c, m) \/ PlaceBefore(c, m, b, n) \/ x = k
    BY <2>2, KeysGoUp
  <2>5. /\ PlaceBefore(b, n, c, m) => Less(k, x)
        /\ PlaceBefore(c, m, b, n) => Less(x, k)
    BY <2>2, KeysGoUp
  <2>6. ~(Less(x, k) /\ Less(k, x))
    BY <1>1, <2>3, KeyOrder
  <2> QED
    BY <2>2, <2>3, <2>4, <2>5, <2>6
<1> HIDE DEF k
<1>3. ASSUME \A c \in Blocks : \A m \in 1 .. Len(blocks[c].buffer) :
               PlaceBefore(c, m, b, n) => KeyAt(c, m) \notin K
      PROVE  FirstOf(K) = {k}
  <2>1. \A x \in K : ~Less(x, k)
    BY <1>2, <1>3
  <2> QED
    BY <2>1, FirstIs DEF k
<1>4. ASSUME \A c \in Blocks : \A m \in 1 .. Len(blocks[c].buffer) :
               PlaceBefore(b, n, c, m) => KeyAt(c, m) \notin K
      PROVE  LastOf(K) = {k}
  <2>1. \A x \in K : ~Less(k, x)
    BY <1>2, <1>4
  <2> QED
    BY <2>1, FirstIs DEF k
<1> QED
  BY <1>3, <1>4 DEF k

\* An iterator that has been moved to an entry stays there.
LEMMA StandsStays ==
  ASSUME BInv, NEW i, Steady(i), NEW b, NEW n, Stands(i, b, n)
  PROVE  Shown(FindKeyForward(i, {})) = {KeyAt(b, n)}
BY ForwardStays DEF Stands, Settled

\* An entry stands steady.
LEMMA StandsSteady ==
  ASSUME BInv, NEW b \in Blocks, NEW i, InBlock(i, b), NEW j, Goes(i, j)
  PROVE  Steady(j) /\ (j.fault = "none" => InBlock(j, b))
<1>1. b # 0
  BY DEF Blocks
<1>2. j.fault = "none" => InBlock(j, b) /\ Positioned(j)
  BY DEF InBlock, Goes
<1>3. InBlock(j, b) => Placed(j)
  BY <1>1 DEF InBlock, Placed
<1> QED
  BY <1>2, <1>3 DEF Steady, Goes

\* From the last entry of a block, the next key is the first of the next block.
LEMMA ForwardNext ==
  ASSUME BInv, NoEmptyEnd, NEW b \in Blocks, NEW i, InBlock(i, b), ~Valid(i),
         NEW K, K \subseteq WrittenKeys,
         \A c \in Blocks : \A m \in 1 .. Len(blocks[c].buffer) :
           KeyAt(c, m) \in K <=> b < c
  PROVE  Shown(FindKeyForward(i, {})) = FirstOf(K)
<1>1. b \in Nat /\ \A c \in Blocks : c \in Nat
  BY BlockAt
<1>2. CASE b + 1 \in Blocks
  <2> DEFINE d == b + 1
  <2>1. d \in Blocks /\ b < d /\ \A c \in Blocks : c < d => ~(b < c)
    BY <1>1, <1>2
  <2>2. Shown(FindKeyForward(i, {})) = {KeyAt(d, 1)}
    BY <1>2, ForwardOpens DEF Stands
  <2> HIDE DEF d
  <2>3. 1 \in 1 .. Len(blocks[d].buffer)
    <3>1. blocks[d].buffer \in Seq(Entry) /\ blocks[d].buffer # <<>>
      BY <2>1, BlockAt
    <3> QED
      BY <3>1
  <2>4. KeyAt(d, 1) \in K
    BY <2>1, <2>3
  <2>5. ASSUME NEW c \in Blocks, NEW m \in 1 .. Len(blocks[c].buffer),
               PlaceBefore(c, m, d, 1)
        PROVE  KeyAt(c, m) \notin K
    <3>1. m \in Nat /\ ~(m < 1)
      <4>1. Len(blocks[c].buffer) \in Nat
        BY BlockAt
      <4> QED
        BY <4>1
    <3>2. c < d
      BY <2>5, <3>1 DEF PlaceBefore
    <3> QED
      BY <2>1, <3>2
  <2>6. FirstOf(K) = {KeyAt(d, 1)}
    BY <2>1, <2>3, <2>4, <2>5, FirstPlace
  <2> QED
    BY <2>2, <2>6
<1>3. CASE b + 1 \notin Blocks
  <2>1. \A c \in Blocks : ~(b < c)
    <3>1. Len(blocks) \in Nat
      BY DEF BInv, TableType
    <3> QED
      BY <1>3, <3>1 DEF Blocks
  <2>2. K = {}
    BY <2>1, Places
  <2>3. FirstOf(K) = {}
    BY <2>2 DEF FirstOf
  <2> QED
    BY <1>3, <2>3, ForwardOpens
<1> QED
  BY <1>2, <1>3

\* Next shows the key after the one that is shown, or this one again when it is
\* the last of its block and its value is longer than what NextImpl adds.
LEMMA NextShows ==
  ASSUME BInv, NoEmptyEnd, NEW b \in Blocks,
         NEW n \in 1 .. Len(blocks[b].buffer), NEW i, Stands(i, b, n),
         Positioned(i)
  PROVE  LET shown == Shown(FindKeyForward(NextImpl(i), {}))
         IN \/ shown = FirstOf({x \in WrittenKeys : Less(KeyAt(b, n), x)})
            \/ KeyAt(b, n) \in LongEnds /\ shown = {KeyAt(b, n)}
<1> DEFINE K == {x \in WrittenKeys : Less(KeyAt(b, n), x)}
           L == Len(blocks[b].buffer)
<1>1. /\ InBlock(i, b) /\ i.ci = n /\ Valid(i) /\ Formed(i) /\ i.fault = "none"
      /\ Len(i.key_offset_map) = L /\ L \in Nat /\ n \in Nat /\ n <= L /\ b \in Nat
  <2>1. InBlock(i, b) /\ i.ci = n /\ Valid(i) /\ Formed(i) /\ i.fault = "none"
    BY DEF Stands, InBlock
  <2>2. i.key_offset_map = blocks[b].buffer /\ blocks[b].buffer \in Seq(Entry)
    BY <2>1, InBlockList
  <2> QED
    BY <2>1, <2>2, BlockAt
<1>2. ASSUME NEW c \in Blocks, NEW m \in 1 .. Len(blocks[c].buffer)
      PROVE  KeyAt(c, m) \in K <=> PlaceBefore(b, n, c, m)
  <2>1. KeyAt(c, m) \in WrittenKeys /\ KeyAt(c, m) \in AnyKey
        /\ KeyAt(b, n) \in AnyKey
    BY Places
  <2>2. ~Less(KeyAt(b, n), KeyAt(b, n))
    BY <2>1, KeyOrder
  <2>3. Less(KeyAt(c, m), KeyAt(b, n)) => ~Less(KeyAt(b, n), KeyAt(c, m))
    BY <2>1, KeyOrder
  <2>4. /\ PlaceBefore(b, n, c, m) => Less(KeyAt(b, n), KeyAt(c, m))
        /\ PlaceBefore(c, m, b, n) => Less(KeyAt(c, m), KeyAt(b, n))
        /\ PlaceBefore(b, n, c, m) \/ PlaceBefore(c, m, b, n) \/ (b = c /\ n = m)
    BY KeysGoUp
  <2> QED
    BY <2>1, <2>2, <2>3, <2>4
<1>3. K \subseteq WrittenKeys
  OBVIOUS
<1>4. /\ Goes(i, NextImpl(i))
      /\ n = L => /\ NextImpl(i).fault = "none" /\ NextImpl(i).ci = n
                  /\ Last(blocks[b].buffer).len <= Skip => ~Valid(NextImpl(i))
  BY <1>1, NextGoes DEF InBlock
<1>5. CASE n < L
  <2>1. n + 1 \in 1 .. L
    BY <1>1, <1>5
  <2>2. NextImpl(i) = At(i, n + 1)
    BY <1>1, <1>5 DEF NextImpl
  <2>3. Stands(NextImpl(i), b, n + 1)
    BY <1>1, <2>1, <2>2, AtStands
  <2>4. Steady(NextImpl(i))
    BY <1>1, <1>4, StandsSteady
  <2>5. Shown(FindKeyForward(NextImpl(i), {})) = {KeyAt(b, n + 1)}
    BY <2>3, <2>4, StandsStays
  <2>6. KeyAt(b, n + 1) \in K
    <3>1. PlaceBefore(b, n, b, n + 1)
      BY <1>1 DEF PlaceBefore
    <3> QED
      BY <1>2, <2>1, <3>1
  <2>7. ASSUME NEW c \in Blocks, NEW m \in 1 .. Len(blocks[c].buffer),
               PlaceBefore(c, m, b, n + 1)
        PROVE  KeyAt(c, m) \notin K
    <3>1. c \in Nat /\ m \in Nat
      <4>1. Len(blocks[c].buffer) \in Nat /\ c \in Nat
        BY BlockAt
      <4> QED
        BY <4>1
    <3>2. ~PlaceBefore(b, n, c, m)
      <4>1. c < b \/ (c = b /\ m < n + 1)
        BY <2>7 DEF PlaceBefore
      <4>2. c < b \/ (c = b /\ ~(n < m))
        BY <1>1, <3>1, <4>1
      <4>3. ~(b < c) /\ ~(b = c /\ n < m)
        BY <1>1, <3>1, <4>2
      <4> QED
        BY <4>3 DEF PlaceBefore
    <3> QED
      BY <1>2, <3>2
  <2> HIDE DEF K
  <2>8. FirstOf(K) = {KeyAt(b, n + 1)}
    BY <1>3, <2>1, <2>6, <2>7, FirstPlace
  <2> QED
    BY <2>5, <2>8 DEF K
<1>6. CASE n = L /\ ~Valid(NextImpl(i))
  <2>1. InBlock(NextImpl(i), b)
    BY <1>1, <1>4, <1>6, StandsSteady
  <2>2. ASSUME NEW c \in Blocks, NEW m \in 1 .. Len(blocks[c].buffer)
        PROVE  KeyAt(c, m) \in K <=> b < c
    <3>1. b = c => m \in Nat /\ m <= n
      BY <1>1, <1>6
    <3>2. ~(b = c /\ n < m)
      BY <1>1, <3>1
    <3> QED
      BY <1>2, <3>2 DEF PlaceBefore
  <2> HIDE DEF K
  <2>3. Shown(FindKeyForward(NextImpl(i), {})) = FirstOf(K)
    BY <1>3, <1>6, <2>1, <2>2, ForwardNext
  <2> QED
    BY <2>3 DEF K
<1>7. CASE n = L /\ Valid(NextImpl(i))
  <2>1. InBlock(NextImpl(i), b) /\ Steady(NextImpl(i))
    BY <1>1, <1>4, <1>7, StandsSteady
  <2>2. FindKeyForward(NextImpl(i), {}) = NextImpl(i)
    BY <1>7, <2>1, ForwardStays DEF Settled
  <2>3. NextImpl(i).key_offset_map = blocks[b].buffer
    BY <2>1, InBlockList
  <2>4. Shown(NextImpl(i)) = {KeyAt(b, n)}
    BY <1>4, <1>7, <2>1, <2>3 DEF Shown, TValid, InBlock, KeyAt
  <2>5. Last(blocks[b].buffer).len > Skip
    <3>1. Last(blocks[b].buffer).len \in Nat
      <4>1. /\ blocks[b].buffer \in Seq(Entry)
            /\ Last(blocks[b].buffer) = blocks[b].buffer[n]
        BY <1>7, BlockAt DEF Last
      <4> QED
        BY <4>1, EntryAt
    <3> QED
      BY <1>4, <1>7, <3>1
  <2>6. Last(blocks[b].buffer).key = KeyAt(b, n)
    BY <1>7 DEF Last, KeyAt
  <2> QED
    BY <2>2, <2>4, <2>5, <2>6 DEF LongEnds
<1> QED
  BY <1>1, <1>5, <1>6, <1>7

\* A block in which the search for a target may end: all keys of the blocks
\* before it are before the target, all keys of the blocks after it behind it.
LeadsTo(b, t) ==
  \A c \in Blocks :
    /\ c < b => \A k \in KeysOf(blocks[c]) : Less(k, t)
    /\ b < c => \A k \in KeysOf(blocks[c]) : Less(t, k)

\* The index leads to such a block, or past all keys.
LEMMA IndexLeadsTo ==
  ASSUME BInv, NEW t \in Target
  PROVE  /\ IndexSeek(t) # 0 => IndexSeek(t) \in Blocks /\ LeadsTo(IndexSeek(t), t)
         /\ IndexSeek(t) = 0 => \A k \in WrittenKeys : Less(k, t)
<1> DEFINE b == IndexSeek(t)
<1>1. t \in AnyKey
  BY DEF AnyKey
<1>2. ASSUME NEW c \in Blocks, IndexBefore(index[c], t), NEW k \in KeysOf(blocks[c])
      PROVE  Less(k, t)
  <2>1. k \in AnyKey /\ index[c] \in AnyKey
    BY BlockAt
  <2>2. ~Less(index[c], k)
    BY DEF BInv, BlocksOrdered
  <2>3. CASE seperator_is_key_plus_seq_
    <3>1. Less(index[c], t)
      BY <1>2, <2>3 DEF IndexBefore
    <3> QED
      BY <1>1, <2>1, <2>2, <3>1, KeyOrder
  <2>4. CASE ~seperator_is_key_plus_seq_
    <3>1. UserLess(index[c], t)
      BY <1>2, <2>4 DEF IndexBefore
    <3>2. Less(index[c], t)
      BY <1>1, <2>1, <3>1, KeyOrder
    <3> QED
      BY <1>1, <2>1, <2>2, <3>2, KeyOrder
  <2> QED
    BY <2>3, <2>4
<1>3. ASSUME NEW c \in Blocks, NEW d \in Blocks, c < d,
             ~IndexBefore(index[c], t), NEW k \in KeysOf(blocks[d])
      PROVE  Less(t, k)
  <2>1. k \in AnyKey /\ index[c] \in AnyKey
    BY BlockAt
  <2>2. Separates(index[c], k)
    BY <1>3 DEF BInv, BlocksOrdered
  <2>3. CASE seperator_is_key_plus_seq_
    <3>1. ~Less(index[c], t) /\ Less(index[c], k)
      BY <1>3, <2>2, <2>3 DEF IndexBefore, Separates
    <3> QED
      BY <1>1, <2>1, <3>1, KeyOrder
  <2>4. CASE ~seperator_is_key_plus_seq_
    <3>1. ~UserLess(index[c], t) /\ UserLess(index[c], k)
      BY <1>3, <2>2, <2>4 DEF IndexBefore, Separates
    <3>2. UserLess(t, k)
      BY <1>1, <2>1, <3>1, KeyOrder
    <3> QED
      BY <1>1, <2>1, <3>2, KeyOrder
  <2> QED
    BY <2>3, <2>4
<1>4. CASE b = 0
  <2>1. \A c \in Blocks : IndexBefore(index[c], t)
    BY <1>4, IndexLeads
  <2> QED
    BY <1>2, <1>4, <2>1 DEF WrittenKeys
<1>5. CASE b # 0
  <2>1. /\ b \in Blocks /\ ~IndexBefore(index[b], t)
        /\ \A c \in Blocks : c < b => IndexBefore(index[c], t)
    BY <1>5, IndexLeads
  <2> HIDE DEF b
  <2>2. LeadsTo(b, t)
    BY <1>2, <1>3, <2>1 DEF LeadsTo
  <2> QED
    BY <1>5, <2>1, <2>2 DEF b
<1> QED
  BY <1>4, <1>5

\* The shortcut of a reseek stays in such a block.
LEMMA StaysLeadsTo ==
  ASSUME BInv, NEW t \in Target, NEW i, NEW b \in Blocks, NEW n \in Nat,
         n \in 1 .. Len(blocks[b].buffer), Stands(i, b, n), StaysInBlock(i, t)
  PROVE  LeadsTo(b, t)
<1>1. /\ InBlock(i, b) /\ i.ci = n /\ i.idx = b
      /\ i.key_offset_map = blocks[b].buffer
  <2>1. InBlock(i, b) /\ i.ci = n
    BY DEF Stands
  <2> QED
    BY <2>1, InBlockList DEF InBlock
<1>2. UserLess(KeyAt(b, n), t) /\ UserLess(t, index[b])
  BY <1>1 DEF StaysInBlock, KeyAt
<1>3. t \in AnyKey /\ KeyAt(b, n) \in AnyKey /\ index[b] \in AnyKey
  BY BlockAt, Places DEF AnyKey
<1>4. Less(KeyAt(b, n), t) /\ Less(t, index[b])
  BY <1>2, <1>3, KeyOrder
<1>5. ASSUME NEW c \in Blocks, c < b, NEW k \in KeysOf(blocks[c])
      PROVE  Less(k, t)
  <2>1. k \in AnyKey
    BY BlockAt
  <2>2. KeyAt(b, n) \in KeysOf(blocks[b])
    BY Places
  <2>3. Less(k, KeyAt(b, n))
    BY <1>5, <2>2 DEF BInv, BlocksOrdered, Precedes
  <2> QED
    BY <1>3, <1>4, <2>1, <2>3, KeyOrder
<1>6. ASSUME NEW c \in Blocks, b < c, NEW k \in KeysOf(blocks[c])
      PROVE  Less(t, k)
  <2>1. k \in AnyKey
    BY BlockAt
  <2>2. Less(index[b], k)
    BY <1>6 DEF BInv, BlocksOrdered, Separates
  <2> QED
    BY <1>3, <1>4, <2>1, <2>2, KeyOrder
<1> QED
  BY <1>5, <1>6 DEF LeadsTo

\* The entries of a block at or past a target.
Past(b, t) == {n \in 1 .. Len(blocks[b].buffer) : ~Less(KeyAt(b, n), t)}

\* Seek goes to the first of them, or past the last entry.
LEMMA SeekStands ==
  ASSUME BInv, NoEmptyEnd, NEW b \in Blocks, NEW i, InBlock(i, b), NEW t
  PROVE  /\ Past(b, t) # {} =>
              /\ Min(Past(b, t)) \in Past(b, t)
              /\ \A n \in Past(b, t) : Min(Past(b, t)) <= n
              /\ Stands(SeekImpl(i, t), b, Min(Past(b, t)))
         /\ Past(b, t) = {} =>
              InBlock(SeekImpl(i, t), b) /\ ~Valid(SeekImpl(i, t))
<1> DEFINE m == i.key_offset_map
           past == {n \in DOMAIN m : ~Less(m[n].key, t)}
<1>1. /\ i \in Iterator /\ m = blocks[b].buffer /\ m # <<>>
      /\ DOMAIN m = 1 .. Len(blocks[b].buffer) /\ i.lim \in Nat
  BY InBlockList, IteratorFields
<1>2. past = Past(b, t)
  BY <1>1 DEF Past, KeyAt
<1>3. ASSUME past # {}
      PROVE  /\ Min(past) \in past /\ \A n \in past : Min(past) <= n
             /\ Stands(SeekImpl(i, t), b, Min(past))
  <2>1. past \subseteq Nat
    BY <1>1
  <2>2. Min(past) \in past /\ \A n \in past : Min(past) <= n
    <3> HIDE DEF past
    <3> QED
      BY <1>3, <2>1, MinNat
  <2>3. SeekImpl(i, t) = At(i, Min(past))
    BY <1>1, <1>3 DEF SeekImpl
  <2>4. Min(past) \in 1 .. Len(blocks[b].buffer)
    BY <1>1, <2>2
  <2>5. Stands(At(i, Min(past)), b, Min(past))
    <3> HIDE DEF past
    <3> QED
      BY <2>4, AtStands
  <2> QED
    BY <2>2, <2>3, <2>5
<1>4. ASSUME past = {}
      PROVE  InBlock(SeekImpl(i, t), b) /\ ~Valid(SeekImpl(i, t))
  <2> DEFINE j == [i EXCEPT !.ci = Len(m), !.cur = i.lim]
  <2>1. SeekImpl(i, t) = j
    BY <1>1, <1>4 DEF SeekImpl
  <2>2. j.cur = i.lim /\ j.lim = i.lim /\ j.fault = i.fault
    BY <1>1 DEF Iterator
  <2>3. Goes(i, SeekImpl(i, t))
    BY SeekGoes DEF InBlock
  <2> HIDE DEF j
  <2>4. ~Valid(j)
    BY <1>1, <2>2 DEF Valid
  <2>5. j.fault = "none"
    BY <2>2 DEF InBlock
  <2> QED
    BY <2>1, <2>3, <2>4, <2>5, StandsSteady
<1> HIDE DEF past
<1> QED
  BY <1>2, <1>3, <1>4

\* In the right block Seek finds the first key at or past its target.
LEMMA SeekFinds ==
  ASSUME BInv, NoEmptyEnd, NEW b \in Blocks, NEW i, InBlock(i, b), NEW t \in Target,
         LeadsTo(b, t)
  PROVE  Shown(FindKeyForward(SeekImpl(i, t), {})) = FirstOf(AtOrPast(t))
<1> DEFINE K == AtOrPast(t)
           s == SeekImpl(i, t)
<1>1. K \subseteq WrittenKeys
  BY DEF AtOrPast
<1>2. ASSUME NEW c \in Blocks, NEW m \in 1 .. Len(blocks[c].buffer)
      PROVE  /\ KeyAt(c, m) \in K <=> ~Less(KeyAt(c, m), t)
             /\ b < c => KeyAt(c, m) \in K
             /\ c < b => KeyAt(c, m) \notin K
  <2>1. KeyAt(c, m) \in KeysOf(blocks[c]) /\ KeyAt(c, m) \in WrittenKeys
        /\ KeyAt(c, m) \in AnyKey /\ t \in AnyKey
    BY Places DEF AnyKey
  <2>2. KeyAt(c, m) \in K <=> ~Less(KeyAt(c, m), t)
    BY <2>1 DEF AtOrPast
  <2>3. b < c => Less(t, KeyAt(c, m))
    BY <2>1 DEF LeadsTo
  <2>4. c < b => Less(KeyAt(c, m), t)
    BY <2>1 DEF LeadsTo
  <2>5. Less(t, KeyAt(c, m)) => ~Less(KeyAt(c, m), t)
    BY <2>1, KeyOrder
  <2> QED
    BY <2>2, <2>3, <2>4, <2>5
<1>3. Goes(i, s)
  BY SeekGoes DEF InBlock
<1>4. Steady(s)
  BY <1>3, StandsSteady
<1>5. b \in Nat /\ Len(blocks[b].buffer) \in Nat
  BY BlockAt
<1> HIDE DEF K, s
<1>6. CASE Past(b, t) # {}
  <2> DEFINE n == Min(Past(b, t))
  <2>1. n \in Past(b, t) /\ (\A m \in Past(b, t) : n <= m) /\ Stands(s, b, n)
    BY <1>6, SeekStands DEF s
  <2> HIDE DEF n
  <2>2. n \in 1 .. Len(blocks[b].buffer) /\ n \in Nat /\ KeyAt(b, n) \in K
    BY <1>2, <1>5, <2>1 DEF Past
  <2>3. Shown(FindKeyForward(s, {})) = {KeyAt(b, n)}
    BY <1>4, <2>1, StandsStays
  <2>4. ASSUME NEW c \in Blocks, NEW m \in 1 .. Len(blocks[c].buffer),
               PlaceBefore(c, m, b, n)
        PROVE  KeyAt(c, m) \notin K
    <3>1. CASE c < b
      BY <1>2, <3>1
    <3>2. CASE c = b /\ m < n
      <4>1. m \in Nat /\ ~(n <= m)
        BY <1>5, <2>2, <3>2
      <4>2. m \notin Past(b, t)
        BY <2>1, <4>1
      <4>3. Less(KeyAt(b, m), t)
        BY <3>2, <4>2 DEF Past
      <4> QED
        BY <1>2, <3>2, <4>3
    <3> QED
      BY <2>4, <3>1, <3>2 DEF PlaceBefore
  <2>5. FirstOf(K) = {KeyAt(b, n)}
    BY <1>1, <2>2, <2>4, FirstPlace
  <2> QED
    BY <2>3, <2>5 DEF K, s
<1>7. CASE Past(b, t) = {}
  <2>1. InBlock(s, b) /\ ~Valid(s)
    BY <1>7, SeekStands DEF s
  <2>2. ASSUME NEW c \in Blocks, NEW m \in 1 .. Len(blocks[c].buffer)
        PROVE  KeyAt(c, m) \in K <=> b < c
    <3>1. c \in Nat
      BY BlockAt
    <3>2. b = c => KeyAt(c, m) \notin K
      BY <1>2, <1>7 DEF Past
    <3>3. b < c \/ b = c \/ c < b
      BY <1>5, <3>1
    <3>4. ~(b < c /\ c < b)
      BY <1>5, <3>1
    <3>5. b = c => ~(b < c)
      BY <1>5
    <3> QED
      BY <1>2, <3>2, <3>3, <3>4, <3>5
  <2>3. Shown(FindKeyForward(s, {})) = FirstOf(K)
    BY <1>1, <2>1, <2>2, ForwardNext
  <2> QED
    BY <2>3 DEF K, s
<1> QED
  BY <1>6, <1>7

\* An iterator between two calls that shows a key stands at it.
LEMMA ShownStands ==
  ASSUME BInv, NoEmptyEnd, NEW i, Rested(i), i.fault = "none", ~i.err, TValid(i)
  PROVE  /\ i.idx \in Blocks /\ i.ci \in 1 .. Len(blocks[i.idx].buffer)
         /\ Stands(i, i.idx, i.ci) /\ Positioned(i)
<1>1. /\ Formed(i) /\ Positioned(i) /\ Placed(i) /\ i.real /\ Valid(i)
  BY DEF Rested, Steady, TValid
<1>2. i.map = i.idx /\ i.data /\ i.idx # 0
  BY <1>1 DEF Placed
<1>3. i.idx \in Blocks
  BY <1>1, <1>2, IteratorFields DEF Formed, Blocks
<1>4. InBlock(i, i.idx)
  BY <1>1, <1>2 DEF InBlock
<1>5. i.key_offset_map = blocks[i.idx].buffer
  BY <1>3, <1>4, InBlockList
<1>6. i.ci \in 1 .. Len(blocks[i.idx].buffer)
  BY <1>1, <1>5 DEF Positioned
<1>7. Shown(i) = {KeyAt(i.idx, i.ci)}
  BY <1>5 DEF Shown, KeyAt
<1> QED
  BY <1>1, <1>3, <1>4, <1>6, <1>7 DEF Stands

\* Seek shows the first key at or past its target.
LEMMA SeekShows ==
  ASSUME BInv, NoEmptyEnd, NEW i, Rested(i), i.fault = "none", ~i.err,
         NEW t \in Target
  PROVE  Shown(TableSeek(i, t, {})) = FirstOf(AtOrPast(t))
<1>1. ASSUME NEW b \in Blocks, NEW j, Turns(i, b, j), SeekBlock(i, t) = j,
             LeadsTo(b, t)
      PROVE  Shown(TableSeek(i, t, {})) = FirstOf(AtOrPast(t))
  <2> DEFINE o == InitDataBlock(j, {})
  <2>1. Opened(o) /\ o.idx = b /\ ~o.err
    BY <1>1, TurnsOpens
  <2>2. InBlock(o, b)
    BY <2>1, OpenedInBlock
  <2>3. j.idx # 0
    BY <1>1 DEF Turns, Blocks
  <2>4. TableSeek(i, t, {}) = FindKeyForward(SeekImpl(o, t), {})
    BY <1>1, <2>3 DEF TableSeek
  <2> HIDE DEF o
  <2> QED
    BY <1>1, <2>2, <2>4, SeekFinds
<1>2. CASE StaysInBlock(i, t)
  <2>1. TValid(i)
    BY <1>2 DEF StaysInBlock
  <2>2. /\ i.idx \in Blocks /\ i.ci \in 1 .. Len(blocks[i.idx].buffer)
        /\ Stands(i, i.idx, i.ci)
    BY <2>1, ShownStands
  <2>3. i.idx \in 0 .. Len(blocks) /\ i.ci \in Nat
    BY <2>2, IteratorFields DEF Rested, Steady, Formed
  <2>4. Turns(i, i.idx, Remember(i)) /\ SeekBlock(i, t) = Remember(i)
    BY <1>2, <2>3, RememberTurns DEF SeekBlock
  <2>5. LeadsTo(i.idx, t)
    BY <1>2, <2>2, <2>3, StaysLeadsTo
  <2> QED
    BY <1>1, <2>2, <2>4, <2>5
<1>3. CASE ~StaysInBlock(i, t)
  <2> DEFINE b == IndexSeek(t)
             j == [Remember(i) EXCEPT !.idx = b]
  <2>1. b \in 0 .. Len(blocks)
    BY IndexLeads
  <2>2. SeekBlock(i, t) = j
    BY <1>3 DEF SeekBlock
  <2> HIDE DEF b
  <2>3. Turns(i, b, j)
    BY <2>1, RememberTurns
  <2> HIDE DEF j
  <2>4. CASE b # 0
    BY <1>1, <2>2, <2>3, <2>4, IndexLeadsTo DEF b
  <2>5. CASE b = 0
    <3>1. \A k \in WrittenKeys : Less(k, t)
      BY <2>5, IndexLeadsTo DEF b
    <3>2. FirstOf(AtOrPast(t)) = {}
      BY <3>1 DEF FirstOf, AtOrPast
    <3>3. TableSeek(i, t, {}) = ResetDataIter(j)
      BY <2>2, <2>3, <2>5 DEF TableSeek, Turns
    <3>4. Bare(ResetDataIter(j))
      BY <2>3, ResetBare DEF Turns
    <3>5. Shown(ResetDataIter(j)) = {}
      BY <3>4 DEF Bare, Shown, TValid
    <3> QED
      BY <3>2, <3>3, <3>5
  <2> QED
    BY <2>4, <2>5
<1> QED
  BY <1>2, <1>3

\* SeekToFirst shows the first key.
LEMMA SeekToFirstShows ==
  ASSUME BInv, phase = "ready", NoEmptyEnd, NEW i, Rested(i), i.fault = "none",
         ~i.err
  PROVE  Shown(TableSeekToFirst(i, {})) = FirstOf(WrittenKeys)
<1> DEFINE j == [Remember(i) EXCEPT !.idx = 1]
           o == InitDataBlock(j, {})
           s == SeekToFirstImpl(o)
<1>1. 1 \in Blocks /\ 1 \in 0 .. Len(blocks)
  BY DEF BInv, TableType, Phases, Blocks
<1>2. Turns(i, 1, j)
  BY <1>1, RememberTurns
<1> HIDE DEF j
<1>3. Opened(o) /\ o.idx = 1 /\ ~o.err
  BY <1>1, <1>2, TurnsOpens
<1>4. InBlock(o, 1)
  BY <1>3, OpenedInBlock
<1>5. Stands(s, 1, 1)
  BY <1>1, <1>4, FirstStands
<1>6. Steady(s)
  BY <1>3, SeekToFirstGoes, OpenedGoes
<1>7. Shown(FindKeyForward(s, {})) = {KeyAt(1, 1)}
  BY <1>5, <1>6, StandsStays
<1>8. TableSeekToFirst(i, {}) = FindKeyForward(s, {})
  BY DEF TableSeekToFirst, s, o, j
<1>9. 1 \in 1 .. Len(blocks[1].buffer)
  <2>1. blocks[1].buffer \in Seq(Entry) /\ blocks[1].buffer # <<>>
    BY <1>1, BlockAt
  <2> QED
    BY <2>1
<1>10. ASSUME NEW c \in Blocks, NEW m \in 1 .. Len(blocks[c].buffer)
       PROVE  ~PlaceBefore(c, m, 1, 1)
  <2>1. c \in Nat /\ Len(blocks[c].buffer) \in Nat
    BY BlockAt
  <2>2. m \in Nat /\ ~(m < 1) /\ ~(c < 1)
    BY <2>1 DEF Blocks
  <2> QED
    BY <2>2 DEF PlaceBefore
<1>11. KeyAt(1, 1) \in WrittenKeys
  BY <1>1, <1>9, Places
<1>12. FirstOf(WrittenKeys) = {KeyAt(1, 1)}
  BY <1>1, <1>9, <1>10, <1>11, FirstPlace
<1> QED
  BY <1>7, <1>8, <1>12

\* What the invariant says of an iterator that has not failed.
LEMMA TrustedRests ==
  ASSUME IInv, Trusted
  PROVE  /\ BInv /\ Rested(it) /\ it.fault = "none" /\ ~it.err /\ phase = "ready"
BY DEF IInv, Trusted

\* Wherever an iterator stands, Seek shows the first key at or past its target,
\* SeekToFirst the first key, and Next the key after the one shown: in every
\* table whose blocks do not end in an empty value.  Only the last key of a
\* block, when NextImpl cannot step over its value, may be shown again.  The
\* shortcut of a reseek and the block offset that the iterator remembers never
\* lead to the wrong block.
THEOREM ReadsForward == Spec => []ForwardContract
<1>1. ASSUME IInv, Trusted, NoEmptyEnd, NEW t \in Target
      PROVE  Shown(TableSeek(it, t, {})) = FirstOf(AtOrPast(t))
  BY <1>1, TrustedRests, SeekShows
<1>2. ASSUME IInv, Trusted, NoEmptyEnd
      PROVE  Shown(TableSeekToFirst(it, {})) = FirstOf(WrittenKeys)
  BY <1>2, TrustedRests, SeekToFirstShows
<1>3. ASSUME IInv, Trusted, NoEmptyEnd, NEW k \in Shown(it)
      PROVE  LET shown == Shown(FindKeyForward(NextImpl(it), {}))
             IN \/ shown = FirstOf({x \in WrittenKeys : Less(k, x)})
                \/ k \in LongEnds /\ shown = {k}
  <2>1. TValid(it)
    BY <1>3 DEF Shown
  <2>2. /\ it.idx \in Blocks /\ it.ci \in 1 .. Len(blocks[it.idx].buffer)
        /\ Stands(it, it.idx, it.ci) /\ Positioned(it) /\ BInv
    BY <1>3, <2>1, TrustedRests, ShownStands
  <2>3. k = KeyAt(it.idx, it.ci)
    BY <2>2 DEF Stands
  <2> QED
    BY <1>3, <2>2, <2>3, NextShows
<1>4. IInv => ForwardContract
  BY <1>1, <1>2, <1>3 DEF ForwardContract
<1> QED
  BY <1>4, Inductive, PTL

-----------------------------------------------------------------------------
(* Backward *)

\* Inside a block Prev shows the key before the one that is shown.
LEMMA PrevShows ==
  ASSUME BInv, NoEmptyEnd, NEW b \in Blocks, NEW n \in 1 .. Len(blocks[b].buffer),
         NEW i, Stands(i, b, n), n > 1
  PROVE  Shown(FindKeyBackward(PrevImpl(i), {}))
           = LastOf({x \in WrittenKeys : Less(x, KeyAt(b, n))})
<1> DEFINE K == {x \in WrittenKeys : Less(x, KeyAt(b, n))}
<1>1. /\ InBlock(i, b) /\ i.ci = n /\ Len(blocks[b].buffer) \in Nat /\ n \in Nat
      /\ b \in Nat
  BY BlockAt DEF Stands
<1>2. n - 1 \in 1 .. Len(blocks[b].buffer) /\ n - 1 \in Nat
  BY <1>1
<1>3. PrevImpl(i) = At(i, n - 1)
  BY <1>1 DEF PrevImpl
<1>4. Stands(PrevImpl(i), b, n - 1)
  BY <1>1, <1>2, <1>3, AtStands
<1>5. Shown(FindKeyBackward(PrevImpl(i), {})) = {KeyAt(b, n - 1)}
  BY <1>4 DEF FindKeyBackward, Settled, Stands
<1>6. KeyAt(b, n - 1) \in K
  <2>1. PlaceBefore(b, n - 1, b, n)
    BY <1>1 DEF PlaceBefore
  <2> QED
    BY <1>2, <2>1, KeysGoUp, Places
<1>7. ASSUME NEW c \in Blocks, NEW m \in 1 .. Len(blocks[c].buffer),
             PlaceBefore(b, n - 1, c, m)
      PROVE  KeyAt(c, m) \notin K
  <2>1. PlaceBefore(b, n, c, m) \/ (b = c /\ n = m)
    <3>1. b < c \/ (b = c /\ n - 1 < m)
      BY <1>7 DEF PlaceBefore
    <3>2. m \in Nat
      <4>1. Len(blocks[c].buffer) \in Nat
        BY BlockAt
      <4> QED
        BY <4>1
    <3>3. n - 1 < m => n < m \/ n = m
      BY <1>1, <3>2
    <3> QED
      BY <3>1, <3>3 DEF PlaceBefore
  <2>2. KeyAt(c, m) \in AnyKey /\ KeyAt(b, n) \in AnyKey
    BY Places
  <2>3. PlaceBefore(b, n, c, m) => Less(KeyAt(b, n), KeyAt(c, m))
    BY KeysGoUp
  <2>4. ~Less(KeyAt(c, m), KeyAt(b, n))
    BY <2>1, <2>2, <2>3, KeyOrder
  <2> QED
    BY <2>4
<1>8. K \subseteq WrittenKeys
  OBVIOUS
<1> HIDE DEF K
<1>9. LastOf(K) = {KeyAt(b, n - 1)}
  BY <1>2, <1>6, <1>7, <1>8, FirstPlace
<1> QED
  BY <1>5, <1>9 DEF K

\* The entries of a block up to the n-th that are at or before a target.
UpToTarget(b, t, n) == {m \in 1 .. n : ~Less(t, KeyAt(b, m))}

\* What may come of a search backwards in a block: the last key at or before the
\* target, no end when the block has no such key, and a read behind the list when
\* all its keys are such.
SeeksBack(j, b, t) ==
  \/ j.fault = "none" /\ Shown(j) = LastOf(AtOrBefore(t))
  \/ j.fault = "loop" /\ \A k \in KeysOf(blocks[b]) : Less(t, k)
  \/ j.fault = "bounds" /\ \A k \in KeysOf(blocks[b]) : Less(k, t)

\* When all keys of its block are before its target SeekForPrev goes to the last
\* of them, and reads behind the list.
LEMMA SeekForPrevReads ==
  ASSUME BInv, NoEmptyEnd, NEW b \in Blocks, NEW i, InBlock(i, b), NEW t,
         Past(b, t) = {}
  PROVE  SeeksBack(FindKeyBackward(SeekForPrevImpl(i, t), {}), b, t)
<1> DEFINE j == SeekImpl(i, t)
<1>1. InBlock(j, b) /\ ~Valid(j)
  BY SeekStands
<1> HIDE DEF j
<1>2. SeekForPrevImpl(i, t) = SeekToLastImpl(j)
  BY <1>1 DEF SeekForPrevImpl, InBlock, j
<1>3. SeekToLastImpl(j).fault = "bounds"
  BY <1>1, SeekToLastReads DEF InBlock, Formed
<1>4. FindKeyBackward(SeekToLastImpl(j), {}) = SeekToLastImpl(j)
  BY <1>3 DEF FindKeyBackward, Settled
<1>5. \A k \in KeysOf(blocks[b]) : Less(k, t)
  <2> SUFFICES ASSUME NEW k \in KeysOf(blocks[b]) PROVE Less(k, t)
    OBVIOUS
  <2>1. PICK m \in 1 .. Len(blocks[b].buffer) : k = KeyAt(b, m)
    BY Places
  <2> QED
    BY <2>1 DEF Past
<1> QED
  BY <1>2, <1>3, <1>4, <1>5 DEF SeeksBack

\* In a block with keys at or past its target SeekForPrev goes to the last of
\* those at or before it, or has no end.
LEMMA SeekForPrevFinds ==
  ASSUME BInv, NoEmptyEnd, NEW b \in Blocks, NEW i, InBlock(i, b),
         NEW t \in Target, LeadsTo(b, t), Past(b, t) # {}
  PROVE  SeeksBack(FindKeyBackward(SeekForPrevImpl(i, t), {}), b, t)
<1> DEFINE L == Len(blocks[b].buffer)
           j == SeekImpl(i, t)
           n == Min(Past(b, t))
           K == AtOrBefore(t)
           B == UpToTarget(b, t, n)
           x == Max(B)
<1>1. L \in Nat /\ b \in Nat /\ t \in AnyKey
  BY BlockAt DEF AnyKey
<1>2. /\ n \in Past(b, t) /\ (\A m \in Past(b, t) : n <= m)
      /\ Stands(j, b, n)
  BY SeekStands
<1> HIDE DEF n, j, L
<1>3. n \in 1 .. L /\ n \in Nat /\ ~Less(KeyAt(b, n), t)
  BY <1>1, <1>2 DEF Past, L
<1>4. /\ InBlock(j, b) /\ j.fault = "none" /\ Valid(j) /\ j.ci = n
      /\ j.key_offset_map = blocks[b].buffer
  <2>1. InBlock(j, b) /\ Valid(j) /\ j.ci = n
    BY <1>2 DEF Stands
  <2> QED
    BY <2>1, InBlockList DEF InBlock
<1>5. ASSUME NEW m \in 1 .. L, n < m PROVE Less(t, KeyAt(b, m))
  <2>1. PlaceBefore(b, n, b, m)
    BY <1>5 DEF PlaceBefore
  <2>2. Less(KeyAt(b, n), KeyAt(b, m))
    BY <1>3, <2>1, KeysGoUp DEF L
  <2>3. KeyAt(b, n) \in AnyKey /\ KeyAt(b, m) \in AnyKey
    BY <1>3, Places DEF L
  <2> QED
    BY <1>1, <1>3, <2>2, <2>3, KeyOrder
<1>6. ASSUME B = {}
      PROVE  SeeksBack(FindKeyBackward(SeekForPrevImpl(i, t), {}), b, t)
  <2>1. SeekForPrevImpl(i, t) = Broken(j, "loop")
    <3>1. {m \in 1 .. j.ci : ~Less(t, j.key_offset_map[m].key)} = {}
      BY <1>6, <1>4 DEF UpToTarget, KeyAt
    <3> QED
      BY <1>4, <3>1 DEF SeekForPrevImpl, j
  <2>2. Broken(j, "loop").fault = "loop"
    BY <1>4 DEF Broken, InBlock, Formed, Iterator
  <2>3. FindKeyBackward(Broken(j, "loop"), {}) = Broken(j, "loop")
    BY <2>2 DEF FindKeyBackward, Settled
  <2>4. ASSUME NEW k \in KeysOf(blocks[b]) PROVE Less(t, k)
    <3>1. PICK m \in 1 .. L : k = KeyAt(b, m)
      BY Places DEF L
    <3>2. CASE n < m
      BY <1>5, <3>1, <3>2
    <3>3. CASE ~(n < m)
      <4>1. m \in 1 .. n
        BY <1>1, <1>3, <3>3
      <4> QED
        BY <1>6, <3>1, <4>1 DEF UpToTarget
    <3> QED
      BY <3>2, <3>3
  <2> QED
    BY <2>1, <2>2, <2>3, <2>4 DEF SeeksBack
<1>7. SUFFICES ASSUME B # {}
               PROVE  SeeksBack(FindKeyBackward(SeekForPrevImpl(i, t), {}), b, t)
  BY <1>6
<1>8. x \in B /\ \A m \in B : m <= x
  <2>1. B \subseteq Nat /\ \A m \in B : m <= n
    BY <1>3 DEF UpToTarget
  <2> HIDE DEF B
  <2> QED
    BY <1>3, <1>7, <2>1, MaxNat
<1>9. B = {m \in 1 .. j.ci : ~Less(t, j.key_offset_map[m].key)}
  BY <1>4 DEF UpToTarget, KeyAt
<1>10. SeekForPrevImpl(i, t) = At(j, x)
  <2>1. SeekForPrevImpl(i, t) =
          At(j, Max({m \in 1 .. j.ci : ~Less(t, j.key_offset_map[m].key)}))
    BY <1>4, <1>7, <1>9 DEF SeekForPrevImpl, j
  <2> QED
    BY <1>9, <2>1
<1> HIDE DEF x
<1>11. x \in 1 .. L /\ x \in Nat /\ ~Less(t, KeyAt(b, x)) /\ x <= n
  BY <1>1, <1>3, <1>8 DEF UpToTarget
<1>12. Stands(At(j, x), b, x)
  BY <1>4, <1>11, AtStands DEF L
<1>13. /\ FindKeyBackward(SeekForPrevImpl(i, t), {}).fault = "none"
       /\ Shown(FindKeyBackward(SeekForPrevImpl(i, t), {})) = {KeyAt(b, x)}
  BY <1>10, <1>12 DEF FindKeyBackward, Settled, Stands, InBlock
<1>14. KeyAt(b, x) \in K
  BY <1>11, Places DEF AtOrBefore, L
<1>15. ASSUME NEW c \in Blocks, NEW m \in 1 .. Len(blocks[c].buffer),
              PlaceBefore(b, x, c, m)
       PROVE  KeyAt(c, m) \notin K
  <2>1. CASE b < c
    <3>1. KeyAt(c, m) \in KeysOf(blocks[c])
      BY Places
    <3>2. Less(t, KeyAt(c, m))
      BY <2>1, <3>1 DEF LeadsTo
    <3> QED
      BY <3>2 DEF AtOrBefore
  <2>2. CASE b = c /\ x < m
    <3>1. m \in 1 .. L /\ m \in Nat
      BY <1>1, <2>2 DEF L
    <3>2. m \notin B
      BY <1>8, <1>11, <2>2, <3>1
    <3>3. Less(t, KeyAt(b, m))
      <4>1. CASE n < m
        BY <1>5, <3>1, <4>1
      <4>2. CASE ~(n < m)
        <5>1. m \in 1 .. n
          BY <1>3, <3>1, <4>2
        <5> QED
          BY <3>2, <5>1 DEF UpToTarget
      <4> QED
        BY <4>1, <4>2
    <3> QED
      BY <2>2, <3>3 DEF AtOrBefore
  <2> QED
    BY <1>15, <2>1, <2>2 DEF PlaceBefore
<1>16. K \subseteq WrittenKeys
  BY DEF AtOrBefore
<1> HIDE DEF K
<1>17. LastOf(K) = {KeyAt(b, x)}
  BY <1>11, <1>14, <1>15, <1>16, FirstPlace DEF L
<1> QED
  BY <1>13, <1>17 DEF K, SeeksBack

\* SeekForPrev of the table.
LEMMA SeekForPrevShows ==
  ASSUME BInv, phase = "ready", NoEmptyEnd, NEW i, Rested(i),
         i.fault = "none", ~i.err, NEW t \in Target
  PROVE  SeeksBack(TableSeekForPrev(i, t, {}), PrevBlock(t), t)
<1> DEFINE b == PrevBlock(t)
           k == [SavePrev(i) EXCEPT !.idx = b]
           o == InitDataBlock(k, {})
<1>1. b \in Blocks /\ b \in 0 .. Len(blocks)
  <2>1. Len(blocks) \in Nat /\ Len(blocks) # 0
    BY DEF BInv, TableType, Phases
  <2> QED
    BY <2>1, IndexLeads DEF PrevBlock, Blocks
<1>2. TableSeekForPrev(i, t, {}) = FindKeyBackward(SeekForPrevImpl(o, t), {})
  BY DEF TableSeekForPrev
<1>3. Past(b, t) # {} => LeadsTo(b, t)
  <2>1. CASE IndexSeek(t) # 0
    BY <2>1, IndexLeadsTo DEF PrevBlock
  <2>2. CASE IndexSeek(t) = 0
    <3>1. \A m \in 1 .. Len(blocks[b].buffer) : Less(KeyAt(b, m), t)
      BY <1>1, <2>2, IndexLeadsTo, Places
    <3> QED
      BY <3>1 DEF Past
  <2> QED
    BY <2>1, <2>2
<1> HIDE DEF b
<1>4. Turns(i, b, k)
  BY <1>1, RememberTurns
<1> HIDE DEF k
<1>5. Opened(o) /\ o.idx = b /\ ~o.err
  BY <1>1, <1>4, TurnsOpens
<1>6. InBlock(o, b)
  BY <1>5, OpenedInBlock
<1> HIDE DEF o
<1>7. SeeksBack(FindKeyBackward(SeekForPrevImpl(o, t), {}), b, t)
  BY <1>1, <1>3, <1>6, SeekForPrevFinds, SeekForPrevReads
<1> QED
  BY <1>2, <1>7 DEF b

\* Backwards an iterator keeps its promise inside a block, and outside it never
\* shows another key for the right one: Prev repeats the first entry of a block,
\* and SeekForPrev fails only where all keys of its block are on one side.
THEOREM ReadsBackward == Spec => []BackwardInBlock
<1>1. ASSUME IInv, Trusted, NoEmptyEnd, NEW k \in Shown(it)
      PROVE  LET shown == Shown(FindKeyBackward(PrevImpl(it), {}))
             IN \/ shown = LastOf({x \in WrittenKeys : Less(x, k)})
                \/ it.ci = 1 /\ shown = {k}
  <2>1. TValid(it)
    BY <1>1 DEF Shown
  <2>2. /\ it.idx \in Blocks /\ it.ci \in 1 .. Len(blocks[it.idx].buffer)
        /\ Stands(it, it.idx, it.ci) /\ BInv
    BY <1>1, <2>1, TrustedRests, ShownStands
  <2>3. k = KeyAt(it.idx, it.ci)
    BY <2>2 DEF Stands
  <2>4. it.ci \in Nat
    BY <2>2, IteratorFields DEF Stands, InBlock, Formed
  <2>5. CASE it.ci > 1
    BY <1>1, <2>2, <2>3, <2>5, PrevShows
  <2>6. CASE it.ci = 1
    <3>1. PrevImpl(it) = At(it, 1)
      BY <2>6 DEF PrevImpl
    <3>2. Stands(At(it, 1), it.idx, 1)
      BY <1>1, <2>2, <2>6, AtStands DEF Stands
    <3>3. Shown(FindKeyBackward(PrevImpl(it), {})) = {k}
      BY <2>3, <2>6, <3>1, <3>2 DEF FindKeyBackward, Settled, Stands
    <3> QED
      BY <2>6, <3>3
  <2> QED
    BY <2>2, <2>4, <2>5, <2>6
<1>2. ASSUME IInv, Trusted, NoEmptyEnd, NEW t \in Target
      PROVE  SeeksBack(TableSeekForPrev(it, t, {}), PrevBlock(t), t)
  BY <1>2, TrustedRests, SeekForPrevShows
<1>3. IInv => BackwardInBlock
  BY <1>1, <1>2 DEF BackwardInBlock, SeeksBack
<1> QED
  BY <1>3, Inductive, PTL

-----------------------------------------------------------------------------
(* What Get answers *)

\* GetCorrect, of any answer.
Correct(a) ==
  CASE a.fault = "none"   -> Right(a)
    [] a.fault = "bounds" -> AllowReadError
    [] a.fault = "exit"   ->
         \E b \in Blocks : /\ b > 2 /\ b >= IndexSeek(a.target)
                           /\ SameUser(index[b - 1], Head(blocks[b].buffer).key)
    [] OTHER -> FALSE

\* The scan goes on: it has seen the keys of K, and they are merge operands.
GoesOn(a, K, t) ==
  /\ ~a.done /\ a.answer.target = t /\ a.answer.fault = "none"
  /\ \A k \in K : SameUser(k, t) /\ k[4] = "merge"
  /\ ToSet(a.answer.ops) = K
  /\ \A m, n \in DOMAIN a.answer.ops :
       m < n => Less(a.answer.ops[m], a.answer.ops[n])
  /\ a.answer.state = IF K = {} THEN "notfound" ELSE "merge"

\* It goes on, or has found its answer.
Progress(a, K, t) ==
  GoesOn(a, K, t) \/ (a.done /\ a.answer.target = t /\ Correct(a.answer))

\* The type of a key.
LEMMA TypeOfKey ==
  ASSUME NEW k \in Key
  PROVE  k[4] \in Type
<1>1. PICK u \in Users, s \in 1 .. MaxSeq, t \in Type : k = <<u[1], u[2], s, t>>
  BY DEF Key
<1> QED
  BY <1>1

\* When all entries of the user key are merge operands, the answer is those.
LEMMA RightEnds ==
  ASSUME BInv, NEW t \in Target, NEW a, NEW K, GoesOn(a, K, t),
         K = {k \in AtOrPast(t) : SameUser(k, t)}
  PROVE  Right(a.answer) /\ Correct(a.answer)
<1> DEFINE r == a.answer
           mine == {k \in AtOrPast(r.target) : SameUser(k, r.target)}
           base == FirstOf({k \in mine : k[4] # "merge"})
           seen == {k \in mine : \A x \in base : ~Less(x, k)}
           ops  == {k \in seen : k[4] # "del"}
<1>1. /\ r.target = t /\ r.fault = "none" /\ ToSet(r.ops) = K
      /\ \A m, n \in DOMAIN r.ops : m < n => Less(r.ops[m], r.ops[n])
      /\ r.state = IF K = {} THEN "notfound" ELSE "merge"
      /\ \A k \in K : k[4] = "merge"
  BY DEF GoesOn
<1> HIDE DEF r
<1>2. mine = K
  BY <1>1
<1>3. base = {}
  BY <1>1, <1>2 DEF FirstOf
<1>4. ops = K
  BY <1>1, <1>2, <1>3
<1>5. Right(r)
  <2>1. Right(r) <=>
          /\ ToSet(r.ops) = ops
          /\ \A m, n \in DOMAIN r.ops : m < n => Less(r.ops[m], r.ops[n])
          /\ r.state = IF mine = {} THEN "notfound"
                       ELSE IF base = {} THEN "merge"
                       ELSE IF ops = {} THEN "deleted" ELSE "found"
    BY Zenon DEF Right
  <2> HIDE DEF mine, base, ops
  <2> QED
    BY <1>1, <1>2, <1>3, <1>4, <2>1
<1> QED
  BY <1>1, <1>5 DEF Correct, r

\* The first value or deletion ends the scan.
LEMMA RightBase ==
  ASSUME BInv, NEW t \in Target, NEW K, K \subseteq AtOrPast(t),
         NEW x \in AtOrPast(t), SameUser(x, t), x[4] # "merge",
         \A k \in K : Less(k, x) /\ SameUser(k, t) /\ k[4] = "merge",
         \A l \in AtOrPast(t) : l \in K \/ l = x \/ Less(x, l),
         NEW r, r.target = t, r.fault = "none",
         ToSet(r.ops) = IF x[4] = "del" THEN K ELSE K \cup {x},
         \A m, n \in DOMAIN r.ops : m < n => Less(r.ops[m], r.ops[n]),
         r.state = IF x[4] = "del" /\ K = {} THEN "deleted" ELSE "found"
  PROVE  Right(r) /\ Correct(r)
<1> DEFINE mine == {k \in AtOrPast(r.target) : SameUser(k, r.target)}
           M == {k \in mine : k[4] # "merge"}
           base == FirstOf(M)
           seen == {k \in mine : \A y \in base : ~Less(y, k)}
           ops  == {k \in seen : k[4] # "del"}
<1>1. \A l \in AtOrPast(t) : l \in AnyKey /\ l \in WrittenKeys
  BY Places DEF AtOrPast
<1>2. ~Less(x, x)
  BY <1>1, KeyOrder
<1>3. \A l \in AtOrPast(t) : Less(l, x) => ~Less(x, l)
  BY <1>1, KeyOrder
<1>4. M \subseteq WrittenKeys /\ x \in M /\ \A k \in M : ~Less(k, x)
  <2>1. \A k \in M : k \in AtOrPast(t) /\ k \notin K
    OBVIOUS
  <2> QED
    BY <1>1, <1>2, <1>3, <2>1
<1>5. base = {x}
  <2> HIDE DEF M
  <2> QED
    BY <1>4, FirstIs
<1>6. seen = K \cup {x}
  <2>1. \A k \in mine : (\A y \in base : ~Less(y, k)) <=> ~Less(x, k)
    BY <1>5
  <2>2. \A k \in mine : ~Less(x, k) <=> k \in K \cup {x}
    BY <1>2, <1>3
  <2>3. K \cup {x} \subseteq mine
    OBVIOUS
  <2> HIDE DEF mine, base
  <2> QED
    BY <2>1, <2>2, <2>3
<1>7. ops = IF x[4] = "del" THEN K ELSE K \cup {x}
  <2> HIDE DEF seen
  <2> QED
    BY <1>6
<1>8. mine # {}
  OBVIOUS
<1>9. Right(r) <=>
        /\ ToSet(r.ops) = ops
        /\ \A m, n \in DOMAIN r.ops : m < n => Less(r.ops[m], r.ops[n])
        /\ r.state = IF mine = {} THEN "notfound"
                     ELSE IF base = {} THEN "merge"
                     ELSE IF ops = {} THEN "deleted" ELSE "found"
  BY Zenon DEF Right
<1> HIDE DEF mine, base, ops
<1>10. Right(r)
  BY <1>5, <1>7, <1>8, <1>9
<1> QED
  BY <1>10 DEF Correct

\* One more key behind all the others.
LEMMA OpsAppend ==
  ASSUME NEW s \in Seq(Key), NEW x \in Key, NEW K, ToSet(s) = K,
         \A m, n \in DOMAIN s : m < n => Less(s[m], s[n]),
         \A k \in K : Less(k, x)
  PROVE  /\ Append(s, x) \in Seq(Key) /\ ToSet(Append(s, x)) = K \cup {x}
         /\ \A m, n \in DOMAIN Append(s, x) :
              m < n => Less(Append(s, x)[m], Append(s, x)[n])
<1> DEFINE L == Len(s)
           u == Append(s, x)
<1>1. /\ L \in Nat /\ DOMAIN s = 1 .. L /\ DOMAIN u = 1 .. (L + 1)
      /\ u \in Seq(Key) /\ u[L + 1] = x /\ \A n \in 1 .. L : u[n] = s[n]
  OBVIOUS
<1>2. \A n \in 1 .. L : s[n] \in K
  BY <1>1 DEF ToSet
<1> HIDE DEF u
<1>3. ToSet(u) = K \cup {x}
  <2>1. \A n \in 1 .. (L + 1) : u[n] \in K \cup {x}
    <3>1. \A n \in 1 .. (L + 1) : n = L + 1 \/ n \in 1 .. L
      BY <1>1
    <3> QED
      BY <1>1, <1>2, <3>1
  <2>2. \A k \in K : \E n \in 1 .. (L + 1) : u[n] = k
    <3>1. ASSUME NEW k \in K PROVE \E n \in 1 .. (L + 1) : u[n] = k
      <4>1. PICK n \in 1 .. L : s[n] = k
        BY <1>1 DEF ToSet
      <4>2. n \in 1 .. (L + 1)
        BY <1>1
      <4> QED
        BY <1>1, <4>1, <4>2
    <3> QED
      BY <3>1
  <2>3. L + 1 \in 1 .. (L + 1)
    BY <1>1
  <2> QED
    BY <1>1, <2>1, <2>2, <2>3 DEF ToSet
<1>4. ASSUME NEW m \in 1 .. (L + 1), NEW n \in 1 .. (L + 1), m < n
      PROVE  Less(u[m], u[n])
  <2>1. m \in 1 .. L
    BY <1>1, <1>4
  <2>2. CASE n = L + 1
    BY <1>1, <1>2, <2>1, <2>2
  <2>3. CASE n # L + 1
    <3>1. n \in 1 .. L
      BY <1>1, <2>3
    <3> QED
      BY <1>1, <1>4, <2>1, <3>1
  <2> QED
    BY <2>2, <2>3
<1> QED
  BY <1>1, <1>3, <1>4 DEF u

\* GetContext::SaveValue is shown the next key at or past the target.
LEMMA SaveProgress ==
  ASSUME BInv, NEW t \in Target, NEW K, K \subseteq AtOrPast(t),
         NEW e \in Entry, e.key \in AtOrPast(t),
         \A k \in K : Less(k, e.key),
         \A l \in AtOrPast(t) : l \in K \/ l = e.key \/ Less(e.key, l),
         NEW a \in Scan, Progress(a, K, t)
  PROVE  Progress(SaveValue(a, e, t), K \cup {e.key}, t)
<1> DEFINE x == e.key
           r == a.answer
           b == SaveValue(a, e, t)
           KK == K \cup {x}
<1>1. /\ r \in Answer /\ r.ops \in Seq(Key) /\ x \in Key /\ x[4] \in Type
      /\ a.done \in BOOLEAN /\ t \in AnyKey /\ x \in AnyKey
  <2>1. r \in Answer /\ x \in Key /\ a.done \in BOOLEAN
    BY DEF Scan, Entry
  <2> QED
    BY <2>1, TypeOfKey DEF Answer, AnyKey
<1>2. CASE a.done
  <2>1. b = a /\ ~GoesOn(a, K, t)
    BY <1>2 DEF SaveValue, GoesOn
  <2> QED
    BY <1>2, <2>1 DEF Progress
<1>3. CASE ~a.done /\ ~SameUser(x, t)
  <2>1. GoesOn(a, K, t)
    BY <1>3 DEF Progress
  <2>2. b = [a EXCEPT !.done = TRUE]
    BY <1>3 DEF SaveValue
  <2>3. b.done = TRUE /\ b.answer = r
    BY <2>2 DEF Scan
  <2>4. ASSUME NEW l \in AtOrPast(t), SameUser(l, t) PROVE l \in K
    <3>1. l \in AnyKey
      BY Places DEF AtOrPast
    <3>2. ~Less(x, t)
      BY DEF AtOrPast
    <3>3. SUFFICES ASSUME Less(x, l) PROVE FALSE
      BY <1>3, <2>4
    <3>4. Less(l, x)
      <4>1. UserLess(t, x)
        <5>1. x[1] \in Nat /\ x[2] \in Nat /\ t[1] \in Nat /\ t[2] \in Nat
          BY <1>1, KeyShape
        <5> QED
          BY <1>3, <3>2, <5>1 DEF Less, SameUser, UserLess
      <4>2. UserLess(l, x)
        BY <2>4, <4>1 DEF SameUser, UserLess
      <4> QED
        BY <1>1, <3>1, <4>2, KeyOrder
    <3> QED
      BY <1>1, <3>1, <3>3, <3>4, KeyOrder
  <2>5. \A l \in K : l \in AtOrPast(t) /\ SameUser(l, t)
    BY <2>1 DEF GoesOn
  <2>6. K = {k \in AtOrPast(t) : SameUser(k, t)}
    BY <2>4, <2>5
  <2>7. Correct(r) /\ r.target = t
    BY <2>1, <2>6, RightEnds DEF GoesOn
  <2> QED
    BY <2>3, <2>7 DEF Progress
<1>4. CASE ~a.done /\ SameUser(x, t)
  <2> DEFINE ops == Append(r.ops, x)
             more == [r EXCEPT !.ops = ops]
  <2>1. GoesOn(a, K, t)
    BY <1>4 DEF Progress
  <2>2. /\ r.target = t /\ r.fault = "none" /\ ToSet(r.ops) = K
        /\ \A m, n \in DOMAIN r.ops : m < n => Less(r.ops[m], r.ops[n])
        /\ r.state = IF K = {} THEN "notfound" ELSE "merge"
        /\ \A k \in K : SameUser(k, t) /\ k[4] = "merge"
    BY <2>1 DEF GoesOn
  <2>3. /\ ops \in Seq(Key) /\ ToSet(ops) = KK
        /\ \A m, n \in DOMAIN ops : m < n => Less(ops[m], ops[n])
    BY <1>1, <2>2, OpsAppend
  <2>4. [r EXCEPT !.ops = Append(@, x)] = more
    BY <1>1 DEF Answer
  <2>5. b = IF x[4] = "merge"
            THEN [a EXCEPT !.answer = [more EXCEPT !.state = "merge"]]
            ELSE [done |-> TRUE,
                  answer |->
                    IF x[4] = "put" THEN [more EXCEPT !.state = "found"]
                    ELSE [r EXCEPT !.state = IF r.state = "merge"
                                             THEN "found" ELSE "deleted"]]
    BY <1>4, <2>4 DEF SaveValue
  <2> HIDE DEF ops, b
  <2>6. more \in Answer /\ more.ops = ops /\ more.target = t /\ more.fault = "none"
    BY <1>1, <2>2, <2>3 DEF Answer
  <2> HIDE DEF more
  <2>7. CASE x[4] = "merge"
    <3> DEFINE new == [more EXCEPT !.state = "merge"]
    <3>1. new.ops = ops /\ new.target = t /\ new.fault = "none"
          /\ new.state = "merge"
      BY <2>6 DEF Answer
    <3>2. b = [a EXCEPT !.answer = new]
      BY <2>5, <2>7
    <3> HIDE DEF new
    <3>3. b.done = a.done /\ b.answer = new
      BY <3>2 DEF Scan
    <3>4. \A k \in KK : SameUser(k, t) /\ k[4] = "merge"
      BY <1>4, <2>2, <2>7
    <3>5. GoesOn(b, KK, t)
      BY <1>4, <2>3, <3>1, <3>3, <3>4 DEF GoesOn
    <3> QED
      BY <3>5 DEF Progress, b
  <2>8. CASE x[4] = "put"
    <3> DEFINE new == [more EXCEPT !.state = "found"]
    <3>1. new.ops = ops /\ new.target = t /\ new.fault = "none"
          /\ new.state = "found"
      BY <2>6 DEF Answer
    <3>2. b = [done |-> TRUE, answer |-> new]
      BY <2>5, <2>8
    <3> HIDE DEF new
    <3>3. ToSet(new.ops) = KK /\ x \in AtOrPast(t) /\ x[4] # "merge"
          /\ x[4] # "del"
      BY <2>3, <2>8, <3>1
    <3>4. \A m, n \in DOMAIN new.ops : m < n => Less(new.ops[m], new.ops[n])
      BY <2>3, <3>1
    <3>5. \A k \in K : Less(k, x) /\ SameUser(k, t) /\ k[4] = "merge"
      BY <2>2
    <3>6. \A l \in AtOrPast(t) : l \in K \/ l = x \/ Less(x, l)
      OBVIOUS
    <3> HIDE DEF x
    <3>7. Correct(new)
      BY <1>4, <3>1, <3>3, <3>4, <3>5, <3>6, RightBase
    <3> QED
      BY <3>1, <3>2, <3>7 DEF Progress, b
  <2>9. CASE x[4] = "del"
    <3> DEFINE st == IF r.state = "merge" THEN "found" ELSE "deleted"
               new == [r EXCEPT !.state = st]
    <3>1. st = IF K = {} THEN "deleted" ELSE "found"
      BY <2>2
    <3>2. b = [done |-> TRUE, answer |-> new]
      BY <2>5, <2>9
    <3> HIDE DEF st
    <3>3. new.ops = r.ops /\ new.target = t /\ new.fault = "none"
          /\ new.state = st
      BY <1>1, <2>2 DEF Answer
    <3> HIDE DEF new
    <3>4. Correct(new)
      BY ZenonT(60), <1>4, <2>2, <2>9, <3>1, <3>3, RightBase
    <3> QED
      BY <3>2, <3>3, <3>4 DEF Progress, b
  <2> QED
    BY <1>1, <2>7, <2>8, <2>9 DEF Type
<1> QED
  BY <1>1, <1>2, <1>3, <1>4

\* A block that ends in a value that NextImpl can step over is left after its
\* last entry.
LEMMA OneVisit ==
  ASSUME NEW len \in 1 .. Skip
  PROVE  Visits(len) = 1
<1> DEFINE x == len + Skip - 1
<1>1. x \in Nat /\ Skip \in Nat /\ Skip > 0 /\ Skip <= x /\ x < Skip + Skip
  OBVIOUS
<1>2. Visits(len) = x \div Skip
  BY DEF Visits
<1> HIDE DEF x
<1>3. x \div Skip = 1
  BY <1>1
<1> QED
  BY <1>2, <1>3

\* What Get looks at: the entries of the block at or past its target.
LEMMA SeenRegular ==
  ASSUME BInv, Regular, NEW b \in Blocks, NEW t
  PROVE  LET m == blocks[b].buffer
             s == Seen(m, t)
             lo == Min(Past(b, t))
         IN /\ s \in Seq(Entry)
            /\ Past(b, t) = {} => Len(s) = 0
            /\ Past(b, t) # {} =>
                 /\ lo \in Past(b, t) /\ \A n \in Past(b, t) : lo <= n
                 /\ Len(s) = Len(m) - lo + 1
                 /\ \A n \in 1 .. Len(s) : s[n] = m[lo + n - 1]
<1> DEFINE m == blocks[b].buffer
           s == Seen(m, t)
           L == Len(m)
           past == {n \in DOMAIN m : ~Less(m[n].key, t)}
           lo == Min(Past(b, t))
           last == Last(m)
           p == SubSeq(m, lo, L - 1)
           q == [n \in 1 .. 1 |-> last]
<1>1. m \in Seq(Entry) /\ m # <<>> /\ L \in 1 .. L /\ L \in Nat /\ DOMAIN m = 1 .. L
  BY BlockAt
<1>2. last = m[L] /\ last \in Entry
  BY <1>1 DEF Last
<1>3. past = Past(b, t)
  BY <1>1 DEF Past, KeyAt
<1>4. Visits(last.len) = 1
  <2>1. last.len \in 1 .. Skip
    BY DEF Regular
  <2> QED
    BY <2>1, OneVisit
<1>5. s \in Seq(Entry)
  BY <1>1, SeenEntries
<1>6. CASE past = {}
  <2>1. s = <<>>
    BY <1>6 DEF Seen
  <2> QED
    BY <1>3, <1>5, <1>6, <2>1
<1>7. CASE past # {}
  <2>1. lo \in Past(b, t) /\ \A n \in Past(b, t) : lo <= n
    <3>1. Past(b, t) \subseteq Nat
      BY DEF Past
    <3> QED
      BY <1>3, <1>7, <3>1, MinNat
  <2>2. s = p \o q
    <3>1. s = SubSeq(m, Min(past), L - 1) \o [n \in 1 .. Visits(last.len) |-> last]
      BY <1>7 DEF Seen
    <3> HIDE DEF past, last, s, m
    <3> QED
      BY <1>3, <1>4, <3>1
  <2>3. lo \in 1 .. L
    BY <2>1 DEF Past
  <2> HIDE DEF lo, last, m, s
  <2>4. \A y \in lo .. (L - 1) : m[y] \in Entry
    BY <1>1, <2>3
  <2>5. /\ p \in Seq(Entry) /\ Len(p) = L - lo
        /\ \A n \in 1 .. (L - lo) : p[n] = m[lo + n - 1]
    <3>1. lo \in Int /\ lo <= L /\ L \in Int
      <4>1. L \in Nat
        BY <1>1
      <4> HIDE DEF L
      <4> QED
        BY <2>3, <4>1
    <3> DEFINE h == L - 1
    <3> HIDE DEF L
    <3>2. h \in Int /\ h - lo + 1 = L - lo /\ (lo <= h \/ (~(lo <= h) /\ L - lo = 0))
      BY <3>1
    <3>3. \A y \in lo .. h : m[y] \in Entry
      BY <2>4
    <3>4. p = SubSeq(m, lo, h)
      OBVIOUS
    <3> HIDE DEF p, h
    <3>5. /\ SubSeq(m, lo, h) \in Seq(Entry)
          /\ Len(SubSeq(m, lo, h)) = IF lo <= h THEN h - lo + 1 ELSE 0
          /\ \A n \in 1 .. h - lo + 1 : SubSeq(m, lo, h)[n] = m[lo + n - 1]
      BY <3>1, <3>2, <3>3, SubSeqProperties
    <3> QED
      BY <3>2, <3>4, <3>5
  <2>6. q \in Seq(Entry) /\ Len(q) = 1 /\ q[1] = last
    BY <1>2
  <2> HIDE DEF p, q
  <2>7. /\ Len(p \o q) = Len(p) + Len(q)
        /\ \A n \in 1 .. Len(p) + Len(q) :
             (p \o q)[n] = IF n <= Len(p) THEN p[n] ELSE q[n - Len(p)]
    BY ZenonT(60), <2>5, <2>6, ConcatProperties
  <2>8. Len(s) = L - lo + 1
    BY <1>1, <2>2, <2>3, <2>5, <2>6, <2>7
  <2>9. ASSUME NEW n \in 1 .. Len(s) PROVE s[n] = m[lo + n - 1]
    <3>1. n \in 1 .. Len(p) + Len(q) /\ n \in Nat /\ lo \in Nat /\ L - lo \in Nat
      BY <1>1, <2>3, <2>5, <2>6, <2>8
    <3>2. s[n] = IF n <= Len(p) THEN p[n] ELSE q[n - Len(p)]
      BY <2>2, <2>7, <3>1
    <3>3. CASE n <= L - lo
      <4>1. n \in 1 .. (L - lo)
        BY <3>1, <3>3
      <4> QED
        BY <2>5, <3>2, <3>3, <4>1
    <3>4. CASE ~(n <= L - lo)
      <4>1. n = L - lo + 1 /\ n - (L - lo) = 1 /\ lo + n - 1 = L
        BY <1>1, <2>3, <2>8, <3>1, <3>4
      <4> QED
        BY <1>2, <2>5, <2>6, <3>2, <3>4, <4>1
    <3> QED
      BY <3>3, <3>4
  <2> QED
    BY <1>3, <1>5, <1>7, <2>1, <2>8, <2>9 DEF lo, s, m
<1> HIDE DEF past
<1> QED
  BY <1>3, <1>6, <1>7

\* The keys at or past a target in the blocks before b and among the first n
\* entries of b.
UpToPlace(c, m, b, n) == c < b \/ (c = b /\ m <= n)

Segment(b, n, t) ==
  {k \in AtOrPast(t) : \E c \in Blocks : \E m \in 1 .. Len(blocks[c].buffer) :
                         k = KeyAt(c, m) /\ UpToPlace(c, m, b, n)}

\* Keys know their places.
LEMMA SegmentAt ==
  ASSUME BInv, NEW t, NEW b, NEW n,
         NEW c \in Blocks, NEW m \in 1 .. Len(blocks[c].buffer)
  PROVE  /\ KeyAt(c, m) \in AtOrPast(t) <=> m \in Past(c, t)
         /\ KeyAt(c, m) \in Segment(b, n, t)
              <=> m \in Past(c, t) /\ UpToPlace(c, m, b, n)
<1>1. KeyAt(c, m) \in WrittenKeys /\ KeyAt(c, m) \in AnyKey
  BY Places
<1>2. KeyAt(c, m) \in AtOrPast(t) <=> m \in Past(c, t)
  BY <1>1 DEF AtOrPast, Past
<1>3. ASSUME NEW d \in Blocks, NEW l \in 1 .. Len(blocks[d].buffer),
             KeyAt(c, m) = KeyAt(d, l)
      PROVE  c = d /\ m = l
  <2>1. ~Less(KeyAt(c, m), KeyAt(c, m))
    BY <1>1, KeyOrder
  <2>2. /\ PlaceBefore(c, m, d, l) => Less(KeyAt(c, m), KeyAt(d, l))
        /\ PlaceBefore(d, l, c, m) => Less(KeyAt(d, l), KeyAt(c, m))
        /\ PlaceBefore(c, m, d, l) \/ PlaceBefore(d, l, c, m) \/ (c = d /\ m = l)
    BY KeysGoUp
  <2> QED
    BY <1>3, <2>1, <2>2
<1> QED
  BY <1>2, <1>3 DEF Segment

\* Segments that end between the same two keys are the same.
LEMMA SameSegment ==
  ASSUME BInv, NEW t, NEW b, NEW n, NEW d, NEW l,
         \A c \in Blocks : \A m \in Past(c, t) :
           UpToPlace(c, m, b, n) <=> UpToPlace(c, m, d, l)
  PROVE  Segment(b, n, t) = Segment(d, l, t)
<1>1. ASSUME NEW k \in AtOrPast(t)
      PROVE  k \in Segment(b, n, t) <=> k \in Segment(d, l, t)
  <2>1. k \in WrittenKeys
    BY DEF AtOrPast
  <2>2. PICK c \in Blocks : \E m \in 1 .. Len(blocks[c].buffer) : k = KeyAt(c, m)
    BY <2>1, Places
  <2>3. PICK m \in 1 .. Len(blocks[c].buffer) : k = KeyAt(c, m)
    BY <2>2
  <2>4. m \in Past(c, t)
    BY <2>3, SegmentAt
  <2> QED
    BY <2>3, <2>4, SegmentAt
<1>2. Segment(b, n, t) \subseteq AtOrPast(t) /\ Segment(d, l, t) \subseteq AtOrPast(t)
  BY DEF Segment
<1> QED
  BY <1>1, <1>2

\* With the next key, a segment grows by that key.
LEMMA NextSegment ==
  ASSUME BInv, NEW t, NEW b \in Blocks, NEW n \in Past(b, t)
  PROVE  /\ KeyAt(b, n) \in AtOrPast(t)
         /\ Segment(b, n, t) = Segment(b, n - 1, t) \cup {KeyAt(b, n)}
         /\ \A k \in Segment(b, n - 1, t) : Less(k, KeyAt(b, n))
         /\ \A l \in AtOrPast(t) :
              l \in Segment(b, n - 1, t) \/ l = KeyAt(b, n) \/ Less(KeyAt(b, n), l)
<1> DEFINE x == KeyAt(b, n)
<1>1. n \in 1 .. Len(blocks[b].buffer) /\ n \in Nat /\ b \in Nat
  <2>1. Len(blocks[b].buffer) \in Nat /\ b \in Nat
    BY BlockAt
  <2> QED
    BY <2>1 DEF Past
<1>2. x \in AtOrPast(t)
  BY <1>1, SegmentAt
<1>3. ASSUME NEW k \in AtOrPast(t)
      PROVE  /\ k \in Segment(b, n, t) <=> k \in Segment(b, n - 1, t) \/ k = x
             /\ k \in Segment(b, n - 1, t) => Less(k, x)
             /\ k \in Segment(b, n - 1, t) \/ k = x \/ Less(x, k)
  <2>1. k \in WrittenKeys
    BY DEF AtOrPast
  <2>2. PICK c \in Blocks : \E m \in 1 .. Len(blocks[c].buffer) : k = KeyAt(c, m)
    BY <2>1, Places
  <2>3. PICK m \in 1 .. Len(blocks[c].buffer) : k = KeyAt(c, m)
    BY <2>2
  <2>4. m \in Past(c, t) /\ m \in Nat /\ c \in Nat
    <3>1. Len(blocks[c].buffer) \in Nat /\ c \in Nat
      BY BlockAt
    <3>2. m \in Past(c, t)
      BY <2>3, SegmentAt
    <3> QED
      BY <3>1, <3>2
  <2>5. /\ k \in Segment(b, n, t) <=> UpToPlace(c, m, b, n)
        /\ k \in Segment(b, n - 1, t) <=> UpToPlace(c, m, b, n - 1)
    BY <2>3, <2>4, SegmentAt
  <2>6. UpToPlace(c, m, b, n - 1) <=> PlaceBefore(c, m, b, n)
    BY <1>1, <2>4 DEF UpToPlace, PlaceBefore
  <2>7. UpToPlace(c, m, b, n) <=> PlaceBefore(c, m, b, n) \/ (c = b /\ m = n)
    BY <1>1, <2>4 DEF UpToPlace, PlaceBefore
  <2>8. /\ PlaceBefore(c, m, b, n) => Less(k, x)
        /\ PlaceBefore(b, n, c, m) => Less(x, k)
        /\ PlaceBefore(b, n, c, m) \/ PlaceBefore(c, m, b, n) \/ (b = c /\ n = m)
    BY <1>1, <2>3, KeysGoUp
  <2>9. k \in AnyKey /\ x \in AnyKey
    BY <1>2, <2>1, Places DEF AtOrPast
  <2>10. k = x => ~Less(k, x) /\ ~Less(x, k)
    BY <2>9, KeyOrder
  <2> HIDE DEF x
  <2>11. (c = b /\ m = n) => k = x
    BY <2>3 DEF x
  <2>12. k = x => (c = b /\ m = n)
    BY <2>8, <2>10
  <2> QED
    BY <2>5, <2>6, <2>7, <2>8, <2>11, <2>12
<1>4. Segment(b, n, t) \subseteq AtOrPast(t)
      /\ Segment(b, n - 1, t) \subseteq AtOrPast(t)
  BY DEF Segment
<1> HIDE DEF x
<1> QED
  BY <1>2, <1>3, <1>4 DEF x

\* The check of the index only stops at a block behind the second, whose first
\* user key is that of the index key before it.
LEMMA CorruptionCheck ==
  ASSUME BInv, NEW b \in Blocks, ~check_corruption(b)
  PROVE  b > 2 /\ SameUser(index[b - 1], Head(blocks[b].buffer).key)
<1> DEFINE m == blocks[b].buffer
           L == Len(m)
<1>1. /\ m \in Seq(Entry) /\ m # <<>> /\ L \in 1 .. L /\ 1 \in 1 .. L
      /\ Decoded(blocks[b]) = m /\ b \in Nat
  BY BlockAt, BlockSorted
<1>2. m[L].key \in KeysOf(blocks[b]) /\ m[1].key \in KeysOf(blocks[b])
  BY <1>1, KeysAt
<1>3. ~UserLess(index[b], m[L].key)
  <2>1. ~Less(index[b], m[L].key)
    BY <1>2 DEF BInv, BlocksOrdered
  <2>2. index[b] \in AnyKey /\ m[L].key \in AnyKey
    BY <1>1, BlockAt, EntryAt
  <2> QED
    BY <2>1, <2>2, KeyOrder
<1>4. Last(m) = m[L] /\ Head(m) = m[1]
  BY <1>1 DEF Last
<1>5. b > 2 /\ ~UserLess(index[b - 1], m[1].key)
  <2>1. check_corruption(b) <=>
          /\ ~UserLess(index[b], Last(m).key)
          /\ b > 2 => UserLess(index[b - 1], Head(m).key)
    BY <1>1 DEF check_corruption
  <2> HIDE DEF m, L
  <2> QED
    BY <1>3, <1>4, <2>1
<1>6. b - 1 \in Blocks /\ b - 1 < b
  BY <1>1, <1>5 DEF Blocks
<1>7. Less(index[b - 1], m[1].key)
  BY <1>2, <1>6 DEF BInv, BlocksOrdered, Separates
<1>8. index[b - 1] \in AnyKey /\ m[1].key \in AnyKey
  BY <1>1, <1>6, BlockAt, EntryAt
<1>9. SameUser(index[b - 1], m[1].key)
  BY <1>5, <1>7, <1>8, KeyOrder
<1> QED
  BY <1>4, <1>5, <1>9

\* A scan that stopped has its answer, whatever it has seen.
LEMMA DoneProgress ==
  ASSUME NEW a, NEW K, NEW t, Progress(a, K, t), a.done, NEW M
  PROVE  Progress(a, M, t)
BY DEF Progress, GoesOn

\* The scan of one block.
LEMMA BlockProgress ==
  ASSUME BInv, Regular, NEW t \in Target, NEW b \in Blocks, b >= IndexSeek(t),
         NEW a \in Scan, Progress(a, Segment(b, 0, t), t), NEW bad \in Unreadable
  PROVE  Progress(GetBlock(a, b, t, bad), Segment(b + 1, 0, t), t)
<1> DEFINE m == blocks[b].buffer
           s == Seen(m, t)
           L == Len(m)
           lo == Min(Past(b, t))
           S(n) == Segment(b, n, t)
<1>1. /\ m \in Seq(Entry) /\ L \in Nat /\ L \in 1 .. L /\ b \in Nat
      /\ \A c \in Blocks : c \in Nat
  BY BlockAt
<1>2. PICK f : /\ Saves(f, a, s, t)
               /\ GetBlock(a, b, t, bad) =
                    IF a.done THEN a
                    ELSE IF b \in bad THEN Stops(a, "bounds")
                    ELSE IF check_corruption(b) THEN f[Len(s)]
                    ELSE Stops(a, "exit")
  BY GetBlockSaves
<1>3. /\ s \in Seq(Entry)
      /\ Past(b, t) = {} => Len(s) = 0
      /\ Past(b, t) # {} =>
           /\ lo \in Past(b, t) /\ \A n \in Past(b, t) : lo <= n
           /\ Len(s) = L - lo + 1
           /\ \A n \in 1 .. Len(s) : s[n] = m[lo + n - 1]
  BY SeenRegular
<1>4. a.answer.target = t
  BY DEF Progress, GoesOn
<1>5. CASE a.done
  BY <1>2, <1>5, DoneProgress
<1>6. CASE ~a.done /\ b \in bad
  <2> DEFINE z == Stops(a, "bounds")
  <2>1. z.done /\ z.answer.fault = "bounds" /\ z.answer.target = t
    BY <1>4, StopScans DEF Fault
  <2>2. AllowReadError
    BY <1>6 DEF Unreadable
  <2> HIDE DEF z
  <2>3. Correct(z.answer)
    BY <2>1, <2>2 DEF Correct
  <2> QED
    BY <1>2, <1>6, <2>1, <2>3 DEF Progress, z
<1>7. CASE ~a.done /\ b \notin bad /\ ~check_corruption(b)
  <2> DEFINE z == Stops(a, "exit")
  <2>1. z.done /\ z.answer.fault = "exit" /\ z.answer.target = t
    BY <1>4, StopScans DEF Fault
  <2>2. b > 2 /\ SameUser(index[b - 1], Head(blocks[b].buffer).key)
    BY <1>7, CorruptionCheck
  <2> HIDE DEF z
  <2>3. Correct(z.answer)
    BY <2>1, <2>2 DEF Correct
  <2> QED
    BY <1>2, <1>7, <2>1, <2>3 DEF Progress, z
<1>8. CASE ~a.done /\ b \notin bad /\ check_corruption(b)
  <2>1. GetBlock(a, b, t, bad) = f[Len(s)]
    BY <1>2, <1>8
  <2>2. Len(s) \in Nat
    BY <1>3
  <2>3. \A n \in 0 .. Len(s) :
          f[n] \in Scan /\ f[n] = IF n = 0 THEN a ELSE SaveValue(f[n - 1], s[n], t)
    BY <1>2 DEF Saves
  <2>4. f[0] = a
    BY <2>2, <2>3
  <2> HIDE DEF s, lo
  <2>5. ASSUME NEW c \in Blocks, NEW n \in Past(c, t)
        PROVE  /\ c \in Nat /\ n \in Nat /\ n \in 1 .. Len(blocks[c].buffer)
               /\ c = b => n \in 1 .. L /\ n \in Past(b, t)
    <3>1. Len(blocks[c].buffer) \in Nat /\ c \in Nat
      BY BlockAt
    <3> QED
      BY <3>1 DEF Past
  <2>6. CASE Past(b, t) = {}
    <3>1. ASSUME NEW c \in Blocks, NEW n \in Past(c, t)
          PROVE  UpToPlace(c, n, b, 0) <=> UpToPlace(c, n, b + 1, 0)
      <4>1. c # b
        BY <2>5, <2>6, <3>1
      <4>2. c \in Nat /\ n \in Nat /\ n # 0
        BY <2>5
      <4> QED
        BY <1>1, <4>1, <4>2 DEF UpToPlace
    <3>2. S(0) = Segment(b + 1, 0, t)
      BY <3>1, SameSegment
    <3>3. f[Len(s)] = a
      BY <1>3, <2>4, <2>6
    <3> QED
      BY <2>1, <3>2, <3>3
  <2>7. CASE Past(b, t) # {}
    <3>1. /\ lo \in Past(b, t) /\ \A n \in Past(b, t) : lo <= n
          /\ Len(s) = L - lo + 1
          /\ \A n \in 1 .. Len(s) : s[n] = m[lo + n - 1]
      BY <1>3, <2>7
    <3>2. lo \in 1 .. L /\ lo \in Nat /\ lo - 1 \in Nat
      BY <2>5, <3>1
    <3> DEFINE N == Len(s)
               G == {n \in 0 .. N : Progress(f[n], S(lo - 1 + n), t)}
    <3>3. 0 \in G
      <4>1. ASSUME NEW c \in Blocks, NEW n \in Past(c, t)
            PROVE  UpToPlace(c, n, b, 0) <=> UpToPlace(c, n, b, lo - 1)
        <5>1. c = b => lo <= n
          BY <2>5, <3>1
        <5>2. c \in Nat /\ n \in Nat /\ n # 0
          BY <2>5
        <5> QED
          BY <1>1, <3>2, <5>1, <5>2 DEF UpToPlace
      <4>2. S(0) = S(lo - 1)
        BY <4>1, SameSegment
      <4>3. lo - 1 + 0 = lo - 1 /\ 0 \in 0 .. N
        BY <2>2, <3>2
      <4> QED
        BY <2>4, <4>2, <4>3
    <3>4. ASSUME NEW n \in 0 .. N, n # 0, n - 1 \in G PROVE n \in G
      <4> DEFINE p == lo + n - 1
      <4>1. n \in Nat /\ n \in 1 .. N /\ p \in lo .. L /\ p \in 1 .. L /\ p \in Nat
            /\ lo - 1 + n = p /\ lo - 1 + (n - 1) = p - 1 /\ n - 1 \in 0 .. N
        <5>1. L \in Nat /\ N \in Nat /\ lo \in Nat /\ lo >= 1 /\ N = L - lo + 1
          BY <1>1, <2>2, <3>1, <3>2
        <5>2. n \in Nat /\ n >= 1 /\ n <= N
          BY <2>2, <3>4
        <5> HIDE DEF L, N
        <5> QED
          BY <5>1, <5>2
      <4>2. s[n] = m[p] /\ s[n] \in Entry /\ s[n].key = KeyAt(b, p)
        BY <1>3, <3>1, <4>1 DEF KeyAt
      <4>3. f[n] = SaveValue(f[n - 1], s[n], t) /\ f[n - 1] \in Scan
        BY <2>3, <3>4, <4>1
      <4> HIDE DEF p
      <4>4. Progress(f[n - 1], S(p - 1), t)
        BY <3>4, <4>1
      <4>5. p \in Past(b, t)
        <5>1. CASE p = lo
          BY <3>1, <5>1
        <5>2. CASE p # lo
          <6>1. PlaceBefore(b, lo, b, p)
            BY <3>2, <4>1, <5>2 DEF PlaceBefore
          <6>2. Less(KeyAt(b, lo), KeyAt(b, p))
            BY <3>2, <4>1, <6>1, KeysGoUp
          <6>3. ~Less(KeyAt(b, lo), t)
            BY <3>1 DEF Past
          <6>4. KeyAt(b, lo) \in AnyKey /\ KeyAt(b, p) \in AnyKey /\ t \in AnyKey
            BY <3>2, <4>1, Places DEF AnyKey
          <6>5. ~Less(KeyAt(b, p), t)
            BY <6>2, <6>3, <6>4, KeyOrder
          <6> QED
            BY <4>1, <6>5 DEF Past
        <5> QED
          BY <5>1, <5>2
      <4>6. /\ KeyAt(b, p) \in AtOrPast(t)
            /\ S(p) = S(p - 1) \cup {KeyAt(b, p)}
            /\ \A k \in S(p - 1) : Less(k, KeyAt(b, p))
            /\ \A l \in AtOrPast(t) :
                 l \in S(p - 1) \/ l = KeyAt(b, p) \/ Less(KeyAt(b, p), l)
        BY <4>5, NextSegment
      <4>7. S(p - 1) \subseteq AtOrPast(t)
        BY DEF Segment
      <4> HIDE DEF S
      <4>8. Progress(SaveValue(f[n - 1], s[n], t), S(p - 1) \cup {s[n].key}, t)
        BY <4>2, <4>3, <4>4, <4>6, <4>7, SaveProgress
      <4> QED
        BY <4>1, <4>2, <4>3, <4>6, <4>8
    <3> HIDE DEF G
    <3>5. \A n \in 0 .. N : n \in G
      <4>1. 0 \in Nat
        OBVIOUS
      <4> QED
        BY <2>2, <3>3, <3>4, <4>1, UpTo
    <3>6. N \in 0 .. N /\ lo - 1 + N = L
      BY <1>1, <2>2, <3>1, <3>2
    <3>7. Progress(f[N], S(L), t)
      <4>1. N \in G
        BY <3>5, <3>6
      <4> QED
        BY <3>6, <4>1 DEF G
    <3>8. S(L) = Segment(b + 1, 0, t)
      <4>1. ASSUME NEW c \in Blocks, NEW n \in Past(c, t)
            PROVE  UpToPlace(c, n, b, L) <=> UpToPlace(c, n, b + 1, 0)
        <5>1. c = b => n <= L
          BY <1>1, <2>5
        <5>2. c \in Nat /\ n \in Nat /\ n # 0 /\ ~(n <= 0)
          BY <2>5
        <5>3. UpToPlace(c, n, b, L) <=> c < b \/ c = b
          BY <5>1 DEF UpToPlace
        <5>4. UpToPlace(c, n, b + 1, 0) <=> c < b + 1
          BY <5>2 DEF UpToPlace
        <5>5. c < b + 1 <=> c < b \/ c = b
          BY <1>1, <5>2
        <5> QED
          BY <5>3, <5>4, <5>5
      <4> QED
        BY <4>1, SameSegment
    <3> QED
      BY <2>1, <3>7, <3>8
  <2> QED
    BY <2>6, <2>7
<1> QED
  BY <1>5, <1>6, <1>7, <1>8

\* Get answers with what was written, or for a reason stops.
LEMMA GetAnswers ==
  ASSUME BInv, Regular, NEW t \in Target, NEW bad \in Unreadable
  PROVE  Correct(GetResult(t, bad))
<1> DEFINE first == IndexSeek(t)
           N == Len(blocks)
           start == Begin(t)
<1>1. /\ N \in Nat /\ first \in 0 .. N /\ Blocks = 1 .. N
  BY IndexLeads DEF BInv, TableType, Blocks
<1>2. /\ start \in Scan /\ ~start.done /\ start.answer.target = t
      /\ start.answer.state = "notfound" /\ start.answer.ops = <<>>
      /\ start.answer.fault = "none"
  BY BeginScans
<1> HIDE DEF start
<1>3. GoesOn(start, {}, t)
  <2>1. ToSet(<<>>) = {} /\ DOMAIN <<>> = {}
    BY DEF ToSet
  <2> QED
    BY <1>2, <2>1 DEF GoesOn
<1>4. CASE first = 0
  <2>1. GetResult(t, bad) = start.answer
    BY <1>4, GetLoops DEF start
  <2>2. \A k \in WrittenKeys : Less(k, t)
    BY <1>4, IndexLeadsTo
  <2>3. {k \in AtOrPast(t) : SameUser(k, t)} = {}
    BY <2>2 DEF AtOrPast
  <2> QED
    BY <1>3, <2>1, <2>3, RightEnds
<1>5. CASE first # 0
  <2>1. PICK f : Loops(f, t, bad) /\ GetResult(t, bad) = f[N].answer
    BY <1>5, GetLoops
  <2>2. first \in Blocks /\ LeadsTo(first, t)
    BY <1>5, IndexLeadsTo
  <2> DEFINE lo == first - 1
             G == {b \in lo .. N : Progress(f[b], Segment(b + 1, 0, t), t)}
  <2>3. lo \in Nat /\ lo \in lo .. N /\ lo + 1 = first /\ N \in lo .. N
    BY <1>1, <2>2
  <2>4. \A b \in lo .. N :
          f[b] \in Scan /\ f[b] = IF b = lo THEN start
                                  ELSE GetBlock(f[b - 1], b, t, bad)
    BY <2>1 DEF Loops, start
  <2>5. Segment(first, 0, t) = {}
    <3>1. ASSUME NEW k \in Segment(first, 0, t) PROVE FALSE
      <4>1. k \in AtOrPast(t)
        BY DEF Segment
      <4>2. PICK c \in Blocks : \E m \in 1 .. Len(blocks[c].buffer) :
                   k = KeyAt(c, m) /\ UpToPlace(c, m, first, 0)
        BY DEF Segment
      <4>3. PICK m \in 1 .. Len(blocks[c].buffer) :
                   k = KeyAt(c, m) /\ UpToPlace(c, m, first, 0)
        BY <4>2
      <4>4. c < first
        <5>1. Len(blocks[c].buffer) \in Nat
          BY BlockAt
        <5>2. ~(m <= 0)
          BY <5>1
        <5> QED
          BY <4>3, <5>2 DEF UpToPlace
      <4>5. Less(k, t)
        BY <2>2, <4>3, <4>4, Places DEF LeadsTo
      <4> QED
        BY <4>1, <4>5 DEF AtOrPast
    <3> QED
      BY <3>1
  <2>6. lo \in G
    <3>1. f[lo] = start
      BY <2>3, <2>4
    <3> QED
      BY <1>3, <2>3, <2>5, <3>1 DEF Progress
  <2>7. ASSUME NEW b \in lo .. N, b # lo, b - 1 \in G PROVE b \in G
    <3>1. b \in Nat /\ b \in Blocks /\ b >= first /\ (b - 1) + 1 = b
          /\ b - 1 \in lo .. N
      <4>1. b \in Nat /\ lo <= b /\ b <= N
        BY <1>1, <2>3
      <4> HIDE DEF lo, N
      <4> QED
        BY <1>1, <2>3, <2>7, <4>1
    <3>2. f[b] = GetBlock(f[b - 1], b, t, bad) /\ f[b - 1] \in Scan
      BY <2>4, <2>7, <3>1
    <3>3. Progress(f[b - 1], Segment(b, 0, t), t)
      BY <2>7, <3>1
    <3>4. Progress(GetBlock(f[b - 1], b, t, bad), Segment(b + 1, 0, t), t)
      BY <3>1, <3>2, <3>3, BlockProgress
    <3> QED
      BY <3>2, <3>4
  <2> HIDE DEF G
  <2>8. \A b \in lo .. N : b \in G
    BY <1>1, <2>3, <2>6, <2>7, UpTo
  <2>9. Progress(f[N], Segment(N + 1, 0, t), t)
    <3>1. N \in G
      BY <2>3, <2>8
    <3> QED
      BY <3>1 DEF G
  <2>10. Segment(N + 1, 0, t) = AtOrPast(t)
    <3>1. ASSUME NEW k \in AtOrPast(t) PROVE k \in Segment(N + 1, 0, t)
      <4>1. k \in WrittenKeys
        BY DEF AtOrPast
      <4>2. PICK c \in Blocks : \E m \in 1 .. Len(blocks[c].buffer) : k = KeyAt(c, m)
        BY <4>1, Places
      <4>3. PICK m \in 1 .. Len(blocks[c].buffer) : k = KeyAt(c, m)
        BY <4>2
      <4>4. c < N + 1
        BY <1>1
      <4>5. UpToPlace(c, m, N + 1, 0)
        BY <4>4 DEF UpToPlace
      <4> QED
        BY <4>3, <4>5 DEF Segment
    <3> QED
      BY <3>1 DEF Segment
  <2>11. CASE f[N].done
    BY <2>1, <2>9, <2>11 DEF Progress, GoesOn
  <2>12. CASE ~f[N].done
    <3>1. GoesOn(f[N], AtOrPast(t), t)
      BY <2>9, <2>10, <2>12 DEF Progress
    <3>2. AtOrPast(t) = {k \in AtOrPast(t) : SameUser(k, t)}
      BY <3>1 DEF GoesOn
    <3> QED
      BY <2>1, <3>1, <3>2, RightEnds
  <2> QED
    BY <2>11, <2>12
<1> QED
  BY <1>4, <1>5

\* What is promised of an answer depends on the table alone.
LEMMA PromiseOfTable ==
  ASSUME UNCHANGED tableVars
  PROVE  GetCorrect' <=> (answer' # NoAnswer /\ Regular => Correct(answer'))
<1>1. /\ blocks' = blocks /\ index' = index
      /\ seperator_is_key_plus_seq_' = seperator_is_key_plus_seq_
  BY DEF tableVars
<1>2. Blocks' = Blocks /\ (Regular' <=> Regular) /\ WrittenKeys' = WrittenKeys
  BY <1>1 DEF Blocks, Regular, WrittenKeys
<1>3. AtOrPast(answer.target)' = AtOrPast(answer'.target)
  BY <1>2 DEF AtOrPast
<1>4. Right(answer)' <=> Right(answer')
  BY <1>3 DEF Right
<1>5. IndexSeek(answer.target)' = IndexSeek(answer'.target)
  BY <1>1, <1>2 DEF IndexSeek, IndexBefore
<1> QED
  BY <1>1, <1>2, <1>4, <1>5 DEF GetCorrect, Correct

\* In a Regular table Get finds exactly the entries that were written.  Only a
\* failed read, or the check of the index on a block that begins with the user
\* key of the block before it, can stop it.
THEOREM GetFinds == Spec => []GetCorrect
<1>1. Init => GetCorrect
  BY DEF Init, GetCorrect
<1>2. IInv /\ GetCorrect /\ [Next]_vars => GetCorrect'
  <2> SUFFICES ASSUME IInv, GetCorrect, [Next]_vars PROVE GetCorrect'
    OBVIOUS
  <2>1. ASSUME NEW t \in Target, Get(t) PROVE GetCorrect'
    <3>1. PICK bad \in Unreadable : answer' = GetResult(t, bad)
      BY <2>1 DEF Get
    <3>2. UNCHANGED tableVars
      BY <2>1 DEF Get
    <3>3. Regular => Correct(answer')
      BY <3>1, GetAnswers DEF IInv
    <3> QED
      BY <3>2, <3>3, PromiseOfTable
  <2>2. ASSUME UNCHANGED <<tableVars, answer>> PROVE GetCorrect'
    <3>1. UNCHANGED tableVars /\ answer' = answer
      BY <2>2
    <3>2. answer # NoAnswer /\ Regular => Correct(answer)
      BY DEF GetCorrect, Correct
    <3> QED
      BY <3>1, <3>2, PromiseOfTable
  <2>3. ASSUME answer' = NoAnswer PROVE GetCorrect'
    BY <2>3 DEF GetCorrect, NoAnswer
  <2>4. ASSUME phase = "build", UNCHANGED answer PROVE GetCorrect'
    BY <2>3, <2>4 DEF IInv, BInv, Phases
  <2>5. ASSUME NEW key \in Key,
               NEW n \in {v[2] : v \in {v \in Values : v[1] = key[4]}},
               Add(key, n) \/ FlushAndAdd(key, n)
        PROVE  GetCorrect'
    BY <2>4, <2>5 DEF Add, FlushAndAdd
  <2>6. CASE Finish
    BY <2>4, <2>6 DEF Finish
  <2>7. ASSUME NEW t \in Target, Seek(t) \/ SeekForPrev(t) PROVE GetCorrect'
    BY <2>2, <2>7 DEF Seek, SeekForPrev, Iterate
  <2>8. CASE SeekToFirst \/ SeekToLast \/ NextEntry \/ PrevEntry \/ Value
    BY <2>2, <2>8 DEF SeekToFirst, SeekToLast, NextEntry, PrevEntry, Value,
                      Iterate
  <2>9. CASE NewIterator
    BY <2>3, <2>9 DEF NewIterator
  <2>10. CASE UNCHANGED vars
    BY <2>2, <2>10 DEF vars
  <2> QED
    BY <2>1, <2>5, <2>6, <2>7, <2>8, <2>9, <2>10 DEF Next
<1> QED
  BY <1>1, <1>2, Inductive, PTL DEF Spec

=============================================================================
