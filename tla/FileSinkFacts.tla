---------------------------- MODULE FileSinkFacts ----------------------------
(***************************************************************************)
(* What each operation on a file and its sync log does to what they keep   *)
(* of the writes taken (KeptFile): writes, fsyncs, truncations, losses of  *)
(* power, the log's entries written, removed, put back.                    *)
(***************************************************************************)
EXTENDS KeptFile, SequenceTheorems, WellFoundedInduction, TLAPS

\* Zenon is given a minute a leaf; the leaves that count name the SMT solver.
USE ZenonT(60)

\* What a database may have taken.
Taken == Seq(Nat \ {0})

------------------------------------------------------------------------------
(* Numbers.                                                                *)

\* A set of numbers that is not empty has a least one (the first entry past a
\* place).
LEMMA LeastOf ==
    ASSUME NEW S \in SUBSET Nat, S # {}
    PROVE  \E x \in S : \A y \in S : x <= y
<1> DEFINE R == {ss \in Nat \X Nat : ss[1] < ss[2]}
<1>1. IsWellFoundedOn(R, Nat)
  BY NatLessThanWellFounded DEF OpToRel
<1>2. \A x, y \in Nat : y < x => <<y, x>> \in R
  OBVIOUS
<1> HIDE DEF R
<1>3. PICK x \in S : \A y \in S : ~(<<y, x>> \in R)
  BY <1>1, WFMin
<1>4. \A y \in S : ~(y < x)
  BY <1>2, <1>3
<1>5. QED
  BY SMTT(60), <1>4

\* One with a bound has a greatest, and that is its Max (Whole, Readable).
LEMMA MaxOf ==
    ASSUME NEW n \in Nat, NEW S \in SUBSET (0 .. n), S # {}
    PROVE  Max(S) \in S /\ \A y \in S : y <= Max(S)
<1> DEFINE T == {m \in Nat : \A y \in S : y <= m}
<1>1. n \in T
  BY SMTT(60)
<1>2. PICK x \in T : \A m \in T : x <= m
  BY <1>1, LeastOf
<1>3. PICK z \in S : TRUE
  OBVIOUS
<1>4. x \in S
  <2>1. CASE x = 0
    BY SMTT(60), <1>2, <1>3, <2>1
  <2>2. CASE x # 0 /\ x \notin S
    <3>1. x - 1 \in T
      BY SMTT(60), <1>2, <2>2
    <3>2. QED
      BY SMTT(60), <1>2, <2>2, <3>1
  <2>3. QED
    BY <2>1, <2>2
<1>5. x \in S /\ \A y \in S : x >= y
  BY SMTT(60), <1>2, <1>4
<1>6. Max(S) \in S /\ \A y \in S : Max(S) >= y
  BY <1>5 DEF Max
<1>7. QED
  BY SMTT(60), <1>6

\* The greater of two (fingerprint's start, the length after a loss of power).
LEMMA MaxOfTwo ==
    ASSUME NEW a \in Int, NEW b \in Int
    PROVE  Max({a, b}) = IF a >= b THEN a ELSE b
<1>1. \E x \in {a, b} : \A y \in {a, b} : x >= y
  BY SMTT(60)
<1>2. Max({a, b}) \in {a, b} /\ \A y \in {a, b} : Max({a, b}) >= y
  BY <1>1 DEF Max
<1>3. QED
  BY SMTT(60), <1>2

\* The lesser of two (set_len).
LEMMA MinOfTwo ==
    ASSUME NEW a \in Int, NEW b \in Int
    PROVE  Min({a, b}) = IF a <= b THEN a ELSE b
<1>1. \E x \in {a, b} : \A y \in {a, b} : x <= y
  BY SMTT(60)
<1>2. Min({a, b}) \in {a, b} /\ \A y \in {a, b} : Min({a, b}) <= y
  BY <1>1 DEF Min
<1>3. QED
  BY SMTT(60), <1>2

\* The numbers a sequence holds have a bound.
LEMMA BoundOf ==
    ASSUME NEW n \in Nat, NEW g \in [1 .. n -> Nat]
    PROVE  \E b \in Nat : \A i \in 1 .. n : g[i] <= b
<1> DEFINE S == {m \in Nat : m <= n /\ \A b \in Nat : \E i \in 1 .. m : ~(g[i] <= b)}
<1>1. CASE S = {}
  <2>1. n \notin S
    BY <1>1
  <2>2. n <= n
    BY SMTT(60)
  <2>3. QED
    BY <2>1, <2>2
<1>2. CASE S # {}
  <2>1. PICK m \in S : \A y \in S : m <= y
    BY <1>2, LeastOf
  <2>2. m # 0
    <3>1. 0 \in Nat
      BY SMTT(60)
    <3>2. \A b \in Nat : \E i \in 1 .. m : ~(g[i] <= b)
      BY <2>1
    <3>3. PICK i \in 1 .. m : TRUE
      BY <3>1, <3>2
    <3>4. \A j : ~(j \in 1 .. 0)
      BY SMTT(60)
    <3>5. \A n0 : n0 = 0 => 1 .. n0 = 1 .. 0
      OBVIOUS
    <3>6. QED
      BY <3>3, <3>4, <3>5
  <2>3. m - 1 \in Nat /\ m - 1 <= n /\ m - 1 \notin S /\ m \in 1 .. n
    <3>1. m \in Nat /\ m <= n /\ \A y \in S : m <= y
      BY <2>1
    <3>2. \A x \in Nat : x # 0 /\ x <= n =>
              x - 1 \in Nat /\ x - 1 <= n /\ ~(x <= x - 1) /\ x \in 1 .. n
      BY SMTT(60)
    <3>3. QED
      BY <2>2, <3>1, <3>2
  <2>4. PICK b \in Nat : \A i \in 1 .. (m - 1) : g[i] <= b
    BY <2>3
  <2>5. g[m] \in Nat
    BY <2>3
  <2>6. \A i \in 1 .. m : g[i] <= b + g[m]
    <3> TAKE i \in 1 .. m
    <3>1. CASE i = m
      BY SMTT(60), <2>5, <3>1
    <3>2. CASE i # m
      <4>1. i \in 1 .. (m - 1) /\ i \in 1 .. n
        BY SMTT(60), <2>3, <3>2
      <4>2. g[i] <= b /\ g[i] \in Nat
        BY <2>4, <4>1
      <4>3. QED
        BY SMTT(60), <2>5, <4>2
    <3>3. QED
      BY <3>1, <3>2
  <2>7. b + g[m] \in Nat
    BY SMTT(60), <2>5
  <2>8. QED
    BY <2>1, <2>6, <2>7
<1>3. QED
  BY <1>1, <1>2

------------------------------------------------------------------------------
(* Records in their place.                                                 *)

\* A part of a sequence.
LEMMA PartOf ==
    ASSUME NEW S, NEW s \in Seq(S), NEW m \in Nat \ {0}, NEW n \in 0 .. Len(s)
    PROVE  /\ SubSeq(s, m, n) \in Seq(S)
           /\ Len(SubSeq(s, m, n)) = IF m <= n THEN n - m + 1 ELSE 0
           /\ \A i \in 1 .. n - m + 1 : SubSeq(s, m, n)[i] = s[m + i - 1]
  BY SMTT(60)

\* Sequences that agree on a part have the same part.
LEMMA SamePart ==
    ASSUME NEW S, NEW s \in Seq(S), NEW t \in Seq(S), NEW m \in Nat \ {0}, NEW n \in Nat,
           n <= Len(s), n <= Len(t), \A i \in m .. n : s[i] = t[i]
    PROVE  SubSeq(s, m, n) = SubSeq(t, m, n)
  BY SMTT(60)

\* A record is no bytes lost and no record cut short; what it holds is told by
\* its place.
LEMMA GoodRecord ==
    ASSUME NEW d \in Taken, NEW o \in Int, NEW i \in Int, NEW c, Good(d, o, i, c)
    PROVE  c \in Cell /\ c \notin {Bad, Torn} /\ Len(c) = o + i /\ c \in Taken
<1>1. c \in Taken /\ Len(c) = o + i
  BY SMTT(60) DEF Taken, Good
<1>2. c \in Cell
  <2>1. (Nat \ {0}) \subseteq Int
    BY SMTT(60)
  <2>2. QED
    BY <1>1, <2>1, SeqMonotonic DEF Cell, Taken
<1>3. c # <<0>> /\ c # <<-1>>
  BY SMTT(60), <1>1 DEF Taken
<1>4. QED
  BY <1>1, <1>2, <1>3 DEF Bad, Torn

\* A start of the writes taken has the records of its places, and no other.
LEMMA GoodCut ==
    ASSUME NEW d \in Taken, NEW m \in 0 .. Len(d), NEW o \in Int, NEW i \in Int, NEW c
    PROVE  /\ SubSeq(d, 1, m) \in Taken /\ Len(SubSeq(d, 1, m)) = m
           /\ Good(SubSeq(d, 1, m), o, i, c) => Good(d, o, i, c)
           /\ Good(d, o, i, c) /\ o + i <= m => Good(SubSeq(d, 1, m), o, i, c)
  BY SMTT(60) DEF Taken, Good

\* The fingerprint before a place is that of the cells before it.
LEMMA SamePrint ==
    ASSUME NEW s \in Seq(Cell), NEW t \in Seq(Cell), NEW base \in Nat,
           base <= Len(s), base <= Len(t), \A i \in 1 .. base : s[i] = t[i]
    PROVE  Fingerprint(s, base) = Fingerprint(t, base)
<1> DEFINE m == Max({1, base - PrintLen + 1})
<1>1. base - PrintLen + 1 \in Int /\ 1 \in Int
  BY SMTT(60), LogAssumption
<1>2. m = IF 1 >= base - PrintLen + 1 THEN 1 ELSE base - PrintLen + 1
  BY <1>1, MaxOfTwo
<1> HIDE DEF m
<1>3. m \in Nat \ {0}
  BY SMTT(60), <1>1, <1>2
<1>4. \A i \in m .. base : s[i] = t[i]
  BY SMTT(60), <1>3
<1>5. SubSeq(s, m, base) = SubSeq(t, m, base)
  BY <1>3, <1>4, SamePart
<1>6. QED
  BY <1>5 DEF Fingerprint, m

\* A file that is kept has its type.
LEMMA FileTypes ==
    ASSUME NEW d \in Taken, NEW o, NEW f, FileKept(d, o, f)
    PROVE  /\ o \in Int /\ o + 1 >= 0 /\ o <= Len(d) /\ Len(d) \in Nat
           /\ f \in File /\ f.ino \in Nat /\ f.cache \in Seq(Cell) /\ f.disk \in Seq(Cell)
           /\ Len(f.cache) \in Nat /\ Len(f.disk) \in Nat /\ Len(f.disk) <= Len(f.cache)
           /\ f.dirty \in SUBSET (1 .. Len(f.cache))
<1>1. f \in File /\ Written(f) /\ o \in Int /\ o + 1 >= 0 /\ o <= Len(d)
  BY DEF FileKept
<1>2. f.ino \in Nat /\ f.cache \in Seq(Cell) /\ f.disk \in Seq(Cell)
  BY <1>1 DEF File
<1>3. Len(f.cache) \in Nat /\ Len(f.disk) \in Nat /\ Len(d) \in Nat
  BY <1>2, LenProperties DEF Taken
<1>4. QED
  BY <1>1, <1>2, <1>3 DEF Written

\* Places on the disk are places of the file.
LEMMA CleanPlaces ==
    ASSUME NEW d \in Taken, NEW o, NEW f, FileKept(d, o, f), NEW n \in Nat,
           CleanTo(d, o, f, n)
    PROVE  n <= Len(f.disk) /\ n <= Len(f.cache)
<1>1. Len(f.cache) \in Nat /\ Len(f.disk) \in Nat /\ Len(f.disk) <= Len(f.cache)
  BY FileTypes
<1>2. \A p \in 1 .. n : p \in 1 .. Len(f.disk)
  BY DEF CleanTo, Clean
<1>3. QED
  BY SMTT(60), <1>1, <1>2

\* One file holds what another did: every place on the disk, and every record.
Carried(d, o, f, d2, f2) ==
    /\ f2.ino = f.ino
    /\ \A p : Clean(d, o, f, p) => Clean(d2, o, f2, p) /\ f2.cache[p] = f.cache[p]
    /\ \A i \in Int : \A c : Good(d, o, i, c) => Good(d2, o, i, c)

\* What was on the disk as far as a place in one file is in the other, when it
\* holds what the first did.
LEMMA CarriedClean ==
    ASSUME NEW d, NEW o, NEW f, NEW d2, NEW f2, Carried(d, o, f, d2, f2), NEW n,
           CleanTo(d, o, f, n)
    PROVE  CleanTo(d2, o, f2, n)
  BY DEF Carried, CleanTo

\* A header's types, and those of an entry.
LEMMA LogTypes ==
    ASSUME NEW l, NEW ld, LogPair(l, ld)
    PROVE  /\ \A h \in Heads(l, ld) : /\ h \in Header /\ h.gen \in Nat \ {0} /\ h.base \in Nat
                                      /\ h.ino \in Nat /\ h.print \in Seq(Cell)
           /\ \A E \in Entries(l, ld) :
                 /\ E \in Seq(Entry) /\ Len(E) \in Nat
                 /\ \A k \in 1 .. Len(E) :
                       /\ E[k] \in Entry /\ E[k].gen \in Nat /\ E[k].at \in Nat
                       /\ E[k].cells \in Seq(Cell) /\ Len(E[k].cells) \in Nat
                       /\ EndOf(E[k]) \in Nat /\ E[k].at <= EndOf(E[k])
<1>1. l \in LogFile /\ ld \in LogFile
  BY DEF LogPair
<1>2. ASSUME NEW h \in Heads(l, ld)
      PROVE  /\ h \in Header /\ h.gen \in Nat \ {0} /\ h.base \in Nat
             /\ h.ino \in Nat /\ h.print \in Seq(Cell)
  <2>1. h \in Header
    BY <1>1 DEF LogFile, Heads
  <2>2. QED
    BY <2>1 DEF Header
<1>3. ASSUME NEW E \in Entries(l, ld)
      PROVE  /\ E \in Seq(Entry) /\ Len(E) \in Nat
             /\ \A k \in 1 .. Len(E) :
                   /\ E[k] \in Entry /\ E[k].gen \in Nat /\ E[k].at \in Nat
                   /\ E[k].cells \in Seq(Cell) /\ Len(E[k].cells) \in Nat
                   /\ EndOf(E[k]) \in Nat /\ E[k].at <= EndOf(E[k])
  <2>1. E \in Seq(Entry) /\ Len(E) \in Nat
    <3>1. E \in Seq(Entry)
      BY <1>1 DEF LogFile, Entries
    <3>2. QED
      BY <3>1, LenProperties
  <2>2. ASSUME NEW k \in 1 .. Len(E)
        PROVE  /\ E[k] \in Entry /\ E[k].gen \in Nat /\ E[k].at \in Nat
               /\ E[k].cells \in Seq(Cell) /\ Len(E[k].cells) \in Nat
               /\ EndOf(E[k]) \in Nat /\ E[k].at <= EndOf(E[k])
    <3>1. E[k] \in Entry
      BY <2>1, ElementOfSeq
    <3>2. E[k].gen \in Nat /\ E[k].at \in Nat /\ E[k].cells \in Seq(Cell)
      BY <3>1 DEF Entry
    <3>3. Len(E[k].cells) \in Nat
      BY <3>2, LenProperties
    <3>4. \A a, b \in Nat : a + b \in Nat /\ a <= a + b
      BY SMTT(60)
    <3>5. QED
      BY <3>1, <3>2, <3>3, <3>4 DEF EndOf
  <2>3. QED
    BY <2>1, <2>2
<1>4. QED
  BY <1>2, <1>3

\* What a file carries over, its log goes on keeping.
LEMMA CarriedLog ==
    ASSUME NEW d \in Taken, NEW d2 \in Taken, NEW o, NEW f, NEW f2, NEW l, NEW ld,
           FileKept(d, o, f), FileKept(d2, o, f2), Carried(d, o, f, d2, f2),
           LogKept(d, o, f, l, ld)
    PROVE  /\ LogKept(d2, o, f2, l, ld)
           /\ \A p : Safe(d, o, f, l, ld, p) => Safe(d2, o, f2, l, ld, p)
           /\ \A n : Reach(d, o, f, l, ld, n) => Reach(d2, o, f2, l, ld, n)
           /\ AllRetired(d, o, f, l, ld) => AllRetired(d2, o, f2, l, ld)
<1>1. LogPair(l, ld)
  BY DEF LogKept
<1>2. f2.ino = f.ino
  BY DEF Carried
<1>3. \A n : CleanTo(d, o, f, n) => CleanTo(d2, o, f2, n)
  BY CarriedClean
<1>4. \A E, h : Retired(d, o, f, E, h) => Retired(d2, o, f2, E, h)
  BY <1>3 DEF Retired
<1>5. \A E, h : Another(d, o, f, E, h) => Another(d2, o, f2, E, h)
  BY <1>3 DEF Another
<1>6. ASSUME NEW h \in Heads(l, ld), HeadKept(d, o, f, h)
      PROVE  HeadKept(d2, o, f2, h)
  <2>1. h.base \in Nat /\ CleanTo(d, o, f, h.base) /\ CleanTo(d2, o, f2, h.base)
    BY <1>1, <1>3, <1>6, LogTypes DEF HeadKept
  <2>2. h.base <= Len(f.cache) /\ h.base <= Len(f2.cache)
    BY <2>1, CleanPlaces
  <2>3. f.cache \in Seq(Cell) /\ f2.cache \in Seq(Cell)
    BY FileTypes
  <2>4. \A i \in 1 .. h.base : f.cache[i] = f2.cache[i]
    BY <2>1 DEF Carried, CleanTo
  <2>5. Fingerprint(f.cache, h.base) = Fingerprint(f2.cache, h.base)
    BY <2>1, <2>2, <2>3, <2>4, SamePrint
  <2>6. QED
    BY <1>6, <2>1, <2>5 DEF HeadKept
<1>7. ASSUME NEW h, NEW E \in Entries(l, ld), HeldGood(d, o, E, h)
      PROVE  HeldGood(d2, o, E, h)
  <2>1. ASSUME NEW k \in 1 .. Len(E), Held(E, h, k), NEW j \in 1 .. Len(E[k].cells)
        PROVE  Good(d2, o, E[k].at + j, E[k].cells[j])
    <3>1. Good(d, o, E[k].at + j, E[k].cells[j])
      BY <1>7, <2>1 DEF HeldGood
    <3>2. E[k].at \in Nat
      BY <1>1, LogTypes
    <3>3. E[k].at + j \in Int
      BY SMTT(60), <3>2
    <3>4. QED
      BY <3>1, <3>3 DEF Carried
  <2>2. QED
    BY <2>1 DEF HeldGood
<1>8. LogKept(d2, o, f2, l, ld)
  <2>1. ASSUME NEW h \in Heads(l, ld)
        PROVE  /\ h.ino <= f2.ino
               /\ h.ino = f2.ino =>
                     /\ HeadKept(d2, o, f2, h)
                     /\ \A E \in Entries(l, ld) : HeldGood(d2, o, E, h)
                     /\ h \in l.head => Paired(l.entries, ld.entries, h)
                     /\ h \notin l.head => \A E \in Entries(l, ld) : Retired(d2, o, f2, E, h)
               /\ h.ino # f2.ino => \A E \in Entries(l, ld) : Another(d2, o, f2, E, h)
    BY <1>2, <1>4, <1>5, <1>6, <1>7 DEF LogKept
  <2>2. QED
    BY <1>1, <2>1 DEF LogKept
<1>9. \A p : Safe(d, o, f, l, ld, p) => Safe(d2, o, f2, l, ld, p)
  BY <1>2 DEF Safe, Carried
<1>10. AllRetired(d, o, f, l, ld) => AllRetired(d2, o, f2, l, ld)
  BY <1>2, <1>4 DEF AllRetired
<1>11. \A n : Reach(d, o, f, l, ld, n) => Reach(d2, o, f2, l, ld, n)
  BY <1>9 DEF Reach
<1>12. QED
  BY <1>8, <1>9, <1>10, <1>11

\* More writes are taken: the file is as it was.
LEMMA Grown ==
    ASSUME NEW d2 \in Taken, NEW m \in 0 .. Len(d2), NEW o, NEW f,
           FileKept(SubSeq(d2, 1, m), o, f)
    PROVE  FileKept(d2, o, f) /\ Carried(SubSeq(d2, 1, m), o, f, d2, f)
<1> DEFINE d == SubSeq(d2, 1, m)
<1>1. d \in Taken /\ Len(d) = m
  BY SMTT(60) DEF Taken
<1>2. \A x \in Int : \A i \in Int : \A c : Good(d, x, i, c) => Good(d2, x, i, c)
  BY GoodCut
<1> HIDE DEF d
<1>3. FileKept(d, o, f)
  BY DEF d
<1>4. /\ o \in Int /\ o + 1 >= 0 /\ o <= Len(d) /\ Len(d) \in Nat
      /\ f \in File /\ Len(f.cache) \in Nat /\ Len(f.disk) \in Nat
  BY <1>1, <1>3, FileTypes
<1>5. \A i \in Int : \A c : Good(d, o, i, c) => Good(d2, o, i, c)
  BY <1>2, <1>4
<1>6. \A n \in Nat : \A i \in 1 .. n : i \in Int
  BY SMTT(60)
<1>7. \A cells : Len(cells) \in Nat /\ Fits(d, o, cells) => Fits(d2, o, cells)
  BY <1>5, <1>6 DEF Fits
<1>8. \A p : Clean(d, o, f, p) => Clean(d2, o, f, p)
  BY <1>4, <1>5, <1>6 DEF Clean
<1>9. o <= Len(d2)
  <2>1. Len(d2) \in Nat
    BY LenProperties DEF Taken
  <2>2. QED
    BY SMTT(60), <1>1, <1>4, <2>1
<1>10. FileKept(d2, o, f)
  BY <1>3, <1>4, <1>7, <1>8, <1>9 DEF FileKept
<1>11. Carried(d, o, f, d2, f)
  BY <1>5, <1>8 DEF Carried
<1>12. QED
  BY <1>10, <1>11 DEF d

------------------------------------------------------------------------------
(* What the operating system does to a file.                               *)

\* write: what was in the file is there, and the cells after it.
WrittenTo(d, o, f, cells, f2) ==
    /\ FileKept(d, o, f2) /\ Carried(d, o, f, d, f2)
    /\ f2.ino = f.ino /\ f2.cache = f.cache \o cells /\ f2.disk = f.disk
    /\ Len(f2.cache) = Len(f.cache) + Len(cells)
    /\ \A i \in 1 .. Len(f.cache) : f2.cache[i] = f.cache[i]
    /\ \A j \in 1 .. Len(cells) : f2.cache[Len(f.cache) + j] = cells[j]

\* A write at the file's end keeps what the file holds, when what is written is
\* the next records or what a torn write leaves (File::write_all).
LEMMA WriteKept ==
    ASSUME NEW d \in Taken, NEW o, NEW f, FileKept(d, o, f), NEW cells \in Seq(Cell),
           \A j \in 1 .. Len(cells) :
               cells[j] \in {Bad, Torn} \/ Good(d, o, Len(f.cache) + j, cells[j])
    PROVE  WrittenTo(d, o, f, cells, WriteAtEnd(f, cells))
<1> DEFINE f2 == WriteAtEnd(f, cells)
           n == Len(f.cache)
           m == Len(cells)
<1>1. /\ o \in Int /\ o + 1 >= 0 /\ o <= Len(d) /\ Len(d) \in Nat
      /\ f \in File /\ f.ino \in Nat /\ f.cache \in Seq(Cell) /\ f.disk \in Seq(Cell)
      /\ n \in Nat /\ Len(f.disk) \in Nat /\ Len(f.disk) <= n /\ f.dirty \in SUBSET (1 .. n)
  BY FileTypes
<1>2. m \in Nat
  BY LenProperties
<1>3. /\ f2 = [f EXCEPT !.cache = f.cache \o cells, !.dirty = f.dirty \cup (n + 1 .. n + m)]
  BY DEF WriteAtEnd
<1>4. /\ f2.ino = f.ino /\ f2.cache = f.cache \o cells /\ f2.disk = f.disk
      /\ f2.dirty = f.dirty \cup (n + 1 .. n + m)
  BY <1>1, <1>3 DEF File
<1>5. f.cache \o cells \in Seq(Cell) /\ Len(f.cache \o cells) = n + m
  BY <1>1, ConcatProperties
<1>6. \A i \in 1 .. n : (f.cache \o cells)[i] = f.cache[i]
  BY SMTT(60), <1>1, <1>2
<1>7. \A j \in 1 .. m : (f.cache \o cells)[n + j] = cells[j]
  BY SMTT(60), <1>1, <1>2
<1>8. /\ \A i \in 1 .. n : i \in 1 .. n + m
      /\ \A i \in 1 .. n + m : i \notin 1 .. n => i - n \in 1 .. m /\ n + (i - n) = i /\ i \in n + 1 .. n + m
      /\ \A i \in n + 1 .. n + m : i \in 1 .. n + m /\ i \in Nat
      /\ Len(f.disk) <= n + m /\ \A i \in 1 .. Len(f.disk) : i \in 1 .. n
  BY SMTT(60), <1>1, <1>2
<1> HIDE DEF f2, n, m
<1>9. Fits(d, o, f2.cache)
  <2> SUFFICES ASSUME NEW i \in 1 .. n + m
               PROVE  f2.cache[i] \in {Bad, Torn} \/ Good(d, o, i, f2.cache[i])
    BY <1>4, <1>5 DEF Fits
  <2>1. CASE i \in 1 .. n
    <3>1. f.cache[i] \in {Bad, Torn} \/ Good(d, o, i, f.cache[i])
      BY <2>1 DEF Fits, FileKept, n
    <3>2. QED
      BY <1>4, <1>6, <2>1, <3>1
  <2>2. CASE i \notin 1 .. n
    <3>1. i - n \in 1 .. m /\ n + (i - n) = i
      BY <1>8, <2>2
    <3>2. f2.cache[n + (i - n)] = cells[i - n]
      BY <1>4, <1>7, <3>1
    <3>3. cells[i - n] \in {Bad, Torn} \/ Good(d, o, n + (i - n), cells[i - n])
      BY <3>1 DEF n, m
    <3>4. QED
      BY <3>1, <3>2, <3>3
  <2>3. QED
    BY <2>1, <2>2
<1>10. f2 \in File
  <2>1. f2.dirty \in SUBSET Nat
    BY <1>1, <1>4, <1>8 DEF File
  <2>2. QED
    BY <1>1, <1>3, <1>5, <2>1, <1>4 DEF File
<1>11. Written(f2)
  <2>1. f2.dirty \subseteq 1 .. Len(f2.cache) /\ Len(f2.disk) <= Len(f2.cache)
    BY <1>1, <1>4, <1>5, <1>8
  <2>2. ASSUME NEW i \in 1 .. Len(f2.cache), i \notin f2.dirty
        PROVE  i <= Len(f2.disk) /\ f2.disk[i] = f2.cache[i]
    <3>1. i \in 1 .. n /\ i \notin f.dirty
      BY <1>4, <1>5, <1>8, <2>2
    <3>2. i <= Len(f.disk) /\ f.disk[i] = f.cache[i]
      BY <3>1 DEF FileKept, Written, n
    <3>3. QED
      BY <1>4, <1>6, <3>1, <3>2
  <2>3. QED
    BY <2>1, <2>2 DEF Written
<1>12. \A p : Clean(d, o, f, p) => Clean(d, o, f2, p) /\ f2.cache[p] = f.cache[p]
  BY <1>4, <1>6, <1>8 DEF Clean
<1>13. FileKept(d, o, f2)
  BY <1>1, <1>4, <1>9, <1>10, <1>11, <1>12 DEF FileKept
<1>14. Carried(d, o, f, d, f2)
  BY <1>4, <1>12 DEF Carried
<1>15. /\ f2.ino = f.ino /\ f2.cache = f.cache \o cells /\ f2.disk = f.disk
       /\ Len(f2.cache) = n + m
       /\ \A i \in 1 .. n : f2.cache[i] = f.cache[i]
       /\ \A j \in 1 .. m : f2.cache[n + j] = cells[j]
  BY <1>4, <1>5, <1>6, <1>7
<1>16. QED
  BY <1>13, <1>14, <1>15 DEF WrittenTo, f2, n, m

\* sync_data: every record of the file is on the disk.
LEMMA SyncKept ==
    ASSUME NEW d \in Taken, NEW o, NEW f, FileKept(d, o, f)
    PROVE  LET f2 == SyncData(f)
           IN  /\ FileKept(d, o, f2) /\ Carried(d, o, f, d, f2)
               /\ f2.ino = f.ino /\ f2.cache = f.cache /\ f2.disk = f.cache
               /\ \A p \in 1 .. Len(f.cache) :
                     Good(d, o, p, f.cache[p]) => Clean(d, o, f2, p)
<1> DEFINE f2 == SyncData(f)
           n == Len(f.cache)
<1>1. /\ o \in Int /\ o + 1 >= 0 /\ o <= Len(d) /\ Len(d) \in Nat
      /\ f \in File /\ f.ino \in Nat /\ f.cache \in Seq(Cell) /\ f.disk \in Seq(Cell)
      /\ n \in Nat /\ Len(f.disk) \in Nat /\ Len(f.disk) <= n /\ f.dirty \in SUBSET (1 .. n)
  BY FileTypes
<1>2. [i \in 1 .. n |-> IF i \in f.dirty THEN f.cache[i]
                        ELSE IF i <= Len(f.disk) THEN f.disk[i] ELSE Bad] = f.cache
  <2> DEFINE g == [i \in 1 .. n |-> IF i \in f.dirty THEN f.cache[i]
                                    ELSE IF i <= Len(f.disk) THEN f.disk[i] ELSE Bad]
  <2>1. \A i \in 1 .. n : i \notin f.dirty => i <= Len(f.disk) /\ f.disk[i] = f.cache[i]
    BY DEF FileKept, Written
  <2>2. \A i \in 1 .. n : g[i] = f.cache[i]
    BY <2>1
  <2>3. f.cache \in [1 .. n -> Cell]
    BY <1>1, LenProperties
  <2>4. f.cache = [i \in 1 .. n |-> f.cache[i]]
    BY <2>3
  <2>5. g = [i \in 1 .. n |-> f.cache[i]]
    BY <2>2
  <2>6. QED
    BY <2>4, <2>5
<1>3. f2 = [f EXCEPT !.disk = f.cache, !.dirty = {}]
  BY <1>2 DEF SyncData
<1>4. f2.ino = f.ino /\ f2.cache = f.cache /\ f2.disk = f.cache /\ f2.dirty = {} /\ f2 \in File
  BY <1>1, <1>3 DEF File
<1> HIDE DEF f2
<1>5. \A p \in 1 .. n : Good(d, o, p, f.cache[p]) => Clean(d, o, f2, p)
  BY <1>4 DEF Clean
<1>6. \A p \in 1 .. Len(f.disk) : p \in 1 .. n
  BY SMTT(60), <1>1
<1>7. \A p : Clean(d, o, f, p) => Clean(d, o, f2, p) /\ f2.cache[p] = f.cache[p]
  BY <1>4, <1>5, <1>6 DEF Clean
<1>8. Written(f2)
  <2>1. n <= n /\ \A i \in 1 .. n : i <= n
    BY SMTT(60), <1>1
  <2>2. QED
    BY <1>4, <2>1 DEF Written
<1>9. FileKept(d, o, f2)
  BY <1>1, <1>4, <1>7, <1>8 DEF FileKept
<1>10. Carried(d, o, f, d, f2)
  BY <1>4, <1>7 DEF Carried
<1>11. QED
  BY <1>4, <1>5, <1>9, <1>10 DEF f2

\* A function on the first numbers is a sequence.
LEMMA FunctionSeq ==
    ASSUME NEW S, NEW n \in Nat, NEW g \in [1 .. n -> S]
    PROVE  g \in Seq(S) /\ Len(g) = n
  BY SMTT(60)

\* Bytes that are no record are cells.
LEMMA NoRecords == Bad \in Cell /\ Torn \in Cell
  BY SMTT(60) DEF Bad, Torn, Cell

\* A file all on the disk, its cells those of a file that is kept or no record,
\* and what was on the disk still there.
LEMMA OnDiskKept ==
    ASSUME NEW d \in Taken, NEW o, NEW f, FileKept(d, o, f), NEW cells \in Seq(Cell),
           Fits(d, o, cells), \A p : Clean(d, o, f, p) =>
               p \in 1 .. Len(cells) /\ Good(d, o, p, cells[p])
    PROVE  LET f2 == OnDisk(f.ino, cells)
           IN  FileKept(d, o, f2) /\ Carried(d, o, f, d, f2)
<1> DEFINE f2 == OnDisk(f.ino, cells)
           n == Len(cells)
<1>1. /\ o \in Int /\ o + 1 >= 0 /\ o <= Len(d) /\ Len(d) \in Nat /\ f.ino \in Nat
  BY FileTypes
<1>2. f2.ino = f.ino /\ f2.cache = cells /\ f2.disk = cells /\ f2.dirty = {} /\ f2 \in File
  BY <1>1 DEF OnDisk, File
<1>3. n \in Nat
  BY LenProperties
<1> HIDE DEF f2
<1>4. \A p : Clean(d, o, f, p) => Clean(d, o, f2, p) /\ f2.cache[p] = f.cache[p]
  <2> SUFFICES ASSUME NEW p, Clean(d, o, f, p)
               PROVE  Clean(d, o, f2, p) /\ f2.cache[p] = f.cache[p]
    OBVIOUS
  <2>1. p \in 1 .. n /\ Good(d, o, p, cells[p]) /\ Good(d, o, p, f.cache[p])
    BY DEF Clean
  <2>2. cells[p] = f.cache[p]
    BY <2>1 DEF Good
  <2>3. QED
    BY <1>2, <2>1, <2>2 DEF Clean
<1>5. Written(f2)
  <2>1. n <= n /\ \A i \in 1 .. n : i <= n
    BY SMTT(60), <1>3
  <2>2. QED
    BY <1>2, <2>1 DEF Written
<1>6. FileKept(d, o, f2)
  BY <1>1, <1>2, <1>4, <1>5 DEF FileKept
<1>7. Carried(d, o, f, d, f2)
  BY <1>2, <1>4 DEF Carried
<1>8. QED
  BY <1>6, <1>7 DEF f2

\* What a loss of power leaves of a dirty file: at every place what was written,
\* what the disk had, or no record.
LEMMA LeftCells ==
    ASSUME NEW d \in Taken, NEW o, NEW f, FileKept(d, o, f),
           NEW len \in Len(f.disk) .. Len(f.cache), NEW kept \in SUBSET (f.dirty \cap 1 .. len)
    PROVE  LET c == Left(f, len, kept)
           IN  /\ c \in Seq(Cell) /\ Len(c) = len /\ c \in [1 .. len -> Cell]
               /\ \A i \in 1 .. len : c[i] = f.cache[i] \/ (i <= Len(f.disk) /\ c[i] = f.disk[i])
                                      \/ c[i] = Bad
               /\ \A i \in 1 .. Len(f.disk) : c[i] \in {f.cache[i], f.disk[i]}
<1> DEFINE c == Left(f, len, kept)
           n == Len(f.cache)
           k == Len(f.disk)
<1>1. /\ f.cache \in Seq(Cell) /\ f.disk \in Seq(Cell) /\ n \in Nat /\ k \in Nat /\ k <= n
  BY FileTypes
<1>2. len \in Nat /\ len <= n /\ k <= len
  BY SMTT(60), <1>1
<1>3. /\ \A i \in 1 .. len : i \in 1 .. n /\ (i <= k => i \in 1 .. k)
      /\ \A i \in 1 .. k : i \in 1 .. len /\ i <= k
  BY SMTT(60), <1>1, <1>2
<1>4. c = [i \in 1 .. len |-> IF i \in kept THEN f.cache[i]
                              ELSE IF i <= k THEN f.disk[i] ELSE Bad]
  BY DEF Left
<1>5. /\ \A i \in 1 .. n : f.cache[i] \in Cell
      /\ \A i \in 1 .. k : f.disk[i] \in Cell
  BY <1>1, ElementOfSeq
<1>6. c \in [1 .. len -> Cell]
  BY <1>3, <1>4, <1>5, NoRecords
<1>7. c \in Seq(Cell) /\ Len(c) = len
  BY <1>2, <1>6, FunctionSeq
<1>8. \A i \in 1 .. len : c[i] = IF i \in kept THEN f.cache[i]
                                 ELSE IF i <= k THEN f.disk[i] ELSE Bad
  BY <1>4
<1> HIDE DEF c
<1>9. \A i \in 1 .. len : c[i] = f.cache[i] \/ (i <= k /\ c[i] = f.disk[i]) \/ c[i] = Bad
  BY <1>8
<1>10. \A i \in 1 .. k : c[i] \in {f.cache[i], f.disk[i]}
  BY <1>3, <1>8
<1>11. QED
  BY <1>6, <1>7, <1>9, <1>10 DEF c

\* A loss of power keeps every place that was on the disk.
LEMMA LossKept ==
    ASSUME NEW d \in Taken, NEW o, NEW f, FileKept(d, o, f), NEW f2 \in AfterPowerLoss(f)
    PROVE  FileKept(d, o, f2) /\ Carried(d, o, f, d, f2)
<1> DEFINE n == Len(f.cache)
           k == Len(f.disk)
<1>1. /\ f.cache \in Seq(Cell) /\ f.disk \in Seq(Cell) /\ n \in Nat /\ k \in Nat /\ k <= n
  BY FileTypes
<1>2. Max({n, k}) = n
  BY SMTT(60), <1>1, MaxOfTwo
<1>3. PICK len, kept, cells :
          /\ len \in k .. n /\ kept \in SUBSET (f.dirty \cap 1 .. len)
          /\ f2 = OnDisk(f.ino, cells)
          /\ \/ cells = Left(f, len, kept)
             \/ len > k /\ cells = [Left(f, len, kept) EXCEPT ![len] = Torn]
  <2>1. PICK cells : /\ f2 = OnDisk(f.ino, cells)
                     /\ \E len \in k .. n :
                          cells \in LET whole == {Left(f, len, kept) :
                                                    kept \in SUBSET (f.dirty \cap 1 .. len)}
                                    IN  IF len > k
                                        THEN whole \cup {[c EXCEPT ![len] = Torn] : c \in whole}
                                        ELSE whole
    BY <1>2 DEF AfterPowerLoss
  <2>2. QED
    BY <2>1
<1> DEFINE c == Left(f, len, kept)
<1>4. /\ c \in Seq(Cell) /\ Len(c) = len /\ c \in [1 .. len -> Cell]
      /\ \A i \in 1 .. len : c[i] = f.cache[i] \/ (i <= k /\ c[i] = f.disk[i]) \/ c[i] = Bad
      /\ \A i \in 1 .. k : c[i] \in {f.cache[i], f.disk[i]}
  BY <1>3, LeftCells
<1> HIDE DEF c
<1>5. /\ len \in Nat /\ len <= n /\ k <= len
      /\ \A i \in 1 .. len : i \in 1 .. n /\ (i <= k => i \in 1 .. k)
      /\ \A i \in 1 .. k : i \in 1 .. len /\ (len > k => i # len)
  <2>1. len \in k .. n /\ n \in Nat /\ k \in Nat
    BY <1>1, <1>3
  <2> HIDE DEF n, k
  <2>2. QED
    BY SMTT(60), <2>1
<1>6. Fits(d, o, f.cache) /\ Fits(d, o, f.disk)
  BY DEF FileKept
<1>7. \A i \in 1 .. len : c[i] \in {Bad, Torn} \/ Good(d, o, i, c[i])
  BY <1>4, <1>5, <1>6 DEF Fits
<1>8. \A p : Clean(d, o, f, p) => p \in 1 .. k /\ Good(d, o, p, c[p])
  BY <1>4 DEF Clean
<1>9. CASE cells = c
  BY <1>3, <1>4, <1>5, <1>7, <1>8, <1>9, OnDiskKept DEF Fits
<1>10. CASE len > k /\ cells = [c EXCEPT ![len] = Torn]
  <2>1. cells \in [1 .. len -> Cell]
    BY <1>4, <1>10, NoRecords
  <2>2. cells \in Seq(Cell) /\ Len(cells) = len
    BY <1>5, <2>1, FunctionSeq
  <2>3. \A i \in 1 .. len : cells[i] = IF i = len THEN Torn ELSE c[i]
    BY <1>4, <1>10
  <2>4. Fits(d, o, cells)
    BY <1>7, <2>2, <2>3 DEF Fits
  <2>5. \A p : Clean(d, o, f, p) => p \in 1 .. Len(cells) /\ Good(d, o, p, cells[p])
    BY <1>5, <1>8, <1>10, <2>2, <2>3
  <2>6. QED
    BY <1>3, <2>2, <2>4, <2>5, OnDiskKept
<1>11. QED
  BY <1>3, <1>9, <1>10 DEF c

------------------------------------------------------------------------------
(* What an open reads.                                                     *)

\* The records before the first bytes that are none.
LEMMA ReadableIs ==
    ASSUME NEW cells \in Seq(Cell)
    PROVE  /\ Readable(cells) \in 0 .. Len(cells)
           /\ \A i \in 1 .. Readable(cells) : cells[i] \notin {Bad, Torn}
           /\ \A n \in 0 .. Len(cells) :
                 (\A i \in 1 .. n : cells[i] \notin {Bad, Torn}) => n <= Readable(cells)
<1> DEFINE S == {k \in 0 .. Len(cells) : \A i \in 1 .. k : cells[i] \notin {Bad, Torn}}
<1>1. Len(cells) \in Nat
  BY LenProperties
<1>2. 0 \in 0 .. Len(cells) /\ \A i \in 1 .. 0 : FALSE
  BY SMTT(60), <1>1
<1>3. S # {} /\ S \in SUBSET (0 .. Len(cells))
  BY <1>2
<1>4. Max(S) \in S /\ \A y \in S : y <= Max(S)
  <2> HIDE DEF S
  <2>1. QED
    BY <1>1, <1>3, MaxOf
<1>5. Readable(cells) = Max(S)
  BY DEF Readable
<1>6. QED
  BY <1>4, <1>5

\* The file cut back to r records.
CutTo(d, o, f, r, d2, f2) ==
    /\ o + r \in 0 .. Len(d) /\ d2 \in Taken /\ Len(d2) = o + r
    /\ FileKept(d2, o, f2) /\ f2.ino = f.ino /\ f2.cache = SubSeq(f.cache, 1, r)
    /\ Len(f2.cache) = r
    /\ \A i \in 1 .. r : f2.cache[i] = f.cache[i] /\ Good(d2, o, i, f2.cache[i])
    /\ \A p \in 1 .. r : Clean(d, o, f, p) => Clean(d2, o, f2, p)
    /\ r = Len(f.cache) => f2 = f

\* A load truncates the file after its last whole record, and the file holds the
\* records before it (FileSink::cut).
LEMMA CutKept ==
    ASSUME NEW d \in Taken, NEW o, NEW f, FileKept(d, o, f), NEW r \in 0 .. Len(f.cache),
           \A i \in 1 .. r : Good(d, o, i, f.cache[i]), o # 0 => r > 0
    PROVE  CutTo(d, o, f, r, SubSeq(d, 1, o + r), Truncated(f, r))
<1> DEFINE f2 == Truncated(f, r)
           d2 == SubSeq(d, 1, o + r)
           n == Len(f.cache)
           k == Len(f.disk)
           s == IF r <= k THEN r ELSE k
<1>1. /\ o \in Int /\ o + 1 >= 0 /\ o <= Len(d) /\ Len(d) \in Nat
      /\ f \in File /\ f.ino \in Nat /\ f.cache \in Seq(Cell) /\ f.disk \in Seq(Cell)
      /\ n \in Nat /\ k \in Nat /\ k <= n /\ f.dirty \in SUBSET (1 .. n)
  BY FileTypes
<1>2. r \in Nat /\ r <= n /\ s \in Nat /\ s <= k /\ s <= r /\ s \in 0 .. k
  BY SMTT(60), <1>1
<1>3. o + r \in 0 .. Len(d)
  <2>1. CASE r = 0
    BY SMTT(60), <1>1, <2>1
  <2>2. CASE r # 0
    <3>1. r \in 1 .. r
      BY SMTT(60), <1>2, <2>2
    <3>2. QED
      BY <3>1 DEF Good
  <2>3. QED
    BY <2>1, <2>2
<1>4. d2 \in Taken /\ Len(d2) = o + r
  BY <1>1, <1>3, GoodCut
<1>5. \A i \in Int : i <= r => o + i <= o + r
  BY SMTT(60), <1>1, <1>2
<1>6. \A i \in Int : \A c : i <= r /\ Good(d, o, i, c) => Good(d2, o, i, c)
  BY <1>1, <1>3, <1>5, GoodCut
<1>7. Min({r, k}) = s
  BY SMTT(60), <1>1, <1>2, MinOfTwo
<1>8. f2 = [f EXCEPT !.cache = SubSeq(f.cache, 1, r), !.disk = SubSeq(f.disk, 1, s),
                     !.dirty = f.dirty \cap 1 .. r]
  BY <1>7 DEF Truncated
<1>9. /\ f2.ino = f.ino /\ f2.cache = SubSeq(f.cache, 1, r) /\ f2.disk = SubSeq(f.disk, 1, s)
      /\ f2.dirty = f.dirty \cap 1 .. r
  BY <1>1, <1>8 DEF File
<1>10. /\ f2.cache \in Seq(Cell) /\ Len(f2.cache) = r /\ \A i \in 1 .. r : f2.cache[i] = f.cache[i]
  BY SMTT(60), <1>1, <1>2, <1>9
<1>11. /\ f2.disk \in Seq(Cell) /\ Len(f2.disk) = s /\ \A i \in 1 .. s : f2.disk[i] = f.disk[i]
  BY SMTT(60), <1>1, <1>2, <1>9
<1>12. f2 \in File
  <2>1. f2.dirty \in SUBSET Nat
    BY <1>1, <1>9 DEF File
  <2>2. QED
    BY <1>1, <1>8, <1>9, <1>10, <1>11, <2>1 DEF File
<1>13. r = n => f2 = f
  <2> SUFFICES ASSUME r = n PROVE f2 = f
    OBVIOUS
  <2>1. s = k
    BY SMTT(60), <1>1
  <2>2. SubSeq(f.cache, 1, r) = f.cache /\ SubSeq(f.disk, 1, s) = f.disk
    BY <1>1, <2>1, SubSeqFull
  <2>3. f.dirty \cap 1 .. r = f.dirty
    BY <1>1
  <2>4. QED
    BY <1>1, <1>8, <2>2, <2>3 DEF File
<1> HIDE DEF f2, d2, n, k, s
<1>14. /\ \A i \in 1 .. r : i \in Int /\ i <= r /\ i \in 1 .. n
       /\ \A i \in 1 .. s : i \in Int /\ i <= r /\ i \in 1 .. k
       /\ \A i \in 1 .. r : (i <= k => i <= s) /\ (i \in 1 .. k => i \in 1 .. s)
  BY SMTT(60), <1>1, <1>2 DEF s
<1>15. \A i \in 1 .. r : Good(d2, o, i, f2.cache[i])
  BY <1>6, <1>10, <1>14
<1>16. Fits(d2, o, f2.cache) /\ Fits(d2, o, f2.disk)
  <2>1. Fits(d2, o, f2.cache)
    BY <1>10, <1>15 DEF Fits
  <2>2. \A i \in 1 .. k : f.disk[i] \in {Bad, Torn} \/ Good(d, o, i, f.disk[i])
    BY DEF FileKept, Fits, k
  <2>3. Fits(d2, o, f2.disk)
    BY <1>6, <1>11, <1>14, <2>2 DEF Fits
  <2>4. QED
    BY <2>1, <2>3
<1>17. \A p \in 1 .. r : Clean(d, o, f, p) => Clean(d2, o, f2, p)
  <2> SUFFICES ASSUME NEW p \in 1 .. r, Clean(d, o, f, p)
               PROVE  Clean(d2, o, f2, p)
    OBVIOUS
  <2>1. p \in 1 .. k /\ Good(d, o, p, f.disk[p])
    BY DEF Clean, k
  <2>2. p \in 1 .. s /\ Good(d2, o, p, f.disk[p])
    BY <1>6, <1>14, <2>1
  <2>3. QED
    BY <1>11, <1>15, <2>2 DEF Clean
<1>18. Written(f2)
  <2>1. \A i \in 1 .. n : i \notin f.dirty => i <= k /\ f.disk[i] = f.cache[i]
    BY DEF FileKept, Written, n, k
  <2>2. \A i \in 1 .. r : i <= s => i \in 1 .. s
    BY SMTT(60), <1>2
  <2>3. QED
    BY <1>2, <1>9, <1>10, <1>11, <1>14, <2>1, <2>2 DEF Written
<1>19. o # 0 => Clean(d2, o, f2, 1)
  <2>1. o # 0 => 1 \in 1 .. r
    BY SMTT(60), <1>2
  <2>2. QED
    BY <1>17, <2>1 DEF FileKept
<1>20. o <= o + r
  BY SMTT(60), <1>1, <1>2
<1>21. FileKept(d2, o, f2)
  BY <1>1, <1>4, <1>12, <1>16, <1>18, <1>19, <1>20 DEF FileKept
<1>22. CutTo(d, o, f, r, d2, f2)
  BY <1>3, <1>4, <1>9, <1>10, <1>13, <1>15, <1>17, <1>21 DEF CutTo, n
<1>23. QED
  BY <1>22 DEF f2, d2

\* Where the log has no header of the file, what is safe is on the disk.
LEMMA SafeIsClean ==
    ASSUME NEW d, NEW o, NEW f, NEW l, NEW ld, \A h \in l.head : h.ino # f.ino, NEW p,
           Safe(d, o, f, l, ld, p)
    PROVE  Clean(d, o, f, p)
  BY DEF Safe

\* An open that finds no header of the file: what is on the disk from the start
\* is read, the rest cut off.
LEMMA ReadKept ==
    ASSUME NEW d \in Taken, NEW o, NEW f, FileKept(d, o, f)
    PROVE  LET r == Readable(f.cache)
               d2 == SubSeq(d, 1, o + r)
               f2 == IF r < Len(f.cache) THEN SyncData(Truncated(f, r)) ELSE f
           IN  /\ r \in Nat /\ o + r \in 0 .. Len(d) /\ d2 \in Taken /\ Len(d2) = o + r
               /\ FileKept(d2, o, f2) /\ f2.ino = f.ino /\ Len(f2.cache) = r
               /\ \A i \in 1 .. r : f2.cache[i] = f.cache[i] /\ Good(d2, o, i, f2.cache[i])
               /\ \A p \in 1 .. r : Clean(d, o, f, p) => Clean(d2, o, f2, p)
               /\ \A q \in Nat : CleanTo(d, o, f, q) => q <= r /\ CleanTo(d2, o, f2, q)
               /\ Content(SubSeq(f.cache, 1, r)) = d2
<1> DEFINE r == Readable(f.cache)
           d2 == SubSeq(d, 1, o + r)
           g == Truncated(f, r)
           f2 == IF r < Len(f.cache) THEN SyncData(g) ELSE f
           n == Len(f.cache)
<1>1. /\ o \in Int /\ f.cache \in Seq(Cell) /\ n \in Nat
  BY FileTypes
<1>2. /\ r \in 0 .. n
      /\ \A i \in 1 .. r : f.cache[i] \notin {Bad, Torn}
      /\ \A q \in 0 .. n : (\A i \in 1 .. q : f.cache[i] \notin {Bad, Torn}) => q <= r
  BY <1>1, ReadableIs
<1> HIDE DEF r
<1>3. r \in Nat /\ \A i \in 1 .. r : i \in 1 .. n
  BY SMTT(60), <1>1, <1>2
<1>4. \A i \in 1 .. r : Good(d, o, i, f.cache[i])
  BY <1>2, <1>3 DEF FileKept, Fits
<1>5. ASSUME NEW q \in Nat, CleanTo(d, o, f, q)
      PROVE  q <= r
  <2>1. q <= n
    BY <1>5, CleanPlaces
  <2>2. ASSUME NEW i \in 1 .. q PROVE f.cache[i] \notin {Bad, Torn}
    <3>1. i \in Int
      BY SMTT(60)
    <3>2. Good(d, o, i, f.cache[i])
      BY <1>5 DEF CleanTo, Clean
    <3>3. QED
      BY <1>1, <3>1, <3>2, GoodRecord
  <2>3. q \in 0 .. n
    BY SMTT(60), <1>1, <2>1
  <2>4. QED
    BY <1>2, <2>2, <2>3
<1>6. o # 0 => r > 0
  <2> SUFFICES ASSUME o # 0 PROVE r > 0
    OBVIOUS
  <2>1. Clean(d, o, f, 1)
    BY DEF FileKept
  <2>2. 1 \in Nat /\ \A i \in 1 .. 1 : i = 1
    BY SMTT(60)
  <2>3. CleanTo(d, o, f, 1)
    BY <2>1, <2>2 DEF CleanTo
  <2>4. 1 <= r
    BY <1>5, <2>2, <2>3
  <2>5. QED
    BY SMTT(60), <1>3, <2>4
<1>7. /\ o + r \in 0 .. Len(d) /\ d2 \in Taken /\ Len(d2) = o + r
      /\ FileKept(d2, o, g) /\ g.ino = f.ino /\ g.cache = SubSeq(f.cache, 1, r)
      /\ Len(g.cache) = r
      /\ \A i \in 1 .. r : g.cache[i] = f.cache[i] /\ Good(d2, o, i, g.cache[i])
      /\ \A p \in 1 .. r : Clean(d, o, f, p) => Clean(d2, o, g, p)
      /\ r = n => g = f
  <2>1. CutTo(d, o, f, r, d2, g)
    BY <1>2, <1>4, <1>6, CutKept
  <2> HIDE DEF d2, g
  <2>2. QED
    BY <2>1 DEF CutTo
<1> HIDE DEF d2, g
<1>8. /\ FileKept(d2, o, f2) /\ f2.ino = g.ino /\ f2.cache = g.cache
      /\ \A p : Clean(d2, o, g, p) => Clean(d2, o, f2, p)
  <2>1. CASE r < n
    <3>1. f2 = SyncData(g)
      BY <2>1
    <3>2. /\ FileKept(d2, o, SyncData(g)) /\ Carried(d2, o, g, d2, SyncData(g))
          /\ SyncData(g).ino = g.ino /\ SyncData(g).cache = g.cache
      BY <1>7, SyncKept
    <3>3. QED
      BY <3>1, <3>2 DEF Carried
  <2>2. CASE ~(r < n)
    <3>1. r = n
      BY SMTT(60), <1>1, <1>2, <2>2
    <3>2. f2 = g
      BY <1>7, <2>2, <3>1
    <3>3. QED
      BY <1>7, <3>2
  <2>3. QED
    BY <2>1, <2>2
<1> HIDE DEF f2
<1>9. \A p \in 1 .. r : Clean(d, o, f, p) => Clean(d2, o, f2, p)
  BY <1>7, <1>8
<1>10. ASSUME NEW q \in Nat, CleanTo(d, o, f, q) PROVE CleanTo(d2, o, f2, q)
  <2>1. q <= r
    BY <1>5, <1>10
  <2>2. \A p \in 1 .. q : p \in 1 .. r
    BY SMTT(60), <1>3, <2>1
  <2>3. QED
    BY <1>9, <1>10, <2>2 DEF CleanTo
<1>11. Content(SubSeq(f.cache, 1, r)) = d2
  <2>1. CASE r = 0
    <3>1. o = 0
      BY SMTT(60), <1>6, <2>1
    <3>2. o + r = 0
      BY SMTT(60), <2>1, <3>1
    <3>3. SubSeq(f.cache, 1, r) = <<>>
      BY SMTT(60), <1>1, <2>1
    <3>4. SubSeq(d, 1, o + r) = <<>>
      BY SMTT(60), <3>2 DEF Taken
    <3>5. QED
      BY <3>3, <3>4 DEF Content, d2
  <2>2. CASE r # 0
    <3>1. r \in 1 .. r
      BY SMTT(60), <1>3, <2>2
    <3>2. g.cache[r] = f.cache[r] /\ Good(d, o, r, f.cache[r])
      BY <1>4, <1>7, <3>1
    <3>3. g.cache[r] = d2
      BY <3>2 DEF Good, d2
    <3>4. g.cache # <<>>
      <4>1. Len(<<>>) = 0
        BY SMTT(60)
      <4>2. QED
        BY <1>7, <2>2, <4>1
    <3>5. g.cache[Len(g.cache)] = d2
      BY <1>7, <3>3
    <3>6. Content(g.cache) = d2
      BY <3>4, <3>5 DEF Content
    <3>7. QED
      BY <1>7, <3>6
  <2>3. QED
    BY <2>1, <2>2
<1>12. /\ Len(f2.cache) = r
       /\ \A i \in 1 .. r : f2.cache[i] = f.cache[i] /\ Good(d2, o, i, f2.cache[i])
  BY <1>7, <1>8
<1>13. FileKept(d2, o, f2) /\ f2.ino = f.ino
  BY <1>7, <1>8
<1>14. QED
  BY <1>3, <1>5, <1>7, <1>9, <1>10, <1>11, <1>12, <1>13 DEF f2, g, d2, r

\* And the log beside it: a header of the file is one it needs nothing of.
LEMMA ReadLog ==
    ASSUME NEW d \in Taken, NEW o, NEW f, NEW f2, NEW l, NEW ld, NEW r \in Nat,
           FileKept(d, o, f), LogKept(d, o, f, l, ld), \A h \in l.head : h.ino # f.ino,
           o + r \in 0 .. Len(d), FileKept(SubSeq(d, 1, o + r), o, f2), f2.ino = f.ino,
           Len(f2.cache) = r, \A i \in 1 .. r : f2.cache[i] = f.cache[i],
           \A q \in Nat : CleanTo(d, o, f, q) =>
               q <= r /\ CleanTo(SubSeq(d, 1, o + r), o, f2, q)
    PROVE  /\ LogKept(SubSeq(d, 1, o + r), o, f2, l, ld)
           /\ \A h \in Heads(l, ld), E \in Entries(l, ld) : h.ino = f.ino =>
                 \A k \in 1 .. Len(E) : Held(E, h, k) => EndOf(E[k]) <= r
           /\ \A n \in Nat : Reach(d, o, f, l, ld, n) =>
                 n <= o + r /\ Reach(SubSeq(d, 1, o + r), o, f2, l, ld, n)
<1> DEFINE d2 == SubSeq(d, 1, o + r)
<1>1. LogPair(l, ld)
  BY DEF LogKept
<1>2. /\ o \in Int /\ f.cache \in Seq(Cell) /\ Len(f.cache) \in Nat
  BY FileTypes
<1>3. d2 \in Taken /\ \A i \in Int : \A c : Good(d, o, i, c) /\ o + i <= o + r => Good(d2, o, i, c)
  BY <1>2, GoodCut
<1> HIDE DEF d2
<1>4. f2.cache \in Seq(Cell)
  BY <1>3, FileTypes DEF d2
<1>5. \A q \in Nat : CleanTo(d, o, f, q) => q <= r /\ CleanTo(d2, o, f2, q)
  BY DEF d2
<1>6. ASSUME NEW h \in Heads(l, ld), h.ino = f.ino
      PROVE  /\ HeadKept(d, o, f, h) /\ h \notin l.head
             /\ \A E \in Entries(l, ld) : HeldGood(d, o, E, h) /\ Retired(d, o, f, E, h)
  BY <1>6 DEF LogKept
<1>7. ASSUME NEW E \in Entries(l, ld), NEW h, Retired(d, o, f, E, h),
             NEW k \in 1 .. Len(E), Held(E, h, k)
      PROVE  EndOf(E[k]) <= r /\ CleanTo(d2, o, f2, EndOf(E[k]))
  <2>1. EndOf(E[k]) \in Nat /\ CleanTo(d, o, f, EndOf(E[k]))
    BY <1>1, <1>7, LogTypes DEF Retired
  <2>2. QED
    BY <1>5, <2>1
<1>8. ASSUME NEW h \in Heads(l, ld), h.ino = f.ino
      PROVE  HeadKept(d2, o, f2, h)
  <2>1. h.base \in Nat /\ CleanTo(d, o, f, h.base) /\ h.print = Fingerprint(f.cache, h.base)
    BY <1>1, <1>6, <1>8, LogTypes DEF HeadKept
  <2>2. h.base <= r /\ CleanTo(d2, o, f2, h.base) /\ h.base <= Len(f.cache)
    BY <1>5, <2>1, CleanPlaces
  <2>3. \A i \in 1 .. h.base : i \in 1 .. r
    BY SMTT(60), <2>1, <2>2
  <2>4. \A i \in 1 .. h.base : f.cache[i] = f2.cache[i]
    BY <2>3
  <2>5. Fingerprint(f.cache, h.base) = Fingerprint(f2.cache, h.base)
    BY <1>2, <1>4, <2>1, <2>2, <2>4, SamePrint
  <2>6. QED
    BY <2>1, <2>2, <2>5 DEF HeadKept
<1>9. ASSUME NEW h \in Heads(l, ld), h.ino = f.ino, NEW E \in Entries(l, ld)
      PROVE  HeldGood(d2, o, E, h)
  <2>1. ASSUME NEW k \in 1 .. Len(E), Held(E, h, k), NEW j \in 1 .. Len(E[k].cells)
        PROVE  Good(d2, o, E[k].at + j, E[k].cells[j])
    <3>1. Good(d, o, E[k].at + j, E[k].cells[j])
      BY <1>6, <1>9, <2>1 DEF HeldGood
    <3>2. EndOf(E[k]) <= r
      BY <1>6, <1>7, <1>9, <2>1
    <3>3. E[k].at \in Nat /\ Len(E[k].cells) \in Nat
      BY <1>1, LogTypes
    <3>4. E[k].at + j \in Int /\ o + (E[k].at + j) <= o + r
      BY SMTT(60), <1>2, <3>2, <3>3 DEF EndOf
    <3>5. QED
      BY <1>3, <3>1, <3>4
  <2>2. QED
    BY <2>1 DEF HeldGood
<1>10. ASSUME NEW h \in Heads(l, ld), NEW E \in Entries(l, ld), Another(d, o, f, E, h)
       PROVE  Another(d2, o, f2, E, h)
  <2>1. E # <<>> => E[1].at \in Nat
    <3>1. ASSUME E # <<>> PROVE 1 \in 1 .. Len(E)
      <4>1. E \in Seq(Entry)
        BY <1>1, LogTypes
      <4>2. QED
        BY SMTT(60), <3>1, <4>1
    <3>2. QED
      BY <1>1, <3>1, LogTypes
  <2>2. QED
    BY <1>5, <1>10, <2>1 DEF Another
<1>11. LogKept(d2, o, f2, l, ld)
  <2>1. ASSUME NEW h \in Heads(l, ld)
        PROVE  /\ h.ino <= f2.ino
               /\ h.ino = f2.ino =>
                     /\ HeadKept(d2, o, f2, h)
                     /\ \A E \in Entries(l, ld) : HeldGood(d2, o, E, h)
                     /\ h \in l.head => Paired(l.entries, ld.entries, h)
                     /\ h \notin l.head => \A E \in Entries(l, ld) : Retired(d2, o, f2, E, h)
               /\ h.ino # f2.ino => \A E \in Entries(l, ld) : Another(d2, o, f2, E, h)
    <3>1. h.ino <= f2.ino /\ (h.ino # f2.ino => \A E \in Entries(l, ld) : Another(d2, o, f2, E, h))
      BY <1>10 DEF LogKept
    <3>2. ASSUME h.ino = f.ino
          PROVE  /\ HeadKept(d2, o, f2, h) /\ h \notin l.head
                 /\ \A E \in Entries(l, ld) : HeldGood(d2, o, E, h) /\ Retired(d2, o, f2, E, h)
      BY <1>6, <1>7, <1>8, <1>9, <3>2 DEF Retired
    <3>3. QED
      BY <3>1, <3>2
  <2>2. QED
    BY <1>1, <2>1 DEF LogKept
<1>12. ASSUME NEW n \in Nat, Reach(d, o, f, l, ld, n)
       PROVE  n <= o + r /\ Reach(d2, o, f2, l, ld, n)
  <2>1. \A p \in 1 .. n - o : Clean(d, o, f, p)
    BY <1>12, SafeIsClean DEF Reach
  <2>2. CASE n - o \in Nat
    <3>1. n - o <= r /\ CleanTo(d2, o, f2, n - o)
      BY <1>5, <2>1, <2>2 DEF CleanTo
    <3>2. n <= o + r
      BY SMTT(60), <1>2, <3>1
    <3>3. QED
      BY <3>1, <3>2 DEF Reach, CleanTo, Safe
  <2>3. CASE n - o \notin Nat
    <3>1. n <= o + r /\ \A p \in 1 .. n - o : FALSE
      BY SMTT(60), <1>2, <2>3
    <3>2. QED
      BY <3>1 DEF Reach
  <2>4. QED
    BY <2>2, <2>3
<1>13. QED
  BY <1>6, <1>7, <1>11, <1>12 DEF d2

------------------------------------------------------------------------------
(* What an open puts back.                                                 *)

\* Whole counts the entries that are put back.
LEMMA WholeIs ==
    ASSUME NEW l, NEW h, Len(l.entries) \in Nat
    PROVE  /\ Whole(l, h) \in 0 .. Len(l.entries)
           /\ \A k : Held(l.entries, h, k) <=> k \in 1 .. Whole(l, h)
<1> DEFINE E == l.entries
           P(i) == /\ E[i].gen = h.gen
                   /\ E[i].at = IF i = 1 THEN h.base ELSE EndOf(E[i - 1])
           S == {k \in 0 .. Len(E) : \A i \in 1 .. k : P(i)}
<1>1. Whole(l, h) = Max(S)
  BY DEF Whole
<1>2. \A k : Held(E, h, k) <=> k \in 1 .. Len(E) /\ \A i \in 1 .. k : P(i)
  BY DEF Held
<1> HIDE DEF P
<1>3. 0 \in S
  BY SMTT(60)
<1>4. Max(S) \in S /\ \A y \in S : y <= Max(S)
  BY <1>3, MaxOf
<1>5. \A k \in 1 .. Len(E) : k \in 0 .. Len(E)
  BY SMTT(60)
<1>6. ASSUME NEW k \in 1 .. Len(E), \A i \in 1 .. k : P(i)
      PROVE  k \in 1 .. Max(S)
  <2>1. k \in S
    BY <1>5, <1>6
  <2>2. k <= Max(S) /\ Max(S) \in 0 .. Len(E)
    BY <1>4, <2>1
  <2>3. QED
    BY SMTT(60), <2>2
<1>7. ASSUME NEW k \in 1 .. Max(S)
      PROVE  k \in 1 .. Len(E) /\ \A i \in 1 .. k : P(i)
  <2>1. Max(S) \in 0 .. Len(E) /\ \A i \in 1 .. Max(S) : P(i)
    BY <1>4
  <2>2. \A M \in 0 .. Len(E) : k \in 1 .. M => k \in 1 .. Len(E) /\ \A i \in 1 .. k : i \in 1 .. M
    BY SMTT(60)
  <2>3. QED
    BY <2>1, <2>2
<1>8. QED
  BY <1>1, <1>2, <1>4, <1>6, <1>7

\* The entries before one that is put back are, and they follow one another: a
\* place past the generation's start is in one of them.
LEMMA Covered ==
    ASSUME NEW E \in Seq(Entry), NEW h \in Header, NEW k \in Nat, Held(E, h, k), NEW p \in Nat,
           h.base < p, p <= EndOf(E[k])
    PROVE  \E j \in 1 .. k : Held(E, h, j) /\ p \in E[j].at + 1 .. EndOf(E[j])
<1>1. /\ k \in 1 .. Len(E) /\ Len(E) \in Nat
      /\ \A i \in 1 .. k : E[i].gen = h.gen
                            /\ E[i].at = IF i = 1 THEN h.base ELSE EndOf(E[i - 1])
  BY LenProperties DEF Held
<1>2. \A j \in 1 .. k : E[j] \in Entry
  BY SMTT(60), <1>1
<1>3. \A j \in 1 .. k : E[j].at \in Nat /\ EndOf(E[j]) \in Nat
  BY SMTT(60), <1>2 DEF Entry, EndOf
<1> DEFINE K == {j \in 1 .. k : p <= EndOf(E[j])}
<1>4. k \in K /\ K \in SUBSET Nat
  BY SMTT(60), <1>1
<1>5. PICK j \in K : \A i \in K : j <= i
  BY <1>4, LeastOf
<1>6. j \in 1 .. k /\ p <= EndOf(E[j]) /\ \A i \in 1 .. k : p <= EndOf(E[i]) => j <= i
  BY <1>5
<1>7. E[j].at < p
  <2>1. CASE j = 1
    BY <1>1, <1>6, <2>1
  <2>2. CASE j # 1
    <3>1. j - 1 \in 1 .. k /\ ~(j <= j - 1)
      BY SMTT(60), <1>6, <2>2
    <3>2. ~(p <= EndOf(E[j - 1])) /\ EndOf(E[j - 1]) \in Nat /\ E[j].at = EndOf(E[j - 1])
      BY <1>1, <1>3, <1>6, <2>2, <3>1
    <3>3. \A a, b \in Nat : ~(a <= b) => b < a
      BY SMTT(60)
    <3>4. QED
      BY <3>2, <3>3
  <2>3. QED
    BY <2>1, <2>2
<1>8. p \in E[j].at + 1 .. EndOf(E[j])
  <2>1. \A a, b \in Nat : a < p /\ p <= b => p \in a + 1 .. b
    BY SMTT(60)
  <2>2. QED
    BY <1>3, <1>6, <1>7, <2>1
<1>9. j \in 1 .. Len(E) /\ \A i \in 1 .. j : i \in 1 .. k
  BY SMTT(60), <1>1, <1>6
<1>10. Held(E, h, j)
  BY <1>1, <1>9 DEF Held
<1>11. QED
  BY <1>6, <1>8, <1>10

\* What is put back: each place is an entry's record or what the file had, and
\* none is left open.
BackIn(d, o, f, l, h, f2) ==
    /\ f2.ino = f.ino /\ f2.disk = f.disk /\ f2.cache \in Seq(Cell)
    /\ Len(f.cache) <= Len(f2.cache)
    /\ f2.dirty \subseteq f.dirty \cup 1 .. Len(f2.cache) /\ f.dirty \subseteq f2.dirty
    /\ \A p \in 1 .. Len(f2.cache) :
          \/ Good(d, o, p, f2.cache[p]) /\ p \in f2.dirty
          \/ p <= Len(f.cache) /\ f2.cache[p] = f.cache[p]
    /\ \A i \in 1 .. Whole(l, h) : LET e == l.entries[i] IN
          \A p \in e.at + 1 .. EndOf(e) :
             \/ p \in 1 .. Len(f2.cache) /\ Good(d, o, p, f2.cache[p])
             \/ ~Lost(f, e)

\* A recovery puts back, of each entry that is lost, its own records, and leaves
\* the rest of the file alone (synclog::recover).
LEMMA PutBackCells ==
    ASSUME NEW d \in Taken, NEW o, NEW f, NEW l, NEW ld, FileKept(d, o, f), LogPair(l, ld),
           NEW h \in l.head, h.base <= Len(f.cache), HeldGood(d, o, l.entries, h)
    PROVE  BackIn(d, o, f, l, h, PutBack(f, l, h)) /\ PutBack(f, l, h) \in File
<1> DEFINE E == l.entries
           W == Whole(l, h)
           lost == {E[i] : i \in {j \in 1 .. W : Lost(f, E[j])}}
           over(p) == {e \in lost : p \in e.at + 1 .. EndOf(e)}
           ends == {Len(f.cache)} \cup {EndOf(e) : e \in lost}
           N == Max(ends)
           cell(p) == IF over(p) = {} THEN f.cache[p]
                      ELSE LET e == CHOOSE e \in over(p) : TRUE IN e.cells[p - e.at]
           cells == [p \in 1 .. N |-> cell(p)]
           more == UNION {e.at + 1 .. EndOf(e) : e \in lost}
           f2 == PutBack(f, l, h)
<1>1. f2 = [f EXCEPT !.cache = cells, !.dirty = @ \cup more]
  BY DEF PutBack
<1>2. /\ f \in File /\ f.cache \in Seq(Cell) /\ Len(f.cache) \in Nat /\ o \in Int
      /\ f.dirty \in SUBSET (1 .. Len(f.cache))
  BY FileTypes
<1>3. /\ E \in Seq(Entry) /\ Len(E) \in Nat /\ h \in Header /\ h.base \in Nat
      /\ \A k \in 1 .. Len(E) : /\ E[k].at \in Nat /\ E[k].cells \in Seq(Cell)
                                /\ Len(E[k].cells) \in Nat /\ EndOf(E[k]) \in Nat
                                /\ E[k].at <= EndOf(E[k])
  BY LogTypes DEF Heads, Entries
<1>4. W \in 0 .. Len(E) /\ \A k : Held(E, h, k) <=> k \in 1 .. W
  BY <1>3, WholeIs
<1> HIDE DEF W, f2
<1>5. \A k \in 1 .. W : k \in 1 .. Len(E) /\ k \in Nat
  BY SMTT(60), <1>3, <1>4
<1>6. ASSUME NEW e \in lost
      PROVE  /\ e.at \in Nat /\ EndOf(e) \in Nat
             /\ \A p \in e.at + 1 .. EndOf(e) : p \in Nat \ {0} /\ Good(d, o, p, e.cells[p - e.at])
  <2>1. PICK i \in 1 .. W : e = E[i]
    BY <1>6
  <2>2. i \in 1 .. Len(E) /\ Held(E, h, i)
    BY <1>4, <1>5, <2>1
  <2>3. \A j \in 1 .. Len(E[i].cells) : Good(d, o, E[i].at + j, E[i].cells[j])
    BY <2>2 DEF HeldGood
  <2>4. E[i].at \in Nat /\ EndOf(E[i]) \in Nat /\ Len(E[i].cells) \in Nat
    BY <1>3, <2>2
  <2>5. ASSUME NEW p \in E[i].at + 1 .. EndOf(E[i])
        PROVE  /\ p - E[i].at \in 1 .. Len(E[i].cells) /\ E[i].at + (p - E[i].at) = p
               /\ p \in Nat \ {0}
    BY SMTT(60), <2>4, <2>5 DEF EndOf
  <2>6. \A p \in E[i].at + 1 .. EndOf(E[i]) :
            p \in Nat \ {0} /\ Good(d, o, p, E[i].cells[p - E[i].at])
    BY <2>3, <2>5
  <2>7. QED
    BY <2>1, <2>4, <2>6
<1>7. /\ N \in ends /\ N \in Nat /\ Len(f.cache) <= N
      /\ \A e \in lost : EndOf(e) <= N
  <2>1. [i \in 1 .. Len(E) |-> EndOf(E[i])] \in [1 .. Len(E) -> Nat]
    BY <1>3
  <2>2. PICK b \in Nat : \A i \in 1 .. Len(E) : [k \in 1 .. Len(E) |-> EndOf(E[k])][i] <= b
    BY <1>3, <2>1, BoundOf
  <2>3. \A i \in 1 .. Len(E) : EndOf(E[i]) <= b /\ EndOf(E[i]) \in Nat
    BY <1>3, <2>2
  <2>4. b + Len(f.cache) \in Nat /\ Len(f.cache) \in 0 .. b + Len(f.cache)
        /\ \A x \in Nat : x <= b => x \in 0 .. b + Len(f.cache)
    BY SMTT(60), <1>2
  <2>5. \A e \in lost : EndOf(e) \in 0 .. b + Len(f.cache)
    BY <1>5, <2>3, <2>4
  <2>6. ends \in SUBSET (0 .. b + Len(f.cache)) /\ Len(f.cache) \in ends
    BY <2>4, <2>5
  <2>7. N \in ends /\ \A y \in ends : y <= N
    BY <2>4, <2>6, MaxOf
  <2>8. \A x \in 0 .. b + Len(f.cache) : x \in Nat
    BY SMTT(60), <2>4
  <2>9. QED
    BY <2>6, <2>7, <2>8
<1> HIDE DEF N
<1>8. ASSUME NEW p \in 1 .. N, over(p) = {}
      PROVE  p \in 1 .. Len(f.cache)
  <2>1. SUFFICES ASSUME Len(f.cache) < p PROVE FALSE
    BY SMTT(60), <1>2, <1>7
  <2>2. N # Len(f.cache)
    BY SMTT(60), <1>2, <1>7, <2>1
  <2>3. PICK i \in 1 .. W : Lost(f, E[i]) /\ N = EndOf(E[i])
    BY <1>7, <2>2
  <2>4. p \in Nat /\ h.base < p /\ p <= N /\ p # 0
    BY SMTT(60), <1>2, <1>3, <1>7, <2>1
  <2>5. Held(E, h, i) /\ i \in Nat
    BY <1>4, <1>5
  <2>6. PICK j \in 1 .. i : Held(E, h, j) /\ p \in E[j].at + 1 .. EndOf(E[j])
    BY <1>3, <2>3, <2>4, <2>5, Covered
  <2>7. j \in 1 .. W /\ j \in 1 .. Len(E)
    BY <1>4, <1>5, <2>6
  <2>8. EndOf(E[j]) \in Nat /\ E[j].at \in Nat
    BY <1>3, <2>7
  <2>9. EndOf(E[j]) > Len(f.cache)
    BY SMTT(60), <1>2, <2>1, <2>4, <2>6, <2>8
  <2>10. Lost(f, E[j])
    BY <2>9 DEF Lost
  <2>11. E[j] \in over(p)
    BY <2>6, <2>7, <2>10
  <2>12. QED
    BY <1>8, <2>11
<1>9. ASSUME NEW p \in 1 .. N, over(p) # {}
      PROVE  Good(d, o, p, cell(p)) /\ p \in more
  <2>1. PICK e \in lost : p \in e.at + 1 .. EndOf(e) /\ cell(p) = e.cells[p - e.at]
    BY <1>9
  <2>2. QED
    BY <1>6, <2>1
<1> HIDE DEF cell, over
<1>10. \A p \in 1 .. N : p \in Int
  BY SMTT(60), <1>7
<1>11. ASSUME NEW p \in 1 .. N
       PROVE  /\ cell(p) \in Cell
              /\ \/ Good(d, o, p, cell(p)) /\ p \in more
                 \/ p \in 1 .. Len(f.cache) /\ cell(p) = f.cache[p]
  <2>1. CASE over(p) = {}
    <3>1. p \in 1 .. Len(f.cache) /\ cell(p) = f.cache[p]
      BY <1>8, <2>1 DEF cell
    <3>2. f.cache[p] \in Cell
      BY SMTT(60), <1>2, <3>1
    <3>3. QED
      BY <3>1, <3>2
  <2>2. CASE over(p) # {}
    <3>1. Good(d, o, p, cell(p)) /\ p \in more
      BY <1>9, <2>2
    <3>2. cell(p) \in Cell
      BY <1>2, <1>10, <3>1, GoodRecord
    <3>3. QED
      BY <3>1, <3>2
  <2>3. QED
    BY <2>1, <2>2
<1>12. cells \in [1 .. N -> Cell]
  BY <1>11
<1>13. cells \in Seq(Cell) /\ Len(cells) = N
  BY <1>7, <1>12, FunctionSeq
<1>14. \A p \in 1 .. N : cells[p] = cell(p)
  OBVIOUS
<1>15. more \subseteq 1 .. N
  <2>1. \A a, b \in Nat : b <= N => a + 1 .. b \subseteq 1 .. N
    BY SMTT(60), <1>7
  <2>2. QED
    BY <1>6, <1>7, <2>1
<1> HIDE DEF cells, more
<1>16. f2 = [f EXCEPT !.cache = cells, !.dirty = f.dirty \cup more]
  BY <1>1
<1>17. /\ f2.ino = f.ino /\ f2.cache = cells /\ f2.disk = f.disk /\ f2.dirty = f.dirty \cup more
  BY <1>2, <1>16 DEF File
<1>18. f.dirty \cup more \in SUBSET Nat
  <2>1. \A n \in Nat : 1 .. n \subseteq Nat
    BY SMTT(60)
  <2>2. QED
    BY <1>2, <1>7, <1>15, <2>1
<1>19. f2 \in File
  BY <1>2, <1>13, <1>16, <1>17, <1>18 DEF File
<1>20. ASSUME NEW i \in 1 .. W, NEW p \in E[i].at + 1 .. EndOf(E[i])
       PROVE  (p \in 1 .. N /\ Good(d, o, p, cells[p])) \/ ~Lost(f, E[i])
  <2>1. SUFFICES ASSUME Lost(f, E[i]) PROVE p \in 1 .. N /\ Good(d, o, p, cells[p])
    OBVIOUS
  <2>2. E[i] \in lost
    BY <2>1
  <2>3. E[i] \in over(p)
    BY <2>2 DEF over
  <2>4. p \in more
    BY <2>2 DEF more
  <2>5. p \in 1 .. N
    BY <1>15, <2>4
  <2>6. QED
    BY <1>9, <1>14, <2>3, <2>5
<1>21. BackIn(d, o, f, l, h, f2)
  <2>1. \A p \in 1 .. N : \/ Good(d, o, p, cells[p]) /\ p \in f.dirty \cup more
                          \/ p <= Len(f.cache) /\ cells[p] = f.cache[p]
    <3>1. \A p \in 1 .. Len(f.cache) : p <= Len(f.cache)
      BY SMTT(60), <1>2
    <3>2. QED
      BY <1>11, <1>14, <3>1
  <2>2. Len(f2.cache) = N
    BY <1>13, <1>17
  <2>3. \A i \in 1 .. Whole(l, h) : \A p \in l.entries[i].at + 1 .. EndOf(l.entries[i]) :
             \/ p \in 1 .. Len(f2.cache) /\ Good(d, o, p, f2.cache[p])
             \/ ~Lost(f, l.entries[i])
    BY <1>17, <1>20, <2>2 DEF W
  <2>4. QED
    BY <1>7, <1>13, <1>15, <1>17, <2>1, <2>2, <2>3 DEF BackIn
<1>22. QED
  BY <1>19, <1>21 DEF f2

\* The entries of a header are in the file.
InPlace(d, o, f, l, h) ==
    \A k \in 1 .. Len(l.entries) : Held(l.entries, h, k) =>
        \A p \in 1 .. EndOf(l.entries[k]) : p <= Len(f.cache) /\ Good(d, o, p, f.cache[p])

\* What is put back keeps the file, and then it holds every entry.
LEMMA PutBackKept ==
    ASSUME NEW d \in Taken, NEW o, NEW f, NEW l, NEW ld, FileKept(d, o, f),
           LogKept(d, o, f, l, ld), NEW h \in l.head, Names(h, f)
    PROVE  LET f2 == PutBack(f, l, h)
           IN  FileKept(d, o, f2) /\ Carried(d, o, f, d, f2) /\ InPlace(d, o, f2, l, h)
<1> DEFINE f2 == PutBack(f, l, h)
           E == l.entries
<1>1. /\ LogPair(l, ld) /\ HeadKept(d, o, f, h) /\ HeldGood(d, o, E, h)
      /\ h.base <= Len(f.cache)
  <2>1. h.ino = f.ino /\ Len(f.cache) >= h.base /\ h \in Heads(l, ld) /\ E \in Entries(l, ld)
    BY DEF Names, Heads, Entries
  <2>2. LogPair(l, ld) /\ HeadKept(d, o, f, h) /\ HeldGood(d, o, E, h)
    BY <2>1 DEF LogKept
  <2>3. QED
    BY <2>1, <2>2
<1>2. BackIn(d, o, f, l, h, f2) /\ f2 \in File
  BY <1>1, PutBackCells
<1> HIDE DEF f2
<1>3. /\ o \in Int /\ f.cache \in Seq(Cell) /\ Len(f.cache) \in Nat /\ Len(f.disk) \in Nat
      /\ Len(f.disk) <= Len(f.cache) /\ f.dirty \in SUBSET (1 .. Len(f.cache))
  BY FileTypes
<1>4. /\ E \in Seq(Entry) /\ Len(E) \in Nat /\ h \in Header /\ h.base \in Nat
      /\ \A k \in 1 .. Len(E) : /\ E[k].at \in Nat /\ E[k].cells \in Seq(Cell)
                                /\ Len(E[k].cells) \in Nat /\ EndOf(E[k]) \in Nat
  BY <1>1, LogTypes DEF Heads, Entries
<1>5. /\ f2.ino = f.ino /\ f2.disk = f.disk /\ f2.cache \in Seq(Cell)
      /\ Len(f.cache) <= Len(f2.cache) /\ Len(f2.cache) \in Nat
      /\ f2.dirty \subseteq f.dirty \cup 1 .. Len(f2.cache) /\ f.dirty \subseteq f2.dirty
      /\ \A p \in 1 .. Len(f2.cache) :
          \/ Good(d, o, p, f2.cache[p]) /\ p \in f2.dirty
          \/ p <= Len(f.cache) /\ f2.cache[p] = f.cache[p]
  BY <1>2, LenProperties DEF BackIn
<1>6. \A p \in 1 .. Len(f.cache) : p \in 1 .. Len(f2.cache)
  BY SMTT(60), <1>3, <1>5
<1>7. \A p \in 1 .. Len(f.disk) : p \in 1 .. Len(f.cache)
  BY SMTT(60), <1>3
<1>8. ASSUME NEW p, Clean(d, o, f, p)
      PROVE  Clean(d, o, f2, p) /\ f2.cache[p] = f.cache[p]
  <2>1. p \in 1 .. Len(f2.cache) /\ Good(d, o, p, f.cache[p])
    BY <1>6, <1>7, <1>8 DEF Clean
  <2>2. f2.cache[p] = f.cache[p]
    BY <1>5, <2>1 DEF Good
  <2>3. QED
    BY <1>5, <1>8, <2>2 DEF Clean
<1>9. Carried(d, o, f, d, f2)
  BY <1>5, <1>8 DEF Carried
<1>10. Written(f2)
  <2>1. f2.dirty \subseteq 1 .. Len(f2.cache)
    BY <1>3, <1>5, <1>6
  <2>2. ASSUME NEW i \in 1 .. Len(f2.cache), i \notin f2.dirty
        PROVE  i <= Len(f2.disk) /\ f2.disk[i] = f2.cache[i]
    <3>1. i <= Len(f.cache) /\ f2.cache[i] = f.cache[i] /\ i \notin f.dirty
      BY <1>5, <2>2
    <3>2. i \in 1 .. Len(f.cache)
      BY SMTT(60), <1>3, <1>5, <3>1
    <3>3. QED
      BY <1>5, <3>1, <3>2 DEF FileKept, Written
  <2>3. Len(f2.disk) <= Len(f2.cache)
    BY SMTT(60), <1>3, <1>5
  <2>4. QED
    BY <2>1, <2>2, <2>3 DEF Written
<1>11. Fits(d, o, f2.cache)
  <2>1. ASSUME NEW i \in 1 .. Len(f2.cache)
        PROVE  f2.cache[i] \in {Bad, Torn} \/ Good(d, o, i, f2.cache[i])
    <3>1. CASE i <= Len(f.cache) /\ f2.cache[i] = f.cache[i]
      <4>1. i \in 1 .. Len(f.cache)
        BY SMTT(60), <1>3, <1>5, <3>1
      <4>2. QED
        BY <3>1, <4>1 DEF FileKept, Fits
    <3>2. QED
      BY <1>5, <3>1
  <2>2. QED
    BY <2>1 DEF Fits
<1>12. FileKept(d, o, f2)
  <2>1. Fits(d, o, f2.disk) /\ (o # 0 => Clean(d, o, f2, 1))
    BY <1>5, <1>8 DEF FileKept
  <2>2. QED
    BY <1>2, <1>10, <1>11, <2>1 DEF FileKept
<1>13. ASSUME NEW k \in 1 .. Len(E), Held(E, h, k), NEW p \in 1 .. EndOf(E[k])
       PROVE  p <= Len(f2.cache) /\ Good(d, o, p, f2.cache[p])
  <2>1. k \in Nat /\ p \in Nat /\ p <= EndOf(E[k]) /\ EndOf(E[k]) \in Nat /\ 1 <= p
    BY SMTT(60), <1>4
  <2>2. SUFFICES p \in 1 .. Len(f2.cache) /\ Good(d, o, p, f2.cache[p])
    BY SMTT(60), <1>5
  <2>3. CASE p <= h.base
    <3>1. p \in 1 .. h.base
      BY SMTT(60), <1>4, <2>1, <2>3
    <3>2. Clean(d, o, f, p)
      BY <1>1, <3>1 DEF HeadKept, CleanTo
    <3>3. Clean(d, o, f2, p)
      BY <1>8, <3>2
    <3>4. QED
      BY <1>6, <1>7, <3>2, <3>3 DEF Clean
  <2>4. CASE h.base < p
    <3>1. PICK j \in 1 .. k : Held(E, h, j) /\ p \in E[j].at + 1 .. EndOf(E[j])
      BY <1>4, <1>13, <2>1, <2>4, Covered
    <3>2. j \in 1 .. Len(E) /\ j \in 1 .. Whole(l, h)
      BY <1>4, <3>1, WholeIs DEF Held
    <3>3. CASE ~Lost(f, E[j])
      <4>1. /\ ~(EndOf(E[j]) > Len(f.cache))
            /\ SubSeq(f.cache, E[j].at + 1, EndOf(E[j])) = E[j].cells
        BY <3>3 DEF Lost
      <4>2. E[j].at \in Nat /\ EndOf(E[j]) \in Nat /\ Len(E[j].cells) \in Nat
        BY <1>4, <3>2
      <4>3. /\ p - E[j].at \in 1 .. Len(E[j].cells) /\ p \in 1 .. Len(f.cache)
            /\ E[j].at + (p - E[j].at) = p /\ E[j].at + 1 \in Nat \ {0}
            /\ EndOf(E[j]) \in 0 .. Len(f.cache)
            /\ p - E[j].at \in 1 .. EndOf(E[j]) - (E[j].at + 1) + 1
            /\ (E[j].at + 1) + (p - E[j].at) - 1 = p
        <5>1. \A c, a, n, b \in Nat :
                 b = a + n /\ p \in a + 1 .. b /\ ~(b > c) =>
                   /\ p - a \in 1 .. n /\ p \in 1 .. c /\ a + (p - a) = p /\ a + 1 \in Nat \ {0}
                   /\ b \in 0 .. c /\ p - a \in 1 .. b - (a + 1) + 1 /\ (a + 1) + (p - a) - 1 = p
          BY SMTT(60), <2>1
        <5>2. EndOf(E[j]) = E[j].at + Len(E[j].cells)
          BY DEF EndOf
        <5>3. QED
          BY <1>3, <3>1, <4>1, <4>2, <5>1, <5>2
      <4>4. f.cache[p] = E[j].cells[p - E[j].at]
        <5>1. SubSeq(f.cache, E[j].at + 1, EndOf(E[j]))[p - E[j].at]
                = f.cache[(E[j].at + 1) + (p - E[j].at) - 1]
          <6>1. \A a \in Nat \ {0}, b \in 0 .. Len(f.cache) : \A i \in 1 .. b - a + 1 :
                    SubSeq(f.cache, a, b)[i] = f.cache[a + i - 1]
            <7>1. f.cache \in Seq(Cell)
              BY <1>3
            <7>2. QED
              BY SMTT(60), <7>1
          <6>2. QED
            BY <4>3, <6>1
        <5>2. QED
          BY <4>1, <4>3, <5>1
      <4>5. Good(d, o, p, f.cache[p])
        BY <1>1, <3>1, <3>2, <4>3, <4>4 DEF HeldGood
      <4>6. QED
        BY <1>5, <1>6, <4>3, <4>5
    <3>4. QED
      BY <1>2, <3>1, <3>2, <3>3 DEF BackIn
  <2>5. p <= h.base \/ h.base < p
    BY SMTT(60), <1>4, <2>1
  <2>6. QED
    BY <2>3, <2>4, <2>5
<1>14. InPlace(d, o, f2, l, h)
  BY <1>13 DEF InPlace
<1>15. QED
  BY <1>9, <1>12, <1>14 DEF f2

------------------------------------------------------------------------------
(* The log, the file left as it is.                                        *)

\* A torn entry is the last one's place with no entry in it.
LEMMA TornIs ==
    ASSUME NEW E \in Seq(Entry)
    PROVE  /\ TornLast(E) \in Seq(Entry) /\ Len(TornLast(E)) = Len(E)
           /\ \A i \in 1 .. Len(E) : i < Len(E) => TornLast(E)[i] = E[i]
           /\ Len(E) > 0 => TornLast(E)[Len(E)] = TornEntry
<1>1. TornEntry \in Entry /\ TornEntry.gen = 0
  BY SMTT(60) DEF TornEntry, Entry, Cell
<1> DEFINE x == TornEntry
<1> HIDE DEF x
<1>2. x \in Entry
  BY <1>1 DEF x
<1>3. Len(E) \in Nat /\ E \in [1 .. Len(E) -> Entry]
  BY LenProperties
<1>4. [E EXCEPT ![Len(E)] = x] \in [1 .. Len(E) -> Entry]
  BY <1>2, <1>3
<1>5. /\ [E EXCEPT ![Len(E)] = x] \in Seq(Entry) /\ Len([E EXCEPT ![Len(E)] = x]) = Len(E)
  BY <1>3, <1>4, FunctionSeq
<1>6. \A i \in 1 .. Len(E) : [E EXCEPT ![Len(E)] = x][i] = IF i = Len(E) THEN x ELSE E[i]
  BY SMTT(60), <1>3
<1>7. /\ \A i \in 1 .. Len(E) : i < Len(E) => i # Len(E)
      /\ Len(E) > 0 => Len(E) \in 1 .. Len(E)
  <2>1. \A n \in Nat : (\A i \in 1 .. n : i < n => i # n) /\ (n > 0 => n \in 1 .. n)
    BY SMTT(60)
  <2>2. QED
    BY <1>3, <2>1
<1>8. QED
  BY <1>5, <1>6, <1>7 DEF TornLast, x

\* Entries that start with the same ones are put back alike.
LEMMA SameHeld ==
    ASSUME NEW E, NEW E2, NEW h, NEW k \in Nat, Held(E, h, k), Len(E2) \in Nat, k <= Len(E2),
           \A i \in 1 .. k : E2[i] = E[i]
    PROVE  Held(E2, h, k)
<1>1. /\ k \in 1 .. Len(E)
      /\ \A i \in 1 .. k : E[i].gen = h.gen
                           /\ E[i].at = IF i = 1 THEN h.base ELSE EndOf(E[i - 1])
  BY DEF Held
<1>2. k \in 1 .. k /\ k \in 1 .. Len(E2) /\ \A i \in 1 .. k : i = 1 \/ i - 1 \in 1 .. k
  <2>1. 1 <= k
    <3>1. \A n : k \in 1 .. n => 1 <= k
      BY SMTT(60)
    <3>2. QED
      BY <1>1, <3>1
  <2>2. QED
    BY SMTT(60), <2>1
<1>3. \A i \in 1 .. k : E2[i].gen = h.gen
                        /\ E2[i].at = IF i = 1 THEN h.base ELSE EndOf(E2[i - 1])
  BY <1>1, <1>2
<1>4. QED
  BY <1>2, <1>3 DEF Held

\* An entry put back has the header's generation, and the first one starts where
\* the generation does.
LEMMA HeldFirst ==
    ASSUME NEW E, NEW h, NEW k \in Nat, Held(E, h, k)
    PROVE  /\ k \in 1 .. Len(E) /\ \A i \in 1 .. k : E[i].gen = h.gen
           /\ E[1].gen = h.gen /\ E[1].at = h.base
<1>1. \A n : k \in 1 .. n => 1 \in 1 .. k
  BY SMTT(60)
<1>2. QED
  BY <1>1 DEF Held

\* Of entries with a torn end only those before it are put back.
LEMMA TornHeld ==
    ASSUME NEW E \in Seq(Entry), NEW h, h.gen # 0, NEW k \in Nat, Held(TornLast(E), h, k)
    PROVE  Held(E, h, k) /\ TornLast(E)[k] = E[k] /\ k < Len(E)
<1>1. k \in 1 .. Len(E) /\ \A i \in 1 .. k : TornLast(E)[i].gen = h.gen
  BY HeldFirst, TornIs
<1>2. Len(E) \in Nat
  BY LenProperties
<1>3. k # Len(E)
  <2>1. SUFFICES ASSUME k = Len(E) PROVE FALSE
    OBVIOUS
  <2>2. Len(E) > 0 /\ k \in 1 .. k
    BY SMTT(60), <1>1, <1>2
  <2>3. TornLast(E)[k] = TornEntry
    BY <2>1, <2>2, TornIs
  <2>4. TornEntry.gen = 0
    BY DEF TornEntry
  <2>5. QED
    BY <1>1, <2>2, <2>3, <2>4
<1>4. k < Len(E) /\ k <= Len(E) /\ \A i \in 1 .. k : i \in 1 .. Len(E) /\ i < Len(E)
  BY SMTT(60), <1>1, <1>2, <1>3
<1>5. \A i \in 1 .. k : E[i] = TornLast(E)[i]
  BY <1>4, TornIs
<1>6. Held(E, h, k)
  BY <1>2, <1>4, <1>5, SameHeld
<1>7. k \in 1 .. k
  BY SMTT(60), <1>1, <1>2
<1>8. QED
  BY <1>4, <1>5, <1>6, <1>7

\* A file that needs nothing of its log has on the disk what is safe.
LEMMA RetiredClean ==
    ASSUME NEW d, NEW o, NEW f, NEW l, NEW ld, LogPair(l, ld), AllRetired(d, o, f, l, ld),
           NEW p, Safe(d, o, f, l, ld, p)
    PROVE  Clean(d, o, f, p)
<1>1. SUFFICES ASSUME NEW h \in l.head \cap ld.head, NEW k \in 1 .. Len(ld.entries),
                      h.ino = f.ino, Held(ld.entries, h, k),
                      p \in ld.entries[k].at + 1 .. EndOf(ld.entries[k])
               PROVE  Clean(d, o, f, p)
  BY DEF Safe
<1>2. h \in Heads(l, ld) /\ ld.entries \in Entries(l, ld)
  BY DEF Heads, Entries
<1>3. CleanTo(d, o, f, EndOf(ld.entries[k]))
  BY <1>1, <1>2 DEF AllRetired, Retired
<1>4. ld.entries[k].at \in Nat /\ EndOf(ld.entries[k]) \in Nat
  BY <1>2, LogTypes
<1>5. \A a, b \in Nat : p \in a + 1 .. b => p \in 1 .. b
  BY SMTT(60)
<1>6. QED
  BY <1>1, <1>3, <1>4, <1>5 DEF CleanTo

\* A log's header wiped, or the log removed, once the file needs nothing of it:
\* the disk may still have it, and that is no harm.
LEMMA ForgetKept ==
    ASSUME NEW d, NEW o, NEW f, NEW l, NEW ld, NEW l2, LogKept(d, o, f, l, ld),
           AllRetired(d, o, f, l, ld), l2 \in LogFile, l2.head = {},
           l2.entries \in {l.entries, <<>>}, l2.made \/ l2.entries = <<>>, l2.made => ld.made
    PROVE  /\ LogKept(d, o, f, l2, ld) /\ AllRetired(d, o, f, l2, ld)
           /\ \A n : Reach(d, o, f, l, ld, n) => Reach(d, o, f, l2, ld, n)
<1>1. LogPair(l, ld)
  BY DEF LogKept
<1>2. LogPair(l2, ld)
  BY <1>1 DEF LogPair
<1>3. \A h \in Heads(l2, ld) : h \in Heads(l, ld) /\ h \notin l2.head
  BY DEF Heads
<1>4. Len(<<>>) = 0 /\ \A k : k \notin 1 .. 0
  BY SMTT(60)
<1>5. ASSUME NEW h \in Heads(l2, ld), h.ino = f.ino, NEW E \in Entries(l2, ld)
      PROVE  HeldGood(d, o, E, h) /\ Retired(d, o, f, E, h)
  <2>1. CASE E = <<>>
    BY <1>4, <2>1 DEF HeldGood, Retired
  <2>2. CASE E \in Entries(l, ld)
    BY <1>3, <1>5, <2>2 DEF LogKept, AllRetired
  <2>3. QED
    BY <2>1, <2>2 DEF Entries
<1>6. ASSUME NEW h \in Heads(l2, ld), h.ino # f.ino, NEW E \in Entries(l2, ld)
      PROVE  Another(d, o, f, E, h)
  <2>1. CASE E = <<>>
    BY <2>1 DEF Another
  <2>2. CASE E \in Entries(l, ld)
    BY <1>3, <1>6, <2>2 DEF LogKept
  <2>3. QED
    BY <2>1, <2>2 DEF Entries
<1>7. \A h \in Heads(l2, ld) : h.ino <= f.ino /\ (h.ino = f.ino => HeadKept(d, o, f, h))
  BY <1>3 DEF LogKept
<1>8. LogKept(d, o, f, l2, ld)
  BY <1>2, <1>3, <1>5, <1>6, <1>7 DEF LogKept
<1>9. AllRetired(d, o, f, l2, ld)
  BY <1>5 DEF AllRetired
<1>10. \A n : Reach(d, o, f, l, ld, n) => Reach(d, o, f, l2, ld, n)
  BY <1>1, RetiredClean DEF Reach, Safe
<1>11. QED
  BY <1>8, <1>9, <1>10

\* What a log synced, or left by a loss of power, is made of.
Settled(l, ld, x) ==
    /\ x \in LogFile /\ x.head \subseteq Heads(l, ld) /\ \A g, h \in x.head : g = h
    /\ x.entries \in Entries(l, ld) \cup {<<>>, TornLast(l.entries)}
    /\ x.made \/ (x.head = {} /\ x.entries = <<>>)

\* A log that is one of those the disk may hold vouches for no more than the two
\* it came from.
LEMMA SettledKept ==
    ASSUME NEW d, NEW o, NEW f, NEW l, NEW ld, NEW x, LogKept(d, o, f, l, ld), Settled(l, ld, x)
    PROVE  LogKept(d, o, f, x, x)
<1>1. LogPair(l, ld)
  BY DEF LogKept
<1>2. l.entries \in Seq(Entry) /\ \A h \in x.head : h \in Heads(l, ld) /\ h.gen \in Nat \ {0}
  BY <1>1, LogTypes DEF Settled, Entries
<1>3. \A h \in Heads(x, x) : h \in x.head
  BY DEF Heads
<1>4. \A E \in Entries(x, x) : E = x.entries
  BY DEF Entries
<1>5. LogPair(x, x)
  <2>1. \A n \in Nat : n <= n
    BY SMTT(60)
  <2>2. \A h, g \in x.head : g.gen <= h.gen
    <3>1. \A h, g \in x.head : g = h /\ h.gen \in Nat
      BY <1>2 DEF Settled
    <3>2. QED
      BY <2>1, <3>1
  <2>3. QED
    BY <2>2 DEF LogPair, Settled
<1>6. Len(<<>>) = 0 /\ \A k : k \notin 1 .. 0
  BY SMTT(60)
<1>7. \A E \in Seq(Entry) : Len(E) \in Nat
  BY LenProperties
<1>8. ASSUME NEW h \in x.head, h.ino = f.ino
      PROVE  HeldGood(d, o, x.entries, h)
  <2>1. CASE x.entries = <<>>
    BY <1>6, <2>1 DEF HeldGood
  <2>2. CASE x.entries \in Entries(l, ld)
    BY <1>2, <1>8, <2>2 DEF LogKept
  <2>3. CASE x.entries = TornLast(l.entries)
    <3>1. HeldGood(d, o, l.entries, h)
      BY <1>2, <1>8 DEF LogKept, Entries
    <3>2. ASSUME NEW k \in 1 .. Len(x.entries), Held(x.entries, h, k)
          PROVE  \A j \in 1 .. Len(x.entries[k].cells) :
                     Good(d, o, x.entries[k].at + j, x.entries[k].cells[j])
      <4>1. k \in Nat /\ h.gen # 0
        <5>1. \A n \in Nat : \A i \in 1 .. n : i \in Nat
          BY SMTT(60)
        <5>2. Len(x.entries) \in Nat
          BY <1>2, <1>7, <2>3, TornIs
        <5>3. QED
          BY <1>2, <5>1, <5>2
      <4>2. Held(l.entries, h, k) /\ x.entries[k] = l.entries[k]
        <5>1. Held(TornLast(l.entries), h, k)
          BY <2>3, <3>2
        <5>2. Held(l.entries, h, k) /\ TornLast(l.entries)[k] = l.entries[k]
          BY <1>2, <4>1, <5>1, TornHeld
        <5>3. QED
          BY <2>3, <5>2
      <4>3. k \in 1 .. Len(l.entries)
        BY <4>2 DEF Held
      <4>4. \A j \in 1 .. Len(l.entries[k].cells) :
                     Good(d, o, l.entries[k].at + j, l.entries[k].cells[j])
        BY <3>1, <4>2, <4>3 DEF HeldGood
      <4>5. QED
        BY <4>2, <4>4
    <3>3. QED
      BY <3>2 DEF HeldGood
  <2>4. QED
    BY <2>1, <2>2, <2>3 DEF Settled
<1>9. ASSUME NEW h \in x.head, h.ino # f.ino
      PROVE  Another(d, o, f, x.entries, h)
  <2>1. CASE x.entries = <<>>
    BY <2>1 DEF Another
  <2>2. CASE x.entries \in Entries(l, ld)
    BY <1>2, <1>9, <2>2 DEF LogKept
  <2>3. CASE x.entries = TornLast(l.entries)
    <3>1. Another(d, o, f, l.entries, h)
      BY <1>2, <1>9 DEF LogKept, Entries
    <3>2. x.entries \in Seq(Entry) /\ Len(x.entries) = Len(l.entries) /\ Len(l.entries) \in Nat
      BY <1>2, <1>7, <2>3, TornIs
    <3>3. CASE 1 < Len(l.entries)
      <4>1. 1 \in 1 .. Len(l.entries)
        BY SMTT(60), <3>2, <3>3
      <4>2. x.entries[1] = l.entries[1]
        BY <1>2, <2>3, <3>3, <4>1, TornIs
      <4>3. l.entries # <<>>
        BY <1>6, <4>1
      <4>4. QED
        BY <3>1, <4>2, <4>3 DEF Another
    <3>4. CASE Len(l.entries) = 1
      <4>1. x.entries[1].gen = 0
        <5>1. 1 > 0 /\ TornEntry.gen = 0
          BY SMTT(60) DEF TornEntry
        <5>2. Len(l.entries) > 0 => TornLast(l.entries)[Len(l.entries)] = TornEntry
          BY <1>2, TornIs
        <5>3. QED
          BY <2>3, <3>4, <5>1, <5>2
      <4>2. 0 <= h.gen + 1
        BY SMTT(60), <1>2
      <4>3. QED
        BY <4>1, <4>2 DEF Another
    <3>5. CASE Len(l.entries) = 0
      <4>1. x.entries = <<>>
        BY SMTT(60), <3>2, <3>5
      <4>2. QED
        BY <4>1 DEF Another
    <3>6. Len(l.entries) = 0 \/ Len(l.entries) = 1 \/ 1 < Len(l.entries)
      <4>1. \A n \in Nat : n = 0 \/ n = 1 \/ 1 < n
        BY SMTT(60)
      <4>2. QED
        BY <3>2, <4>1
    <3>7. QED
      BY <3>3, <3>4, <3>5, <3>6
  <2>4. QED
    BY <2>1, <2>2, <2>3 DEF Settled
<1>10. \A h \in x.head : Paired(x.entries, x.entries, h)
  <2>1. x.entries \in Seq(Entry)
    BY DEF Settled, LogFile
  <2>2. Len(x.entries) \in Nat
    BY <1>7, <2>1
  <2>3. \A k \in 1 .. Len(x.entries) : k <= Len(x.entries)
    BY SMTT(60), <2>2
  <2>4. QED
    BY <2>3 DEF Paired
<1>11. \A h \in x.head : h.ino <= f.ino /\ (h.ino = f.ino => HeadKept(d, o, f, h))
  BY <1>2 DEF LogKept
<1>12. QED
  BY <1>3, <1>4, <1>5, <1>8, <1>9, <1>10, <1>11 DEF LogKept

\* It keeps what the log as written and the disk agree on.
LEMMA SettledSafe ==
    ASSUME NEW d, NEW o, NEW f, NEW l, NEW ld, NEW x, LogKept(d, o, f, l, ld),
           Settled(l, ld, x), l.head \cap ld.head \subseteq x.head,
           \/ x.entries \in Entries(l, ld)
           \/ l.entries # ld.entries /\ x.entries = TornLast(l.entries),
           NEW p, Safe(d, o, f, l, ld, p)
    PROVE  Safe(d, o, f, x, x, p)
<1>1. SUFFICES ASSUME NEW h \in l.head \cap ld.head, NEW k \in 1 .. Len(ld.entries),
                      h.ino = f.ino, Held(ld.entries, h, k),
                      p \in ld.entries[k].at + 1 .. EndOf(ld.entries[k])
               PROVE  Safe(d, o, f, x, x, p)
  BY DEF Safe
<1>2. LogPair(l, ld) /\ Paired(l.entries, ld.entries, h)
  BY <1>1 DEF LogKept, Heads
<1>3. l.entries \in Seq(Entry) /\ Len(l.entries) \in Nat /\ Len(ld.entries) \in Nat
  BY <1>2, LogTypes DEF Entries
<1>4. /\ k <= Len(l.entries) /\ \A i \in 1 .. k : l.entries[i] = ld.entries[i]
      /\ l.entries = ld.entries \/ k < Len(l.entries)
  BY <1>1, <1>2 DEF Paired
<1>5. k \in Nat /\ k \in 1 .. k /\ \A n \in Nat : \A i \in 1 .. k : k <= n => i \in 1 .. n
  <2>1. \A m \in Nat : \A j \in 1 .. m :
            j \in Nat /\ j \in 1 .. j /\ \A n \in Nat : \A i \in 1 .. j : j <= n => i \in 1 .. n
    BY SMTT(60)
  <2>2. QED
    BY <1>3, <2>1
<1>6. Len(x.entries) \in Nat /\ k <= Len(x.entries) /\ \A i \in 1 .. k : x.entries[i] = ld.entries[i]
  <2>1. CASE x.entries = ld.entries
    <3>1. \A n \in Nat : k \in 1 .. n => k <= n
      BY SMTT(60)
    <3>2. QED
      BY <1>3, <2>1, <3>1
  <2>2. CASE x.entries = l.entries
    BY <1>3, <1>4, <2>2
  <2>3. CASE l.entries # ld.entries /\ x.entries = TornLast(l.entries)
    <3>1. k < Len(l.entries)
      BY <1>4, <2>3
    <3>2. \A i \in 1 .. k : i \in 1 .. Len(l.entries) /\ i < Len(l.entries)
      <4>1. \A n \in Nat : k < n => \A i \in 1 .. k : i \in 1 .. n /\ i < n
        BY SMTT(60), <1>5
      <4>2. QED
        BY <1>3, <3>1, <4>1
    <3>3. Len(TornLast(l.entries)) = Len(l.entries)
          /\ \A i \in 1 .. Len(l.entries) : i < Len(l.entries)
                => TornLast(l.entries)[i] = l.entries[i]
      BY <1>3, TornIs
    <3>4. QED
      BY <1>3, <1>4, <2>3, <3>2, <3>3
  <2>4. QED
    BY <2>1, <2>2, <2>3 DEF Entries
<1>7. Held(x.entries, h, k)
  BY <1>1, <1>5, <1>6, SameHeld
<1>8. x.entries[k] = ld.entries[k] /\ k \in 1 .. Len(x.entries) /\ h \in x.head \cap x.head
  BY <1>5, <1>6
<1>9. QED
  BY <1>1, <1>7, <1>8 DEF Safe

\* A log's fsync.
LEMMA LogSyncKept ==
    ASSUME NEW d, NEW o, NEW f, NEW l, NEW ld, LogKept(d, o, f, l, ld)
    PROVE  /\ LogKept(d, o, f, l, l)
           /\ \A p : Safe(d, o, f, l, ld, p) => Safe(d, o, f, l, l, p)
<1>1. Settled(l, ld, l)
  BY DEF LogKept, LogPair, Settled, Heads, Entries
<1>2. l.head \cap ld.head \subseteq l.head /\ l.entries \in Entries(l, ld)
  BY DEF Entries
<1>3. QED
  BY <1>1, <1>2, SettledKept, SettledSafe

\* And a loss of power.
LEMMA LogLossKept ==
    ASSUME NEW d, NEW o, NEW f, NEW l, NEW ld, LogKept(d, o, f, l, ld),
           NEW x \in LogAfterPowerLoss(l, ld)
    PROVE  /\ LogKept(d, o, f, x, x)
           /\ \A p : Safe(d, o, f, l, ld, p) => Safe(d, o, f, x, x, p)
<1>1. LogPair(l, ld)
  BY DEF LogKept
<1>2. CASE l.made # ld.made
  <2>0. x \in {l, ld}
    BY SMTT(60), <1>2 DEF LogAfterPowerLoss
  <2>1. x \in {l, ld} /\ l.head = {} /\ x.head \subseteq Heads(l, ld) /\ x.entries \in Entries(l, ld)
    BY <1>1, <1>2, <2>0 DEF LogPair, LogFile, Heads, Entries
  <2>2. Settled(l, ld, x)
    BY <1>1, <2>1 DEF Settled, LogPair
  <2>3. l.head \cap ld.head \subseteq x.head
    BY <2>1
  <2>4. QED
    BY <2>1, <2>2, <2>3, SettledKept, SettledSafe
<1>3. CASE l.made = ld.made
  <2>1. PICK hs \in (IF l.head = ld.head THEN {l.head} ELSE {l.head, ld.head, {}}),
             es \in (IF l.entries = ld.entries THEN {l.entries}
                     ELSE {l.entries, ld.entries, TornLast(l.entries)}) :
                x = [made |-> l.made, head |-> hs, entries |-> es]
    <3> DEFINE H == IF l.head = ld.head THEN {l.head} ELSE {l.head, ld.head, {}}
               T == IF l.entries = ld.entries THEN {l.entries}
                    ELSE {l.entries, ld.entries, TornLast(l.entries)}
    <3>1. x \in IF l.made # ld.made THEN {l, ld}
                ELSE {[made |-> l.made, head |-> h, entries |-> e] : h \in H, e \in T}
      BY SMTT(60) DEF LogAfterPowerLoss
    <3> HIDE DEF H, T
    <3>2. \E hs \in H, es \in T : x = [made |-> l.made, head |-> hs, entries |-> es]
      BY SMTT(60), <1>3, <3>1
    <3>3. QED
      BY <3>2 DEF H, T
  <2>2. /\ l \in LogFile /\ ld \in LogFile /\ l.made \in BOOLEAN
        /\ l.head \in SUBSET Header /\ ld.head \in SUBSET Header
        /\ l.entries \in Seq(Entry) /\ ld.entries \in Seq(Entry)
    BY <1>1 DEF LogPair, LogFile
  <2>3. hs \in SUBSET Header /\ es \in Seq(Entry)
    <3>1. TornLast(l.entries) \in Seq(Entry)
      BY <2>2, TornIs
    <3>2. QED
      BY <2>1, <2>2, <3>1
  <2>4. x \in LogFile /\ x.made = l.made /\ x.head = hs /\ x.entries = es
    BY <2>1, <2>2, <2>3 DEF LogFile
  <2>5. /\ hs \subseteq Heads(l, ld) /\ \A g, h \in hs : g = h
        /\ es \in Entries(l, ld) \cup {<<>>, TornLast(l.entries)}
    BY <1>1, <2>1 DEF LogPair, Heads, Entries
  <2>6. l.made \/ (hs = {} /\ es = <<>>)
    BY <1>1, <1>3, <2>1 DEF LogPair
  <2>7. Settled(l, ld, x)
    BY <2>4, <2>5, <2>6 DEF Settled
  <2>8. l.head \cap ld.head \subseteq x.head
    <3>1. ASSUME NEW h \in l.head, h \in ld.head
          PROVE  l.head = {h} /\ ld.head = {h}
      BY <1>1, <3>1 DEF LogPair
    <3>2. QED
      BY <2>1, <2>4, <3>1
  <2>9. x.entries \in Entries(l, ld) \/ (l.entries # ld.entries /\ x.entries = TornLast(l.entries))
    BY <2>1, <2>4 DEF Entries
  <2>10. QED
    BY <2>7, <2>8, <2>9, SettledKept, SettledSafe
<1>4. QED
  BY <1>2, <1>3

\* An entry after what ends at a place: cut short, or the records from there.
GoesOn(d, o, h, at, e) ==
    \/ e.gen = 0
    \/ /\ e.gen = h.gen /\ e.at = at
       /\ \A j \in 1 .. Len(e.cells) : Good(d, o, e.at + j, e.cells[j])

\* A log with one entry more, and which entries it would put back.
OneMore(d, o, f, l, h, n, e, l2) ==
    /\ LogKept(d, o, f, l2, l)
    /\ \A p : Safe(d, o, f, l, l, p) => Safe(d, o, f, l2, l, p)
    /\ Len(l2.entries) = n + 1 /\ l2.entries[n + 1] = e
    /\ e.gen = h.gen => Held(l2.entries, h, n + 1)
    /\ \A g \in Heads(l2, l), E \in Entries(l2, l) : \A k \in 1 .. Len(E) :
          Held(E, g, k) =>
             g = h /\ \/ k \in 1 .. n /\ Held(l.entries, h, k) /\ E[k] = l.entries[k]
                      \/ E[k] = e /\ e.gen = h.gen

\* A log begun again, and which entries it would put back.
FirstOne(d, o, f, l, ld, h, e, l2) ==
    /\ LogKept(d, o, f, l2, ld)
    /\ \A p : Safe(d, o, f, l, ld, p) => Safe(d, o, f, l2, ld, p)
    /\ e.gen = h.gen => Held(l2.entries, h, 1)
    /\ \A g \in Heads(l2, ld), E \in Entries(l2, ld) : \A k \in 1 .. Len(E) :
          Held(E, g, k) =>
             \/ g \in ld.head /\ E = ld.entries
             \/ g = h /\ E[k] = e /\ e.gen = h.gen

\* An entry written after the last of the header's, all of it or torn.
LEMMA MoreWritten ==
    ASSUME NEW d, NEW o, NEW f, NEW l, LogKept(d, o, f, l, l), NEW h \in l.head, h.ino = f.ino,
           NEW n \in Nat, Len(l.entries) = n, Held(l.entries, h, n), NEW e \in Entry,
           GoesOn(d, o, h, EndOf(l.entries[n]), e),
           NEW l2 \in LogFile, l2.made, l2.head = l.head, l2.entries = Append(l.entries, e)
    PROVE  OneMore(d, o, f, l, h, n, e, l2)
<1> USE DEF GoesOn, OneMore
<1> DEFINE E1 == l.entries
           E2 == l2.entries
<1>1. LogPair(l, l)
  BY DEF LogKept
<1>2. /\ E1 \in Seq(Entry) /\ l.made /\ h.gen \in Nat \ {0}
      /\ \A g \in Heads(l2, l) : g = h /\ h \in Heads(l, l)
  <2>1. E1 \in Seq(Entry) /\ h.gen \in Nat \ {0}
    BY <1>1, LogTypes DEF Heads, Entries
  <2>2. QED
    BY <1>1, <2>1 DEF LogPair, Heads
<1>3. /\ E2 \in Seq(Entry) /\ Len(E2) = n + 1 /\ E2[n + 1] = e
      /\ \A i \in 1 .. n : E2[i] = E1[i]
  <2>1. \A s \in Seq(Entry) : /\ Append(s, e) \in Seq(Entry) /\ Len(Append(s, e)) = Len(s) + 1
                              /\ \A i \in 1 .. Len(s) : Append(s, e)[i] = s[i]
                              /\ Append(s, e)[Len(s) + 1] = e
    BY SMTT(60)
  <2>2. E2 = Append(E1, e) /\ Len(E1) = n
    OBVIOUS
  <2>3. QED
    BY <1>2, <2>1, <2>2
<1>4. n + 1 \in Nat /\ \A k \in 1 .. n + 1 : k \in Nat /\ (k = n + 1 \/ k \in 1 .. n)
  BY SMTT(60)
<1>5. \A k \in 1 .. n : /\ k \in Nat /\ k <= n /\ k <= n + 1 /\ k < n + 1 /\ k \in 1 .. n + 1
                        /\ \A i \in 1 .. k : i \in 1 .. n
  BY SMTT(60)
<1>6. n \in 1 .. n
  BY HeldFirst
<1>7. LogPair(l2, l)
  BY <1>1, <1>2 DEF LogPair
<1>8. ASSUME NEW k \in 1 .. n + 1, Held(E2, h, k)
      PROVE  \/ k \in 1 .. n /\ Held(E1, h, k) /\ E2[k] = E1[k]
             \/ k = n + 1 /\ E2[k] = e /\ e.gen = h.gen
  <2>1. CASE k = n + 1
    <3>1. \A i \in 1 .. n + 1 : E2[i].gen = h.gen
      BY <1>4, <1>8, <2>1, HeldFirst
    <3>2. n + 1 \in 1 .. n + 1
      BY SMTT(60)
    <3>3. QED
      BY <1>3, <2>1, <3>1, <3>2
  <2>2. CASE k \in 1 .. n
    <3>1. \A i \in 1 .. k : E1[i] = E2[i]
      BY <1>3, <1>5, <2>2
    <3>2. Held(E1, h, k)
      BY <1>4, <1>5, <1>8, <2>2, <3>1, SameHeld
    <3>3. QED
      BY <1>3, <2>2, <3>2
  <2>3. QED
    BY <1>4, <2>1, <2>2
<1>9. HeadKept(d, o, f, h) /\ HeldGood(d, o, E1, h) /\ h.ino <= f.ino
  BY DEF LogKept, Heads, Entries
<1>10. HeldGood(d, o, E2, h)
  <2>1. ASSUME NEW k \in 1 .. Len(E2), Held(E2, h, k)
        PROVE  \A j \in 1 .. Len(E2[k].cells) : Good(d, o, E2[k].at + j, E2[k].cells[j])
    <3>1. CASE k \in 1 .. n /\ Held(E1, h, k) /\ E2[k] = E1[k]
      BY <1>9, <3>1 DEF HeldGood
    <3>2. CASE k = n + 1 /\ E2[k] = e /\ e.gen = h.gen
      BY <1>2, <3>2
    <3>3. QED
      BY <1>3, <1>8, <2>1, <3>1, <3>2
  <2>2. QED
    BY <2>1 DEF HeldGood
<1>11. Paired(E2, E1, h)
  BY <1>3, <1>5 DEF Paired
<1>12. LogKept(d, o, f, l2, l)
  <2>1. \A E \in Entries(l2, l) : E = E1 \/ E = E2
    BY DEF Entries
  <2>2. QED
    BY <1>2, <1>7, <1>9, <1>10, <1>11, <2>1 DEF LogKept
<1>13. \A p : Safe(d, o, f, l, l, p) => Safe(d, o, f, l2, l, p)
  BY DEF Safe
<1>14. ASSUME e.gen = h.gen PROVE Held(E2, h, n + 1)
  <2>1. e.at = EndOf(E1[n])
    BY <1>2, <1>14
  <2>2. \A i \in 1 .. n + 1 : (i = 1 \/ i - 1 \in 1 .. n) /\ (n + 1) - 1 = n /\ n + 1 # 1
    BY SMTT(60), <1>6
  <2>3. \A i \in 1 .. n : E1[i].gen = h.gen
                          /\ E1[i].at = IF i = 1 THEN h.base ELSE EndOf(E1[i - 1])
    BY DEF Held
  <2>4. ASSUME NEW i \in 1 .. n + 1
        PROVE  E2[i].gen = h.gen /\ E2[i].at = IF i = 1 THEN h.base ELSE EndOf(E2[i - 1])
    <3>1. CASE i = n + 1
      BY <1>3, <1>6, <1>14, <2>1, <2>2, <3>1
    <3>2. CASE i \in 1 .. n
      BY <1>3, <2>2, <2>3, <3>2
    <3>3. QED
      BY <1>4, <3>1, <3>2
  <2>5. n + 1 \in 1 .. n + 1
    BY SMTT(60)
  <2>6. QED
    BY <1>3, <2>4, <2>5 DEF Held
<1>15. ASSUME NEW g \in Heads(l2, l), NEW E \in Entries(l2, l), NEW k \in 1 .. Len(E), Held(E, g, k)
       PROVE  g = h /\ \/ k \in 1 .. n /\ Held(l.entries, h, k) /\ E[k] = l.entries[k]
                       \/ E[k] = e /\ e.gen = h.gen
  <2>1. g = h
    BY <1>2
  <2>2. CASE E = E1
    BY <1>15, <2>1, <2>2
  <2>3. CASE E = E2
    BY <1>3, <1>8, <1>15, <2>1, <2>3
  <2>4. QED
    BY <2>1, <2>2, <2>3 DEF Entries
<1>16. QED
  BY <1>3, <1>12, <1>13, <1>14, <1>15

\* A generation's header and first entry written, all of it or torn, over a log
\* the file needs nothing of.
LEMMA FirstWritten ==
    ASSUME NEW d, NEW o, NEW f, NEW l, NEW ld, LogKept(d, o, f, l, ld),
           AllRetired(d, o, f, l, ld), ld.made, NEW h \in Header, h.ino = f.ino,
           f.ino \in Nat, HeadKept(d, o, f, h), \A g \in Heads(l, ld) : g.gen < h.gen,
           \A E \in Entries(l, ld) : E # <<>> => E[1].gen < h.gen \/ E[1].at < h.base,
           NEW e \in Entry, GoesOn(d, o, h, h.base, e),
           NEW l2 \in LogFile, l2.made, l2.head = {h}, l2.entries = <<e>>
    PROVE  FirstOne(d, o, f, l, ld, h, e, l2)
<1> USE DEF GoesOn, FirstOne
<1> DEFINE Ed == ld.entries
<1>1. LogPair(l, ld)
  BY DEF LogKept
<1>2. /\ Ed \in Seq(Entry) /\ Len(Ed) \in Nat /\ ld.entries \in Entries(l, ld)
      /\ h.gen \in Nat \ {0} /\ h.base \in Nat
      /\ \A k \in 1 .. Len(Ed) : Ed[k].gen \in Nat /\ Ed[k].at \in Nat
      /\ \A g \in ld.head : g \in Heads(l, ld) /\ g.gen \in Nat \ {0}
  BY <1>1, LogTypes DEF Heads, Entries, Header
<1>3. \A a \in Nat : ~(a < a) /\ a <= a
  BY SMTT(60)
<1>4. \A g \in ld.head : g.gen # h.gen /\ g # h /\ g.gen <= h.gen
  <2>1. \A a, b \in Nat : a < b => a # b /\ a <= b
    BY SMTT(60)
  <2>2. QED
    BY <1>2, <2>1
<1>5. LogPair(l2, ld)
  <2>1. \A x \in {l2, ld} : /\ x.made \/ (x.head = {} /\ x.entries = <<>>)
                            /\ \A g, h2 \in x.head : g = h2
    <3>1. \A g, h2 \in ld.head : g = h2
      BY <1>1 DEF LogPair
    <3>2. \A g, h2 \in l2.head : g = h2
      OBVIOUS
    <3>3. QED
      BY <3>1, <3>2
  <2>2. \A h2 \in l2.head, g \in ld.head : g.gen <= h2.gen
    BY <1>4
  <2>3. ld \in LogFile
    BY <1>1 DEF LogPair
  <2>4. QED
    BY <2>1, <2>2, <2>3 DEF LogPair
<1>6. Len(<<e>>) = 1 /\ <<e>>[1] = e /\ \A k \in 1 .. 1 : k = 1 /\ k \in Nat
  BY SMTT(60)
<1>7. ASSUME NEW g, NEW k \in 1 .. Len(<<e>>), Held(<<e>>, g, k)
      PROVE  k = 1 /\ e.gen = g.gen
  <2>1. k = 1 /\ k \in Nat
    BY <1>6
  <2>2. <<e>>[1].gen = g.gen
    BY <1>7, <2>1, HeldFirst
  <2>3. QED
    BY <1>6, <2>1, <2>2
<1>8. ASSUME NEW k \in 1 .. Len(Ed), Held(Ed, h, k)
      PROVE  FALSE
  <2>1. k \in Nat /\ 1 \in 1 .. Len(Ed) /\ Ed # <<>>
    <3>1. \A n \in Nat : k \in 1 .. n => k \in Nat /\ 1 \in 1 .. n /\ n # 0
      BY SMTT(60)
    <3>2. Len(<<>>) = 0
      BY SMTT(60)
    <3>3. QED
      BY <1>2, <3>1, <3>2
  <2>2. Ed[1].gen = h.gen /\ Ed[1].at = h.base
    BY <1>8, <2>1, HeldFirst
  <2>3. Ed[1].gen < h.gen \/ Ed[1].at < h.base
    BY <1>2, <2>1
  <2>4. QED
    BY <1>2, <1>3, <2>2, <2>3
<1>9. ASSUME NEW g \in ld.head, NEW k \in 1 .. Len(<<e>>), Held(<<e>>, g, k)
      PROVE  FALSE
  BY <1>2, <1>4, <1>7, <1>9
<1>10. ASSUME NEW k \in 1 .. Len(<<e>>), Held(<<e>>, h, k)
       PROVE  \A j \in 1 .. Len(<<e>>[k].cells) : Good(d, o, <<e>>[k].at + j, <<e>>[k].cells[j])
  BY <1>2, <1>6, <1>7, <1>10
<1>11. /\ HeldGood(d, o, <<e>>, h) /\ HeldGood(d, o, Ed, h) /\ Paired(<<e>>, Ed, h)
  BY <1>8, <1>10 DEF HeldGood, Paired
<1>12. ASSUME NEW g \in ld.head, g.ino = f.ino
       PROVE  /\ HeadKept(d, o, f, g) /\ HeldGood(d, o, Ed, g) /\ HeldGood(d, o, <<e>>, g)
              /\ Retired(d, o, f, Ed, g) /\ Retired(d, o, f, <<e>>, g)
  <2>1. HeadKept(d, o, f, g) /\ HeldGood(d, o, Ed, g)
    BY <1>2, <1>12 DEF LogKept
  <2>2. Retired(d, o, f, Ed, g)
    BY <1>2, <1>12 DEF AllRetired
  <2>3. HeldGood(d, o, <<e>>, g) /\ Retired(d, o, f, <<e>>, g)
    BY <1>9 DEF HeldGood, Retired
  <2>4. QED
    BY <2>1, <2>2, <2>3
<1>13. ASSUME NEW g \in ld.head, g.ino # f.ino
       PROVE  Another(d, o, f, Ed, g) /\ Another(d, o, f, <<e>>, g)
  <2>1. Another(d, o, f, Ed, g)
    BY <1>2, <1>13 DEF LogKept
  <2>2. e.gen <= g.gen + 1 \/ CleanTo(d, o, f, e.at)
    <3>1. CASE e.gen = 0
      <4>1. \A a \in Nat : 0 <= a + 1
        BY SMTT(60)
      <4>2. QED
        BY <1>2, <3>1, <4>1
    <3>2. CASE e.gen # 0
      BY <3>2 DEF HeadKept
    <3>3. QED
      BY <3>1, <3>2
  <2>3. QED
    BY <1>6, <2>1, <2>2 DEF Another
<1>14. \A g \in Heads(l2, ld) : g = h \/ g \in ld.head
  BY DEF Heads
<1>15. \A E \in Entries(l2, ld) : E = <<e>> \/ E = Ed
  BY DEF Entries
<1>16. \A g \in ld.head : g.ino <= f.ino /\ g \notin l2.head
  BY <1>2, <1>4 DEF LogKept
<1>17. h.ino <= f.ino
  BY <1>3
<1>18. LogKept(d, o, f, l2, ld)
  <2>1. ASSUME NEW g \in Heads(l2, ld)
        PROVE  /\ g.ino <= f.ino
               /\ g.ino = f.ino =>
                     /\ HeadKept(d, o, f, g)
                     /\ \A E \in Entries(l2, ld) : HeldGood(d, o, E, g)
                     /\ g \in l2.head => Paired(l2.entries, ld.entries, g)
                     /\ g \notin l2.head => \A E \in Entries(l2, ld) : Retired(d, o, f, E, g)
               /\ g.ino # f.ino => \A E \in Entries(l2, ld) : Another(d, o, f, E, g)
    <3>1. CASE g = h
      BY <1>11, <1>15, <1>17, <3>1
    <3>2. CASE g \in ld.head
      BY <1>12, <1>13, <1>15, <1>16, <3>2
    <3>3. QED
      BY <1>14, <3>1, <3>2
  <2>2. QED
    BY <1>5, <2>1 DEF LogKept
<1>19. \A p : Safe(d, o, f, l, ld, p) => Safe(d, o, f, l2, ld, p)
  BY <1>1, RetiredClean DEF Safe
<1>20. ASSUME e.gen = h.gen PROVE Held(<<e>>, h, 1)
  <2>1. e.at = h.base
    BY <1>2, <1>20
  <2>2. 1 \in 1 .. 1
    BY SMTT(60)
  <2>3. \A i \in 1 .. 1 : <<e>>[i].gen = h.gen
            /\ <<e>>[i].at = IF i = 1 THEN h.base ELSE EndOf(<<e>>[i - 1])
    BY <1>6, <1>20, <2>1
  <2>4. QED
    BY <1>6, <2>2, <2>3 DEF Held
<1>21. ASSUME NEW g \in Heads(l2, ld), NEW E \in Entries(l2, ld), NEW k \in 1 .. Len(E),
              Held(E, g, k)
       PROVE  \/ g \in ld.head /\ E = ld.entries
              \/ g = h /\ E[k] = e /\ e.gen = h.gen
  <2>1. CASE E = <<e>>
    BY <1>6, <1>7, <1>9, <1>14, <1>21, <2>1
  <2>2. CASE E = Ed
    BY <1>8, <1>14, <1>21, <2>2
  <2>3. QED
    BY <1>15, <2>1, <2>2
<1>22. QED
  BY <1>18, <1>19, <1>20, <1>21

\* The generation an opened log goes on from is past its headers', and with no
\* header past its entries' too.
LEMMA NewGenerationIs ==
    ASSUME NEW l, NEW ld, LogPair(l, ld)
    PROVE  /\ NewGeneration(l, ld) \in Nat
           /\ \A h \in l.head : NewGeneration(l, ld) = h.gen + 1
           /\ \A h \in Heads(l, ld) : h.gen < NewGeneration(l, ld)
           /\ l.head = {} => \A E \in Entries(l, ld) : \A i \in 1 .. Len(E) :
                                 E[i].gen < NewGeneration(l, ld)
<1>1. \A h \in Heads(l, ld) : h.gen \in Nat /\ h.gen # 0
  BY LogTypes
<1>2. CASE l.head # {}
  <2>1. PICK h \in l.head : TRUE
    BY <1>2
  <2>2. h.gen \in Nat /\ \A g \in l.head : g = h
    BY <1>1 DEF LogPair, Heads
  <2>3. {g.gen : g \in l.head} = {h.gen}
    BY <2>2
  <2>4. Max({h.gen}) = h.gen
    <3>1. h.gen \in 0 .. h.gen
      BY SMTT(60), <2>2
    <3>2. {h.gen} \in SUBSET (0 .. h.gen)
      BY <3>1
    <3>3. Max({h.gen}) \in {h.gen}
      BY <2>2, <3>2, MaxOf
    <3>4. QED
      BY <3>3
  <2>5. NewGeneration(l, ld) = 1 + h.gen
    BY <1>2, <2>3, <2>4 DEF NewGeneration
  <2>6. \A a \in Nat : 1 + a \in Nat /\ 1 + a = a + 1 /\ \A b \in Nat : b <= a => b < 1 + a
    BY SMTT(60)
  <2>7. \A g \in Heads(l, ld) : g.gen <= h.gen
    <3>1. \A g \in l.head : g.gen <= h.gen
      BY SMTT(60), <2>2
    <3>2. QED
      BY <3>1 DEF LogPair, Heads
  <2>8. QED
    BY <1>1, <1>2, <2>2, <2>5, <2>6, <2>7
<1>3. CASE l.head = {}
  <2> DEFINE S == {0} \cup Gens(l) \cup Gens(ld)
  <2>1. \A x \in {l, ld} : /\ Len(x.entries) \in Nat
                           /\ \A i \in 1 .. Len(x.entries) : x.entries[i].gen \in Nat
    BY LogTypes DEF Entries
  <2>2. ASSUME NEW x \in {l, ld}
        PROVE  \E b \in Nat : \A i \in 1 .. Len(x.entries) : x.entries[i].gen <= b
    <3> DEFINE g == [i \in 1 .. Len(x.entries) |-> x.entries[i].gen]
    <3>1. g \in [1 .. Len(x.entries) -> Nat]
      BY <2>1
    <3>2. PICK b \in Nat : \A i \in 1 .. Len(x.entries) : g[i] <= b
      BY <2>1, <3>1, BoundOf
    <3>3. \A i \in 1 .. Len(x.entries) : x.entries[i].gen <= b
      BY <3>2
    <3>4. QED
      BY <3>3
  <2>3. PICK b1 \in Nat : \A i \in 1 .. Len(l.entries) : l.entries[i].gen <= b1
    BY <2>2
  <2>4. PICK b2 \in Nat : \A i \in 1 .. Len(ld.entries) : ld.entries[i].gen <= b2
    BY <2>2
  <2>5. \E b \in Nat : \A h \in ld.head : h.gen <= b
    <3>1. CASE ld.head = {}
      BY <3>1
    <3>2. CASE ld.head # {}
      <4>1. PICK h \in ld.head : TRUE
        BY <3>2
      <4>2. h.gen \in Nat /\ \A g \in ld.head : g = h
        BY <1>1 DEF LogPair, Heads
      <4>3. h.gen <= h.gen
        BY SMTT(60), <4>2
      <4>4. QED
        BY <4>2, <4>3
    <3>3. QED
      BY <3>1, <3>2
  <2>6. PICK b3 \in Nat : \A h \in ld.head : h.gen <= b3
    BY <2>5
  <2>7. /\ b1 + b2 + b3 \in Nat
        /\ \A a \in Nat : a <= b1 \/ a <= b2 \/ a <= b3 => a \in 0 .. b1 + b2 + b3
        /\ 0 \in 0 .. b1 + b2 + b3
    BY SMTT(60)
  <2>8. \A h \in ld.head : h \in Heads(l, ld)
    BY DEF Heads
  <2>9. S \in SUBSET (0 .. b1 + b2 + b3) /\ 0 \in S
    <3>1. Gens(l) \subseteq 0 .. b1 + b2 + b3
      BY <1>3, <2>1, <2>3, <2>7 DEF Gens
    <3>2. Gens(ld) \subseteq 0 .. b1 + b2 + b3
      BY <1>1, <2>1, <2>4, <2>6, <2>7, <2>8 DEF Gens
    <3>3. QED
      BY <2>7, <3>1, <3>2
  <2>10. Max(S) \in S /\ \A y \in S : y <= Max(S)
    BY <2>7, <2>9, MaxOf
  <2>11. NewGeneration(l, ld) = 1 + Max(S)
    BY <1>3 DEF NewGeneration
  <2> HIDE DEF S
  <2>12. Max(S) \in Nat /\ 1 + Max(S) \in Nat /\ \A a \in Nat : a <= Max(S) => a < 1 + Max(S)
    <3>1. Max(S) \in 0 .. b1 + b2 + b3
      BY <2>9, <2>10
    <3>2. \A n \in Nat : \A m \in 0 .. n :
              m \in Nat /\ 1 + m \in Nat /\ \A a \in Nat : a <= m => a < 1 + m
      BY SMTT(60)
    <3>3. QED
      BY <2>7, <3>1, <3>2
  <2>13. /\ \A h \in Heads(l, ld) : h.gen \in S
         /\ \A E \in Entries(l, ld) : \A i \in 1 .. Len(E) : E[i].gen \in S /\ E[i].gen \in Nat
    BY <1>3, <2>1 DEF Heads, Entries, S, Gens
  <2>14. QED
    BY <1>1, <1>3, <2>10, <2>11, <2>12, <2>13
<1>4. QED
  BY <1>2, <1>3

------------------------------------------------------------------------------
(* Fsyncs that leave the log with nothing the file needs, and new files.   *)

\* The file synced, every record it should hold in it.
LEMMA AllSynced ==
    ASSUME NEW d \in Taken, NEW o, NEW f, NEW l, NEW ld, FileKept(d, o, f),
           LogKept(d, o, f, l, ld), \A i \in 1 .. Len(f.cache) : Good(d, o, i, f.cache[i]),
           \A h \in Heads(l, ld), E \in Entries(l, ld) : h.ino = f.ino =>
              \A k \in 1 .. Len(E) : Held(E, h, k) => EndOf(E[k]) <= Len(f.cache)
    PROVE  LET f2 == SyncData(f)
           IN  /\ FileKept(d, o, f2) /\ Carried(d, o, f, d, f2) /\ f2.ino = f.ino
               /\ f2.cache = f.cache /\ CleanTo(d, o, f2, Len(f.cache))
               /\ LogKept(d, o, f2, l, ld) /\ AllRetired(d, o, f2, l, ld)
<1> DEFINE f2 == SyncData(f)
<1>1. /\ FileKept(d, o, f2) /\ Carried(d, o, f, d, f2) /\ f2.ino = f.ino /\ f2.cache = f.cache
      /\ CleanTo(d, o, f2, Len(f.cache))
  BY SyncKept DEF CleanTo
<1> HIDE DEF f2
<1>2. LogKept(d, o, f2, l, ld)
  BY <1>1, CarriedLog
<1>3. Len(f.cache) \in Nat
  BY FileTypes
<1>4. \A n \in Nat : n <= Len(f.cache) => CleanTo(d, o, f2, n)
  <2>1. \A m, n \in Nat : n <= m => \A p \in 1 .. n : p \in 1 .. m
    BY SMTT(60)
  <2>2. QED
    BY <1>1, <1>3, <2>1 DEF CleanTo
<1>5. \A E \in Entries(l, ld) : \A k \in 1 .. Len(E) : EndOf(E[k]) \in Nat
  BY <1>2, LogTypes DEF LogKept
<1>6. AllRetired(d, o, f2, l, ld)
  BY <1>1, <1>4, <1>5 DEF AllRetired, Retired
<1>7. QED
  BY <1>1, <1>2, <1>6 DEF f2

\* The file synced once what was lost is put back in it.
LEMMA RecoverSynced ==
    ASSUME NEW d \in Taken, NEW o, NEW f, NEW l, NEW ld, FileKept(d, o, f),
           LogKept(d, o, f, l, ld), \A h \in l.head : h.ino = f.ino => InPlace(d, o, f, l, h)
    PROVE  LET f2 == SyncData(f)
           IN  /\ FileKept(d, o, f2) /\ Carried(d, o, f, d, f2) /\ f2.ino = f.ino
               /\ f2.cache = f.cache
               /\ LogKept(d, o, f2, l, ld) /\ AllRetired(d, o, f2, l, ld)
<1> DEFINE f2 == SyncData(f)
<1>1. /\ FileKept(d, o, f2) /\ Carried(d, o, f, d, f2) /\ f2.ino = f.ino /\ f2.cache = f.cache
      /\ \A p \in 1 .. Len(f.cache) : Good(d, o, p, f.cache[p]) => Clean(d, o, f2, p)
  BY SyncKept
<1> HIDE DEF f2
<1>2. LogKept(d, o, f2, l, ld)
  BY <1>1, CarriedLog
<1>3. Len(f.cache) \in Nat
  BY FileTypes
<1>4. LogPair(l, ld)
  BY DEF LogKept
<1>5. \A E \in Entries(l, ld) : /\ Len(E) \in Nat
                                /\ \A k \in 1 .. Len(E) : EndOf(E[k]) \in Nat
  BY <1>4, LogTypes
<1>6. \A m, n \in Nat : \A p \in 1 .. n : p <= m => p \in 1 .. m
  BY SMTT(60)
<1>7. \A n \in Nat : \A k \in 1 .. n : k \in Nat /\ k \in 1 .. k
  BY SMTT(60)
<1>8. ASSUME NEW h \in l.head, h.ino = f.ino, NEW k \in 1 .. Len(l.entries),
             Held(l.entries, h, k)
      PROVE  CleanTo(d, o, f2, EndOf(l.entries[k]))
  <2>1. \A p \in 1 .. EndOf(l.entries[k]) : p <= Len(f.cache) /\ Good(d, o, p, f.cache[p])
    BY <1>8 DEF InPlace
  <2>2. EndOf(l.entries[k]) \in Nat
    BY <1>5 DEF Entries
  <2>3. QED
    BY <1>1, <1>3, <1>6, <2>1, <2>2 DEF CleanTo
<1>9. ASSUME NEW h \in l.head, h.ino = f.ino, NEW k \in 1 .. Len(ld.entries),
             Held(ld.entries, h, k)
      PROVE  CleanTo(d, o, f2, EndOf(ld.entries[k]))
  <2>1. Paired(l.entries, ld.entries, h)
    BY <1>9 DEF LogKept, Heads
  <2>2. k <= Len(l.entries) /\ \A i \in 1 .. k : l.entries[i] = ld.entries[i]
    BY <1>9, <2>1 DEF Paired
  <2>3. k \in Nat /\ k \in 1 .. k /\ Len(l.entries) \in Nat
    BY <1>5, <1>7 DEF Entries
  <2>4. Held(l.entries, h, k)
    BY <1>9, <2>2, <2>3, SameHeld
  <2>5. k \in 1 .. Len(l.entries) /\ l.entries[k] = ld.entries[k]
    BY <2>2, <2>3, <2>4 DEF Held
  <2>6. QED
    BY <1>8, <1>9, <2>4, <2>5
<1>10. ASSUME NEW h \in Heads(l, ld), h.ino = f.ino, NEW E \in Entries(l, ld)
       PROVE  Retired(d, o, f2, E, h)
  <2>1. CASE h \in l.head
    <3>1. Retired(d, o, f2, l.entries, h)
      BY <1>8, <1>10, <2>1 DEF Retired
    <3>2. Retired(d, o, f2, ld.entries, h)
      BY <1>9, <1>10, <2>1 DEF Retired
    <3>3. QED
      BY <3>1, <3>2 DEF Entries
  <2>2. CASE h \notin l.head
    BY <1>1, <1>2, <1>10, <2>2 DEF LogKept
  <2>3. QED
    BY <2>1, <2>2
<1>11. AllRetired(d, o, f2, l, ld)
  BY <1>1, <1>10 DEF AllRetired
<1>12. QED
  BY <1>1, <1>2, <1>11 DEF f2

\* A new file, all on the disk, under a log of files before it.
LEMMA NewFileKept ==
    ASSUME NEW d \in Taken, NEW o \in Int, o + 1 >= 0, o <= Len(d), NEW ino \in Nat,
           NEW cells \in Seq(Cell), \A i \in 1 .. Len(cells) : Good(d, o, i, cells[i]),
           o # 0 => Len(cells) > 0, NEW l, NEW ld, LogPair(l, ld),
           \A h \in Heads(l, ld) : h.ino < ino,
           \A h \in Heads(l, ld), E \in Entries(l, ld) : E # <<>> => E[1].gen <= h.gen + 1
    PROVE  LET f == OnDisk(ino, cells)
           IN  /\ FileKept(d, o, f) /\ LogKept(d, o, f, l, ld)
               /\ CleanTo(d, o, f, Len(cells))
               /\ \A n \in Nat : n <= o + Len(cells) => Reach(d, o, f, l, ld, n)
<1> DEFINE f == OnDisk(ino, cells)
<1>1. /\ f.ino = ino /\ f.cache = cells /\ f.disk = cells /\ f.dirty = {}
      /\ Len(cells) \in Nat
  BY LenProperties DEF OnDisk
<1>2. f \in File
  BY DEF OnDisk, File
<1> HIDE DEF f
<1>3. Written(f)
  <2>1. Len(cells) <= Len(cells) /\ \A i \in 1 .. Len(cells) : i <= Len(cells)
    BY SMTT(60), <1>1
  <2>2. QED
    BY <1>1, <2>1 DEF Written
<1>4. CleanTo(d, o, f, Len(cells))
  BY <1>1 DEF CleanTo, Clean
<1>5. o # 0 => Clean(d, o, f, 1)
  <2>1. Len(cells) > 0 => 1 \in 1 .. Len(cells)
    BY SMTT(60), <1>1
  <2>2. QED
    BY <1>4, <2>1 DEF CleanTo
<1>6. FileKept(d, o, f)
  BY <1>1, <1>2, <1>3, <1>5 DEF FileKept, Fits
<1>7. \A h \in Heads(l, ld) : h.ino <= ino /\ h.ino # ino
  <2>1. \A h \in Heads(l, ld) : h.ino \in Nat
    BY LogTypes
  <2>2. \A a \in Nat : a < ino => a <= ino /\ a # ino
    BY SMTT(60)
  <2>3. QED
    BY <2>1, <2>2
<1>8. LogKept(d, o, f, l, ld)
  BY <1>1, <1>7 DEF LogKept, Another
<1>9. ASSUME NEW n \in Nat, n <= o + Len(cells)
      PROVE  Reach(d, o, f, l, ld, n)
  <2>1. \A p \in 1 .. n - o : p \in 1 .. Len(cells)
    BY SMTT(60), <1>1, <1>9
  <2>2. QED
    BY <1>4, <2>1 DEF Reach, Safe, CleanTo
<1>10. QED
  BY <1>4, <1>6, <1>8, <1>9 DEF f

\* The first cells of a file, as far as it reads: what a copy of it holds.
LEMMA CopyKept ==
    ASSUME NEW d \in Taken, NEW o, NEW f, FileKept(d, o, f), NEW n \in 0 .. Readable(f.cache)
    PROVE  LET c == SubSeq(f.cache, 1, n)
           IN  /\ c \in Seq(Cell) /\ Len(c) = n /\ (n = 0 => Content(c) = <<>>)
               /\ n > 0 => /\ o + n \in 0 .. Len(d) /\ Content(c) = SubSeq(d, 1, o + n)
                           /\ \A i \in 1 .. n : Good(SubSeq(d, 1, o + n), o, i, c[i])
<1> DEFINE c == SubSeq(f.cache, 1, n)
           r == Readable(f.cache)
<1>1. f.cache \in Seq(Cell) /\ Len(f.cache) \in Nat /\ o \in Int /\ Len(d) \in Nat
  BY FileTypes
<1>2. r \in 0 .. Len(f.cache) /\ \A i \in 1 .. r : f.cache[i] \notin {Bad, Torn}
  BY <1>1, ReadableIs
<1> HIDE DEF r
<1>3. n \in 0 .. Len(f.cache) /\ n \in Nat /\ \A i \in 1 .. n : i \in 1 .. r /\ i \in 1 .. Len(f.cache) /\ i \in Int
  <2>1. n \in 0 .. r
    BY DEF r
  <2>2. \A m \in Nat : \A a \in 0 .. m : \A b \in 0 .. a :
            b \in 0 .. m /\ b \in Nat /\ \A i \in 1 .. b : i \in 1 .. a /\ i \in 1 .. m /\ i \in Int
    BY SMTT(60)
  <2>3. QED
    BY <1>1, <1>2, <2>1, <2>2
<1>4. c \in Seq(Cell) /\ Len(c) = n /\ \A i \in 1 .. n : c[i] = f.cache[i]
  <2>1. \A s \in Seq(Cell) : \A m \in 0 .. Len(s) :
            /\ SubSeq(s, 1, m) \in Seq(Cell) /\ Len(SubSeq(s, 1, m)) = m
            /\ \A i \in 1 .. m : SubSeq(s, 1, m)[i] = s[i]
    BY SMTT(60)
  <2>2. QED
    BY <1>1, <1>3, <2>1
<1> HIDE DEF c
<1>5. \A i \in 1 .. n : Good(d, o, i, c[i])
  BY <1>2, <1>3, <1>4 DEF FileKept, Fits
<1>6. ASSUME n = 0 PROVE Content(c) = <<>>
  <2>1. c = <<>>
    BY SMTT(60), <1>4, <1>6
  <2>2. QED
    BY <2>1 DEF Content
<1>7. ASSUME n > 0
      PROVE  /\ o + n \in 0 .. Len(d) /\ Content(c) = SubSeq(d, 1, o + n)
             /\ \A i \in 1 .. n : Good(SubSeq(d, 1, o + n), o, i, c[i])
  <2>1. n \in 1 .. n
    BY SMTT(60), <1>3, <1>7
  <2>2. o + n \in 0 .. Len(d) /\ c[n] = SubSeq(d, 1, o + n)
    BY <1>5, <2>1 DEF Good
  <2>3. c # <<>>
    <3>1. Len(<<>>) = 0 /\ ~(0 > 0)
      BY SMTT(60)
    <3>2. QED
      BY <1>4, <1>7, <3>1
  <2>4. Content(c) = c[n]
    BY <1>4, <2>3 DEF Content
  <2>5. \A i \in 1 .. n : o + i <= o + n
    BY SMTT(60), <1>1, <1>3
  <2>6. \A i \in 1 .. n : Good(SubSeq(d, 1, o + n), o, i, c[i])
    BY <1>1, <1>3, <1>5, <2>2, <2>5, GoodCut
  <2>7. QED
    BY <2>2, <2>4, <2>6
<1>8. QED
  BY <1>4, <1>6, <1>7 DEF c

------------------------------------------------------------------------------
(* A file and its log together.                                            *)

\* A file that holds what another did, beside the same log, keeps the writes the
\* other kept.
LEMMA KeptCarried ==
    ASSUME NEW d \in Taken, NEW d2 \in Taken, NEW o, NEW f, NEW f2, NEW l, NEW ld, NEW n,
           Kept(d, o, f, l, ld, n), FileKept(d2, o, f2), Carried(d, o, f, d2, f2)
    PROVE  Kept(d2, o, f2, l, ld, n)
<1>1. FileKept(d, o, f) /\ LogKept(d, o, f, l, ld) /\ Reach(d, o, f, l, ld, n)
  BY DEF Kept
<1>2. LogKept(d2, o, f2, l, ld) /\ Reach(d2, o, f2, l, ld, n)
  BY <1>1, CarriedLog
<1>3. QED
  BY <1>2 DEF Kept

\* Power lost: the file and the log each as the disk may have them.
LEMMA LossKeeps ==
    ASSUME NEW d \in Taken, NEW o, NEW f, NEW l, NEW ld, NEW n, Kept(d, o, f, l, ld, n),
           NEW f2 \in AfterPowerLoss(f), NEW x \in LogAfterPowerLoss(l, ld)
    PROVE  Kept(d, o, f2, x, x, n)
<1>1. FileKept(d, o, f) /\ LogKept(d, o, f, l, ld) /\ Reach(d, o, f, l, ld, n)
  BY DEF Kept
<1>2. LogKept(d, o, f, x, x) /\ \A p : Safe(d, o, f, l, ld, p) => Safe(d, o, f, x, x, p)
  BY <1>1, LogLossKept
<1>3. Kept(d, o, f, x, x, n)
  BY <1>1, <1>2 DEF Kept, Reach
<1>4. FileKept(d, o, f2) /\ Carried(d, o, f, d, f2)
  BY <1>1, LossKept
<1>5. QED
  BY <1>3, <1>4, KeptCarried

\* A write cut short anywhere.
LEMMA PartlyKept ==
    ASSUME NEW d \in Taken, NEW o, NEW f, FileKept(d, o, f), NEW cells \in Seq(Cell),
           \A j \in 1 .. Len(cells) : Good(d, o, Len(f.cache) + j, cells[j]),
           NEW k \in 0 .. Len(cells), NEW torn \in {<<>>, <<Torn>>}
    PROVE  LET f2 == WriteAtEnd(f, SubSeq(cells, 1, k) \o torn)
           IN  FileKept(d, o, f2) /\ Carried(d, o, f, d, f2)
<1> DEFINE part == SubSeq(cells, 1, k)
           s == part \o torn
<1>1. Torn \in Cell /\ torn \in Seq(Cell)
  <2>1. Torn \in Cell
    BY NoRecords
  <2>2. <<>> \in Seq(Cell) /\ \A t \in Cell : <<t>> \in Seq(Cell)
    BY SMTT(60)
  <2>3. QED
    BY <2>1, <2>2
<1>2. part \in Seq(Cell) /\ Len(part) = k /\ \A j \in 1 .. k : part[j] = cells[j]
  BY SMTT(60)
<1>3. torn = <<>> \/ (Len(torn) = 1 /\ torn[1] = Torn)
  BY SMTT(60)
<1>4. Len(torn) \in Nat /\ k \in Nat /\ \A j \in 1 .. k : j \in 1 .. Len(cells)
  BY SMTT(60), <1>1
<1>5. \A j \in 1 .. Len(torn) : torn[j] = Torn
  BY SMTT(60), <1>3
<1> HIDE DEF part
<1>6. /\ s \in Seq(Cell) /\ Len(s) = k + Len(torn)
      /\ \A j \in 1 .. k : s[j] = part[j]
      /\ \A j \in 1 .. Len(s) : j \notin 1 .. k => j - k \in 1 .. Len(torn) /\ s[j] = torn[j - k]
  <2>1. \A a, b \in Seq(Cell) :
            /\ a \o b \in Seq(Cell) /\ Len(a \o b) = Len(a) + Len(b)
            /\ \A j \in 1 .. Len(a) : (a \o b)[j] = a[j]
            /\ \A j \in 1 .. Len(a \o b) : j \notin 1 .. Len(a) =>
                  j - Len(a) \in 1 .. Len(b) /\ (a \o b)[j] = b[j - Len(a)]
    BY SMTT(60)
  <2>2. QED
    BY <1>1, <1>2, <2>1
<1> HIDE DEF s
<1>7. \A j \in 1 .. Len(s) : s[j] \in {Bad, Torn} \/ Good(d, o, Len(f.cache) + j, s[j])
  BY <1>2, <1>4, <1>5, <1>6
<1>8. FileKept(d, o, WriteAtEnd(f, s)) /\ Carried(d, o, f, d, WriteAtEnd(f, s))
  BY <1>6, <1>7, WriteKept DEF WrittenTo
<1>9. QED
  BY <1>8 DEF s, part

=============================================================================
