----------------------------- MODULE FeedProofs ------------------------------
(***************************************************************************)
(* What Feed promises, for any number of requests and streams, any ring,   *)
(* chunk and message size and any settings: the readers of the ring miss   *)
(* no record, a replica is sent only what the disk holds, an answered      *)
(* write is in the sockets that kept up, and a stalled stream costs one    *)
(* wait. First what the ring keeps, whatever is pushed into it and let go  *)
(* of, what its two readers make of that, and the types.                   *)
(***************************************************************************)
EXTENDS Feed, FiniteSetTheorems, WellFoundedInduction, TLAPS

\* Zenon is given a minute a leaf; the leaves that count name the SMT solver.
USE ZenonT(60)

------------------------------------------------------------------------------
(* Numbers.                                                                *)

\* A set of numbers that is not empty has a least one (the first record after a
\* reader's cursor).
LEMMA LeastOf ==
    ASSUME NEW S \in SUBSET Nat, S # {}
    PROVE  \E x \in S : \A y \in S : x <= y
<1> DEFINE R == {ss \in Nat \X Nat : ss[1] < ss[2]}
<1>1. IsWellFoundedOn(R, Nat)
  BY NatLessThanWellFounded DEF OpToRel
<1>2. \A x, y \in Nat : y < x => <<y, x>> \in R
  OBVIOUS
<1> HIDE DEF R
<1>3. PICK x \in S : \A y \in S : ~(<<y, x>> \in R)
  BY <1>1, WFMin
<1>4. \A y \in S : ~(y < x)
  BY <1>2, <1>3
<1>5. QED
  BY SMTT(60), <1>4

\* One with a bound has a greatest (the record that holds a write).
LEMMA GreatestOf ==
    ASSUME NEW n \in Nat, NEW S \in SUBSET (0 .. n), S # {}
    PROVE  \E x \in S : \A y \in S : y <= x
<1> DEFINE T == {m \in Nat : \A y \in S : y <= m}
<1>1. n \in T
  BY SMTT(60)
<1>2. PICK x \in T : \A m \in T : x <= m
  BY <1>1, LeastOf
<1>3. PICK z \in S : TRUE
  OBVIOUS
<1>4. CASE x = 0
  BY SMTT(60), <1>2, <1>3, <1>4
<1>5. CASE x # 0 /\ x \notin S
  <2>1. x - 1 \in T
    BY SMTT(60), <1>2, <1>5
  <2>2. QED
    BY SMTT(60), <1>2, <1>5, <2>1
<1>6. QED
  BY <1>2, <1>4, <1>5

------------------------------------------------------------------------------
(* The ring.                                                               *)

Chunk == [first : Nat \ {0}, lasts : SUBSET Nat]

\* Two chunks that start at one write are one.
LEMMA OneFirst ==
    ASSUME NEW C \in SUBSET Chunk, NEW s \in Nat, NEW E \in SUBSET Nat,
           Consecutive(C, s, E), NEW c \in C, NEW d \in C, c.first = d.first
    PROVE  c = d
BY SMTT(60) DEF Consecutive, Chunk

\* Every record from a chunk's first write on is kept.
LEMMA KeptFrom ==
    ASSUME NEW C \in SUBSET Chunk, NEW s \in Nat, NEW E \in SUBSET (0 .. s),
           Consecutive(C, s, E), NEW c \in C, NEW e \in E, c.first <= e
    PROVE  \E d \in C : c.first <= d.first /\ e \in d.lasts
<1>1. e \in c.first .. s
  BY SMTT(60) DEF Chunk
<1>2. PICK d \in C : c.first <= d.first /\ d.first <= e /\ \E l \in d.lasts : e <= l
  BY <1>1 DEF Consecutive
<1>3. PICK l \in d.lasts : e <= l
  BY <1>2
<1>4. e \in d.lasts
  <2>1. d.first \in Nat /\ l \in Nat /\ e \in Nat
    BY SMTT(60) DEF Chunk
  <2>2. CASE e < l
    BY <1>2, <2>2 DEF Consecutive
  <2>3. QED
    BY SMTT(60), <1>3, <2>1, <2>2
<1>5. QED
  BY <1>2, <1>4

\* What DropOldest leaves is consecutive still.
LEMMA DropOldestConsecutive ==
    ASSUME NEW C \in SUBSET Chunk, NEW s \in Nat, NEW E \in SUBSET Nat, Consecutive(C, s, E)
    PROVE  Consecutive(DropOldest(C, s), s, E)
<1> DEFINE K == DropOldest(C, s)
<1>1. K \subseteq C
  BY DEF DropOldest
<1>2. ASSUME NEW c \in K, NEW d \in C, c.first <= d.first
      PROVE  d \in K
  <2>1. CASE s - c.first + 1 <= Cap
    <3>1. s - d.first + 1 <= Cap
      BY SMTT(60), <1>1, <1>2, <2>1, RingAssumption DEF Chunk
    <3>2. QED
      BY <3>1 DEF DropOldest
  <2>2. CASE c \in Newest(C)
    <3>1. d \in Newest(C)
      BY SMTT(60), <1>1, <1>2, <2>2 DEF Newest, Chunk
    <3>2. QED
      BY <3>1 DEF DropOldest
  <2>3. QED
    BY <2>1, <2>2 DEF DropOldest
<1>3. ASSUME NEW c \in K, NEW n \in c.first .. s
      PROVE  \E d \in K : c.first <= d.first /\ d.first <= n /\ \E l \in d.lasts : n <= l
  <2>1. c \in C
    BY <1>1
  <2>2. PICK d \in C : c.first <= d.first /\ d.first <= n /\ \E l \in d.lasts : n <= l
    BY <2>1 DEF Consecutive
  <2>3. c.first <= d.first
    BY <2>2
  <2>4. d \in K
    BY <1>2, <2>3
  <2>5. QED
    BY <2>2, <2>4
<1> HIDE DEF K
<1>4. Consecutive(K, s, E)
  BY <1>1, <1>3 DEF Consecutive
<1>5. QED
  BY <1>4 DEF K

\* A record put in after the last is: Chunked leaves the chunks consecutive.
LEMMA ChunkedConsecutive ==
    ASSUME NEW C \in SUBSET Chunk, NEW s \in Nat, NEW E \in SUBSET (0 .. s), s \in E,
           Consecutive(C, s, E), NEW n \in Nat \ {0}
    PROVE  /\ Chunked(C, s + 1, s + n) \subseteq Chunk
           /\ Consecutive(Chunked(C, s + 1, s + n), s + n, E \cup {s + n})
<1> DEFINE t == s + n
           F == E \cup {t}
           room == {c \in Newest(C) : t - c.first + 1 <= ChunkSize}
           new == [first |-> s + 1, lasts |-> {t}]
<1>1. t \in Nat /\ t > s
  BY SMTT(60)
<1>2. \A c \in C : /\ c.first \in Nat \ {0} /\ c.lasts \in SUBSET (0 .. s) /\ c.first <= s
                   /\ c.first - 1 \in E /\ c.lasts # {} /\ c.lasts \subseteq E
                   /\ \A l \in c.lasts : c.first <= l
  BY SMTT(60) DEF Consecutive, Chunk
<1>3. \A c \in C : \A l \in c.lasts, e \in E : c.first <= e /\ e < l => e \in c.lasts
  BY DEF Consecutive
<1>4. \A c \in C : \A m \in c.first .. s : \E d \in C :
        c.first <= d.first /\ d.first <= m /\ \E l \in d.lasts : m <= l
  BY DEF Consecutive
<1>5. \A c, d \in C :
        c = d \/ (\A l \in c.lasts : l < d.first) \/ (\A l \in d.lasts : l < c.first)
  BY DEF Consecutive
<1>6. CASE room = {}
  <2> DEFINE D == C \cup {new}
  <2>1. Chunked(C, s + 1, t) = D
    BY <1>6 DEF Chunked
  <2>2. D \subseteq Chunk
    BY SMTT(60), <1>1 DEF Chunk
  <2>3. ASSUME NEW c \in D
        PROVE  /\ c.first - 1 \in F /\ c.lasts \subseteq F /\ c.lasts # {}
               /\ \A l \in c.lasts : c.first <= l
               /\ \A l \in c.lasts, e \in F : c.first <= e /\ e < l => e \in c.lasts
    <3>1. CASE c \in C
      BY SMTT(60), <1>1, <1>2, <1>3, <3>1
    <3>2. CASE c = new
      BY SMTT(60), <1>1, <3>2
    <3>3. QED
      BY <3>1, <3>2
  <2>4. ASSUME NEW c \in D, NEW m \in c.first .. t
        PROVE  \E d \in D : c.first <= d.first /\ d.first <= m /\ \E l \in d.lasts : m <= l
    <3>1. CASE m <= s
      <4>1. c \in C /\ m \in c.first .. s
        BY SMTT(60), <1>1, <1>2, <3>1
      <4>2. QED
        BY <1>4, <4>1
    <3>2. CASE m > s
      <4>1. c.first \in Nat /\ c.first <= s + 1
        BY SMTT(60), <1>2
      <4>2. m \in Nat /\ s + 1 <= m /\ m <= t
        BY SMTT(60), <1>1, <3>2, <4>1
      <4>3. QED
        BY <4>1, <4>2
    <3>3. QED
      BY SMTT(60), <1>1, <1>2, <3>1, <3>2
  <2>5. ASSUME NEW c \in D, NEW d \in D
        PROVE  c = d \/ (\A l \in c.lasts : l < d.first) \/ (\A l \in d.lasts : l < c.first)
    <3>1. CASE c \in C /\ d \in C
      BY <1>5, <3>1
    <3>2. CASE c \in C /\ d = new
      BY SMTT(60), <1>2, <3>2
    <3>3. CASE c = new /\ d \in C
      BY SMTT(60), <1>2, <3>3
    <3>4. QED
      BY <3>1, <3>2, <3>3
  <2> HIDE DEF D
  <2>6. QED
    BY <2>1, <2>2, <2>3, <2>4, <2>5 DEF Consecutive
<1>7. CASE room # {}
  <2>1. PICK b \in room : TRUE
    BY <1>7
  <2> DEFINE grown == [first |-> b.first, lasts |-> b.lasts \cup {t}]
             D == (C \ {b}) \cup {grown}
  <2>2. b \in C /\ \A c \in C : c.first <= b.first
    BY DEF Newest
  <2>3. room = {b}
    <3>1. ASSUME NEW c \in room
          PROVE  c = b
      <4>1. c \in C /\ c.first = b.first
        BY SMTT(60), <1>2, <2>2 DEF Newest
      <4>2. QED
        BY SMTT(60), <2>2, <4>1, OneFirst
    <3>2. QED
      BY <3>1
  <2>4. Chunked(C, s + 1, t) = D
    BY <2>3 DEF Chunked
  <2>5. D \subseteq Chunk
    BY SMTT(60), <1>1, <1>2, <2>2 DEF Chunk
  <2>6. \A e \in E : b.first <= e => e \in b.lasts
    <3>1. ASSUME NEW e \in E, b.first <= e
          PROVE  e \in b.lasts
      <4>1. PICK d \in C : b.first <= d.first /\ e \in d.lasts
        BY <2>2, <3>1, KeptFrom
      <4>2. d.first = b.first
        BY SMTT(60), <1>2, <2>2, <4>1
      <4>3. d = b
        BY SMTT(60), <2>2, <4>1, <4>2, OneFirst
      <4>4. QED
        BY <4>1, <4>3
    <3>2. QED
      BY <3>1
  <2>7. ASSUME NEW c \in D
        PROVE  /\ c.first - 1 \in F /\ c.lasts \subseteq F /\ c.lasts # {}
               /\ \A l \in c.lasts : c.first <= l
               /\ \A l \in c.lasts, e \in F : c.first <= e /\ e < l => e \in c.lasts
    <3>1. CASE c \in C
      BY SMTT(60), <1>1, <1>2, <1>3, <3>1
    <3>2. CASE c = grown
      <4>1. c.first - 1 \in F /\ c.lasts \subseteq F /\ c.lasts # {}
        BY <1>2, <2>2, <3>2
      <4>2. \A l \in c.lasts : c.first <= l
        BY SMTT(60), <1>1, <1>2, <2>2, <3>2
      <4>3. \A l \in c.lasts, e \in F : c.first <= e /\ e < l => e \in c.lasts
        BY <2>6, <3>2
      <4>4. QED
        BY <4>1, <4>2, <4>3
    <3>3. QED
      BY <3>1, <3>2
  <2>8. ASSUME NEW c \in D, NEW m \in c.first .. t
        PROVE  \E d \in D : c.first <= d.first /\ d.first <= m /\ \E l \in d.lasts : m <= l
    <3>1. PICK o \in C : o.first = c.first
      BY SMTT(60), <2>2
    <3>2. o.first \in Nat /\ b.first \in Nat /\ o.first <= b.first /\ m \in Nat /\ o.first <= m
      BY SMTT(60), <1>1, <1>2, <2>2, <3>1
    <3>3. CASE m <= s
      <4>1. PICK d \in C : o.first <= d.first /\ d.first <= m /\ \E l \in d.lasts : m <= l
        BY SMTT(60), <1>4, <3>1, <3>2, <3>3
      <4>2. CASE d = b
        <5>1. grown.first = d.first /\ \E l \in grown.lasts : m <= l
          BY <4>1, <4>2
        <5>2. QED
          BY <3>1, <4>1, <5>1
      <4>3. CASE d # b
        <5>1. d \in D
          BY <4>3
        <5>2. QED
          BY <3>1, <4>1, <5>1
      <4>4. QED
        BY <4>2, <4>3
    <3>4. CASE m > s
      <4>1. b.first <= m /\ m <= t
        BY SMTT(60), <1>1, <1>2, <2>2, <3>2, <3>4
      <4>2. grown.first = b.first /\ t \in grown.lasts /\ grown \in D
        OBVIOUS
      <4>3. QED
        BY <3>1, <3>2, <4>1, <4>2
    <3>5. QED
      BY SMTT(60), <3>2, <3>3, <3>4
  <2>9. ASSUME NEW c \in D, NEW d \in D
        PROVE  c = d \/ (\A l \in c.lasts : l < d.first) \/ (\A l \in d.lasts : l < c.first)
    <3>1. ASSUME NEW o \in C, o # b
          PROVE  \A l \in o.lasts : l < b.first
      <4>1. CASE \A l \in b.lasts : l < o.first
        BY SMTT(60), <1>2, <2>2, <4>1
      <4>2. QED
        BY <1>5, <2>2, <3>1, <4>1
    <3>2. CASE c \in C \ {b} /\ d \in C \ {b}
      BY <1>5, <3>2
    <3>3. CASE c = grown \/ d = grown
      BY SMTT(60), <3>1, <3>3
    <3>4. QED
      BY <3>2, <3>3
  <2> HIDE DEF D
  <2>10. QED
    BY <2>4, <2>5, <2>7, <2>8, <2>9 DEF Consecutive
<1>8. QED
  BY <1>6, <1>7

------------------------------------------------------------------------------
(* What the readers are given.                                             *)

\* The ring as the readers find it.
LEMMA RingFacts ==
    ASSUME TypeOK, RingInv
    PROVE  /\ ring.chunks \in SUBSET Chunk /\ ring.seq \in Nat /\ ring.durable \in Nat
           /\ ring.durable <= ring.seq /\ ends \in SUBSET (0 .. ring.seq)
           /\ Consecutive(ring.chunks, ring.seq, ends)
           /\ LET r == [ring EXCEPT !.closed = FALSE]
              IN  /\ r.chunks = ring.chunks /\ r.seq = ring.seq /\ r.durable = ring.durable
                  /\ r.epoch = ring.epoch /\ r.closed = FALSE
<1>1. ring \in [chunks : SUBSET Chunk, seq : 0 .. MaxSeq, durable : 0 .. MaxSeq,
                epoch : Nat, closed : BOOLEAN]
  BY DEF TypeOK, Chunk
<1>2. ends \subseteq Nat /\ MaxSeq \in Nat
  BY SMTT(60), FeedAssumption DEF TypeOK
<1>3. QED
  BY SMTT(60), <1>1, <1>2 DEF RingInv

\* Records are known by numbers.
LEMMA EndsNumbers ==
    ASSUME TypeOK
    PROVE  ends \in SUBSET Nat
BY SMTT(60), FeedAssumption DEF TypeOK

\* Where a chunk starts no later than the write after the cursor, every record
\* after the cursor is kept, and what is kept was appended.
LEMMA AllKept ==
    ASSUME NEW r, r.chunks \in SUBSET Chunk, NEW s \in Nat, NEW E \in SUBSET (0 .. s),
           Consecutive(r.chunks, s, E), NEW c \in Nat
    PROVE  /\ Kept(r) \subseteq E
           /\ (\E b \in r.chunks : b.first <= c + 1) => {e \in E : e > c} \subseteq Kept(r)
<1>1. Kept(r) \subseteq E
  BY SMTT(60) DEF Consecutive, Kept
<1>2. ASSUME NEW b \in r.chunks, b.first <= c + 1, NEW e \in E, e > c
      PROVE  e \in Kept(r)
  <2>1. b.first <= e
    BY SMTT(60), <1>2 DEF Chunk
  <2>2. \E d \in r.chunks : e \in d.lasts
    BY <2>1, KeptFrom
  <2>3. QED
    BY <2>2 DEF Kept
<1>3. QED
  BY <1>1, <1>2

\* Feed::next gives a stream that stands at the end of a record every record
\* after it that is durable and fits, with none left out: the ring's chunks and
\* what they let go of never show.
LEMMA NextFollows == TypeOK /\ RingInv => NextIsNext
<1> SUFFICES ASSUME TypeOK, RingInv, NEW c \in ends
             PROVE  LET t == NextAfter([ring EXCEPT !.closed = FALSE], c, ring.epoch)
                        after == {e \in ends : e > c}
                    IN  /\ Serves(ring, c) => t.is # "behind"
                        /\ t.is = "records" =>
                              /\ t.first = c + 1 /\ t.lasts \subseteq after
                              /\ \A l \in t.lasts, e \in after : e < l => e \in t.lasts
                        /\ t.is = "nothing" => \A e \in after : e > ring.durable
  BY DEF NextIsNext
<1> DEFINE r == [ring EXCEPT !.closed = FALSE]
           after == {e \in ends : e > c}
           dur == DurableFrom(r, c + 1)
           lasts == {l \in dur : l - c <= Message \/ \A p \in dur : l <= p}
           t == NextAfter(r, c, ring.epoch)
           Right(u) == /\ Serves(ring, c) => u.is # "behind"
                       /\ u.is = "records" =>
                             /\ u.first = c + 1 /\ u.lasts \subseteq after
                             /\ \A l \in u.lasts, e \in after : e < l => e \in u.lasts
                       /\ u.is = "nothing" => \A e \in after : e > ring.durable
<1> SUFFICES Right(t)
  OBVIOUS
<1>1. /\ ring.chunks \in SUBSET Chunk /\ ring.seq \in Nat /\ ring.durable \in Nat
      /\ ring.durable <= ring.seq /\ ends \in SUBSET (0 .. ring.seq)
      /\ Consecutive(ring.chunks, ring.seq, ends)
  BY RingFacts
<1>2. /\ r.chunks = ring.chunks /\ r.seq = ring.seq /\ r.durable = ring.durable
      /\ r.epoch = ring.epoch /\ r.closed = FALSE
  BY RingFacts
<1> HIDE DEF r
<1>3. c \in Nat /\ Message \in Nat
  BY SMTT(60), <1>1, RingAssumption
<1>4. dur = {l \in Kept(r) : l >= c + 1 /\ l <= ring.durable}
  BY <1>2 DEF DurableFrom
<1> HIDE DEF dur
<1>5. dur \subseteq after /\ dur \subseteq Nat
  <2>1. Kept(r) \subseteq ends
    BY <1>1, <1>2, <1>3, AllKept
  <2>2. ASSUME NEW l \in dur
        PROVE  l \in ends /\ l \in Nat /\ l > c
    <3>1. l \in Kept(r) /\ l >= c + 1
      BY <1>4
    <3>2. l \in ends /\ l \in Nat
      BY <2>1, <3>1, EndsNumbers
    <3>3. QED
      BY SMTT(60), <1>3, <3>1, <3>2
  <2>3. QED
    BY <2>2
<1>6. ASSUME StartsAfter(r, c)
      PROVE  \A e \in after : e <= ring.durable => e \in dur
  <2>1. \E b \in ring.chunks : b.first <= c + 1
    BY <1>2, <1>6 DEF StartsAfter
  <2>2. after \subseteq Kept(r)
    BY <1>1, <1>2, <1>3, <2>1, AllKept
  <2>3. QED
    BY SMTT(60), <1>1, <1>3, <1>4, <2>2
<1>7. ASSUME Serves(ring, c), c < ring.durable
      PROVE  StartsAfter(r, c)
  <2>1. PICK b \in ring.chunks : b.first <= c + 1
    BY SMTT(60), <1>1, <1>3, <1>7 DEF Serves
  <2>2. c + 1 \in b.first .. ring.seq
    BY SMTT(60), <1>1, <1>3, <1>7, <2>1 DEF Chunk
  <2>3. PICK d \in ring.chunks : d.first <= c + 1 /\ \E l \in d.lasts : c + 1 <= l
    BY <1>1, <2>2 DEF Consecutive
  <2>4. PICK l \in d.lasts : c + 1 <= l
    BY <2>3
  <2>5. d.first \in Nat /\ l \in Nat
    BY <1>1 DEF Chunk
  <2>6. CASE d.first # c + 1
    <3>1. d.first <= c /\ c < l
      BY SMTT(60), <1>3, <2>3, <2>4, <2>5, <2>6
    <3>2. c \in d.lasts
      BY <1>1, <3>1 DEF Consecutive
    <3>3. QED
      BY <1>2, <2>3, <3>2 DEF StartsAfter
  <2>7. CASE d.first = c + 1
    BY <1>2, <2>3, <2>7 DEF StartsAfter
  <2>8. QED
    BY <2>6, <2>7
<1>8. ASSUME StartsAfter(r, c), NEW l \in lasts, NEW e \in after, e < l
      PROVE  e \in lasts
  <2>1. l \in dur /\ l \in Nat /\ e \in Nat /\ l <= ring.durable
    BY SMTT(60), <1>1, <1>4, <1>5
  <2>2. e \in dur
    BY SMTT(60), <1>1, <1>6, <1>8, <2>1
  <2>3. l - c <= Message
    BY SMTT(60), <1>3, <1>8, <2>1, <2>2
  <2>4. e - c <= Message
    BY SMTT(60), <1>3, <1>8, <2>1, <2>3
  <2>5. QED
    BY <2>2, <2>4
<1>9. ASSUME StartsAfter(r, c), lasts = {}
      PROVE  \A e \in after : e > ring.durable
  <2>1. dur = {}
    <3>1. SUFFICES ASSUME dur # {}
                   PROVE  FALSE
      OBVIOUS
    <3>2. PICK l \in dur : \A p \in dur : l <= p
      BY <1>5, <3>1, LeastOf
    <3>3. QED
      BY <1>9, <3>2
  <2>2. \A e \in after : ~(e <= ring.durable)
    BY <1>6, <1>9, <2>1
  <2>3. \A e \in after : e \in Nat
    BY SMTT(60), <1>1
  <2>4. QED
    BY SMTT(60), <1>1, <2>2, <2>3
<1> HIDE DEF lasts
<1>10. t = IF c >= ring.durable THEN Told("nothing")
           ELSE IF ~StartsAfter(r, c) THEN Told("behind")
           ELSE IF lasts = {} THEN Told("nothing")
           ELSE [is |-> "records", first |-> c + 1, lasts |-> lasts]
  BY <1>2 DEF NextAfter, lasts, dur
<1>11. lasts \subseteq after
  BY <1>5 DEF lasts
<1> HIDE DEF t
<1>12. CASE c >= ring.durable
  BY SMTT(60), <1>1, <1>3, <1>10, <1>12 DEF Told
<1>13. CASE c < ring.durable /\ ~StartsAfter(r, c)
  <2>1. t = Told("behind") /\ ~Serves(ring, c)
    BY SMTT(60), <1>1, <1>3, <1>7, <1>10, <1>13
  <2>2. QED
    BY <2>1 DEF Told
<1>14. CASE c < ring.durable /\ StartsAfter(r, c) /\ lasts = {}
  <2>1. t = Told("nothing")
    BY <1>1, <1>3, <1>10, <1>14
  <2>2. QED
    BY <1>9, <1>14, <2>1 DEF Told
<1>15. CASE c < ring.durable /\ StartsAfter(r, c) /\ lasts # {}
  <2>1. t = [is |-> "records", first |-> c + 1, lasts |-> lasts]
    BY SMTT(60), <1>1, <1>3, <1>10, <1>15
  <2>2. QED
    BY <1>8, <1>11, <1>15, <2>1
<1>16. QED
  BY SMTT(60), <1>1, <1>3, <1>12, <1>13, <1>14, <1>15

\* Where a chunk starts no later than the write after the cursor, StartOf is the
\* start of the record that holds that write.
LEMMA StartOfRecord ==
    ASSUME NEW r, r.chunks \in SUBSET Chunk, NEW s \in Nat, NEW E \in SUBSET (0 .. s),
           Consecutive(r.chunks, s, E), NEW c \in Nat,
           NEW b \in r.chunks, b.first <= c + 1
    PROVE  /\ StartOf(r, c) \in Nat /\ StartOf(r, c) <= c + 1 /\ StartOf(r, c) - 1 \in E
           /\ \A e \in E : e <= c => e < StartOf(r, c)
<1> DEFINE starts == {d.first : d \in r.chunks} \cup {l + 1 : l \in Kept(r)}
           low == {x \in starts : x <= c + 1}
           x0 == StartOf(r, c)
<1>0. \A e \in E : e \in Nat
  BY SMTT(60)
<1>1. Kept(r) \subseteq E
  BY AllKept
<1>2. \A x \in starts : x \in Nat /\ x - 1 \in E
  <2>1. \A d \in r.chunks : d.first \in Nat /\ d.first - 1 \in E
    BY DEF Consecutive, Chunk
  <2>2. \A l \in Kept(r) : l \in E /\ l \in Nat
    BY <1>0, <1>1
  <2>3. ASSUME NEW l \in Kept(r)
        PROVE  l + 1 \in Nat /\ (l + 1) - 1 \in E
    <3>1. l \in E /\ l \in Nat
      BY <2>2
    <3>2. (l + 1) - 1 = l
      BY SMTT(60), <3>1
    <3>3. QED
      BY SMTT(60), <3>1, <3>2
  <2>4. ASSUME NEW x \in starts
        PROVE  x \in Nat /\ x - 1 \in E
    BY <2>1, <2>3
  <2>5. QED
    BY <2>4
<1>3. b.first \in low
  OBVIOUS
<1>4. \A e \in Kept(r) : e + 1 \in starts
  OBVIOUS
<1> HIDE DEF starts
<1>5. PICK x \in low : \A y \in low : y <= x
  <2>1. low \in SUBSET (0 .. c + 1) /\ low # {} /\ c + 1 \in Nat
    BY SMTT(60), <1>2, <1>3
  <2>2. QED
    BY <2>1, GreatestOf
<1>6. x \in starts /\ x <= c + 1 /\ \A p \in starts : p <= c + 1 => p <= x
  BY <1>5
<1>7. x0 = CHOOSE y \in starts : y <= c + 1 /\ \A p \in starts : p <= c + 1 => p <= y
  BY DEF StartOf, starts
<1> HIDE DEF x0
<1>8. x0 \in starts /\ x0 <= c + 1 /\ \A p \in starts : p <= c + 1 => p <= x0
  BY <1>6, <1>7
<1>9. ASSUME NEW e \in E, e <= c
      PROVE  e < x0
  <2>1. CASE b.first <= e
    <3>1. \E d \in r.chunks : e \in d.lasts
      BY <2>1, KeptFrom
    <3>2. e \in Kept(r)
      BY <3>1 DEF Kept
    <3>3. e \in Nat /\ x0 \in Nat
      BY <1>0, <1>2, <1>8
    <3>4. e + 1 <= c + 1
      BY SMTT(60), <1>9, <3>3
    <3>5. e + 1 <= x0
      BY <1>4, <1>8, <3>2, <3>4
    <3>6. QED
      BY SMTT(60), <3>3, <3>5
  <2>2. CASE e < b.first
    <3>1. b.first <= x0 /\ b.first \in Nat
      BY <1>2, <1>3, <1>8
    <3>2. QED
      BY SMTT(60), <1>2, <1>8, <2>2, <3>1
  <2>3. b.first \in Nat /\ e \in Nat
    BY <1>0 DEF Chunk
  <2>4. QED
    BY SMTT(60), <2>1, <2>2, <2>3
<1>10. QED
  BY <1>2, <1>8, <1>9 DEF x0

\* Feed::changes_after gives a consumer every write after its cursor, from the
\* start of the record that holds the next, and tells it that it fell behind
\* only where the ring let that write go.
LEMMA ChangesAreRead == TypeOK /\ RingInv => ChangesFollow
<1> SUFFICES ASSUME TypeOK, RingInv, NEW c \in 0 .. ring.seq
             PROVE  LET t == ChangesAfter([ring EXCEPT !.closed = FALSE], c)
                        after == {e \in ends : e > c}
                    IN  /\ t.is = "records" =>
                              /\ t.first <= c + 1 /\ t.first - 1 \in ends
                              /\ \A e \in ends \ after : e < t.first
                              /\ t.lasts \subseteq after
                              /\ \A l \in t.lasts, e \in after : e < l => e \in t.lasts
                        /\ t.is = "behind" => ~Serves(ring, c)
                        /\ t.is = "nothing" => \A e \in after : e > ring.durable
  BY DEF ChangesFollow
<1> DEFINE r == [ring EXCEPT !.closed = FALSE]
           after == {e \in ends : e > c}
           from == StartOf(r, c)
           dur == DurableFrom(r, c + 1)
           lasts == {l \in dur : \A p \in dur : p < l => p - from + 1 < Message}
           t == ChangesAfter(r, c)
           Right(u) == /\ u.is = "records" =>
                             /\ u.first <= c + 1 /\ u.first - 1 \in ends
                             /\ \A e \in ends \ after : e < u.first
                             /\ u.lasts \subseteq after
                             /\ \A l \in u.lasts, e \in after : e < l => e \in u.lasts
                       /\ u.is = "behind" => ~Serves(ring, c)
                       /\ u.is = "nothing" => \A e \in after : e > ring.durable
<1> SUFFICES Right(t)
  OBVIOUS
<1>1. /\ ring.chunks \in SUBSET Chunk /\ ring.seq \in Nat /\ ring.durable \in Nat
      /\ ring.durable <= ring.seq /\ ends \in SUBSET (0 .. ring.seq)
      /\ Consecutive(ring.chunks, ring.seq, ends)
  BY RingFacts
<1>2. /\ r.chunks = ring.chunks /\ r.seq = ring.seq /\ r.durable = ring.durable
      /\ r.closed = FALSE
  BY RingFacts
<1> HIDE DEF r
<1>3. c \in Nat
  BY SMTT(60), <1>1
<1> DEFINE served == \E b \in ring.chunks : b.first <= c + 1
<1>4. dur = {l \in Kept(r) : l >= c + 1 /\ l <= ring.durable}
  BY <1>2 DEF DurableFrom
<1>5. served <=> ~(\A b \in ring.chunks : c + 1 < b.first)
  <2>1. \A b \in ring.chunks : b.first \in Nat
    BY <1>1 DEF Chunk
  <2>2. \A b \in ring.chunks : b.first <= c + 1 <=> ~(c + 1 < b.first)
    BY SMTT(60), <1>3, <2>1
  <2>3. QED
    BY <2>2
<1>6. t = IF c >= ring.durable THEN Told("nothing")
          ELSE IF ~served THEN Told("behind")
          ELSE IF lasts = {} THEN Told("nothing")
          ELSE [is |-> "records", first |-> from, lasts |-> lasts]
  <2>1. ~(c > r.seq)
    BY SMTT(60), <1>1, <1>2
  <2>2. QED
    BY <1>2, <1>5, <2>1 DEF ChangesAfter
<1>7. served => /\ from <= c + 1 /\ from - 1 \in ends
                /\ \A e \in ends : e <= c => e < from
  BY <1>1, <1>2, <1>3, StartOfRecord
<1> HIDE DEF dur, from, t, served
<1>8. dur \subseteq after /\ dur \subseteq Nat
  <2>1. Kept(r) \subseteq ends
    BY <1>1, <1>2, <1>3, AllKept
  <2>2. ASSUME NEW l \in dur
        PROVE  l \in ends /\ l \in Nat /\ l > c
    <3>1. \A e \in ends : e \in Nat
      BY EndsNumbers
    <3>2. l \in ends /\ l >= c + 1
      BY <1>4, <2>1
    <3>3. QED
      BY SMTT(60), <1>3, <3>1, <3>2
  <2>3. QED
    BY <2>2
<1>9. ASSUME served
      PROVE  \A e \in after : e <= ring.durable => e \in dur
  <2>1. after \subseteq Kept(r)
    BY <1>1, <1>2, <1>3, <1>9, AllKept DEF served
  <2>2. ASSUME NEW e \in after, e <= ring.durable
        PROVE  e \in dur
    <3>1. e \in ends /\ e \in Nat /\ e > c /\ e \in Kept(r)
      BY <2>1, EndsNumbers
    <3>2. e >= c + 1
      BY SMTT(60), <1>3, <3>1
    <3>3. QED
      BY <1>4, <2>2, <3>1, <3>2
  <2>3. QED
    BY <2>2
<1>10. ASSUME served, NEW l \in lasts, NEW e \in after, e < l
       PROVE  e \in lasts
  <2>1. l \in dur /\ l \in Nat /\ e \in Nat /\ l <= ring.durable
    BY <1>4, <1>8, EndsNumbers
  <2>2. e \in dur
    <3>1. e <= ring.durable
      BY SMTT(60), <1>1, <1>10, <2>1
    <3>2. QED
      BY <1>9, <1>10, <3>1
  <2>3. \A p \in dur : p < e => p < l
    BY SMTT(60), <1>8, <1>10, <2>1
  <2>4. QED
    BY <2>2, <2>3
<1>11. ASSUME served, lasts = {}
       PROVE  \A e \in after : e > ring.durable
  <2>1. dur = {}
    <3>1. SUFFICES ASSUME dur # {}
                   PROVE  FALSE
      OBVIOUS
    <3>2. PICK l \in dur : \A p \in dur : l <= p
      BY <1>8, <3>1, LeastOf
    <3>3. \A p \in dur : ~(p < l)
      BY SMTT(60), <1>8, <3>2
    <3>4. QED
      BY <1>11, <3>3
  <2>2. \A e \in after : ~(e <= ring.durable)
    BY <1>9, <1>11, <2>1
  <2>3. \A e \in after : e \in Nat
    BY SMTT(60), <1>1
  <2>4. QED
    BY SMTT(60), <1>1, <2>2, <2>3
<1>12. lasts \subseteq after
  BY <1>8
<1> HIDE DEF lasts
<1>13. CASE c >= ring.durable
  <2>1. t = Told("nothing")
    BY <1>6, <1>13
  <2>2. \A e \in after : e \in Nat /\ e > c
    BY SMTT(60), <1>1
  <2>3. \A e \in after : e > ring.durable
    BY SMTT(60), <1>1, <1>3, <1>13, <2>2
  <2>4. QED
    BY <2>1, <2>3 DEF Told
<1>14. CASE c < ring.durable /\ ~served
  <2>1. ~Serves(ring, c)
    BY SMTT(60), <1>1, <1>3, <1>14 DEF Serves, served
  <2>2. t = Told("behind")
    BY SMTT(60), <1>1, <1>3, <1>6, <1>14
  <2>3. QED
    BY <2>1, <2>2 DEF Told
<1>15. CASE c < ring.durable /\ served /\ lasts = {}
  <2>1. t = Told("nothing")
    BY <1>1, <1>3, <1>6, <1>15
  <2>2. QED
    BY <1>11, <1>15, <2>1 DEF Told
<1>16. CASE c < ring.durable /\ served /\ lasts # {}
  <2>1. t = [is |-> "records", first |-> from, lasts |-> lasts]
    BY SMTT(60), <1>1, <1>3, <1>6, <1>16
  <2>2. \A e \in ends \ after : e \in Nat /\ e <= c
    BY SMTT(60), <1>1, <1>3
  <2>3. \A e \in ends \ after : e < from
    BY <1>7, <1>16, <2>2
  <2>4. QED
    BY <1>7, <1>10, <1>12, <1>16, <2>1, <2>3
<1>17. QED
  BY SMTT(60), <1>1, <1>3, <1>13, <1>14, <1>15, <1>16

------------------------------------------------------------------------------
(* What a step does to the ring.                                           *)

RingType == [chunks : SUBSET Chunk, seq : 0 .. MaxSeq, durable : 0 .. MaxSeq,
             epoch : Nat, closed : BOOLEAN]

\* Feed::mark_durable moves the durable mark on, up to what is asked and what was
\* appended, and nothing else.
LEMMA MarkDurableMoves ==
    ASSUME NEW r \in RingType, r.durable <= r.seq, NEW u \in Nat
    PROVE  LET m == MarkDurable(r, u)
           IN  /\ m \in RingType /\ m.chunks = r.chunks /\ m.seq = r.seq /\ m.epoch = r.epoch
               /\ r.durable <= m.durable /\ m.durable <= m.seq
               /\ m.durable <= u \/ m.durable = r.durable
<1>1. MaxSeq \in Nat
  BY FeedAssumption
<1>2. QED
  BY SMTT(60), <1>1 DEF RingType, MarkDurable

\* Feed::push of the next record puts it in its chunk, drops the oldest ones and
\* leaves what is durable as it was.
LEMMA PushMoves ==
    ASSUME NEW r \in RingType, NEW n \in 1 .. 2
    PROVE  Push(r, r.seq + n, n) =
             [r EXCEPT !.chunks = DropOldest(Chunked(r.chunks, r.seq + 1, r.seq + n), r.seq + n),
                       !.seq = r.seq + n]
<1>1. r.seq \in Nat /\ (r.seq + n) + 1 - n = r.seq + 1
  BY SMTT(60), FeedAssumption DEF RingType
<1>2. LedTo(r, r.seq + 1) = r
  BY DEF LedTo
<1>3. QED
  BY <1>1, <1>2 DEF Push

\* The three things a step does to the ring: leaves its records as they are, with
\* what is durable moved on or not; appends one; or starts it over.
Stays == /\ ring'.chunks = ring.chunks /\ ring'.seq = ring.seq /\ ring'.epoch = ring.epoch
         /\ ends' = ends /\ ring.durable <= ring'.durable /\ ring'.durable <= ring.seq
Grows == /\ adopting = {} /\ adopting' = {}
         /\ \E n \in 1 .. 2 :
               /\ ring'.chunks =
                     DropOldest(Chunked(ring.chunks, ring.seq + 1, ring.seq + n), ring.seq + n)
               /\ ring'.seq = ring.seq + n /\ ends' = ends \cup {ring.seq + n}
         /\ ring'.durable = ring.durable /\ ring'.epoch = ring.epoch
StartsOver == /\ adopting' = {}
              /\ \E i \in adopting :
                    /\ ring'.chunks = {} /\ ring'.seq = i.seq /\ ring'.durable = i.seq
                    /\ ring'.epoch = ring.epoch + 1 /\ ends' = {i.seq}

\* Tee::record puts a record behind those there are.
LEMMA AppendedGrows ==
    ASSUME TypeOK, RingInv, NEW n \in 1 .. 2, Appended(n), UNCHANGED adopting
    PROVE  ring' \in RingType /\ Grows
<1>1. /\ ring \in RingType /\ ring.seq \in Nat /\ MaxSeq \in Nat
      /\ ring.chunks \in SUBSET Chunk /\ ends \in SUBSET (0 .. ring.seq)
      /\ Consecutive(ring.chunks, ring.seq, ends) /\ ring.seq \in ends
  BY RingFacts, FeedAssumption DEF TypeOK, RingType, Chunk, RingInv
<1> DEFINE chunks == Chunked(ring.chunks, ring.seq + 1, ring.seq + n)
           kept == DropOldest(chunks, ring.seq + n)
<1>2. ring' = [ring EXCEPT !.chunks = kept, !.seq = ring.seq + n]
  BY <1>1, PushMoves DEF Appended
<1>3. n \in Nat \ {0}
  BY SMTT(60)
<1>4. chunks \subseteq Chunk
  BY <1>1, <1>3, ChunkedConsecutive
<1>5. kept \in SUBSET Chunk
  BY <1>4 DEF DropOldest
<1> HIDE DEF kept
<1>6. setting.seqs \in 0 .. MaxSeq
  BY FeedAssumption DEF TypeOK
<1>7. ring.seq + n \in 0 .. MaxSeq
  BY SMTT(60), <1>1, <1>6 DEF Appended
<1>8. ring' \in RingType
  BY <1>1, <1>2, <1>5, <1>7 DEF RingType
<1>9. /\ ring'.chunks = kept /\ ring'.seq = ring.seq + n
      /\ ring'.durable = ring.durable /\ ring'.epoch = ring.epoch
  BY <1>1, <1>2 DEF RingType
<1>10. QED
  BY <1>8, <1>9 DEF Appended, Grows, kept

\* Every step of the feed does one of the three, and keeps the ring a ring.
LEMMA RingSteps ==
    ASSUME TypeOK, RingInv, Step
    PROVE  ring' \in RingType /\ (Stays \/ Grows \/ StartsOver)
<1>1. /\ ring \in RingType /\ ring.durable <= ring.seq /\ ring.seq \in Nat
      /\ ring.durable \in Nat /\ MaxSeq \in Nat
  BY RingFacts, FeedAssumption DEF TypeOK, RingType, Chunk
<1>2. CASE UNCHANGED <<ring, ends>>
  BY SMTT(60), <1>1, <1>2 DEF Stays
<1>3. ASSUME NEW u \in Nat, ring' = MarkDurable(ring, u), ends' = ends
      PROVE  ring' \in RingType /\ Stays
  BY <1>1, <1>3, MarkDurableMoves DEF Stays
<1>4. ASSUME NEW n \in 1 .. 2, Appended(n), UNCHANGED adopting
      PROVE  ring' \in RingType /\ Grows
  BY <1>4, AppendedGrows
<1>5. ASSUME NEW q \in Requests, NEW n \in 1 .. 2, Write(q, n)
      PROVE  ring' \in RingType /\ Grows
  BY <1>4, <1>5 DEF Write
<1>6. ASSUME NEW n \in 1 .. 2, Buffered(n)
      PROVE  ring' \in RingType /\ Grows
  BY <1>4, <1>6 DEF Buffered
<1>7. ASSUME NEW q \in Requests, Synced(q)
      PROVE  ring' \in RingType /\ Stays
  <2>1. request[q].upto \in Nat
    BY SMTT(60), <1>1 DEF TypeOK
  <2>2. QED
    BY <1>3, <1>7, <2>1 DEF Synced, Runs
<1>8. ASSUME SyncerSynced
      PROVE  ring' \in RingType /\ Stays
  <2>1. PICK d \in syncer : Runs(d)
    BY <1>8 DEF SyncerSynced
  <2>2. d.upto \in Nat
    BY SMTT(60), <1>1 DEF TypeOK
  <2>3. QED
    BY <1>3, <2>1, <2>2 DEF Runs
<1>9. ASSUME Rewrite \/ Adopt
      PROVE  ring' \in RingType /\ Stays
  BY <1>1, <1>3, <1>9 DEF Rewrite, Adopt
<1>10. ASSUME StartOver
       PROVE  ring' \in RingType /\ StartsOver
  <2>1. PICK i \in adopting : ring' = Started(ring, i.seq) /\ ends' = {i.seq}
    BY <1>10 DEF StartOver
  <2>2. i.seq \in 0 .. MaxSeq
    BY DEF TypeOK
  <2>3. ring' = [ring EXCEPT !.chunks = {}, !.seq = i.seq, !.durable = i.seq,
                            !.epoch = ring.epoch + 1]
    BY <1>1, <2>1 DEF Started, RingType
  <2>4. /\ ring'.chunks = {} /\ ring'.seq = i.seq /\ ring'.durable = i.seq
        /\ ring'.epoch = ring.epoch + 1
    BY <1>1, <2>3 DEF RingType
  <2>5. ring' \in RingType
    <3>1. ring.epoch + 1 \in Nat /\ {} \in SUBSET Chunk
      BY SMTT(60), <1>1 DEF RingType
    <3>2. QED
      BY <1>1, <2>2, <2>3, <3>1 DEF RingType
  <2>6. QED
    BY <1>10, <2>1, <2>4, <2>5 DEF StartsOver, StartOver
<1>11. ASSUME Close \/ Reopen
       PROVE  ring' \in RingType /\ Stays
  <2>1. PICK b \in BOOLEAN : ring' = [ring EXCEPT !.closed = b]
    BY <1>11 DEF Close, Reopen
  <2>2. ring' \in RingType
    BY <1>1, <2>1 DEF RingType
  <2>3. /\ ring'.chunks = ring.chunks /\ ring'.seq = ring.seq /\ ring'.epoch = ring.epoch
        /\ ring'.durable = ring.durable
    BY <1>1, <2>1 DEF RingType
  <2>4. ends' = ends
    BY <1>11 DEF Close, Reopen
  <2>5. QED
    BY SMTT(60), <1>1, <2>2, <2>3, <2>4 DEF Stays
<1>12. ASSUME NEW q \in Requests, Answer(q) \/ WaitOut(q)
       PROVE  UNCHANGED <<ring, ends>>
  BY <1>12 DEF Answer, WaitOut, feedVars
<1>13. ASSUME SyncerFlush
       PROVE  UNCHANGED <<ring, ends>>
  BY <1>13 DEF SyncerFlush, feedVars
<1>14. ASSUME NEW k \in Streams,
              Judge(k) \/ Open(k) \/ Sending(k) \/ SendNext(k) \/ Sent(k) \/ Break(k) \/ Hold(k)
       PROVE  UNCHANGED <<ring, ends>>
  BY <1>14 DEF Judge, Open, Sending, SendNext, Sent, Break, Hold, feedVars
<1>15. QED
  BY <1>2, <1>5, <1>6, <1>7, <1>8, <1>9, <1>10, <1>11, <1>12, <1>13, <1>14 DEF Step

\* RingInv is kept.
LEMMA RingKeeps ==
    ASSUME TypeOK, RingInv, Step
    PROVE  RingInv'
<1>1. /\ ring.chunks \in SUBSET Chunk /\ ring.seq \in Nat /\ ring.durable \in Nat
      /\ ring.durable <= ring.seq /\ ends \in SUBSET (0 .. ring.seq) /\ ring.seq \in ends
      /\ Consecutive(ring.chunks, ring.seq, ends)
  BY RingFacts DEF RingInv
<1>2. CASE Stays
  BY <1>1, <1>2 DEF Stays, RingInv
<1>3. CASE Grows
  <2>1. PICK n \in 1 .. 2 :
          /\ ring'.chunks =
                DropOldest(Chunked(ring.chunks, ring.seq + 1, ring.seq + n), ring.seq + n)
          /\ ring'.seq = ring.seq + n /\ ends' = ends \cup {ring.seq + n}
    BY <1>3 DEF Grows
  <2> DEFINE chunks == Chunked(ring.chunks, ring.seq + 1, ring.seq + n)
  <2>2. n \in Nat \ {0} /\ ring.seq + n \in Nat
    BY SMTT(60), <1>1
  <2>3. chunks \in SUBSET Chunk /\ Consecutive(chunks, ring.seq + n, ends \cup {ring.seq + n})
    BY <1>1, <2>2, ChunkedConsecutive
  <2> HIDE DEF chunks
  <2>4. ends \cup {ring.seq + n} \in SUBSET Nat
    BY <2>2, EndsNumbers
  <2> DEFINE s == ring.seq + n
             E == ends \cup {s}
  <2> HIDE DEF s, E
  <2>5. Consecutive(DropOldest(chunks, s), s, E)
    <3>1. s \in Nat /\ E \in SUBSET Nat /\ chunks \in SUBSET Chunk /\ Consecutive(chunks, s, E)
      BY <2>2, <2>3, <2>4 DEF s, E
    <3>2. QED
      BY <3>1, DropOldestConsecutive
  <2>6. Consecutive(ring'.chunks, ring'.seq, ends')
    BY <2>1, <2>5 DEF chunks, s, E
  <2>7. \A e \in ends : e <= ring.seq + n
    BY SMTT(60), <1>1, <2>2
  <2>8. \A e \in ends' : e <= ring'.seq
    BY SMTT(60), <2>1, <2>2, <2>7
  <2>9. ring'.durable <= ring'.seq /\ ring'.seq \in ends'
    BY SMTT(60), <1>1, <1>3, <2>1 DEF Grows
  <2>10. QED
    BY <2>6, <2>8, <2>9 DEF RingInv
<1>4. CASE StartsOver
  <2>1. PICK i \in adopting : /\ ring'.chunks = {} /\ ring'.seq = i.seq /\ ring'.durable = i.seq
                             /\ ends' = {i.seq}
    BY <1>4 DEF StartsOver
  <2>2. i.seq \in Nat
    BY SMTT(60), FeedAssumption DEF TypeOK
  <2>3. QED
    BY SMTT(60), <2>1, <2>2 DEF RingInv, Consecutive
<1>5. QED
  BY <1>2, <1>3, <1>4, RingSteps

------------------------------------------------------------------------------
(* Types.                                                                  *)

\* The records a stream is given are of the feed it began with, after its cursor
\* and durable.
LEMMA GivenDurable ==
    ASSUME TypeOK, RingInv, NEW c \in 0 .. MaxSeq, NEW e \in Nat,
           NextAfter(ring, c, e).is = "records"
    PROVE  /\ ring.epoch = e
           /\ \A l \in NextAfter(ring, c, e).lasts :
                 l \in 0 .. MaxSeq /\ l > c /\ l <= ring.durable
<1>1. /\ ring.chunks \in SUBSET Chunk /\ ring.seq \in Nat /\ ring.durable \in 0 .. MaxSeq
      /\ ends \in SUBSET (0 .. ring.seq) /\ Consecutive(ring.chunks, ring.seq, ends)
      /\ MaxSeq \in Nat
  BY RingFacts, FeedAssumption DEF TypeOK
<1>2. Kept(ring) \subseteq ends
  BY <1>1, AllKept
<1>3. \A l \in ends : l \in Nat
  BY SMTT(60), <1>1
<1>4. ring.epoch = e /\ NextAfter(ring, c, e).lasts \subseteq DurableFrom(ring, c + 1)
  BY DEF NextAfter, Told
<1>5. \A l \in DurableFrom(ring, c + 1) : l \in Nat /\ l >= c + 1 /\ l <= ring.durable
  BY <1>2, <1>3 DEF DurableFrom
<1>6. QED
  BY SMTT(60), <1>1, <1>4, <1>5

\* A replica with nothing on this history is served nothing but an image.
LEMMA ServedStands ==
    ASSUME TypeOK, RingInv, NEW c \in -1 .. MaxSeq, Serves(ring, c)
    PROVE  c \in 0 .. MaxSeq /\ c <= ring.seq
<1>1. ring.chunks \in SUBSET Chunk /\ ring.seq \in Nat /\ MaxSeq \in Nat
  BY RingFacts, FeedAssumption
<1>2. \A b \in ring.chunks : b.first \in Nat /\ b.first > 0
  BY SMTT(60), <1>1 DEF Chunk
<1>3. c # -1
  BY SMTT(60), <1>1, <1>2 DEF Serves
<1>4. QED
  BY SMTT(60), <1>1, <1>3 DEF Serves

StreamType == [phase : {"none", "judged", "opened", "ready", "sent"}, cursor : 0 .. MaxSeq,
               epoch : Nat, image : BOOLEAN, caught : BOOLEAN]
SenderType == [sent : 0 .. MaxSeq, lagging : BOOLEAN]
RequestType == [phase : {"idle", "flushed", "waiting", "answered"}, upto : 0 .. MaxSeq, file : Nat]

\* TypeOK but for the ring, by the variables that change together.
FileOK == /\ disk \in 0 .. MaxSeq /\ ends \subseteq 0 .. MaxSeq
          /\ adopting \subseteq [seq : 0 .. MaxSeq, shared : 0 .. MaxSeq]
WritesOK == /\ request \in [Requests -> RequestType]
            /\ syncer \subseteq [upto : 0 .. MaxSeq, file : Nat]
            /\ keeping \in [Requests -> SUBSET Streams] /\ waitedOut \in Nat
StreamsOK == /\ stream \in [Streams -> StreamType] /\ sender \in [Streams -> SUBSET SenderType]
             /\ \A k \in Streams : \A s \in sender[k] :
                   stream[k].phase \in {"ready", "sent"} /\ s.sent <= stream[k].cursor
             /\ held \in [Streams -> BOOLEAN] /\ granted \in Nat
GotOK == got \in [Streams -> -1 .. MaxSeq]

\* The parts are all of it.
LEMMA TypeParts ==
    TypeOK <=> /\ setting \in Settings /\ ring \in RingType
               /\ FileOK /\ WritesOK /\ StreamsOK /\ GotOK
BY DEF TypeOK, RingType, Chunk, FileOK, WritesOK, StreamsOK, GotOK, RequestType, StreamType, SenderType

\* The file, and an image on its way, stay within the bounds.
LEMMA FileKeeps ==
    ASSUME TypeOK, RingInv, Step
    PROVE  FileOK'
<1>1. /\ ring \in RingType /\ FileOK /\ WritesOK /\ MaxSeq \in Nat /\ setting.seqs \in 0 .. MaxSeq
      /\ ring.seq \in 0 .. MaxSeq
  BY TypeParts, FeedAssumption DEF TypeOK
<1>2. ends' \subseteq 0 .. MaxSeq
  <2>1. ring' \in RingType /\ (Stays \/ Grows \/ StartsOver)
    BY RingSteps
  <2>2. ring'.seq \in 0 .. MaxSeq
    BY <2>1 DEF RingType
  <2>3. CASE Stays
    BY <1>1, <2>3 DEF Stays, FileOK
  <2>4. CASE Grows
    BY <1>1, <2>2, <2>4 DEF Grows, FileOK
  <2>5. CASE StartsOver
    BY <2>2, <2>5 DEF StartsOver
  <2>6. QED
    BY <2>1, <2>3, <2>4, <2>5
<1>3. ASSUME NEW d, d.upto \in 0 .. MaxSeq, Runs(d)
      PROVE  disk' \in 0 .. MaxSeq /\ adopting' = adopting
  BY <1>1, <1>3 DEF Runs, Later, FileOK
<1>4. ASSUME NEW q \in Requests, Synced(q)
      PROVE  disk' \in 0 .. MaxSeq /\ adopting' = adopting
  <2>1. request[q].upto \in 0 .. MaxSeq
    BY <1>1 DEF WritesOK, RequestType
  <2>2. QED
    BY <1>3, <1>4, <2>1 DEF Synced
<1>5. ASSUME SyncerSynced
      PROVE  disk' \in 0 .. MaxSeq /\ adopting' = adopting
  <2>1. PICK d \in syncer : Runs(d)
    BY <1>5 DEF SyncerSynced
  <2>2. d.upto \in 0 .. MaxSeq
    BY <1>1 DEF WritesOK
  <2>3. QED
    BY <1>3, <2>1, <2>2
<1>6. ASSUME Adopt
      PROVE  FileOK'
  BY SMTT(60), <1>1, <1>2, <1>6 DEF Adopt, FileOK
<1>7. ASSUME StartOver
      PROVE  FileOK'
  BY <1>1, <1>2, <1>7 DEF StartOver, FileOK
<1>8. ASSUME Rewrite
      PROVE  disk' \in 0 .. MaxSeq /\ adopting' = adopting
  BY <1>1, <1>8 DEF Rewrite
<1>9. ASSUME \/ \E q \in Requests : \/ \E n \in 1 .. 2 : Write(q, n)
                                    \/ Answer(q) \/ WaitOut(q)
             \/ \E n \in 1 .. 2 : Buffered(n)
             \/ SyncerFlush \/ Close \/ Reopen
             \/ \E k \in Streams : \/ Judge(k) \/ Open(k) \/ Sending(k) \/ SendNext(k)
                                   \/ Sent(k) \/ Break(k) \/ Hold(k)
      PROVE  disk' = disk /\ adopting' = adopting
  BY <1>9 DEF Write, Answer, WaitOut, Buffered, SyncerFlush, Close, Reopen, Judge, Open, Sending,
              SendNext, Sent, Break, Hold, feedVars
<1>10. QED
  BY <1>1, <1>2, <1>4, <1>5, <1>6, <1>7, <1>8, <1>9 DEF Step, FileOK

\* What a request or the syncer has under way is within the bounds.
LEMMA WritesKeep ==
    ASSUME TypeOK, Step
    PROVE  WritesOK'
<1>1. /\ ring.seq \in 0 .. MaxSeq /\ ring.epoch \in Nat /\ WritesOK /\ MaxSeq \in Nat
      /\ setting.seqs \in 0 .. MaxSeq
  BY TypeParts, FeedAssumption DEF TypeOK
<1>2. ASSUME NEW q \in Requests, NEW n \in 1 .. 2, Write(q, n)
      PROVE  WritesOK'
  <2>1. ring.seq + n \in 0 .. MaxSeq
    BY SMTT(60), <1>1, <1>2 DEF Write, Appended
  <2>2. [phase |-> "flushed", upto |-> ring.seq + n, file |-> ring.epoch] \in RequestType
    BY <1>1, <2>1 DEF RequestType
  <2>3. QED
    BY <1>1, <1>2, <2>2 DEF Write, WritesOK
<1>3. ASSUME NEW q \in Requests, Synced(q)
      PROVE  WritesOK'
  BY <1>1, <1>3 DEF Synced, WritesOK, RequestType
<1>4. ASSUME NEW q \in Requests, Answer(q)
      PROVE  WritesOK'
  <2>1. KeepingUp \in SUBSET Streams
    BY DEF KeepingUp
  <2>2. QED
    BY <1>1, <1>4, <2>1 DEF Answer, WritesOK, RequestType
<1>5. ASSUME NEW q \in Requests, WaitOut(q)
      PROVE  WritesOK'
  <2>1. PICK late : keeping' = [keeping EXCEPT ![q] = KeepingUp \ late]
    BY <1>5 DEF WaitOut
  <2>2. KeepingUp \ late \in SUBSET Streams
    BY DEF KeepingUp
  <2>3. QED
    BY SMTT(60), <1>1, <1>5, <2>1, <2>2 DEF WaitOut, WritesOK, RequestType
<1>6. ASSUME SyncerFlush \/ SyncerSynced
      PROVE  WritesOK'
  BY SMTT(60), <1>1, <1>6 DEF SyncerFlush, SyncerSynced, WritesOK
<1>7. ASSUME Adopt
      PROVE  WritesOK'
  BY <1>1, <1>7 DEF Adopt, WritesOK
<1>8. ASSUME \/ \E n \in 1 .. 2 : Buffered(n)
             \/ Rewrite \/ StartOver \/ Close \/ Reopen
             \/ \E k \in Streams : \/ Judge(k) \/ Open(k) \/ Sending(k) \/ SendNext(k)
                                   \/ Sent(k) \/ Break(k) \/ Hold(k)
      PROVE  UNCHANGED writeVars
  BY <1>8 DEF Buffered, Rewrite, StartOver, Close, Reopen, Judge, Open, Sending,
              SendNext, Sent, Break, Hold
<1>9. UNCHANGED writeVars => WritesOK'
  BY <1>1 DEF writeVars, WritesOK
<1>10. QED
  BY <1>2, <1>3, <1>4, <1>5, <1>6, <1>7, <1>8, <1>9 DEF Step

\* One stream and its sender changed together.
LEMMA OneStream ==
    ASSUME StreamsOK, NEW k \in Streams, NEW x \in StreamType, NEW S \in SUBSET SenderType,
           \A s \in S : x.phase \in {"ready", "sent"} /\ s.sent <= x.cursor,
           stream' = [stream EXCEPT ![k] = x], sender' = [sender EXCEPT ![k] = S],
           held' = held, granted' \in Nat
    PROVE  StreamsOK'
<1>1. stream' \in [Streams -> StreamType] /\ sender' \in [Streams -> SUBSET SenderType]
  BY DEF StreamsOK
<1>2. ASSUME NEW j \in Streams
      PROVE  \A s \in sender'[j] : stream'[j].phase \in {"ready", "sent"} /\ s.sent <= stream'[j].cursor
  <2>1. CASE j = k
    BY <2>1 DEF StreamsOK
  <2>2. CASE j # k
    BY <2>2 DEF StreamsOK
  <2>3. QED
    BY <2>1, <2>2
<1>3. QED
  BY <1>1, <1>2 DEF StreamsOK

\* A stream is sending while it is ready or has sent, no further than its cursor.
LEMMA StreamsKeep ==
    ASSUME TypeOK, RingInv, Step
    PROVE  StreamsOK'
<1>1. /\ ring.seq \in 0 .. MaxSeq /\ ring.epoch \in Nat /\ StreamsOK /\ GotOK /\ MaxSeq \in Nat
  BY TypeParts, FeedAssumption DEF TypeOK
<1>2. \A k \in Streams : /\ stream[k] \in StreamType /\ sender[k] \in SUBSET SenderType
                         /\ sender = [sender EXCEPT ![k] = sender[k]]
                         /\ \A s \in sender[k] : stream[k].phase \in {"ready", "sent"}
                         /\ \A s \in sender[k] : s.sent <= stream[k].cursor
  BY <1>1 DEF StreamsOK
<1>3. ASSUME NEW k \in Streams, Judge(k)
      PROVE  StreamsOK'
  <2>1. PICK image \in BOOLEAN :
          /\ ~image => Serves(ring, got[k])
          /\ stream' = [stream EXCEPT ![k] =
                [phase |-> "judged", epoch |-> ring.epoch, image |-> image, caught |-> FALSE,
                 cursor |-> IF image THEN ring.seq ELSE got[k]]]
    BY <1>3 DEF Judge
  <2>2. got[k] \in -1 .. MaxSeq
    BY <1>1 DEF GotOK
  <2>3. ~image => got[k] \in 0 .. MaxSeq
    BY <2>1, <2>2, ServedStands
  <2>4. [phase |-> "judged", epoch |-> ring.epoch, image |-> image, caught |-> FALSE,
         cursor |-> IF image THEN ring.seq ELSE got[k]] \in StreamType
    BY <1>1, <2>3 DEF StreamType
  <2>5. sender' = sender /\ held' = held /\ granted' \in Nat /\ sender[k] = {}
    BY <1>1, <1>2, <1>3 DEF Judge, StreamsOK
  <2>6. QED
    BY <1>1, <1>2, <2>1, <2>4, <2>5, OneStream
<1>4. ASSUME NEW k \in Streams, Open(k)
      PROVE  StreamsOK'
  <2>1. stream' = [stream EXCEPT ![k] = [stream[k] EXCEPT !.phase = "opened"]]
    BY <1>4 DEF Open
  <2>2. [stream[k] EXCEPT !.phase = "opened"] \in StreamType
    BY <1>2 DEF StreamType
  <2>3. sender' = sender /\ held' = held /\ granted' \in Nat /\ sender[k] = {}
    BY <1>1, <1>2, <1>4 DEF Open, StreamsOK
  <2>4. QED
    BY <1>1, <1>2, <2>1, <2>2, <2>3, OneStream
<1>5. ASSUME NEW k \in Streams, Sending(k)
      PROVE  StreamsOK'
  <2>1. PICK behind \in BOOLEAN :
          /\ sender' = [sender EXCEPT ![k] = {[sent |-> stream[k].cursor, lagging |-> behind]}]
          /\ granted' = IF behind THEN granted ELSE granted + 1
    <3>1. (k \in NodeStreams) \in BOOLEAN
      BY SMTT(60)
    <3>2. QED
      BY <1>5, <3>1 DEF Sending
  <2> DEFINE x == [stream[k] EXCEPT !.phase = "ready"]
             S == {[sent |-> stream[k].cursor, lagging |-> behind]}
  <2>2. stream' = [stream EXCEPT ![k] = x] /\ held' = held
    BY <1>5 DEF Sending
  <2>3. /\ x \in StreamType /\ x.phase = "ready" /\ x.cursor = stream[k].cursor
        /\ stream[k].cursor \in 0 .. MaxSeq
    BY <1>2 DEF StreamType
  <2>4. S \in SUBSET SenderType /\ \A s \in S : s.sent <= x.cursor
    BY SMTT(60), <2>3 DEF SenderType
  <2>5. granted' \in Nat /\ sender' = [sender EXCEPT ![k] = S]
    BY SMTT(60), <1>1, <2>1 DEF StreamsOK
  <2> HIDE DEF x, S
  <2>6. \A s \in S : x.phase \in {"ready", "sent"} /\ s.sent <= x.cursor
    BY <2>3, <2>4
  <2>7. QED
    BY <1>1, <2>2, <2>3, <2>4, <2>5, <2>6, OneStream
<1>6. ASSUME NEW k \in Streams, Ended(k), held' = held, granted' = granted
      PROVE  StreamsOK'
  <2>1. NoStream \in StreamType /\ {} \in SUBSET SenderType /\ granted' \in Nat
    BY SMTT(60), <1>1, <1>6 DEF NoStream, StreamType, StreamsOK
  <2>2. QED
    BY <1>1, <1>6, <2>1, OneStream DEF Ended
<1>7. ASSUME NEW k \in Streams, SendNext(k)
      PROVE  StreamsOK'
  <2> DEFINE t == NextAfter(ring, stream[k].cursor, stream[k].epoch)
  <2>1. stream[k].cursor \in 0 .. MaxSeq /\ stream[k].epoch \in Nat
    BY <1>2 DEF StreamType
  <2>2. held' = held /\ granted' = granted /\ granted' \in Nat
    BY <1>1, <1>7 DEF SendNext, StreamsOK
  <2>3. ASSUME NEW last \in t.lasts, t.is = "records", sender' = sender,
               stream' = [stream EXCEPT ![k].phase = "sent", ![k].cursor = last,
                                        ![k].caught = FALSE]
        PROVE  StreamsOK'
    <3>1. last \in 0 .. MaxSeq /\ last > stream[k].cursor
      BY <2>1, <2>3, GivenDurable
    <3> DEFINE x == [stream[k] EXCEPT !.phase = "sent", !.cursor = last, !.caught = FALSE]
    <3>2. x \in StreamType /\ x.phase = "sent" /\ x.cursor = last
      BY <1>2, <3>1 DEF StreamType
    <3>3. stream' = [stream EXCEPT ![k] = x]
      BY <2>3
    <3>4. \A s \in sender[k] : s.sent <= last
      BY SMTT(60), <1>2, <2>1, <3>1 DEF SenderType
    <3> HIDE DEF x
    <3>5. sender' = [sender EXCEPT ![k] = sender[k]] /\ sender[k] \in SUBSET SenderType
      BY <1>2, <2>3
    <3>6. \A s \in sender[k] : x.phase \in {"ready", "sent"} /\ s.sent <= x.cursor
      BY <3>2, <3>4
    <3>7. QED
      BY <1>1, <2>2, <3>2, <3>3, <3>5, <3>6, OneStream
  <2>4. ASSUME sender' = sender, stream' = [stream EXCEPT ![k].phase = "sent", ![k].caught = TRUE]
        PROVE  StreamsOK'
    <3> DEFINE x == [stream[k] EXCEPT !.phase = "sent", !.caught = TRUE]
    <3>1. x \in StreamType /\ x.phase = "sent" /\ x.cursor = stream[k].cursor
      BY <1>2 DEF StreamType
    <3>2. stream' = [stream EXCEPT ![k] = x]
      BY <2>4
    <3> HIDE DEF x
    <3>3. sender' = [sender EXCEPT ![k] = sender[k]] /\ sender[k] \in SUBSET SenderType
      BY <1>2, <2>4
    <3>4. \A s \in sender[k] : x.phase \in {"ready", "sent"} /\ s.sent <= x.cursor
      BY <1>2, <3>1
    <3>5. QED
      BY <1>1, <2>2, <3>1, <3>2, <3>3, <3>4, OneStream
  <2>5. QED
    BY <1>6, <1>7, <2>2, <2>3, <2>4 DEF SendNext
<1>8. ASSUME NEW k \in Streams, Sent(k)
      PROVE  StreamsOK'
  <2> DEFINE x == [stream[k] EXCEPT !.phase = "ready"]
             S == {[sent |-> Later(s.sent, stream[k].cursor),
                    lagging |-> s.lagging /\ ~stream[k].caught] : s \in sender[k]}
  <2>1. /\ x \in StreamType /\ x.phase = "ready" /\ x.cursor = stream[k].cursor
        /\ stream[k].cursor \in 0 .. MaxSeq /\ stream[k].caught \in BOOLEAN
    BY <1>2 DEF StreamType
  <2>2. stream' = [stream EXCEPT ![k] = x] /\ held' = held /\ sender' = [sender EXCEPT ![k] = S]
    BY <1>1, <1>8 DEF Sent, StreamsOK
  <2>3. \A s \in sender[k] : s.sent \in 0 .. MaxSeq /\ s.lagging \in BOOLEAN
    BY <1>2 DEF SenderType
  <2>4. \A s \in sender[k] : Later(s.sent, stream[k].cursor) = stream[k].cursor
    BY SMTT(60), <1>2, <2>1, <2>3 DEF Later
  <2>5. ASSUME NEW s \in S
        PROVE  s \in SenderType /\ s.sent <= stream[k].cursor
    <3>1. PICK r \in sender[k] : s = [sent |-> Later(r.sent, stream[k].cursor),
                                     lagging |-> r.lagging /\ ~stream[k].caught]
      BY <2>5
    <3>2. Later(r.sent, stream[k].cursor) = stream[k].cursor
      BY <2>4
    <3>3. (r.lagging /\ ~stream[k].caught) \in BOOLEAN
      OBVIOUS
    <3>4. QED
      BY SMTT(60), <2>1, <3>1, <3>2, <3>3 DEF SenderType
  <2>6. granted' \in Nat
    BY SMTT(60), <1>1, <1>8 DEF Sent, StreamsOK
  <2> HIDE DEF S
  <2>7. S \in SUBSET SenderType
    BY <2>5
  <2>8. \A s \in S : x.phase \in {"ready", "sent"} /\ s.sent <= x.cursor
    BY <2>1, <2>5
  <2> HIDE DEF x
  <2>9. QED
    BY <1>1, <2>1, <2>2, <2>6, <2>7, <2>8, OneStream
<1>9. ASSUME NEW k \in Streams, Break(k)
      PROVE  StreamsOK'
  BY <1>6, <1>9 DEF Break
<1>10. ASSUME NEW k \in Streams, Hold(k)
       PROVE  StreamsOK'
  BY <1>1, <1>10 DEF Hold, StreamsOK
<1>11. ASSUME NEW q \in Requests, WaitOut(q)
       PROVE  StreamsOK'
  <2>1. PICK late : sender' = Lagging(late)
    BY <1>11 DEF WaitOut
  <2>2. stream' = stream /\ held' = held /\ granted' = granted
    BY <1>11 DEF WaitOut
  <2>3. \A k \in Streams : \A s \in sender'[k] :
          s \in SenderType /\ \E r \in sender[k] : s.sent = r.sent
    <3> SUFFICES ASSUME NEW k \in Streams, NEW s \in sender'[k]
                 PROVE  s \in SenderType /\ \E r \in sender[k] : s.sent = r.sent
      OBVIOUS
    <3>1. sender[k] \in SUBSET SenderType
      BY <1>2
    <3>2. s \in sender[k] \/ \E r \in sender[k] : s = [r EXCEPT !.lagging = TRUE]
      BY <2>1 DEF Lagging
    <3>3. QED
      BY <3>1, <3>2 DEF SenderType
  <2>4. sender' \in [Streams -> SUBSET SenderType]
    BY <2>1, <2>3 DEF Lagging
  <2>5. QED
    BY <1>1, <2>2, <2>3, <2>4 DEF StreamsOK
<1>12. ASSUME \/ \E q \in Requests : (\E n \in 1 .. 2 : Write(q, n)) \/ Synced(q) \/ Answer(q)
              \/ \E n \in 1 .. 2 : Buffered(n)
              \/ SyncerFlush \/ SyncerSynced \/ Rewrite \/ Adopt \/ StartOver \/ Close \/ Reopen
       PROVE  UNCHANGED <<sender, stream, held, granted>>
  BY <1>12 DEF Write, Synced, Answer, Buffered, SyncerFlush, SyncerSynced, Rewrite, Adopt,
               StartOver, Close, Reopen, streamVars
<1>13. UNCHANGED <<sender, stream, held, granted>> => StreamsOK'
  BY <1>1 DEF StreamsOK
<1>14. QED
  BY <1>3, <1>4, <1>5, <1>7, <1>8, <1>9, <1>10, <1>11, <1>12, <1>13 DEF Step

\* What a replica was sent is within the bounds, or is on another history.
LEMMA GotKeeps ==
    ASSUME TypeOK, RingInv, Step
    PROVE  GotOK'
<1>1. /\ StreamsOK /\ GotOK /\ MaxSeq \in Nat
  BY TypeParts, FeedAssumption DEF TypeOK
<1>2. \A k \in Streams : stream[k].cursor \in 0 .. MaxSeq /\ stream[k].epoch \in Nat
  BY <1>1 DEF StreamsOK, StreamType
<1>3. \A g \in 0 .. MaxSeq : g \in -1 .. MaxSeq
  BY SMTT(60), <1>1
<1>4. -1 \in -1 .. MaxSeq
  BY SMTT(60), <1>1
<1>5. ASSUME NEW k \in Streams, Open(k)
      PROVE  GotOK'
  BY <1>1, <1>2, <1>3, <1>4, <1>5 DEF Open, GotOK
<1>6. ASSUME NEW k \in Streams, SendNext(k)
      PROVE  GotOK'
  <2>1. CASE got' = got
    BY <1>1, <2>1 DEF GotOK
  <2>2. CASE got' # got
    <3>1. PICK last \in NextAfter(ring, stream[k].cursor, stream[k].epoch).lasts :
            /\ NextAfter(ring, stream[k].cursor, stream[k].epoch).is = "records"
            /\ got' = [got EXCEPT ![k] = last]
      BY <1>6, <2>2 DEF SendNext
    <3>2. last \in 0 .. MaxSeq
      BY <1>2, <3>1, GivenDurable
    <3>3. QED
      BY <1>1, <1>3, <3>1, <3>2 DEF GotOK
  <2>3. QED
    BY <2>1, <2>2
<1>7. ASSUME Adopt \/ StartOver
      PROVE  GotOK'
  <2>1. PICK m : got' = [k \in Streams |-> IF got[k] <= m THEN got[k] ELSE -1]
    BY <1>7 DEF Adopt, StartOver
  <2>2. QED
    BY <1>1, <1>4, <2>1 DEF GotOK
<1>8. ASSUME \/ \E q \in Requests : \/ \E n \in 1 .. 2 : Write(q, n)
                                    \/ Synced(q) \/ Answer(q) \/ WaitOut(q)
             \/ \E n \in 1 .. 2 : Buffered(n)
             \/ SyncerFlush \/ SyncerSynced \/ Rewrite \/ Close \/ Reopen
             \/ \E k \in Streams : Judge(k) \/ Sending(k) \/ Sent(k) \/ Break(k) \/ Hold(k)
      PROVE  got' = got
  BY <1>8 DEF Write, Synced, Answer, WaitOut, Buffered, SyncerFlush, SyncerSynced, Rewrite,
              Close, Reopen, Judge, Sending, Sent, Break, Hold, streamVars
<1>9. QED
  BY <1>1, <1>5, <1>6, <1>7, <1>8 DEF Step, GotOK

\* Every step keeps the types, its setting left as it is.
LEMMA TypeKeeps ==
    ASSUME TypeOK, RingInv, Step, UNCHANGED setting
    PROVE  TypeOK'
<1>1. setting' \in Settings
  BY DEF TypeOK
<1>2. ring' \in RingType /\ FileOK' /\ WritesOK' /\ StreamsOK' /\ GotOK'
  BY RingSteps, FileKeeps, WritesKeep, StreamsKeep, GotKeeps
<1>3. QED
  BY <1>1, <1>2 DEF TypeOK, RingType, Chunk, FileOK, WritesOK, StreamsOK, GotOK,
     RequestType, StreamType, SenderType

------------------------------------------------------------------------------
(* The disk.                                                               *)

\* The feed's epoch moves on when the feed starts over, and at no other step.
LEMMA EpochMoves ==
    ASSUME TypeOK, RingInv, Step
    PROVE  /\ ring.epoch \in Nat /\ ring'.epoch \in Nat /\ ring.epoch <= ring'.epoch
           /\ ring'.epoch = 0 => ~StartsOver /\ ring.epoch = 0
<1>1. ring.epoch \in Nat /\ ring'.epoch \in Nat /\ (Stays \/ Grows \/ StartsOver)
  BY RingSteps DEF TypeOK, RingType
<1>2. QED
  BY SMTT(60), <1>1 DEF Stays, Grows, StartsOver

\* No durability is made for a file to come.
LEMMA FilesAreOfNow ==
    ASSUME TypeOK, RingInv, DurableInv, Step
    PROVE  /\ \A d \in syncer' : d.file <= ring'.epoch
           /\ \A q \in Requests : request'[q].file <= ring'.epoch
<1>1. /\ WritesOK /\ ring.epoch \in Nat /\ ring'.epoch \in Nat /\ ring.epoch <= ring'.epoch
  BY TypeParts, EpochMoves
<1>2. /\ \A d \in syncer : d.file \in Nat /\ d.file <= ring.epoch
      /\ \A q \in Requests : request[q].file \in Nat /\ request[q].file <= ring.epoch
  BY <1>1 DEF DurableInv, WritesOK, RequestType
<1>3. (\A d \in syncer' : d \in syncer \/ d.file = ring.epoch)
  <2>1. ASSUME SyncerFlush \/ SyncerSynced
        PROVE  \A d \in syncer' : d.file = ring.epoch
    BY SMTT(60), <2>1 DEF SyncerFlush, SyncerSynced
  <2>2. ASSUME ~SyncerFlush, ~SyncerSynced
        PROVE  syncer' = syncer
    BY <2>2 DEF Step, Write, Synced, Answer, WaitOut, Buffered, Rewrite, Judge, Open, Sending,
       SendNext, Sent, Break, Hold, Adopt, StartOver, Close, Reopen, writeVars
  <2>3. QED
    BY <2>1, <2>2
<1>4. \A q \in Requests : request'[q].file = request[q].file \/ request'[q].file = ring.epoch
  <2>1. ASSUME NEW q \in Requests, NEW n \in 1 .. 2, Write(q, n)
        PROVE  \A p \in Requests : request'[p] = request[p] \/ request'[p].file = ring.epoch
    BY <1>1, <2>1 DEF Write, WritesOK
  <2>2. ASSUME NEW q \in Requests, Synced(q) \/ Answer(q) \/ WaitOut(q)
        PROVE  \A p \in Requests : request'[p].file = request[p].file
    <3>1. PICK x : request' = [request EXCEPT ![q].phase = x]
      BY <2>2 DEF Synced, Answer, WaitOut
    <3>2. QED
      BY <1>1, <3>1 DEF WritesOK, RequestType
  <2>3. ASSUME ~\E q \in Requests : \/ \E n \in 1 .. 2 : Write(q, n)
                                    \/ Synced(q) \/ Answer(q) \/ WaitOut(q)
        PROVE  request' = request
    BY <2>3 DEF Step, Buffered, SyncerFlush, SyncerSynced, Rewrite, Judge, Open, Sending,
       SendNext, Sent, Break, Hold, Adopt, StartOver, Close, Reopen, writeVars
  <2>4. QED
    BY <2>1, <2>2, <2>3
<1>5. QED
  BY SMTT(60), <1>1, <1>2, <1>3, <1>4

\* Moves(k): a step of the thread of stream k.
Moves(k) == \/ Judge(k) \/ Open(k) \/ Sending(k) \/ SendNext(k) \/ Sent(k) \/ Break(k)

\* Another's step leaves a stream where it is, and what its replica was sent,
\* unless an image takes the place of the file.
LEMMA OthersStand ==
    ASSUME TypeOK, Step, NEW k \in Streams, ~Moves(k)
    PROVE  /\ stream'[k] = stream[k]
           /\ got'[k] = got[k] \/ Adopt \/ StartOver
<1>1. StreamsOK /\ GotOK
  BY TypeParts
<1>2. ASSUME NEW j \in Streams, j # k, Judge(j) \/ Open(j) \/ Sending(j) \/ Sent(j)
      PROVE  stream'[k] = stream[k] /\ got'[k] = got[k]
  BY <1>1, <1>2 DEF Judge, Open, Sending, Sent, StreamsOK, GotOK
<1>3. ASSUME NEW j \in Streams, j # k, SendNext(j) \/ Break(j)
      PROVE  stream'[k] = stream[k] /\ got'[k] = got[k]
  BY <1>1, <1>3 DEF SendNext, Break, Ended, StreamsOK, GotOK
<1>4. ASSUME ~\E j \in Streams : Moves(j)
      PROVE  stream' = stream /\ (got' = got \/ Adopt \/ StartOver)
  BY <1>4 DEF Step, Moves, Write, Synced, SyncerSynced, Answer, WaitOut, Buffered, SyncerFlush,
     Rewrite, Hold, Adopt, StartOver, Close, Reopen, streamVars
<1>5. QED
  BY <1>2, <1>3, <1>4 DEF Moves

\* The phase each step of a stream's thread leaves it in.
LEMMA PhaseAfter ==
    ASSUME TypeOK, NEW k \in Streams
    PROVE  /\ Judge(k) => stream'[k].phase = "judged" /\ got' = got
           /\ Open(k) => stream'[k] = [stream[k] EXCEPT !.phase = "opened"]
           /\ Sending(k) \/ Sent(k) =>
                 stream'[k] = [stream[k] EXCEPT !.phase = "ready"] /\ got' = got
           /\ SendNext(k) => stream'[k].phase \in {"sent", "none"}
           /\ Break(k) => stream'[k] = NoStream /\ got' = got
<1>1. StreamsOK /\ stream[k] \in StreamType
  BY TypeParts DEF StreamsOK
<1>2. Judge(k) => stream'[k].phase = "judged" /\ got' = got
  BY SMTT(60), <1>1 DEF Judge, StreamsOK
<1>3. Open(k) => stream'[k] = [stream[k] EXCEPT !.phase = "opened"]
  BY <1>1 DEF Open, StreamsOK
<1>4. Sending(k) \/ Sent(k) => stream'[k] = [stream[k] EXCEPT !.phase = "ready"] /\ got' = got
  BY <1>1 DEF Sending, Sent, StreamsOK
<1>5. Ended(k) => stream'[k] = NoStream
  BY <1>1 DEF Ended, StreamsOK
<1>6. Break(k) => stream'[k] = NoStream /\ got' = got
  BY <1>5 DEF Break
<1>7. NoStream.phase = "none"
  BY DEF NoStream
<1>8. ASSUME NEW last, stream' = [stream EXCEPT ![k].phase = "sent", ![k].cursor = last,
                                                ![k].caught = FALSE]
      PROVE  stream'[k].phase = "sent"
  BY <1>1, <1>8 DEF StreamsOK, StreamType
<1>9. ASSUME stream' = [stream EXCEPT ![k].phase = "sent", ![k].caught = TRUE]
      PROVE  stream'[k].phase = "sent"
  BY <1>1, <1>9 DEF StreamsOK, StreamType
<1>10. SendNext(k) => stream'[k].phase \in {"sent", "none"}
  BY <1>5, <1>7, <1>8, <1>9 DEF SendNext
<1>11. QED
  BY <1>2, <1>3, <1>4, <1>6, <1>10

\* What is durable, and what was sent, is on the disk while no image is taken.
LEMMA DurableKeeps ==
    ASSUME TypeOK, RingInv, DurableInv, SentInv, Step
    PROVE  DurableInv'
<1>1. /\ WritesOK /\ StreamsOK /\ GotOK /\ MaxSeq \in Nat /\ ring \in RingType
      /\ disk \in 0 .. MaxSeq /\ ring.durable <= ring.seq
  BY TypeParts, FeedAssumption DEF RingInv, FileOK
<1>2. /\ ring.seq \in 0 .. MaxSeq /\ ring.durable \in 0 .. MaxSeq /\ ring.epoch \in Nat
      /\ \A k \in Streams : /\ got[k] \in -1 .. MaxSeq /\ stream[k] \in StreamType
                            /\ stream[k].cursor \in 0 .. MaxSeq /\ stream[k].epoch \in Nat
  BY <1>1 DEF RingType, GotOK, StreamsOK, StreamType
<1>3. SUFFICES ASSUME Own'
               PROVE  /\ ring'.durable <= disk'
                      /\ \A k \in Streams :
                            /\ got'[k] <= disk'
                            /\ stream'[k].phase = "judged" /\ ~stream'[k].image
                                  => stream'[k].cursor = got'[k]
  BY FilesAreOfNow DEF DurableInv
<1>4. ~Adopt /\ ~StartOver
  <2>1. ~Adopt
    BY <1>3 DEF Adopt, Own
  <2>2. StartOver => ring'.epoch = ring.epoch + 1
    BY <1>1 DEF StartOver, Started, RingType
  <2>3. QED
    BY SMTT(60), <1>2, <1>3, <2>1, <2>2 DEF Own
<1>5. Own
  <2>1. adopting' = adopting
    BY <1>4 DEF Step, Write, Synced, SyncerSynced, Runs, Answer, WaitOut, Buffered, SyncerFlush,
       Rewrite, Judge, Open, Sending, SendNext, Sent, Break, Hold, Close, Reopen, feedVars
  <2>2. QED
    BY <1>3, <2>1, EpochMoves DEF Own
<1>6. /\ ring.durable <= disk
      /\ \A k \in Streams :
            /\ got[k] <= disk /\ got[k] <= ring.seq
            /\ stream[k].phase = "judged" /\ ~stream[k].image => stream[k].cursor = got[k]
  BY <1>5 DEF DurableInv, SentInv, StandsAt, Own
<1>7. ASSUME NEW d, d.upto \in 0 .. MaxSeq, d.file = ring.epoch, Runs(d)
      PROVE  ring'.durable <= disk' /\ disk <= disk'
  <2>1. disk' = Later(disk, d.upto) /\ ring' = MarkDurable(ring, d.upto)
    BY <1>5, <1>7 DEF Runs, Own
  <2>2. d.upto \in Nat /\ ring'.durable \in Nat /\ (ring'.durable <= d.upto \/ ring'.durable = ring.durable)
    BY SMTT(60), <1>1, <1>7, <2>1, MarkDurableMoves DEF RingType
  <2>3. QED
    BY SMTT(60), <1>1, <1>2, <1>6, <2>1, <2>2 DEF Later
<1>8. ASSUME (\E q \in Requests : Synced(q)) \/ SyncerSynced
      PROVE  ring'.durable <= disk' /\ disk <= disk'
  <2>1. PICK d : d.upto \in 0 .. MaxSeq /\ d.file \in Nat /\ d.file <= ring.epoch /\ Runs(d)
    BY <1>1, <1>8 DEF Synced, SyncerSynced, WritesOK, RequestType, DurableInv
  <2>2. d.file = ring.epoch
    BY SMTT(60), <1>5, <2>1 DEF Own
  <2>3. QED
    BY <1>7, <2>1, <2>2
<1>9. ASSUME ~Rewrite, ~SyncerSynced, ~\E q \in Requests : Synced(q)
      PROVE  ring'.durable = ring.durable /\ disk' = disk
  <2>1. ASSUME NEW n \in 1 .. 2, Appended(n)
        PROVE  ring'.durable = ring.durable
    BY <1>1, <2>1, PushMoves DEF Appended, RingType
  <2>2. Close \/ Reopen => ring'.durable = ring.durable
    BY <1>1 DEF Close, Reopen, RingType
  <2>3. QED
    BY <1>4, <1>9, <2>1, <2>2 DEF Step, Write, Answer, WaitOut, Buffered, SyncerFlush,
       Judge, Open, Sending, SendNext, Sent, Break, Hold, Close, Reopen, feedVars
<1>10. ASSUME Rewrite
       PROVE  ring'.durable <= disk' /\ disk' = ring.seq
  <2>1. ring.seq \in Nat
    BY SMTT(60), <1>1, <1>2
  <2> DEFINE m == MarkDurable(ring, ring.seq)
  <2>2. m.seq = ring.seq /\ m.durable <= m.seq
    BY <1>1, <2>1, MarkDurableMoves
  <2>3. ring' = m /\ disk' = ring.seq
    BY <1>10 DEF Rewrite
  <2> HIDE DEF m
  <2>4. QED
    BY <2>2, <2>3
<1>11. ring'.durable <= disk' /\ \A k \in Streams : got[k] <= disk'
  <2>1. disk' \in Nat
    BY SMTT(60), <1>1, FileKeeps DEF FileOK
  <2>2. QED
    BY SMTT(60), <1>1, <1>2, <1>6, <1>8, <1>9, <1>10, <2>1
<1>12. ASSUME NEW k \in Streams, Open(k)
       PROVE  got'[k] <= disk' /\ stream'[k].phase # "judged"
  <2>1. disk' = disk
    BY <1>12 DEF Open, feedVars
  <2>2. got'[k] \in {stream[k].cursor, -1} /\ stream'[k].phase = "opened"
    BY <1>1, <1>2, <1>12 DEF Open, GotOK, StreamsOK, StreamType
  <2>3. stream[k].cursor <= disk
    BY SMTT(60), <1>1, <1>2, <1>6, <1>12 DEF Open, StreamType
  <2>4. QED
    BY SMTT(60), <1>1, <2>1, <2>2, <2>3
<1>13. ASSUME NEW k \in Streams, SendNext(k)
       PROVE  got'[k] <= disk' /\ stream'[k].phase # "judged"
  <2>1. disk' = disk
    BY <1>13 DEF SendNext, feedVars
  <2>2. stream'[k].phase \in {"sent", "none"}
    BY <1>13, PhaseAfter
  <2>3. CASE got' = got
    BY <1>11, <2>2, <2>3
  <2>4. CASE got' # got
    <3>1. PICK last \in NextAfter(ring, stream[k].cursor, stream[k].epoch).lasts :
            /\ NextAfter(ring, stream[k].cursor, stream[k].epoch).is = "records"
            /\ got' = [got EXCEPT ![k] = last]
      BY <1>13, <2>4 DEF SendNext
    <3>2. last \in 0 .. MaxSeq /\ last <= ring.durable
      BY <1>2, <3>1, GivenDurable
    <3>3. QED
      BY SMTT(60), <1>1, <1>2, <1>6, <2>1, <2>2, <3>1, <3>2 DEF GotOK
  <2>5. QED
    BY <2>3, <2>4
<1>14. ASSUME NEW k \in Streams, Judge(k)
       PROVE  got' = got /\ (~stream'[k].image => stream'[k].cursor = got[k])
  BY SMTT(60), <1>1, <1>14 DEF Judge, StreamsOK
<1>15. ASSUME NEW k \in Streams, ~Open(k), ~SendNext(k), ~Judge(k)
       PROVE  got'[k] = got[k] /\ (stream'[k] = stream[k] \/ stream'[k].phase # "judged")
  <2>1. CASE Sending(k) \/ Sent(k)
    <3>1. [stream[k] EXCEPT !.phase = "ready"].phase = "ready"
      BY <1>2 DEF StreamType
    <3>2. QED
      BY <2>1, <3>1, PhaseAfter
  <2>2. CASE Break(k)
    <3>1. NoStream.phase = "none"
      BY DEF NoStream
    <3>2. QED
      BY <2>2, <3>1, PhaseAfter
  <2>3. CASE ~Moves(k)
    BY <1>4, <2>3, OthersStand
  <2>4. QED
    BY <1>15, <2>1, <2>2, <2>3 DEF Moves
<1>16. QED
  BY <1>6, <1>11, <1>12, <1>13, <1>14, <1>15

------------------------------------------------------------------------------
(* What was sent.                                                          *)

\* The file is replaced by Adopt and the feed started over by StartOver; every
\* other step leaves the epoch as it is and takes no number back.
LEMMA FeedSteps ==
    ASSUME TypeOK, RingInv, Step
    PROVE  /\ ring.seq \in Nat /\ ring'.seq \in Nat /\ ring.epoch \in Nat /\ ring'.epoch \in Nat
           /\ Adopt => adopting = {} /\ adopting' # {}
           /\ StartOver => adopting # {} /\ adopting' = {} /\ ring'.epoch = ring.epoch + 1
           /\ ~Adopt /\ ~StartOver => adopting' = adopting
           /\ ~StartOver => ring'.epoch = ring.epoch /\ ring.seq <= ring'.seq
<1>1. ring.seq \in Nat /\ ring'.seq \in Nat /\ ring.epoch \in Nat /\ ring'.epoch \in Nat
  BY SMTT(60), RingSteps DEF TypeOK, RingType
<1>2. Adopt => adopting = {} /\ adopting' # {}
  BY DEF Adopt
<1>3. StartOver => adopting # {} /\ adopting' = {} /\ ring'.epoch = ring.epoch + 1
  BY TypeParts DEF StartOver, Started, RingType
<1>4. ~Adopt /\ ~StartOver => adopting' = adopting
  BY DEF Step, Write, Synced, SyncerSynced, Runs, Answer, WaitOut, Buffered, SyncerFlush,
     Rewrite, Judge, Open, Sending, SendNext, Sent, Break, Hold, Close, Reopen, feedVars
<1>5. ASSUME ~StartOver
      PROVE  ring'.epoch = ring.epoch /\ ring.seq <= ring'.seq
  <2>1. ~StartsOver
    BY <1>2, <1>4, <1>5 DEF StartsOver
  <2>2. QED
    BY SMTT(60), <1>1, <2>1, RingSteps DEF Stays, Grows
<1>6. QED
  BY <1>1, <1>2, <1>3, <1>4, <1>5

\* A request answered with streams keeping up: each of them has sent its write.
LEMMA KeepingHasSent ==
    ASSUME TypeOK, SentInv, NEW q \in Requests, NEW k \in KeepingUp, ~WaitedFor(k, request[q].upto)
    PROVE  /\ stream[k].phase \in {"ready", "sent"}
           /\ got[k] >= request[q].upto \/ got[k] = -1
<1>1. k \in Streams /\ ~held[k]
  BY DEF KeepingUp
<1>2. PICK s \in sender[k] : ~s.lagging
  BY DEF KeepingUp
<1>3. ~(s.sent < request[q].upto)
  BY <1>1, <1>2 DEF WaitedFor
<1>4. /\ stream[k].phase \in {"ready", "sent"} /\ s.sent <= stream[k].cursor
      /\ s.sent \in 0 .. MaxSeq /\ stream[k].cursor \in 0 .. MaxSeq
      /\ request[q].upto \in 0 .. MaxSeq
  BY SMTT(60), <1>1, <1>2 DEF TypeOK
<1>5. got[k] \in {stream[k].cursor, -1}
  BY <1>1, <1>4 DEF SentInv, StandsAt
<1>6. QED
  BY SMTT(60), <1>3, <1>4, <1>5, FeedAssumption

\* The three things a step does to a request: leaves it no streams it did not
\* count on; begins it, of the last write there is; or answers it, with streams
\* that have sent its write.
Rests(q) == /\ request'[q].upto = request[q].upto /\ keeping'[q] \subseteq keeping[q]
            /\ request'[q].phase \in {"flushed", "waiting"} => request[q].phase \in {"flushed", "waiting"}
Begins(q) == adopting = {} /\ keeping'[q] = {} /\ request'[q].upto = ring'.seq
Ends(q) == /\ UNCHANGED <<feedVars, stream, got>>
           /\ request[q].phase = "waiting" /\ request'[q].phase = "answered"
           /\ request'[q].upto = request[q].upto
           /\ \A k \in keeping'[q] : /\ k \in Streams /\ stream[k].phase \in {"ready", "sent"}
                                     /\ got[k] >= request[q].upto \/ got[k] = -1

\* Every step does one of the three to each request.
LEMMA RequestSteps ==
    ASSUME TypeOK, RingInv, SentInv, Step, NEW q \in Requests
    PROVE  Rests(q) \/ Begins(q) \/ Ends(q)
<1>1. WritesOK /\ request[q] \in RequestType /\ ring \in RingType
  BY TypeParts DEF WritesOK
<1>2. ASSUME NEW p \in Requests, NEW n \in 1 .. 2, Write(p, n)
      PROVE  Rests(q) \/ Begins(q)
  <2>1. CASE p # q
    BY <1>1, <1>2, <2>1 DEF Write, WritesOK, Rests
  <2>2. CASE p = q
    <3>1. ring'.seq = ring.seq + n /\ adopting = {}
      <4>1. PICK x : ring' = [ring EXCEPT !.chunks = x, !.seq = ring.seq + n]
        BY <1>1, <1>2, PushMoves DEF Write, Appended
      <4>2. QED
        BY <1>1, <1>2, <4>1 DEF Write, Appended, RingType
    <3>2. request'[q].upto = ring.seq + n /\ keeping'[q] = {}
      BY <1>1, <1>2, <2>2 DEF Write, WritesOK
    <3>3. QED
      BY <3>1, <3>2 DEF Begins
  <2>3. QED
    BY <2>1, <2>2
<1>3. ASSUME NEW p \in Requests, Synced(p)
      PROVE  Rests(q)
  <2>1. keeping' = keeping /\ request[p].phase = "flushed"
    BY <1>3 DEF Synced
  <2>2. request'[q].upto = request[q].upto
    BY <1>1, <1>3 DEF Synced, WritesOK, RequestType
  <2>3. p # q => request'[q] = request[q]
    BY <1>1, <1>3 DEF Synced, WritesOK
  <2>4. QED
    BY <2>1, <2>2, <2>3 DEF Rests
<1>4. ASSUME NEW p \in Requests, p # q, Answer(p) \/ WaitOut(p)
      PROVE  Rests(q)
  BY <1>1, <1>4 DEF Answer, WaitOut, WritesOK, Rests
<1>5. ASSUME Answer(q)
      PROVE  Ends(q)
  <2>1. /\ UNCHANGED <<feedVars, stream, got>> /\ request[q].phase = "waiting"
        /\ request'[q].phase = "answered" /\ request'[q].upto = request[q].upto
        /\ keeping'[q] = KeepingUp
    BY <1>1, <1>5 DEF Answer, streamVars, WritesOK, RequestType
  <2>2. \A k \in KeepingUp : k \in Streams /\ ~WaitedFor(k, request[q].upto)
    BY <1>5 DEF Answer, KeepingUp
  <2>3. QED
    BY <2>1, <2>2, KeepingHasSent DEF Ends
<1>6. ASSUME WaitOut(q)
      PROVE  Ends(q)
  <2>1. /\ UNCHANGED <<feedVars, stream, got>> /\ request[q].phase = "waiting"
        /\ request'[q].phase = "answered" /\ request'[q].upto = request[q].upto
        /\ keeping'[q] = KeepingUp \ {k \in Streams : WaitedFor(k, request[q].upto)}
    BY <1>1, <1>6 DEF WaitOut, WritesOK, RequestType
  <2>2. \A k \in keeping'[q] : k \in KeepingUp /\ k \in Streams /\ ~WaitedFor(k, request[q].upto)
    BY <2>1 DEF KeepingUp
  <2>3. QED
    BY <2>1, <2>2, KeepingHasSent DEF Ends
<1>7. ASSUME Adopt
      PROVE  Rests(q)
  BY <1>1, <1>7 DEF Adopt, Rests
<1>8. ASSUME \/ \E n \in 1 .. 2 : Buffered(n)
             \/ SyncerFlush \/ SyncerSynced \/ Rewrite \/ StartOver \/ Close \/ Reopen
             \/ \E k \in Streams : Moves(k) \/ Hold(k)
      PROVE  request' = request /\ keeping' = keeping
  BY <1>8 DEF Buffered, SyncerFlush, SyncerSynced, Rewrite, StartOver, Close, Reopen, Moves, Judge,
     Open, Sending, SendNext, Sent, Break, Hold, writeVars
<1>9. request' = request /\ keeping' = keeping => Rests(q)
  BY DEF Rests
<1>10. QED
  BY <1>2, <1>3, <1>4, <1>5, <1>6, <1>7, <1>8, <1>9 DEF Step, Moves

\* A step of a stream's thread is of nothing else.
LEMMA MovesAlone ==
    ASSUME NEW k \in Streams, Moves(k)
    PROVE  UNCHANGED <<ring, adopting, ends, request, keeping>>
BY DEF Moves, Judge, Open, Sending, SendNext, Sent, Break, feedVars, writeVars

\* What SendNext puts into the socket, where it puts anything there.
LEMMA SendNextGives ==
    ASSUME TypeOK, RingInv, NEW k \in Streams, SendNext(k)
    PROVE  \/ /\ got' = got /\ stream'[k] = NoStream
           \/ /\ got' = got /\ stream'[k].epoch = stream[k].epoch
              /\ stream'[k].cursor = stream[k].cursor /\ stream'[k].phase = "sent"
           \/ \E last \in 0 .. MaxSeq :
                 /\ got'[k] = last /\ stream'[k].cursor = last /\ stream'[k].phase = "sent"
                 /\ stream'[k].epoch = stream[k].epoch /\ stream[k].epoch = ring.epoch
                 /\ last > stream[k].cursor /\ last <= ring.durable
<1>1. StreamsOK /\ GotOK /\ stream[k] \in StreamType
  BY TypeParts DEF StreamsOK
<1>2. stream[k].cursor \in 0 .. MaxSeq /\ stream[k].epoch \in Nat
  BY <1>1 DEF StreamType
<1> DEFINE t == NextAfter(ring, stream[k].cursor, stream[k].epoch)
<1>3. ASSUME NEW last \in t.lasts, t.is = "records", got' = [got EXCEPT ![k] = last],
             stream' = [stream EXCEPT ![k].phase = "sent", ![k].cursor = last,
                                      ![k].caught = FALSE]
      PROVE  /\ last \in 0 .. MaxSeq
             /\ got'[k] = last /\ stream'[k].cursor = last /\ stream'[k].phase = "sent"
             /\ stream'[k].epoch = stream[k].epoch /\ stream[k].epoch = ring.epoch
             /\ last > stream[k].cursor /\ last <= ring.durable
  <2>1. ring.epoch = stream[k].epoch /\ last \in 0 .. MaxSeq /\ last > stream[k].cursor /\ last <= ring.durable
    BY <1>2, <1>3, GivenDurable
  <2>2. stream'[k] = [stream[k] EXCEPT !.phase = "sent", !.cursor = last, !.caught = FALSE]
    BY <1>1, <1>3 DEF StreamsOK
  <2>3. got'[k] = last
    BY <1>1, <1>3 DEF GotOK
  <2>4. QED
    BY <1>1, <2>1, <2>2, <2>3 DEF StreamType
<1>4. ASSUME got' = got, stream' = [stream EXCEPT ![k].phase = "sent", ![k].caught = TRUE]
      PROVE  /\ got' = got /\ stream'[k].epoch = stream[k].epoch
             /\ stream'[k].cursor = stream[k].cursor /\ stream'[k].phase = "sent"
  <2>1. stream'[k] = [stream[k] EXCEPT !.phase = "sent", !.caught = TRUE]
    BY <1>1, <1>4 DEF StreamsOK
  <2>2. stream'[k].epoch = stream[k].epoch
    BY <1>1, <2>1 DEF StreamType
  <2>3. stream'[k].cursor = stream[k].cursor
    BY <1>1, <2>1 DEF StreamType
  <2>4. stream'[k].phase = "sent"
    BY <1>1, <2>1 DEF StreamType
  <2>5. QED
    BY <1>4, <2>2, <2>3, <2>4
<1>5. Ended(k) => stream'[k] = NoStream
  BY <1>1 DEF Ended, StreamsOK
<1>6. CASE t.is = "records"
  <2>1. PICK last \in t.lasts :
          /\ got' = [got EXCEPT ![k] = last]
          /\ stream' = [stream EXCEPT ![k].phase = "sent", ![k].cursor = last,
                                      ![k].caught = FALSE]
    BY <1>6 DEF SendNext
  <2> HIDE DEF t
  <2>2. QED
    BY <1>3, <1>6, <2>1
<1>7. CASE t.is = "nothing"
  <2>1. got' = got /\ stream' = [stream EXCEPT ![k].phase = "sent", ![k].caught = TRUE]
    BY <1>7 DEF SendNext
  <2>2. QED
    BY <1>4, <2>1
<1>8. CASE t.is \notin {"records", "nothing"}
  <2>1. got' = got /\ Ended(k)
    BY <1>8 DEF SendNext
  <2>2. QED
    BY <1>5, <2>1
<1>9. QED
  BY <1>6, <1>7, <1>8

\* A stream stands where its own step takes it.
LEMMA StandsAfterMove ==
    ASSUME TypeOK, RingInv, SentInv, AnsweredSent, Step, NEW k \in Streams, Moves(k)
    PROVE  StandsAt(k)'
<1>1. /\ ring' = ring /\ adopting' = adopting /\ request' = request /\ keeping' = keeping
      /\ StandsAt(k)
  BY MovesAlone DEF SentInv
<1>2. /\ ring.seq \in 0 .. MaxSeq /\ ring.epoch \in Nat /\ ring.durable \in 0 .. MaxSeq
      /\ ring.durable <= ring.seq /\ MaxSeq \in Nat /\ stream[k] \in StreamType
      /\ got[k] \in -1 .. MaxSeq /\ stream[k].cursor \in 0 .. MaxSeq
      /\ GotOK /\ StreamsOK
      /\ \A q \in Requests : request[q].upto \in 0 .. MaxSeq
  BY TypeParts, FeedAssumption DEF TypeOK, RingInv, StreamType
<1>3. NoStream.phase = "none" /\ NoStream.epoch = 0
  BY DEF NoStream
<1>4. CASE Judge(k)
  <2>1. PICK image \in BOOLEAN :
          /\ ~image => Serves(ring, got[k])
          /\ stream'[k] = [phase |-> "judged", epoch |-> ring.epoch, image |-> image,
                           caught |-> FALSE, cursor |-> IF image THEN ring.seq ELSE got[k]]
    BY <1>2, <1>4 DEF Judge, StreamsOK
  <2>2. adopting = {} /\ got' = got
    BY <1>4 DEF Judge
  <2>3. ~image => got[k] \in 0 .. MaxSeq /\ got[k] <= ring.seq
    BY <1>2, <2>1, ServedStands
  <2>4. got[k] <= ring.seq
    BY <1>1, <2>2 DEF StandsAt
  <2>5. \A q \in Requests : k \in keeping[q] => request[q].upto <= ring.seq
    BY DEF SentInv
  <2>6. \A q \in Requests : k \in keeping[q] => got[k] >= request[q].upto \/ got[k] = -1
    BY DEF AnsweredSent
  <2>7. /\ stream'[k].phase = "judged" /\ stream'[k].epoch = ring.epoch
        /\ stream'[k].cursor = IF image THEN ring.seq ELSE got[k]
    BY SMTT(60), <2>1
  <2>8. \A q \in Requests : k \in keeping[q] => request[q].upto <= stream'[k].cursor
    BY SMTT(60), <1>2, <2>3, <2>5, <2>6, <2>7
  <2>9. stream'[k].cursor <= ring.seq
    BY SMTT(60), <1>2, <2>3, <2>7
  <2>10. ring.epoch <= ring.epoch
    BY SMTT(60), <1>2
  <2>11. QED
    BY <1>1, <2>2, <2>4, <2>7, <2>8, <2>9, <2>10 DEF StandsAt
<1>5. CASE Open(k)
  <2>1. stream'[k] = [stream[k] EXCEPT !.phase = "opened"] /\ stream[k].phase = "judged"
    BY <1>5, PhaseAfter DEF Open
  <2>2. /\ stream'[k].phase = "opened" /\ stream'[k].cursor = stream[k].cursor
        /\ stream'[k].epoch = stream[k].epoch
    BY <1>2, <2>1 DEF StreamType
  <2>3. got'[k] = IF stream[k].epoch = ring.epoch THEN stream[k].cursor ELSE -1
    BY <1>2, <1>5 DEF Open, GotOK
  <2>4. QED
    BY SMTT(60), <1>1, <1>2, <2>1, <2>2, <2>3 DEF StandsAt
<1>6. CASE Sending(k) \/ Sent(k)
  <2>1. /\ stream'[k] = [stream[k] EXCEPT !.phase = "ready"] /\ got' = got
        /\ stream[k].phase \in {"opened", "sent"}
    BY <1>6, PhaseAfter DEF Sending, Sent
  <2>2. /\ stream'[k].phase = "ready" /\ stream'[k].cursor = stream[k].cursor
        /\ stream'[k].epoch = stream[k].epoch
    BY <1>2, <2>1 DEF StreamType
  <2>3. QED
    BY <1>1, <2>1, <2>2 DEF StandsAt
<1>7. ASSUME got' = got, stream'[k] = NoStream
      PROVE  StandsAt(k)'
  BY SMTT(60), <1>1, <1>2, <1>3, <1>7 DEF StandsAt
<1>8. CASE SendNext(k)
  <2>1. stream[k].phase = "ready"
    BY <1>8 DEF SendNext
  <2>2. CASE /\ got' = got /\ stream'[k].epoch = stream[k].epoch
             /\ stream'[k].cursor = stream[k].cursor /\ stream'[k].phase = "sent"
    BY <1>1, <2>1, <2>2 DEF StandsAt
  <2>3. ASSUME NEW last \in 0 .. MaxSeq,
               got'[k] = last /\ stream'[k].cursor = last /\ stream'[k].phase = "sent",
               stream'[k].epoch = stream[k].epoch, last <= ring.durable
        PROVE  StandsAt(k)'
    BY SMTT(60), <1>1, <1>2, <2>3 DEF StandsAt
  <2>4. QED
    BY <1>7, <1>8, <2>2, <2>3, SendNextGives
<1>9. CASE Break(k)
  BY <1>7, <1>9, PhaseAfter
<1>10. QED
  BY <1>4, <1>5, <1>6, <1>8, <1>9 DEF Moves

\* A stream stands where it did through the steps of the others.
LEMMA StandsStill ==
    ASSUME TypeOK, RingInv, SentInv, AnsweredSent, Step, NEW k \in Streams, ~Moves(k)
    PROVE  StandsAt(k)'
<1>1. /\ stream'[k] = stream[k] /\ stream[k].epoch \in Nat /\ StandsAt(k)
      /\ got[k] \in -1 .. MaxSeq /\ MaxSeq \in Nat
      /\ stream[k].cursor \in 0 .. MaxSeq
  BY OthersStand, FeedAssumption DEF TypeOK, SentInv
<1>2. /\ ring.seq \in Nat /\ ring'.seq \in Nat /\ ring.epoch \in Nat /\ ring'.epoch \in Nat
  BY FeedSteps
<1>3. CASE StartOver
  <2>1. adopting' = {} /\ ring'.epoch = ring.epoch + 1
    BY <1>3, FeedSteps
  <2>2. PICK i \in adopting :
          /\ ring' = Started(ring, i.seq)
          /\ got' = [j \in Streams |-> IF got[j] <= i.shared THEN got[j] ELSE -1]
    BY <1>3 DEF StartOver
  <2>3. ring'.seq = i.seq /\ i.shared <= i.seq /\ i.shared \in Nat /\ i.seq \in Nat
    BY SMTT(60), <2>2, TypeParts DEF Started, RingType, SentInv, FileOK
  <2>4. got'[k] = got[k] \/ got'[k] = -1
    BY <2>2
  <2>5. got'[k] <= ring'.seq
    BY SMTT(60), <1>1, <2>2, <2>3
  <2>6. QED
    BY SMTT(60), <1>1, <1>2, <2>1, <2>4, <2>5 DEF StandsAt
<1>4. CASE Adopt
  <2>1. adopting' # {} /\ ring'.epoch = ring.epoch
    BY <1>4, FeedSteps DEF Adopt, StartOver
  <2>2. got'[k] = got[k] \/ got'[k] = -1
    BY <1>4 DEF Adopt
  <2>3. QED
    BY <1>1, <2>1, <2>2 DEF StandsAt
<1>5. CASE ~StartOver /\ ~Adopt
  <2>1. /\ got'[k] = got[k] /\ adopting' = adopting /\ ring'.epoch = ring.epoch
        /\ ring.seq <= ring'.seq
    BY <1>5, OthersStand, FeedSteps
  <2>2. ASSUME stream[k].phase = "judged",
               \A q \in Requests : k \in keeping[q] => request[q].upto <= stream[k].cursor
        PROVE  \A q \in Requests : k \in keeping'[q] => request'[q].upto <= stream[k].cursor
    <3> SUFFICES ASSUME NEW q \in Requests, k \in keeping'[q]
                 PROVE  request'[q].upto <= stream[k].cursor
      OBVIOUS
    <3>1. CASE Rests(q)
      BY <2>2, <3>1 DEF Rests
    <3>2. ~Begins(q)
      BY DEF Begins
    <3>3. ~Ends(q)
      BY <2>2 DEF Ends
    <3>4. QED
      BY <3>1, <3>2, <3>3, RequestSteps
  <2>3. got[k] <= ring.seq => got'[k] <= ring'.seq
    BY SMTT(60), <1>1, <1>2, <2>1
  <2>4. stream[k].cursor <= ring.seq => stream[k].cursor <= ring'.seq
    BY SMTT(60), <1>1, <1>2, <2>1
  <2>5. QED
    BY <1>1, <2>1, <2>2, <2>3, <2>4 DEF StandsAt
<1>6. QED
  BY <1>3, <1>4, <1>5

\* Requests, streams and images keep to one another through every step.
LEMMA SentKeeps ==
    ASSUME TypeOK, RingInv, SentInv, AnsweredSent, Step
    PROVE  SentInv'
<1>1. \A k \in Streams : StandsAt(k)'
  BY StandsAfterMove, StandsStill
<1>2. \A i \in adopting' : i.shared <= i.seq
  <2>1. CASE Adopt
    BY SMTT(60), <2>1 DEF Adopt
  <2>2. CASE ~Adopt
    BY <2>2, FeedSteps DEF SentInv
  <2>3. QED
    BY <2>1, <2>2
<1>3. /\ ring.seq \in Nat /\ ring'.seq \in Nat
      /\ \A q \in Requests : request[q].upto \in Nat /\ request'[q].phase \in {"idle", "flushed", "waiting", "answered"}
  BY SMTT(60), FeedSteps, WritesKeep, FeedAssumption DEF TypeOK, WritesOK, RequestType
<1>4. ASSUME adopting' # {}, NEW q \in Requests
      PROVE  keeping'[q] = {} /\ request'[q].phase \in {"idle", "answered"}
  <2>1. CASE Adopt
    BY <2>1 DEF Adopt
  <2>2. CASE ~Adopt
    <3>1. adopting # {}
      BY <1>4, <2>2, FeedSteps
    <3>2. keeping[q] = {} /\ request[q].phase \in {"idle", "answered"}
      BY <3>1 DEF SentInv
    <3>3. Rests(q)
      BY <3>1, <3>2, RequestSteps DEF Begins, Ends
    <3>4. QED
      BY <1>3, <3>2, <3>3 DEF Rests
  <2>3. QED
    BY <2>1, <2>2
<1>5. ASSUME NEW q \in Requests, request'[q].phase \in {"flushed", "waiting"} \/ keeping'[q] # {}
      PROVE  request'[q].upto <= ring'.seq
  <2>1. CASE Begins(q)
    BY SMTT(60), <1>3, <2>1 DEF Begins
  <2>2. CASE Ends(q)
    <3>1. ring' = ring /\ request'[q].upto = request[q].upto /\ request[q].phase = "waiting"
      BY <2>2 DEF Ends, feedVars
    <3>2. QED
      BY <3>1 DEF SentInv
  <2>3. CASE Rests(q)
    <3>1. request[q].phase \in {"flushed", "waiting"} \/ keeping[q] # {}
      BY <1>5, <2>3 DEF Rests
    <3>2. adopting = {} /\ request[q].upto <= ring.seq
      BY <3>1 DEF SentInv
    <3>3. ring.seq <= ring'.seq
      BY <3>2, FeedSteps
    <3>4. QED
      BY SMTT(60), <1>3, <2>3, <3>2, <3>3 DEF Rests
  <2>4. QED
    BY <2>1, <2>2, <2>3, RequestSteps
<1>6. QED
  BY <1>1, <1>2, <1>4, <1>5 DEF SentInv

\* A write answered stays in the sockets it was answered with.
LEMMA AnsweredKeeps ==
    ASSUME TypeOK, RingInv, SentInv, AnsweredSent, Step
    PROVE  AnsweredSent'
<1>1. SUFFICES ASSUME NEW q \in Requests, NEW k \in keeping'[q]
               PROVE  got'[k] >= request'[q].upto \/ got'[k] = -1
  BY DEF AnsweredSent
<1>2. k \in Streams
  BY WritesKeep DEF WritesOK
<1>3. /\ got[k] \in -1 .. MaxSeq /\ MaxSeq \in Nat /\ stream[k].cursor \in 0 .. MaxSeq
      /\ request[q].upto \in 0 .. MaxSeq /\ GotOK /\ StandsAt(k)
  BY <1>2, TypeParts, FeedAssumption DEF TypeOK, SentInv
<1>4. CASE Begins(q)
  BY <1>1, <1>4 DEF Begins
<1>5. CASE Ends(q)
  BY <1>1, <1>5 DEF Ends
<1>6. CASE Rests(q)
  <2>1. /\ request'[q].upto = request[q].upto /\ k \in keeping[q]
        /\ got[k] >= request[q].upto \/ got[k] = -1
    BY <1>1, <1>6 DEF Rests, AnsweredSent
  <2>2. adopting = {}
    BY <2>1 DEF SentInv
  <2>3. CASE Open(k)
    <3>1. stream[k].phase = "judged"
      BY <2>3 DEF Open
    <3>2. got'[k] = IF stream[k].epoch = ring.epoch THEN stream[k].cursor ELSE -1
      BY <1>2, <1>3, <2>3 DEF Open, GotOK
    <3>3. stream[k].epoch = ring.epoch => request[q].upto <= stream[k].cursor
      BY <1>3, <2>1, <2>2, <3>1 DEF StandsAt
    <3>4. QED
      BY <1>3, <2>1, <3>2, <3>3
  <2>4. CASE SendNext(k)
    <3>1. stream[k].phase = "ready"
      BY <2>4 DEF SendNext
    <3>2. stream[k].epoch = ring.epoch => got[k] = stream[k].cursor
      BY <1>3, <2>2, <3>1 DEF StandsAt
    <3>3. \/ got' = got
          \/ got'[k] \in 0 .. MaxSeq /\ stream[k].epoch = ring.epoch /\ got'[k] > stream[k].cursor
      BY <1>2, <2>4, SendNextGives
    <3>4. CASE got' = got
      BY <2>1, <3>4
    <3>5. CASE got' # got
      BY SMTT(60), <1>3, <2>1, <3>2, <3>3, <3>5
    <3>6. QED
      BY <3>4, <3>5
  <2>5. CASE ~Open(k) /\ ~SendNext(k)
    <3>1. CASE Moves(k)
      BY <1>2, <2>1, <2>5, <3>1, PhaseAfter DEF Moves
    <3>2. CASE ~Moves(k)
      <4>1. got'[k] = got[k] \/ Adopt \/ StartOver
        BY <1>2, <3>2, OthersStand
      <4>2. ~StartOver
        BY <2>2, FeedSteps
      <4>3. ~Adopt
        BY <1>1 DEF Adopt
      <4>4. QED
        BY <2>1, <4>1, <4>2, <4>3
    <3>3. QED
      BY <3>1, <3>2
  <2>6. QED
    BY <2>3, <2>4, <2>5
<1>7. QED
  BY <1>4, <1>5, <1>6, RequestSteps

------------------------------------------------------------------------------
(* The waits.                                                              *)

\* A stream comes to be waited for, and no longer is, at the price that is counted.
LEMMA WaitSteps ==
    ASSUME TypeOK, Step
    PROVE  \/ /\ NotLagging' \subseteq NotLagging /\ waitedOut' = waitedOut
              /\ granted' \in {granted, granted + 1}
           \/ \E k \in Streams : /\ NotLagging' \subseteq NotLagging \cup {k}
                                 /\ waitedOut' = waitedOut /\ granted' = granted + 1
           \/ \E k \in NotLagging : /\ NotLagging' \subseteq NotLagging \ {k}
                                    /\ waitedOut' = waitedOut + 1 /\ granted' = granted
<1>1. StreamsOK
  BY TypeParts
<1>2. ASSUME NEW k \in Streams, NEW S, sender' = [sender EXCEPT ![k] = S]
      PROVE  /\ NotLagging' \subseteq NotLagging \cup {k}
             /\ (\A s \in S : s.lagging) => NotLagging' \subseteq NotLagging
             /\ k \in NotLagging => NotLagging' \subseteq NotLagging
  BY <1>1, <1>2 DEF NotLagging, StreamsOK
<1>3. ASSUME NEW k \in Streams, Sending(k)
      PROVE  /\ waitedOut' = waitedOut
             /\ \/ NotLagging' \subseteq NotLagging /\ granted' = granted
                \/ NotLagging' \subseteq NotLagging \cup {k} /\ granted' = granted + 1
  <2>1. PICK behind \in BOOLEAN :
          /\ sender' = [sender EXCEPT ![k] = {[sent |-> stream[k].cursor, lagging |-> behind]}]
          /\ granted' = IF behind THEN granted ELSE granted + 1
    <3>1. (k \in NodeStreams) \in BOOLEAN
      BY SMTT(60)
    <3>2. QED
      BY <1>3, <3>1 DEF Sending
  <2> DEFINE S == {[sent |-> stream[k].cursor, lagging |-> behind]}
  <2>2. waitedOut' = waitedOut
    BY <1>3 DEF Sending, writeVars
  <2>3. CASE behind
    <3>1. \A s \in S : s.lagging
      BY SMTT(60), <2>3
    <3>2. sender' = [sender EXCEPT ![k] = S] /\ granted' = granted
      BY <2>1, <2>3
    <3> HIDE DEF S
    <3>3. QED
      BY <1>2, <2>2, <3>1, <3>2
  <2>4. CASE ~behind
    <3>1. sender' = [sender EXCEPT ![k] = S] /\ granted' = granted + 1
      BY <2>1, <2>4
    <3> HIDE DEF S
    <3>2. QED
      BY <1>2, <2>2, <3>1
  <2>5. QED
    BY <2>3, <2>4
<1>4. ASSUME NEW k \in Streams, Sent(k)
      PROVE  /\ waitedOut' = waitedOut
             /\ \/ NotLagging' \subseteq NotLagging /\ granted' \in {granted, granted + 1}
                \/ NotLagging' \subseteq NotLagging \cup {k} /\ granted' = granted + 1
  <2> DEFINE S == {[sent |-> Later(s.sent, stream[k].cursor),
                    lagging |-> s.lagging /\ ~stream[k].caught] : s \in sender[k]}
  <2>1. sender' = [sender EXCEPT ![k] = S] /\ waitedOut' = waitedOut
    BY <1>1, <1>4 DEF Sent, writeVars, StreamsOK
  <2>2. granted' = IF stream[k].caught /\ \E s \in sender[k] : s.lagging
                   THEN granted + 1 ELSE granted
    BY <1>4 DEF Sent
  <2>3. CASE k \in NotLagging
    <3> HIDE DEF S
    <3>1. QED
      BY <1>2, <2>1, <2>2, <2>3
  <2>4. CASE k \notin NotLagging /\ \E s \in sender[k] : stream[k].caught
    <3>1. granted' = granted + 1
      BY <2>2, <2>4 DEF NotLagging
    <3> HIDE DEF S
    <3>2. QED
      BY <1>2, <2>1, <3>1
  <2>5. CASE k \notin NotLagging /\ ~\E s \in sender[k] : stream[k].caught
    <3>1. \A s \in S : s.lagging
      <4>1. \A r \in sender[k] : r.lagging /\ ~stream[k].caught
        BY <2>5 DEF NotLagging
      <4>2. SUFFICES ASSUME NEW s \in S
                     PROVE  s.lagging
        OBVIOUS
      <4>3. PICK r \in sender[k] : s = [sent |-> Later(r.sent, stream[k].cursor),
                                       lagging |-> r.lagging /\ ~stream[k].caught]
        BY <4>2
      <4>4. s.lagging <=> r.lagging /\ ~stream[k].caught
        BY <4>3
      <4>5. QED
        BY <4>1, <4>4
    <3>2. granted' = granted
      BY <2>2, <2>5
    <3> HIDE DEF S
    <3>3. QED
      BY <1>2, <2>1, <3>1, <3>2
  <2>6. QED
    BY <2>3, <2>4, <2>5
<1>5. ASSUME NEW k \in Streams, SendNext(k) \/ Break(k)
      PROVE  NotLagging' \subseteq NotLagging /\ waitedOut' = waitedOut /\ granted' = granted
  <2>1. sender' = sender \/ sender' = [sender EXCEPT ![k] = {}]
    BY <1>5 DEF SendNext, Break, Ended
  <2>2. waitedOut' = waitedOut /\ granted' = granted
    BY <1>5 DEF SendNext, Break, writeVars
  <2>3. QED
    BY <1>2, <2>1, <2>2 DEF NotLagging
<1>6. ASSUME NEW q \in Requests, WaitOut(q)
      PROVE  \E k \in NotLagging : /\ NotLagging' \subseteq NotLagging \ {k}
                                   /\ waitedOut' = waitedOut + 1 /\ granted' = granted
  <2> DEFINE late == {k \in Streams : WaitedFor(k, request[q].upto)}
  <2>1. /\ late # {} /\ sender' = Lagging(late)
        /\ waitedOut' = waitedOut + 1 /\ granted' = granted
    BY <1>6 DEF WaitOut
  <2>2. PICK k \in late : TRUE
    BY <2>1
  <2>3. k \in NotLagging
    BY <2>2 DEF NotLagging, WaitedFor
  <2> HIDE DEF late
  <2>4. ASSUME NEW j \in NotLagging'
        PROVE  j \in NotLagging /\ j \notin late
    <3>1. j \in Streams /\ \E s \in Lagging(late)[j] : ~s.lagging
      BY <2>1, <2>4 DEF NotLagging
    <3>2. j \in late => Lagging(late)[j] = {[s EXCEPT !.lagging = TRUE] : s \in sender[j]}
      BY <3>1 DEF Lagging
    <3>3. j \notin late
      BY SMTT(60), <1>1, <3>1, <3>2 DEF StreamsOK, SenderType
    <3>4. Lagging(late)[j] = sender[j]
      BY <3>1, <3>3 DEF Lagging
    <3>5. QED
      BY <3>1, <3>3, <3>4 DEF NotLagging
  <2>5. QED
    BY <2>1, <2>2, <2>3, <2>4
<1>7. ASSUME \/ \E q \in Requests : (\E n \in 1 .. 2 : Write(q, n)) \/ Synced(q) \/ Answer(q)
             \/ \E n \in 1 .. 2 : Buffered(n)
             \/ SyncerFlush \/ SyncerSynced \/ Rewrite \/ Adopt \/ StartOver \/ Close \/ Reopen
             \/ \E k \in Streams : Judge(k) \/ Open(k) \/ Hold(k)
      PROVE  UNCHANGED <<sender, waitedOut, granted>>
  BY <1>7 DEF Write, Synced, Answer, Buffered, SyncerFlush, SyncerSynced, Rewrite, Adopt,
              StartOver, Close, Reopen, Judge, Open, Hold, streamVars, writeVars
<1>8. UNCHANGED <<sender, waitedOut, granted>> =>
        NotLagging' \subseteq NotLagging /\ waitedOut' = waitedOut /\ granted' = granted
  BY DEF NotLagging
<1>9. QED
  BY <1>3, <1>4, <1>5, <1>6, <1>7, <1>8 DEF Step

\* A stream waited for pays for the wait it may cost.
LEMMA WaitKeeps ==
    ASSUME TypeOK, WaitInv, Step
    PROVE  WaitInv'
<1>1. /\ IsFiniteSet(Streams) /\ granted \in Nat /\ waitedOut \in Nat
      /\ waitedOut + Cardinality(NotLagging) <= granted
  BY FeedAssumption DEF TypeOK, WaitInv
<1>2. IsFiniteSet(NotLagging) /\ Cardinality(NotLagging) \in Nat
  BY <1>1, FS_Subset, FS_CardinalityType DEF NotLagging
<1>3. ASSUME NEW k, NotLagging' \subseteq NotLagging \cup {k}
      PROVE  /\ Cardinality(NotLagging') \in Nat
             /\ Cardinality(NotLagging') <= Cardinality(NotLagging) + 1
  <2>1. /\ IsFiniteSet(NotLagging \cup {k})
        /\ Cardinality(NotLagging \cup {k}) \in {Cardinality(NotLagging), Cardinality(NotLagging) + 1}
    BY <1>2, FS_AddElement
  <2>2. /\ IsFiniteSet(NotLagging') /\ Cardinality(NotLagging') <= Cardinality(NotLagging \cup {k})
        /\ Cardinality(NotLagging') \in Nat
    BY <1>3, <2>1, FS_Subset, FS_CardinalityType
  <2>3. QED
    BY SMTT(60), <1>2, <2>1, <2>2
<1>4. ASSUME NotLagging' \subseteq NotLagging
      PROVE  Cardinality(NotLagging') \in Nat /\ Cardinality(NotLagging') <= Cardinality(NotLagging)
  BY <1>2, <1>4, FS_Subset, FS_CardinalityType
<1>5. ASSUME NEW k \in NotLagging, NotLagging' \subseteq NotLagging \ {k}
      PROVE  Cardinality(NotLagging') \in Nat /\ Cardinality(NotLagging') <= Cardinality(NotLagging) - 1
  <2>1. /\ IsFiniteSet(NotLagging \ {k})
        /\ Cardinality(NotLagging \ {k}) = Cardinality(NotLagging) - 1
    BY <1>2, <1>5, FS_RemoveElement
  <2>2. QED
    BY SMTT(60), <1>5, <2>1, FS_Subset, FS_CardinalityType
<1>6. QED
  BY SMTT(60), <1>1, <1>2, <1>3, <1>4, <1>5, WaitSteps DEF WaitInv

------------------------------------------------------------------------------
(* The theorems.                                                           *)

\* A server starts with an empty feed, nothing written and nobody connected.
LEMMA InitHolds == Init => FeedInv
<1>1. SUFFICES ASSUME Init
               PROVE  FeedInv
  OBVIOUS
<1>2. MaxSeq \in Nat /\ 0 \in 0 .. MaxSeq /\ 0 \in -1 .. MaxSeq
  BY SMTT(60), FeedAssumption
<1>3. /\ ring.chunks = {} /\ ring.seq = 0 /\ ring.durable = 0 /\ ring.epoch = 0
      /\ ring \in RingType
  BY <1>1, <1>2 DEF Init, EmptyRing, RingType
<1>4. /\ NoStream \in StreamType /\ NoStream.phase = "none" /\ NoStream.epoch = 0
      /\ [phase |-> "idle", upto |-> 0, file |-> 0] \in RequestType
  BY <1>2 DEF NoStream, StreamType, RequestType
<1>5. TypeOK
  <2>1. setting \in Settings /\ FileOK
    BY <1>1, <1>2 DEF Init, FileOK
  <2>2. WritesOK
    BY <1>1, <1>4 DEF Init, WritesOK
  <2>3. StreamsOK /\ GotOK
    BY <1>1, <1>2, <1>4 DEF Init, StreamsOK, GotOK
  <2>4. QED
    BY <1>3, <2>1, <2>2, <2>3, TypeParts
<1>6. RingInv
  BY SMTT(60), <1>1, <1>3 DEF Init, RingInv, Consecutive
<1>7. \A k \in Streams : stream[k].phase = "none" /\ stream[k].epoch = 0 /\ got[k] = 0
  BY <1>1, <1>4 DEF Init
<1>8. \A q \in Requests : request[q].phase = "idle" /\ request[q].file = 0 /\ keeping[q] = {}
  BY <1>1 DEF Init
<1>9. disk = 0 /\ adopting = {} /\ syncer = {}
  BY <1>1 DEF Init
<1>10. DurableInv
  BY SMTT(60), <1>3, <1>7, <1>8, <1>9 DEF DurableInv
<1>11. SentInv
  BY SMTT(60), <1>3, <1>7, <1>8, <1>9 DEF SentInv, StandsAt
<1>12. AnsweredSent
  BY <1>8 DEF AnsweredSent
<1>13. WaitInv
  <2>1. NotLagging = {}
    BY <1>1 DEF Init, NotLagging
  <2>2. Cardinality({}) = 0
    BY FS_EmptySet
  <2>3. QED
    BY SMTT(60), <1>1, <2>1, <2>2 DEF Init, WaitInv
<1>14. QED
  BY <1>5, <1>6, <1>10, <1>11, <1>12, <1>13 DEF FeedInv

\* FeedInv is inductive.
LEMMA StepKeeps == FeedInv /\ [Next]_<<setting, vars>> => FeedInv'
<1>1. ASSUME FeedInv, Next
      PROVE  FeedInv'
  <2>1. /\ TypeOK /\ RingInv /\ DurableInv /\ SentInv /\ AnsweredSent /\ WaitInv
        /\ Step /\ UNCHANGED setting
    BY <1>1 DEF FeedInv, Next
  <2>2. QED
    BY <2>1, TypeKeeps, RingKeeps, DurableKeeps, SentKeeps, AnsweredKeeps, WaitKeeps DEF FeedInv
<1>2. ASSUME FeedInv, UNCHANGED <<setting, vars>>
      PROVE  FeedInv'
  BY <1>2 DEF FeedInv, TypeOK, RingInv, DurableInv, Own, SentInv, StandsAt, AnsweredSent, WaitInv,
     NotLagging, vars, feedVars, writeVars, streamVars
<1>3. QED
  BY <1>1, <1>2

\* The ring, the disk, the sockets and the waits of a server keep to one another
\* through every interleaving of its requests, its syncer, its streams and the
\* images it takes, whatever the capacities, and however many there are.
THEOREM FeedInvariant == Spec => []FeedInv
BY InitHolds, StepKeeps, PTL DEF Spec

\* A primary sends a replica no write its own disk does not hold.
THEOREM SentIsDurable == Spec => []OnlyDurableSent
<1>1. FeedInv => OnlyDurableSent
  BY DEF FeedInv, DurableInv, OnlyDurableSent
<1>2. QED
  BY <1>1, FeedInvariant, PTL

\* Feed::next leaves no record out and gives none before its turn, whatever the
\* sizes of the records, the chunks, the messages and the ring.
THEOREM NextLeavesNoneOut == Spec => []NextIsNext
<1>1. FeedInv => NextIsNext
  BY NextFollows DEF FeedInv
<1>2. QED
  BY <1>1, FeedInvariant, PTL

\* Feed::changes_after gives a consumer every write after its cursor, wherever
\* that is.
THEOREM ChangesLeaveNoneOut == Spec => []ChangesFollow
<1>1. FeedInv => ChangesFollow
  BY ChangesAreRead DEF FeedInv
<1>2. QED
  BY <1>1, FeedInvariant, PTL

\* A write answered under `--sync always` is in every socket that kept up.
THEOREM AnsweredIsSent == Spec => []AnsweredSent
<1>1. FeedInv => AnsweredSent
  BY DEF FeedInv
<1>2. QED
  BY <1>1, FeedInvariant, PTL

\* A stalled stream costs the writes one wait each time it had come to keep up.
THEOREM OneWaitEach == Spec => []StallCostsOneWait
<1>1. FeedInv => StallCostsOneWait
  <2>1. SUFFICES ASSUME FeedInv
                 PROVE  StallCostsOneWait
    OBVIOUS
  <2>2. IsFiniteSet(NotLagging)
    BY FeedAssumption, FS_Subset DEF NotLagging
  <2>3. Cardinality(NotLagging) \in Nat
    BY <2>2, FS_CardinalityType
  <2>4. waitedOut \in Nat /\ granted \in Nat /\ waitedOut + Cardinality(NotLagging) <= granted
    BY <2>1 DEF FeedInv, TypeOK, WaitInv
  <2>5. QED
    BY SMTT(60), <2>3, <2>4 DEF StallCostsOneWait
<1>2. QED
  BY <1>1, FeedInvariant, PTL

==============================================================================
