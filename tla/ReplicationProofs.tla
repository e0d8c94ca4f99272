-------------------------- MODULE ReplicationProofs --------------------------
(***************************************************************************)
(* Proofs about Replication: the types, the read barrier, the readings of  *)
(* volatile statements, and that the receiver is a copy of a prefix of the *)
(* primary's log.                                                          *)
(***************************************************************************)
EXTENDS Replication, WalRecordsProofs, FiniteSetTheorems

---------------------------------------------------------------------------
(* Sequences.                                                              *)

\* The part of a sequence from a to b.
LEMMA SubSeqIs ==
  ASSUME NEW T, NEW s \in Seq(T), NEW a \in Nat, NEW b \in Nat, a <= b, b <= Len(s)
  PROVE  /\ SubSeq(s, a + 1, b) \in Seq(T) /\ Len(SubSeq(s, a + 1, b)) = b - a
         /\ \A i \in 1 .. (b - a) : SubSeq(s, a + 1, b)[i] = s[a + i]
<1>1. SubSeq(s, a + 1, b) = [i \in 1 .. (b - a) |-> s[a + i]]
  <2>1. \A i \in 1 .. (b - a) : a + 1 + i - 1 = a + i
    OBVIOUS
  <2>2. 1 + b - (a + 1) = b - a
    OBVIOUS
  <2> QED BY <2>1, <2>2
<1>2. \A i \in 1 .. (b - a) : s[a + i] \in T
  <2> TAKE i \in 1 .. (b - a)
  <2>1. a + i \in 1 .. Len(s)
    OBVIOUS
  <2> QED BY <2>1
<1>3. b - a \in Nat
  OBVIOUS
<1> QED BY <1>1, <1>2, <1>3

\* The prefix of length n of s is that of every sequence s begins.
LEMMA PrefixOf ==
  ASSUME NEW T, NEW s \in Seq(T), NEW t \in Seq(T), NEW n \in Nat, n <= Len(s),
         Len(s) <= Len(t), \A i \in 1 .. Len(s) : t[i] = s[i]
  PROVE  SubSeq(t, 1, n) = SubSeq(s, 1, n)
<1>1. /\ SubSeq(s, 1, n) \in Seq(T) /\ Len(SubSeq(s, 1, n)) = n
      /\ SubSeq(t, 1, n) \in Seq(T) /\ Len(SubSeq(t, 1, n)) = n
      /\ \A i \in 1 .. n : SubSeq(s, 1, n)[i] = s[i] /\ SubSeq(t, 1, n)[i] = t[i]
  <2>1. n \in Nat /\ 0 \in Nat /\ 0 <= n /\ n <= Len(t) /\ Len(t) \in Nat
    OBVIOUS
  <2>2. n - 0 = n /\ 0 + 1 = 1 /\ \A i \in 1 .. n : 0 + i = i
    OBVIOUS
  <2>3. /\ SubSeq(s, 0 + 1, n) \in Seq(T) /\ Len(SubSeq(s, 0 + 1, n)) = n - 0
        /\ \A i \in 1 .. (n - 0) : SubSeq(s, 0 + 1, n)[i] = s[0 + i]
    BY <2>1, SubSeqIs
  <2>4. /\ SubSeq(t, 0 + 1, n) \in Seq(T) /\ Len(SubSeq(t, 0 + 1, n)) = n - 0
        /\ \A i \in 1 .. (n - 0) : SubSeq(t, 0 + 1, n)[i] = t[0 + i]
    BY <2>1, SubSeqIs
  <2> QED BY <2>2, <2>3, <2>4
<1>2. \A i \in 1 .. n : i \in 1 .. Len(s)
  OBVIOUS
<1> QED BY <1>1, <1>2

\* One sequence behind the other.
LEMMA ConcatIs ==
  ASSUME NEW T, NEW s \in Seq(T), NEW t \in Seq(T)
  PROVE  /\ s \o t \in Seq(T) /\ Len(s \o t) = Len(s) + Len(t)
         /\ \A i \in 1 .. Len(s) : (s \o t)[i] = s[i]
         /\ \A i \in 1 .. Len(t) : (s \o t)[Len(s) + i] = t[i]
OBVIOUS

\* Equal lengths and equal elements make equal sequences.
LEMMA SameElements ==
  ASSUME NEW T, NEW s \in Seq(T), NEW t \in Seq(T), Len(s) = Len(t),
         \A i \in 1 .. Len(s) : s[i] = t[i]
  PROVE  s = t
OBVIOUS

---------------------------------------------------------------------------
(* Units.                                                                  *)

Halves == [rec : LinesT, half : {1, 2}]

\* The k-th unit of the file that holds the records lg.
UnitAt(lg, k) == Unit(lg[(k + 1) \div 2], 2 - (k % 2))

\* us are the units of the file after position a.
Contig(lg, us, a) ==
  /\ a + Len(us) <= 2 * Len(lg)
  /\ \A j \in 1 .. Len(us) : us[j] = UnitAt(lg, a + j)

\* The i-th pair of units is a record.
Good(us, i) ==
  /\ us[2 * i + 1].half = 1 /\ us[2 * i + 2].half = 2
  /\ us[2 * i + 1].rec = us[2 * i + 2].rec

\* Some whole record does not pass the checks.
Damaged(us) == \E i \in 0 .. Len(us) : 2 * i + 2 <= Len(us) /\ ~Good(us, i)

\* A position is at the end of a record or in the middle of one.
LEMMA Parity ==
  ASSUME NEW k \in Nat
  PROVE  \E m \in Nat : k = 2 * m \/ k = 2 * m + 1
<1>1. k \div 2 \in Nat /\ (k = 2 * (k \div 2) \/ k = 2 * (k \div 2) + 1)
  OBVIOUS
<1> QED BY <1>1

\* A record is a first half and a second half.
LEMMA HalvesOf ==
  ASSUME NEW lg, NEW m \in Nat
  PROVE  /\ UnitAt(lg, 2 * m + 1) = Unit(lg[m + 1], 1)
         /\ UnitAt(lg, 2 * m + 2) = Unit(lg[m + 1], 2)
<1>1. ((2 * m + 1) + 1) \div 2 = m + 1 /\ ((2 * m + 2) + 1) \div 2 = m + 1
  OBVIOUS
<1>2. 2 - ((2 * m + 1) % 2) = 1 /\ 2 - ((2 * m + 2) % 2) = 2
  OBVIOUS
<1> QED BY <1>1, <1>2 DEF UnitAt

\* Every unit of the file is a half of a record.
LEMMA UnitType ==
  ASSUME NEW lg \in Seq(LinesT), NEW k \in 1 .. (2 * Len(lg))
  PROVE  UnitAt(lg, k) \in Halves
<1>1. (k + 1) \div 2 \in 1 .. Len(lg) /\ 2 - (k % 2) \in {1, 2}
  OBVIOUS
<1>2. lg[(k + 1) \div 2] \in LinesT
  BY <1>1
<1> QED BY <1>1, <1>2 DEF UnitAt, Unit, Halves

\* UnitsOf lists the units.
LEMMA UnitsOfIs ==
  ASSUME NEW lg \in Seq(LinesT)
  PROVE  /\ UnitsOf(lg) \in Seq(Halves) /\ Len(UnitsOf(lg)) = 2 * Len(lg)
         /\ \A k \in 1 .. (2 * Len(lg)) : UnitsOf(lg)[k] = UnitAt(lg, k)
         /\ Contig(lg, UnitsOf(lg), 0)
<1>1. UnitsOf(lg) = [k \in 1 .. (2 * Len(lg)) |-> UnitAt(lg, k)]
  BY DEF UnitsOf, UnitAt
<1>2. 2 * Len(lg) \in Nat
  OBVIOUS
<1>3. \A k \in 1 .. (2 * Len(lg)) : UnitAt(lg, k) \in Halves
  BY UnitType
<1>4. UnitsOf(lg) \in Seq(Halves) /\ Len(UnitsOf(lg)) = 2 * Len(lg)
  BY <1>1, <1>2, <1>3
<1>5. \A k \in 1 .. (2 * Len(lg)) : UnitsOf(lg)[k] = UnitAt(lg, k) /\ 0 + k = k
  BY <1>1
<1> QED BY <1>2, <1>4, <1>5 DEF Contig

\* No units are the units after any position.
LEMMA ContigEmpty ==
  ASSUME NEW lg \in Seq(LinesT), NEW a \in Nat, a <= 2 * Len(lg)
  PROVE  Contig(lg, <<>>, a)
BY DEF Contig

\* What one read of the file returns.
LEMMA ContigRead ==
  ASSUME NEW lg \in Seq(LinesT), NEW a \in Nat, NEW n \in Nat, a + n <= 2 * Len(lg)
  PROVE  /\ SubSeq(UnitsOf(lg), a + 1, a + n) \in Seq(Halves)
         /\ Len(SubSeq(UnitsOf(lg), a + 1, a + n)) = n
         /\ Contig(lg, SubSeq(UnitsOf(lg), a + 1, a + n), a)
<1> DEFINE us == UnitsOf(lg)
           b == a + n
<1>1. us \in Seq(Halves) /\ Len(us) = 2 * Len(lg) /\ \A k \in 1 .. (2 * Len(lg)) : us[k] = UnitAt(lg, k)
  BY UnitsOfIs
<1>2. b \in Nat /\ a <= b /\ b - a = n /\ b <= 2 * Len(lg)
  OBVIOUS
<1> HIDE DEF us, b
<1>3. /\ SubSeq(us, a + 1, b) \in Seq(Halves) /\ Len(SubSeq(us, a + 1, b)) = b - a
      /\ \A i \in 1 .. (b - a) : SubSeq(us, a + 1, b)[i] = us[a + i]
  BY <1>1, <1>2, SubSeqIs
<1>4. \A i \in 1 .. n : a + i \in 1 .. (2 * Len(lg))
  OBVIOUS
<1>5. Contig(lg, SubSeq(us, a + 1, b), a)
  BY <1>1, <1>2, <1>3, <1>4 DEF Contig
<1> QED BY <1>2, <1>3, <1>5 DEF us, b

\* Two reads, one after the other.
LEMMA ContigAppend ==
  ASSUME NEW lg \in Seq(LinesT), NEW us \in Seq(Halves), NEW vs \in Seq(Halves), NEW a \in Nat,
         Contig(lg, us, a), Contig(lg, vs, a + Len(us))
  PROVE  Contig(lg, us \o vs, a) /\ us \o vs \in Seq(Halves) /\ Len(us \o vs) = Len(us) + Len(vs)
<1>1. Len(us \o vs) = Len(us) + Len(vs) /\ us \o vs \in Seq(Halves)
  OBVIOUS
<1>2. ASSUME NEW j \in 1 .. Len(us \o vs) PROVE (us \o vs)[j] = UnitAt(lg, a + j)
  <2>1. CASE j <= Len(us)
    BY <1>1, <2>1 DEF Contig
  <2>2. CASE ~(j <= Len(us))
    <3>1. j - Len(us) \in 1 .. Len(vs) /\ (us \o vs)[j] = vs[j - Len(us)]
      BY <1>1, <2>2
    <3>2. a + Len(us) + (j - Len(us)) = a + j
      OBVIOUS
    <3> QED BY <3>1, <3>2 DEF Contig
  <2> QED BY <2>1, <2>2
<1> QED BY <1>1, <1>2 DEF Contig

\* What is left behind the first n units.
LEMMA RestIs ==
  ASSUME NEW T, NEW us \in Seq(T), NEW n \in Nat, n <= Len(us)
  PROVE  /\ Rest(us, n) \in Seq(T) /\ Len(Rest(us, n)) = Len(us) - n
         /\ \A i \in 1 .. (Len(us) - n) : Rest(us, n)[i] = us[n + i]
BY SubSeqIs DEF Rest

\* Dropping n units moves the start of a run by n.
LEMMA ContigRest ==
  ASSUME NEW lg \in Seq(LinesT), NEW us \in Seq(Halves), NEW a \in Nat, NEW n \in Nat,
         n <= Len(us), Contig(lg, us, a)
  PROVE  Contig(lg, Rest(us, n), a + n)
<1>1. /\ Len(Rest(us, n)) = Len(us) - n
      /\ \A i \in 1 .. (Len(us) - n) : Rest(us, n)[i] = us[n + i]
  BY RestIs
<1>2. \A i \in 1 .. (Len(us) - n) : n + i \in 1 .. Len(us) /\ a + (n + i) = (a + n) + i
  OBVIOUS
<1> QED BY <1>1, <1>2 DEF Contig

\* The file grows at its end.
LEMMA ContigGrow ==
  ASSUME NEW lg \in Seq(LinesT), NEW more \in Seq(LinesT), NEW us \in Seq(Halves), NEW a \in Nat,
         Contig(lg, us, a)
  PROVE  Contig(lg \o more, us, a)
<1>1. Len(lg \o more) >= Len(lg) /\ \A i \in 1 .. Len(lg) : (lg \o more)[i] = lg[i]
  OBVIOUS
<1>2. ASSUME NEW k \in 1 .. (2 * Len(lg)) PROVE UnitAt(lg \o more, k) = UnitAt(lg, k)
  <2>1. (k + 1) \div 2 \in 1 .. Len(lg)
    OBVIOUS
  <2> QED BY <1>1, <2>1 DEF UnitAt
<1>3. \A j \in 1 .. Len(us) : a + j \in 1 .. (2 * Len(lg))
  BY DEF Contig
<1> QED BY <1>1, <1>2, <1>3 DEF Contig

\* Units read from the end of a record on are records.
LEMMA ContigGood ==
  ASSUME NEW lg \in Seq(LinesT), NEW us \in Seq(Halves), NEW m \in Nat, Contig(lg, us, 2 * m)
  PROVE  \A i \in 0 .. Len(us) : 2 * i + 2 <= Len(us) =>
           Good(us, i) /\ us[2 * i + 1].rec = lg[m + i + 1] /\ us[2 * i + 2].rec = lg[m + i + 1]
<1> SUFFICES ASSUME NEW i \in 0 .. Len(us), 2 * i + 2 <= Len(us)
             PROVE  Good(us, i) /\ us[2 * i + 1].rec = lg[m + i + 1] /\ us[2 * i + 2].rec = lg[m + i + 1]
  OBVIOUS
<1> DEFINE mi == m + i
<1>1. mi \in Nat /\ 2 * m + (2 * i + 1) = 2 * mi + 1 /\ 2 * m + (2 * i + 2) = 2 * mi + 2
  OBVIOUS
<1>2. 2 * i + 1 \in 1 .. Len(us) /\ 2 * i + 2 \in 1 .. Len(us)
  OBVIOUS
<1>3. us[2 * i + 1] = UnitAt(lg, 2 * mi + 1) /\ us[2 * i + 2] = UnitAt(lg, 2 * mi + 2)
  BY <1>1, <1>2 DEF Contig
<1> HIDE DEF mi
<1>4. us[2 * i + 1] = Unit(lg[mi + 1], 1) /\ us[2 * i + 2] = Unit(lg[mi + 1], 2)
  BY <1>1, <1>3, HalvesOf
<1>5. mi + 1 = m + i + 1
  BY DEF mi
<1> QED BY <1>4, <1>5 DEF Good, Unit

\* The first record of what is pending passes its checks exactly when the
\* position is the end of a record.
LEMMA ContigSound ==
  ASSUME NEW lg \in Seq(LinesT), NEW us \in Seq(Halves), NEW a \in Nat, Contig(lg, us, a),
         Whole(us)
  PROVE  /\ Sound(us) => \E m \in 0 .. Len(lg) : a = 2 * m /\ m + 1 \in 1 .. Len(lg) /\ us[1].rec = lg[m + 1]
         /\ ~Sound(us) => \E m \in Nat : a = 2 * m + 1
<1>0. Len(us) >= 2 /\ 1 \in 1 .. Len(us)
  BY DEF Whole
<1>1. PICK m \in Nat : a = 2 * m \/ a = 2 * m + 1
  BY Parity
<1>2. CASE a = 2 * m
  <2>1. 0 \in 0 .. Len(us) /\ 2 * 0 + 2 <= Len(us) /\ 2 * 0 + 1 = 1 /\ 2 * 0 + 2 = 2 /\ m + 0 + 1 = m + 1
    BY <1>0
  <2>2. Good(us, 0) /\ us[2 * 0 + 1].rec = lg[m + 0 + 1]
    BY <1>2, <2>1, ContigGood
  <2>3. m \in 0 .. Len(lg) /\ m + 1 \in 1 .. Len(lg)
    BY <1>0, <1>2 DEF Contig
  <2> QED BY <1>2, <2>1, <2>2, <2>3 DEF Good, Sound
<1>3. CASE a = 2 * m + 1
  <2>1. us[1] = UnitAt(lg, 2 * m + 2)
    <3>1. a + 1 = 2 * m + 2
      BY <1>3
    <3> QED BY <1>0, <3>1 DEF Contig
  <2>2. us[1] = Unit(lg[m + 1], 2)
    BY <2>1, HalvesOf
  <2>3. us[1].half = 2
    BY <2>2 DEF Unit
  <2> QED BY <1>3, <2>3 DEF Sound
<1> QED BY <1>1, <1>2, <1>3

\* A record behind 2 * i units.
LEMMA SoundAt ==
  ASSUME NEW us \in Seq(Halves), NEW i \in Nat, 2 * i <= Len(us)
  PROVE  /\ Whole(Rest(us, 2 * i)) <=> 2 * i + 2 <= Len(us)
         /\ 2 * i + 2 <= Len(us) => (Sound(Rest(us, 2 * i)) <=> Good(us, i))
<1>1. /\ Len(Rest(us, 2 * i)) = Len(us) - 2 * i
      /\ \A j \in 1 .. (Len(us) - 2 * i) : Rest(us, 2 * i)[j] = us[2 * i + j]
  <2>1. 2 * i \in Nat
    OBVIOUS
  <2> QED BY <2>1, RestIs
<1>2. Whole(Rest(us, 2 * i)) <=> 2 * i + 2 <= Len(us)
  BY <1>1 DEF Whole
<1>3. ASSUME 2 * i + 2 <= Len(us) PROVE Sound(Rest(us, 2 * i)) <=> Good(us, i)
  <2>1. Rest(us, 2 * i)[1] = us[2 * i + 1] /\ Rest(us, 2 * i)[2] = us[2 * i + 2]
    BY <1>1, <1>3
  <2> QED BY <2>1 DEF Sound, Good
<1> QED BY <1>2, <1>3

\* Readable counts the good records before the first damage.
LEMMA ReadableIs ==
  ASSUME NEW us \in Seq(Halves)
  PROVE  /\ Readable(us) \in Nat /\ 2 * Readable(us) <= Len(us)
         /\ \A i \in 0 .. (Readable(us) - 1) : Good(us, i)
         /\ 2 * Readable(us) + 2 <= Len(us) => ~Good(us, Readable(us))
<1> DEFINE P(n) == /\ \A i \in 0 .. (n - 1) : Sound(Rest(us, 2 * i))
                   /\ Whole(Rest(us, 2 * n)) => ~Sound(Rest(us, 2 * n))
           T == {n \in Nat : 2 * n <= Len(us) /\ (2 * n + 2 <= Len(us) => ~Good(us, n))}
           N == Len(us) \div 2
<1>0. Len(us) \in Nat /\ N \in Nat /\ 2 * N <= Len(us) /\ Len(us) < 2 * N + 2
  OBVIOUS
<1>1. N \in T
  BY <1>0
<1>2. T # {} /\ T \in SUBSET Nat
  BY <1>1
<1>3. PICK n \in T : \A k \in T : n <= k
  <2> HIDE DEF T
  <2> QED BY <1>2, LeastNatural
<1>4. n \in Nat /\ 2 * n <= Len(us) /\ (2 * n + 2 <= Len(us) => ~Good(us, n))
  BY <1>3
<1>5. \A i \in 0 .. (n - 1) : Good(us, i)
  <2> TAKE i \in 0 .. (n - 1)
  <2>1. i \in Nat /\ i < n /\ 2 * i <= Len(us) /\ 2 * i + 2 <= Len(us)
    BY <1>4
  <2>2. i \notin T
    BY <1>3, <2>1
  <2> QED BY <2>1, <2>2
<1>6. ASSUME NEW k \in Nat, 2 * k <= Len(us)
      PROVE  P(k) <=> /\ \A i \in 0 .. (k - 1) : Good(us, i)
                      /\ 2 * k + 2 <= Len(us) => ~Good(us, k)
  <2>1. ASSUME NEW i \in 0 .. (k - 1) PROVE Sound(Rest(us, 2 * i)) <=> Good(us, i)
    <3>1. i \in Nat /\ 2 * i <= Len(us) /\ 2 * i + 2 <= Len(us)
      BY <1>6
    <3> QED BY <3>1, SoundAt
  <2>2. (Whole(Rest(us, 2 * k)) => ~Sound(Rest(us, 2 * k))) <=> (2 * k + 2 <= Len(us) => ~Good(us, k))
    BY <1>6, SoundAt
  <2> QED BY <2>1, <2>2
<1>7. n \in 0 .. N /\ P(n)
  <2>1. n \in 0 .. N
    BY <1>0, <1>4
  <2> HIDE DEF P
  <2> QED BY <2>1, <1>4, <1>5, <1>6
<1> DEFINE r == CHOOSE k \in 0 .. N : P(k)
<1>8. r \in 0 .. N /\ P(r)
  <2> HIDE DEF P, N
  <2> QED BY <1>7
<1>9. Readable(us) = r
  BY DEF Readable
<1>10. r \in Nat /\ 2 * r <= Len(us)
  <2> HIDE DEF r, P
  <2> QED BY <1>0, <1>8
<1> HIDE DEF r, P
<1>11. /\ \A i \in 0 .. (r - 1) : Good(us, i)
       /\ 2 * r + 2 <= Len(us) => ~Good(us, r)
  BY <1>6, <1>8, <1>10
<1> QED BY <1>9, <1>10, <1>11

\* The records that can be read.
LEMMA RecordsInIs ==
  ASSUME NEW us \in Seq(Halves)
  PROVE  /\ RecordsIn(us) \in Seq(LinesT) /\ Len(RecordsIn(us)) = Readable(us)
         /\ \A i \in 1 .. Readable(us) : RecordsIn(us)[i] = us[2 * i].rec
<1>1. Readable(us) \in Nat /\ 2 * Readable(us) <= Len(us)
  BY ReadableIs
<1>2. \A i \in 1 .. Readable(us) : us[2 * i].rec \in LinesT
  <2> TAKE i \in 1 .. Readable(us)
  <2>1. 2 * i \in 1 .. Len(us)
    BY <1>1
  <2>2. us[2 * i] \in Halves
    BY <2>1
  <2> QED BY <2>2 DEF Halves
<1> DEFINE n == Readable(us)
           f == [i \in 1 .. n |-> us[2 * i].rec]
<1>3. RecordsIn(us) = f
  BY DEF RecordsIn
<1>4. n \in Nat
  BY <1>1
<1>5. f \in Seq(LinesT) /\ Len(f) = n
  <2> HIDE DEF n
  <2> QED BY <1>2, <1>4 DEF n
<1>6. \A i \in 1 .. n : f[i] = us[2 * i].rec
  OBVIOUS
<1> QED BY <1>3, <1>5, <1>6

\* What is read of an undamaged file.
LEMMA ReadContig ==
  ASSUME NEW lg \in Seq(LinesT), NEW us \in Seq(Halves), NEW m \in Nat, NEW n \in Nat,
         Contig(lg, us, 2 * m), Len(us) = 2 * n \/ Len(us) = 2 * n + 1
  PROVE  /\ Readable(us) = n /\ m + n <= Len(lg)
         /\ \A i \in 1 .. n : RecordsIn(us)[i] = lg[m + i]
<1> DEFINE r == Readable(us)
<1>1. r \in Nat /\ 2 * r <= Len(us) /\ (2 * r + 2 <= Len(us) => ~Good(us, r))
  BY ReadableIs
<1>2. ~(2 * r + 2 <= Len(us))
  <2> SUFFICES ASSUME 2 * r + 2 <= Len(us) PROVE FALSE
    OBVIOUS
  <2>1. r \in 0 .. Len(us) /\ ~Good(us, r)
    BY <1>1
  <2> HIDE DEF r
  <2> QED BY <2>1, ContigGood
<1>3. r = n
  <2> HIDE DEF r
  <2> QED BY <1>1, <1>2
<1>4. m + n <= Len(lg)
  BY DEF Contig
<1>5. ASSUME NEW i \in 1 .. n PROVE RecordsIn(us)[i] = lg[m + i]
  <2>1. RecordsIn(us)[i] = us[2 * i].rec
    BY <1>3, RecordsInIs
  <2>2. i - 1 \in 0 .. Len(us) /\ 2 * (i - 1) + 2 <= Len(us) /\ 2 * (i - 1) + 2 = 2 * i /\ m + (i - 1) + 1 = m + i
    OBVIOUS
  <2>3. us[2 * (i - 1) + 2].rec = lg[m + (i - 1) + 1]
    BY <2>2, ContigGood
  <2> QED BY <2>1, <2>2, <2>3
<1> QED BY <1>3, <1>4, <1>5

\* Damage is never read past.
LEMMA DamagedRead ==
  ASSUME NEW us \in Seq(Halves), Damaged(us)
  PROVE  2 * Readable(us) + 2 <= Len(us)
<1>1. PICK i \in 0 .. Len(us) : 2 * i + 2 <= Len(us) /\ ~Good(us, i)
  BY DEF Damaged
<1>2. Readable(us) \in Nat /\ \A j \in 0 .. (Readable(us) - 1) : Good(us, j)
  BY ReadableIs
<1>3. ~(i < Readable(us))
  <2> SUFFICES ASSUME i < Readable(us) PROVE FALSE
    OBVIOUS
  <2>1. i \in 0 .. (Readable(us) - 1)
    BY <1>2
  <2> QED BY <1>1, <1>2, <2>1
<1> QED BY <1>1, <1>2, <1>3

\* Damage stays.
LEMMA DamagedAppend ==
  ASSUME NEW us \in Seq(Halves), NEW vs \in Seq(Halves), Damaged(us)
  PROVE  Damaged(us \o vs)
<1>1. PICK i \in 0 .. Len(us) : 2 * i + 2 <= Len(us) /\ ~Good(us, i)
  BY DEF Damaged
<1>2. Len(us \o vs) = Len(us) + Len(vs) /\ (us \o vs)[2 * i + 1] = us[2 * i + 1] /\ (us \o vs)[2 * i + 2] = us[2 * i + 2]
  BY <1>1
<1>3. i \in 0 .. Len(us \o vs) /\ 2 * i + 2 <= Len(us \o vs) /\ ~Good(us \o vs, i)
  BY <1>1, <1>2 DEF Good
<1> QED BY <1>3 DEF Damaged

---------------------------------------------------------------------------
(* Frames on the way.                                                      *)

FrameSet == [kind : {"wal", "skip", "snapshot", "position", "resume"},
             units : Seq(Halves), db : SUBSET Databases, n : Nat]

\* A frame takes a stream from position a to position b.
Piece(lg, fr, a, b, rl) ==
  \/ /\ fr.kind = "wal" /\ a < b /\ b = a + Len(fr.units) /\ Contig(lg, fr.units, a)
     /\ rl = "subscriber" =>
          \E m \in 0 .. Len(lg) : a = 2 * m /\ b = 2 * m + 2 /\ Forwarded(lg[m + 1])
  \/ /\ fr.kind = "skip" /\ a < b /\ b = a + fr.n
     /\ \E m, l \in 0 .. Len(lg) :
          /\ a = 2 * m /\ b = 2 * l
          /\ \A i \in (m + 1) .. l : ~Forwarded(lg[i])

\* The frames fs take a stream from position a on, to the sender's position s
\* while the sender is there.
Chain(lg, fs, a, s, lk, rl) ==
  \E f \in [0 .. Len(fs) -> 0 .. s] :
    /\ f[0] = a /\ (lk = "up" => f[Len(fs)] = s)
    /\ \A i \in 1 .. Len(fs) : Piece(lg, fs[i], f[i - 1], f[i], rl)

\* Nothing on the wire is a chain, up to what was sent.
LEMMA ChainEmpty ==
  ASSUME NEW lg, NEW a \in Nat, NEW s \in Nat, NEW lk, NEW rl, a <= s, lk = "up" => a = s
  PROVE  Chain(lg, <<>>, a, s, lk, rl)
<1> DEFINE f == [i \in 0 .. 0 |-> a]
<1>1. Len(<<>>) = 0 /\ f \in [0 .. 0 -> 0 .. s] /\ f[0] = a
  OBVIOUS
<1>2. \A i \in 1 .. 0 : Piece(lg, <<>>[i], f[i - 1], f[i], rl)
  OBVIOUS
<1> HIDE DEF f
<1> QED BY <1>1, <1>2 DEF Chain

\* The sender adds a frame.
LEMMA ChainAppend ==
  ASSUME NEW lg, NEW fs \in Seq(FrameSet), NEW fr \in FrameSet, NEW a \in Nat, NEW s \in Nat,
         NEW t \in Nat, NEW rl, s <= t,
         Chain(lg, fs, a, s, "up", rl), Piece(lg, fr, s, t, rl)
  PROVE  Chain(lg, Append(fs, fr), a, t, "up", rl)
<1> DEFINE n == Len(fs)
<1>1. n \in Nat /\ Len(Append(fs, fr)) = n + 1 /\ Append(fs, fr)[n + 1] = fr
      /\ \A i \in 1 .. n : Append(fs, fr)[i] = fs[i]
  OBVIOUS
<1>2. PICK f \in [0 .. n -> 0 .. s] : /\ f[0] = a /\ f[n] = s
                                      /\ \A i \in 1 .. n : Piece(lg, fs[i], f[i - 1], f[i], rl)
  BY DEF Chain
<1> DEFINE g == [i \in 0 .. (n + 1) |-> IF i = n + 1 THEN t ELSE f[i]]
<1> HIDE DEF n
<1>3. g \in [0 .. (n + 1) -> 0 .. t] /\ g[0] = a /\ g[n + 1] = t /\ g[n] = s
  BY <1>1, <1>2
<1>4. ASSUME NEW i \in 1 .. (n + 1)
      PROVE  Piece(lg, Append(fs, fr)[i], g[i - 1], g[i], rl)
  <2>1. CASE i = n + 1
    <3>1. i - 1 = n
      BY <1>1, <2>1
    <3> QED BY <1>1, <1>3, <2>1, <3>1
  <2>2. CASE i # n + 1
    <3>1. i \in 1 .. n /\ i - 1 \in 0 .. n /\ i \in 0 .. n
      BY <1>1, <2>2
    <3>2. g[i - 1] = f[i - 1] /\ g[i] = f[i]
      BY <1>1, <3>1
    <3> QED BY <1>1, <1>2, <3>1, <3>2
  <2> QED BY <2>1, <2>2
<1> HIDE DEF g
<1> QED BY <1>1, <1>3, <1>4 DEF Chain

\* The receiver takes the first frame.
LEMMA ChainTail ==
  ASSUME NEW lg, NEW fs \in Seq(FrameSet), NEW a \in Nat, NEW s \in Nat, NEW lk, NEW rl,
         fs # <<>>, Chain(lg, fs, a, s, lk, rl)
  PROVE  \E b \in 0 .. s : Piece(lg, fs[1], a, b, rl) /\ Chain(lg, Tail(fs), b, s, lk, rl)
<1> DEFINE n == Len(fs)
<1>1. n \in Nat /\ n >= 1 /\ Len(Tail(fs)) = n - 1 /\ \A i \in 1 .. (n - 1) : Tail(fs)[i] = fs[i + 1]
  OBVIOUS
<1>2. PICK f \in [0 .. n -> 0 .. s] : /\ f[0] = a /\ (lk = "up" => f[n] = s)
                                      /\ \A i \in 1 .. n : Piece(lg, fs[i], f[i - 1], f[i], rl)
  BY DEF Chain
<1> DEFINE g == [i \in 0 .. (n - 1) |-> f[i + 1]]
<1> HIDE DEF n
<1>3. /\ g \in [0 .. (n - 1) -> 0 .. s] /\ g[0] = f[1] /\ g[n - 1] = f[n] /\ f[1] \in 0 .. s
  <2>1. \A i \in 0 .. (n - 1) : i + 1 \in 0 .. n
    BY <1>1
  <2>2. 0 \in 0 .. (n - 1) /\ n - 1 \in 0 .. (n - 1) /\ 0 + 1 = 1 /\ n - 1 + 1 = n
    BY <1>1
  <2> QED BY <1>2, <2>1, <2>2
<1>4. ASSUME NEW i \in 1 .. (n - 1)
      PROVE  Piece(lg, Tail(fs)[i], g[i - 1], g[i], rl)
  <2>1. i + 1 \in 1 .. n /\ i - 1 \in 0 .. (n - 1) /\ i \in 0 .. (n - 1) /\ i - 1 + 1 = i /\ i + 1 - 1 = i
    BY <1>1
  <2>2. g[i - 1] = f[i] /\ g[i] = f[i + 1]
    BY <2>1
  <2>3. Piece(lg, fs[i + 1], f[i + 1 - 1], f[i + 1], rl)
    BY <1>2, <2>1
  <2> QED BY <1>1, <2>1, <2>2, <2>3
<1>5. Piece(lg, fs[1], a, f[1], rl)
  <2>1. 1 \in 1 .. n /\ 1 - 1 = 0
    BY <1>1
  <2>2. Piece(lg, fs[1], f[1 - 1], f[1], rl)
    BY <1>2, <2>1
  <2> QED BY <1>2, <2>1, <2>2
<1> HIDE DEF g
<1>6. Chain(lg, Tail(fs), f[1], s, lk, rl)
  BY <1>1, <1>2, <1>3, <1>4 DEF Chain
<1> QED BY <1>3, <1>5, <1>6

\* A lost connection loses the last frames.
LEMMA ChainCut ==
  ASSUME NEW lg, NEW fs \in Seq(FrameSet), NEW a \in Nat, NEW s \in Nat, NEW lk, NEW rl,
         NEW n \in 0 .. Len(fs), Chain(lg, fs, a, s, lk, rl)
  PROVE  Chain(lg, SubSeq(fs, 1, n), a, s, "cut", rl)
<1>1. Len(SubSeq(fs, 1, n)) = n /\ \A i \in 1 .. n : SubSeq(fs, 1, n)[i] = fs[i]
  OBVIOUS
<1>2. PICK f \in [0 .. Len(fs) -> 0 .. s] :
           /\ f[0] = a
           /\ \A i \in 1 .. Len(fs) : Piece(lg, fs[i], f[i - 1], f[i], rl)
  BY DEF Chain
<1> DEFINE g == [i \in 0 .. n |-> f[i]]
<1>3. g \in [0 .. n -> 0 .. s] /\ g[0] = a
  BY <1>2
<1>4. ASSUME NEW i \in 1 .. n
      PROVE  Piece(lg, SubSeq(fs, 1, n)[i], g[i - 1], g[i], rl)
  <2>1. i \in 1 .. Len(fs) /\ i - 1 \in 0 .. n /\ i \in 0 .. n
    OBVIOUS
  <2>2. g[i - 1] = f[i - 1] /\ g[i] = f[i]
    BY <2>1
  <2> QED BY <1>1, <1>2, <2>1, <2>2
<1> HIDE DEF g
<1> QED BY <1>1, <1>3, <1>4 DEF Chain

\* The file grows under the frames.
LEMMA PieceGrow ==
  ASSUME NEW lg \in Seq(LinesT), NEW more \in Seq(LinesT), NEW fr \in FrameSet,
         NEW a \in Nat, NEW b \in Nat, NEW rl, Piece(lg, fr, a, b, rl)
  PROVE  Piece(lg \o more, fr, a, b, rl)
<1>1. Len(lg) <= Len(lg \o more) /\ \A i \in 1 .. Len(lg) : (lg \o more)[i] = lg[i]
  OBVIOUS
<1>2. CASE fr.kind = "wal" /\ a < b /\ b = a + Len(fr.units) /\ Contig(lg, fr.units, a)
           /\ (rl = "subscriber" =>
                 \E m \in 0 .. Len(lg) : a = 2 * m /\ b = 2 * m + 2 /\ Forwarded(lg[m + 1]))
  <2>1. fr.units \in Seq(Halves)
    BY DEF FrameSet
  <2>2. Contig(lg \o more, fr.units, a)
    BY <1>2, <2>1, ContigGrow
  <2>3. ASSUME rl = "subscriber"
        PROVE  \E m \in 0 .. Len(lg \o more) : a = 2 * m /\ b = 2 * m + 2 /\ Forwarded((lg \o more)[m + 1])
    <3>1. PICK m \in 0 .. Len(lg) : a = 2 * m /\ b = 2 * m + 2 /\ Forwarded(lg[m + 1])
      BY <1>2, <2>3
    <3>2. b <= 2 * Len(lg)
      BY <1>2 DEF Contig
    <3>3. m + 1 \in 1 .. Len(lg)
      BY <3>1, <3>2
    <3> QED BY <1>1, <3>1, <3>3
  <2> QED BY <1>2, <2>2, <2>3 DEF Piece
<1>3. CASE fr.kind = "skip" /\ a < b /\ b = a + fr.n
           /\ \E m, l \in 0 .. Len(lg) :
                /\ a = 2 * m /\ b = 2 * l
                /\ \A i \in (m + 1) .. l : ~Forwarded(lg[i])
  <2>1. PICK m \in 0 .. Len(lg), l \in 0 .. Len(lg) :
                /\ a = 2 * m /\ b = 2 * l
                /\ \A i \in (m + 1) .. l : ~Forwarded(lg[i])
    BY <1>3
  <2>2. m \in 0 .. Len(lg \o more) /\ l \in 0 .. Len(lg \o more)
    BY <1>1
  <2>3. \A i \in (m + 1) .. l : ~Forwarded((lg \o more)[i])
    <3> TAKE i \in (m + 1) .. l
    <3>1. i \in 1 .. Len(lg)
      OBVIOUS
    <3> QED BY <1>1, <2>1, <3>1
  <2> QED BY <1>3, <2>1, <2>2, <2>3 DEF Piece
<1> QED BY <1>2, <1>3 DEF Piece

\* A chain of frames stays one when the log grows.
LEMMA ChainGrow ==
  ASSUME NEW lg \in Seq(LinesT), NEW more \in Seq(LinesT), NEW fs \in Seq(FrameSet),
         NEW a \in Nat, NEW s \in Nat, NEW lk, NEW rl, Chain(lg, fs, a, s, lk, rl)
  PROVE  Chain(lg \o more, fs, a, s, lk, rl)
<1>1. PICK f \in [0 .. Len(fs) -> 0 .. s] :
           /\ f[0] = a /\ (lk = "up" => f[Len(fs)] = s)
           /\ \A i \in 1 .. Len(fs) : Piece(lg, fs[i], f[i - 1], f[i], rl)
  BY DEF Chain
<1>2. ASSUME NEW i \in 1 .. Len(fs) PROVE Piece(lg \o more, fs[i], f[i - 1], f[i], rl)
  <2>1. fs[i] \in FrameSet /\ i - 1 \in 0 .. Len(fs) /\ i \in 0 .. Len(fs)
    OBVIOUS
  <2>2. f[i - 1] \in 0 .. s /\ f[i] \in 0 .. s
    BY <2>1
  <2>3. f[i - 1] \in Nat /\ f[i] \in Nat
    BY <2>2
  <2> QED BY <1>1, <2>1, <2>3, PieceGrow
<1> QED BY <1>1, <1>2 DEF Chain

---------------------------------------------------------------------------
(* Replay.                                                                 *)

\* Engines that no record tells apart.
Same(e, f) == e.base = f.base /\ (e.open <=> f.open) /\ (e.open => e.shadow = f.shadow)

\* One record keeps two engines that look alike looking alike.
LEMMA SameStep ==
  ASSUME NEW e \in Engines, NEW f \in Engines, NEW r \in LinesT, Same(e, f)
  PROVE  Same(ReplayRecord(e, r), ReplayRecord(f, r))
<1>1. /\ e = [base |-> e.base, open |-> e.open, shadow |-> e.shadow] /\ e.open \in BOOLEAN
      /\ f = [base |-> f.base, open |-> f.open, shadow |-> f.shadow] /\ f.open \in BOOLEAN
      /\ e.base = f.base /\ e.open = f.open /\ (e.open => e.shadow = f.shadow)
  BY DEF Engines, Same
<1>2. r.kind \in {"BEGIN", "SQL", "COMMIT", "ROLLBACK", "MARK", "INPUTS"}
  BY DEF LinesT
<1>3. CASE r.kind = "BEGIN"
  BY <1>1, <1>3 DEF ReplayRecord, Same
<1>4. CASE r.kind = "SQL"
  BY <1>1, <1>4 DEF ReplayRecord, Same
<1>5. CASE r.kind = "COMMIT"
  BY <1>1, <1>5 DEF ReplayRecord, Same
<1>6. CASE r.kind = "ROLLBACK"
  BY <1>1, <1>6 DEF ReplayRecord, Same
<1>7. CASE r.kind \in {"MARK", "INPUTS"}
  BY <1>1, <1>7 DEF ReplayRecord, Same
<1> QED BY <1>2, <1>3, <1>4, <1>5, <1>6, <1>7

\* No record takes a row away.
LEMMA RecordAdds ==
  ASSUME NEW e \in Engines, NEW r \in LinesT, NEW w \in Writes
  PROVE  e.base[w] <= ReplayRecord(e, r).base[w]
<1>1. e = [base |-> e.base, open |-> e.open, shadow |-> e.shadow] /\ e.base \in Databases
  BY DEF Engines
<1>2. e.base[w] \in Nat
  BY <1>1 DEF Databases
<1>3. e.base[w] <= Plus(e.base, {r.w})[w] /\ e.base[w] <= Plus(e.base, e.shadow)[w]
  BY <1>1, <1>2, PlusType
<1>4. r.kind \in {"BEGIN", "SQL", "COMMIT", "ROLLBACK", "MARK", "INPUTS"}
  BY DEF LinesT
<1>5. ReplayRecord(e, r).base \in {e.base, Plus(e.base, {r.w}), Plus(e.base, e.shadow)}
  BY <1>1, <1>4 DEF ReplayRecord
<1>6. e.base[w] <= e.base[w]
  BY <1>2
<1> QED BY <1>3, <1>5, <1>6

\* The engine after the first n records of a log.
AtOf(lg, n) == Replayed(Engine(Nothing), SubSeq(lg, 1, n))

\* A fresh engine on a database.
LEMMA EngineType ==
  ASSUME NEW d \in Databases
  PROVE  Engine(d) \in Engines /\ Engine(d).base = d /\ ~Engine(d).open
BY DEF Engine, Engines

\* The empty database is one.
LEMMA NothingType == Nothing \in Databases
BY DEF Nothing, Databases

\* AtOf runs through the states of one loop over the log.
LEMMA AtLoop ==
  ASSUME NEW lg \in Seq(LinesT)
  PROVE  \E f \in [0 .. Len(lg) -> Engines] :
           /\ f[0] = Engine(Nothing)
           /\ \A i \in 1 .. Len(lg) : f[i] = ReplayRecord(f[i - 1], lg[i])
           /\ \A n \in 0 .. Len(lg) : AtOf(lg, n) = f[n]
BY NothingType, EngineType, ReplayStates DEF AtOf

\* AtOf, one record at a time.
LEMMA AtStep ==
  ASSUME NEW lg \in Seq(LinesT)
  PROVE  /\ AtOf(lg, 0) = Engine(Nothing)
         /\ \A n \in 0 .. Len(lg) : AtOf(lg, n) \in Engines
         /\ \A n \in 0 .. (Len(lg) - 1) : AtOf(lg, n + 1) = ReplayRecord(AtOf(lg, n), lg[n + 1])
<1>1. PICK f \in [0 .. Len(lg) -> Engines] :
           /\ f[0] = Engine(Nothing)
           /\ \A i \in 1 .. Len(lg) : f[i] = ReplayRecord(f[i - 1], lg[i])
           /\ \A n \in 0 .. Len(lg) : AtOf(lg, n) = f[n]
  BY AtLoop
<1>2. ASSUME NEW n \in 0 .. (Len(lg) - 1) PROVE AtOf(lg, n + 1) = ReplayRecord(AtOf(lg, n), lg[n + 1])
  <2>1. n \in 0 .. Len(lg) /\ n + 1 \in 0 .. Len(lg) /\ n + 1 \in 1 .. Len(lg) /\ n + 1 - 1 = n
    OBVIOUS
  <2>2. f[n + 1] = ReplayRecord(f[n], lg[n + 1])
    BY <1>1, <2>1
  <2> QED BY <1>1, <2>1, <2>2
<1> QED BY <1>1, <1>2

\* The states before a point are those of every longer log.
LEMMA AtGrow ==
  ASSUME NEW lg \in Seq(LinesT), NEW more \in Seq(LinesT), NEW n \in 0 .. Len(lg)
  PROVE  AtOf(lg \o more, n) = AtOf(lg, n)
<1>1. lg \o more \in Seq(LinesT) /\ Len(lg) <= Len(lg \o more) /\ \A i \in 1 .. Len(lg) : (lg \o more)[i] = lg[i]
  OBVIOUS
<1>2. n \in Nat /\ n <= Len(lg)
  OBVIOUS
<1>3. SubSeq(lg \o more, 1, n) = SubSeq(lg, 1, n)
  BY <1>1, <1>2, PrefixOf
<1> QED BY <1>3 DEF AtOf

\* Later states hold at least what earlier ones do.
LEMMA AtMonotone ==
  ASSUME NEW lg \in Seq(LinesT), NEW n \in 0 .. Len(lg), NEW m \in n .. Len(lg), NEW w \in Writes
  PROVE  AtOf(lg, n).base[w] <= AtOf(lg, m).base[w]
<1> DEFINE S == {i \in 0 .. (Len(lg) - n) : AtOf(lg, n).base[w] <= AtOf(lg, n + i).base[w]}
<1>1. \A k \in 0 .. Len(lg) : AtOf(lg, k) \in Engines /\ AtOf(lg, k).base[w] \in Nat
  <2> TAKE k \in 0 .. Len(lg)
  <2>1. AtOf(lg, k) \in Engines
    BY AtStep
  <2> QED BY <2>1 DEF Engines, Databases
<1>2. 0 \in S
  <2>1. n + 0 = n /\ 0 \in 0 .. (Len(lg) - n)
    OBVIOUS
  <2>2. AtOf(lg, n).base[w] <= AtOf(lg, n).base[w]
    BY <1>1
  <2> QED BY <2>1, <2>2
<1>3. ASSUME NEW i \in 0 .. ((Len(lg) - n) - 1), i \in S PROVE i + 1 \in S
  <2> DEFINE j == n + i
  <2>1. j \in 0 .. (Len(lg) - 1) /\ j \in 0 .. Len(lg) /\ j + 1 \in 0 .. Len(lg) /\ n + (i + 1) = j + 1
        /\ j + 1 \in 1 .. Len(lg) /\ i + 1 \in 0 .. (Len(lg) - n)
    OBVIOUS
  <2>2. AtOf(lg, n).base[w] <= AtOf(lg, j).base[w]
    BY <1>3
  <2> HIDE DEF j
  <2>3. lg[j + 1] \in LinesT
    BY <2>1
  <2>4. AtOf(lg, j).base[w] <= AtOf(lg, j + 1).base[w]
    BY <1>1, <2>1, <2>3, AtStep, RecordAdds
  <2>5. AtOf(lg, n).base[w] <= AtOf(lg, j + 1).base[w]
    BY <1>1, <2>1, <2>2, <2>4
  <2> QED BY <2>1, <2>5
<1>4. 0 .. (Len(lg) - n) \subseteq S
  <2>1. Len(lg) - n \in Nat
    OBVIOUS
  <2> HIDE DEF S
  <2> QED BY <1>2, <1>3, <2>1, UpTo
<1>5. m - n \in 0 .. (Len(lg) - n) /\ n + (m - n) = m
  OBVIOUS
<1>6. m - n \in S
  BY <1>4, <1>5
<1> QED BY <1>5, <1>6

\* Replay from a point of the log gets where the log gets.
LEMMA ReplayFrom ==
  ASSUME NEW lg \in Seq(LinesT), NEW p \in 0 .. Len(lg), NEW e \in Engines, Same(e, AtOf(lg, p)),
         NEW kept \in Seq(LinesT), p + Len(kept) <= Len(lg),
         \A i \in 1 .. Len(kept) : kept[i] = lg[p + i]
  PROVE  Same(Replayed(e, kept), AtOf(lg, p + Len(kept)))
<1>1. PICK f \in [0 .. Len(kept) -> Engines] :
           /\ f[0] = e
           /\ \A i \in 1 .. Len(kept) : f[i] = ReplayRecord(f[i - 1], kept[i])
           /\ Replayed(e, kept) = f[Len(kept)]
  BY ReplayLoop
<1> DEFINE n == Len(kept)
           S == {i \in 0 .. n : Same(f[i], AtOf(lg, p + i))}
<1>2. 0 \in S
  <2>1. p + 0 = p /\ 0 \in 0 .. n
    OBVIOUS
  <2> QED BY <1>1, <2>1
<1>3. ASSUME NEW i \in 0 .. (n - 1), i \in S PROVE i + 1 \in S
  <2> DEFINE j == p + i
  <2>1. /\ i + 1 \in 1 .. n /\ i + 1 \in 0 .. n /\ i + 1 - 1 = i /\ i \in 0 .. n
        /\ j \in 0 .. (Len(lg) - 1) /\ j \in 0 .. Len(lg) /\ p + (i + 1) = j + 1 /\ j + 1 \in 1 .. Len(lg)
    OBVIOUS
  <2>2. Same(f[i], AtOf(lg, j))
    BY <1>3
  <2>3. f[i + 1] = ReplayRecord(f[i], kept[i + 1]) /\ f[i] \in Engines
    <3>1. f[i + 1] = ReplayRecord(f[i + 1 - 1], kept[i + 1])
      BY <1>1, <2>1
    <3>2. f[i] \in Engines
      BY <1>1, <2>1
    <3> QED BY <2>1, <3>1, <3>2
  <2>4. kept[i + 1] = lg[j + 1] /\ lg[j + 1] \in LinesT
    BY <2>1
  <2> HIDE DEF j
  <2>5. AtOf(lg, j) \in Engines /\ AtOf(lg, j + 1) = ReplayRecord(AtOf(lg, j), lg[j + 1])
    BY <2>1, AtStep
  <2>6. Same(f[i + 1], AtOf(lg, j + 1))
    BY <2>2, <2>3, <2>4, <2>5, SameStep
  <2> QED BY <2>1, <2>6
<1>4. 0 .. n \subseteq S
  <2>1. n \in Nat
    OBVIOUS
  <2> HIDE DEF S, n
  <2> QED BY <1>2, <1>3, <2>1, UpTo
<1>5. n \in S
  BY <1>4
<1> QED BY <1>1, <1>5

---------------------------------------------------------------------------
(* The inductive invariant: types.                                         *)

Prims == [open : BOOLEAN, begun : BOOLEAN, shadow : SUBSET Writes, recs : Seq(LinesT)]

Peers == [pc : {"down", "hello", "restore", "stream", "drain"}, pos : Nat,
          pend : Seq(Halves), vol : 0 .. MaxWrites]

Disks == [db : SUBSET Databases, wal : Seq(Halves), side : Nat]

Counts == [writes : 0 .. MaxWrites, txs : Nat, marks : Nat, ckpts : Nat, cuts : Nat, crashes : Nat]

AtMostOne(S) == \A x, y \in S : x = y

\* The end of a record.
IsEven(q) == \E m \in Nat : q = 2 * m

\* The frames each kind of receiver can get.
FrameOK(fr, rl) ==
  /\ fr.kind = "wal" => Len(fr.units) > 0
  /\ fr.kind = "snapshot" => fr.db # {}
  /\ AtMostOne(fr.db)
  /\ rl = "subscriber" => fr.kind \in {"wal", "skip"} /\ IsEven(fr.n)
  /\ rl = "follower" => fr.kind # "skip"

PrimType ==
  /\ role \in Roles /\ mem \in Databases /\ prim \in Prims
  /\ log \in Seq(LinesT) /\ logged \in Seq(LinesT) /\ count \in Counts

PeerType ==
  /\ eng \in Engines /\ peer \in Peers /\ atom \in Nat /\ disk \in Disks
  /\ AtMostOne(disk.db) /\ AtMostOne(start) /\ start \in SUBSET Nat /\ drift \in SUBSET Writes
  /\ role = "subscriber" =>
       /\ peer.pc \in {"down", "stream"} /\ disk.db # {} /\ disk.wal = <<>>
       /\ IsEven(peer.pos) /\ IsEven(atom) /\ IsEven(disk.side)

LinkType ==
  /\ link \in {"none", "up", "cut"} /\ net \in Seq(FrameSet) /\ Len(net) <= NetMax + 1
  /\ sent \in Nat
  /\ \A i \in 1 .. Len(net) : FrameOK(net[i], role)
  /\ link = "none" <=> peer.pc = "down"
  /\ link = "none" => net = <<>> /\ sent = 0 /\ peer = Down
  /\ role = "subscriber" => IsEven(sent)

TypeInv == PrimType /\ PeerType /\ LinkType

---------------------------------------------------------------------------
(* The primary.                                                            *)

\* Records that are no longer in the file.
Gone == Len(logged) - Len(log)

\* A statement that reads the clock stands right behind its readings, and
\* readings are never the last record.
Paired(lg) ==
  /\ \A i \in 1 .. Len(lg) :
       /\ lg[i].kind = "INPUTS" => lg[i].w \in Writes
       /\ lg[i].kind = "SQL" /\ lg[i].w \in Volatile =>
            i > 1 /\ lg[i - 1] = Record("INPUTS", 0, lg[i].w)
  /\ lg # <<>> => lg[Len(lg)].kind # "INPUTS"

Unmarked(lg) == \A i \in 1 .. Len(lg) : lg[i].kind # "MARK"

\* What the log and the records on their way to it say of the primary.
Primary == [base |-> mem, open |-> prim.begun, shadow |-> prim.shadow]

LogInv ==
  /\ Len(log) <= Len(logged)
  /\ \A i \in 1 .. Len(log) : log[i] = logged[Gone + i]
  /\ Paired(log) /\ Paired(prim.recs) /\ Unmarked(prim.recs)
  /\ role = "follower" /\ ~Met({"marker"}) => Unmarked(log)

PrimInv ==
  /\ prim.begun => prim.open
  /\ ~prim.begun => prim.shadow = {}
  /\ role = "follower" /\ ~Met({"marker"})
       => Same(Replayed(Engine(Nothing), logged \o prim.recs), Primary)

---------------------------------------------------------------------------
(* The connection.                                                         *)

\* No statement that waits for readings begins at q.
Clear(lg, q) == \A m \in 1 .. Len(lg) : q = 2 * m => lg[m].kind # "INPUTS"

\* The position that goes with a snapshot is on the way, or lost.
Awaits(lg, fs, s, lk, rl) ==
  \/ fs = <<>> /\ lk = "cut"
  \/ /\ fs # <<>> /\ fs[1].kind = "position" /\ fs[1].n <= 2 * Len(lg)
     /\ IsEven(fs[1].n) /\ Clear(lg, fs[1].n)
     /\ Chain(lg, Tail(fs), fs[1].n, s, lk, rl)

Hello(lg, pos, fs, s, lk, rl) ==
  \/ fs = <<>> /\ lk = "cut"
  \/ fs # <<>> /\ fs[1].kind = "resume" /\ pos > 0 /\ Chain(lg, Tail(fs), pos, s, lk, rl)
  \/ fs # <<>> /\ fs[1].kind = "snapshot" /\ Awaits(lg, Tail(fs), s, lk, rl)

\* What the receiver has and what is on the way is one stream.
Incoming(lg, pr, fs, s, lk, rl) ==
  /\ pr.pc \in {"stream", "drain"} =>
       /\ Contig(lg, pr.pend, pr.pos) /\ Chain(lg, fs, pr.pos + Len(pr.pend), s, lk, rl)
       /\ rl = "subscriber" => pr.pend = <<>>
  /\ pr.pc \in {"hello", "restore"} => pr.pend = <<>> /\ pr.vol = 0 /\ pr.pos <= 2 * Len(lg)
  /\ pr.pc = "restore" => Awaits(lg, fs, s, lk, rl)
  /\ pr.pc = "hello" => Hello(lg, pr.pos, fs, s, lk, rl)

NetInv ==
  /\ sent <= Size /\ atom <= Size /\ disk.side <= Size
  /\ Incoming(log, peer, net, sent, link, role)

Moving(pr) == pr.pc \in {"stream", "drain"}

FirstIs(fs, kind) == fs # <<>> /\ fs[1].kind = kind

\* What a follower's files and positions are to each other.
FileInv ==
  role = "follower" =>
    /\ atom \in {0, disk.side}
    /\ peer.pc # "down" => atom = disk.side
    /\ disk.db = {} => disk.wal = <<>> /\ disk.side = 0
    /\ Moving(peer) => disk.db # {} /\ disk.side <= peer.pos
    /\ peer.pc = "stream" => peer.pos = disk.side /\ Len(peer.pend) < 2
    /\ disk.side = 0 =>
         Len(disk.wal) <= IF Moving(peer) THEN peer.pos + Len(peer.pend) ELSE Size
    /\ peer.pc = "restore" => disk.db # {} /\ disk.wal = <<>> /\ disk.side = 0
    /\ peer.pc = "hello" /\ FirstIs(net, "snapshot") => disk.wal = <<>> /\ disk.side = 0
    /\ peer.pc = "hello" /\ FirstIs(net, "resume") =>
         /\ disk.db # {}
         /\ IF disk.side > 0 THEN peer.pos = disk.side
            ELSE peer.pos = Len(disk.wal) /\ Met({"fallback"})

---------------------------------------------------------------------------
(* A follower.                                                             *)

\* Every first half stands behind the record that is before its own in the log.
Linked(lg, us) ==
  /\ us # <<>> => ~(us[1].rec.kind = "SQL" /\ us[1].rec.w \in Volatile)
  /\ \A j \in 1 .. (Len(us) - 1) : us[j + 1].half = 1 =>
       \E m \in 1 .. (Len(lg) - 1) : us[j] = Unit(lg[m], 2) /\ us[j + 1] = Unit(lg[m + 1], 1)

\* The local log, from position a of the file on, ends where the receiver is, or
\* with half a record that was received before a reconnection.
LocalLog(lg, a, pr, dk) ==
  \/ Damaged(dk.wal) /\ dk.side > 0
  \/ /\ Contig(lg, dk.wal, a)
     /\ IF Moving(pr) THEN \/ a + Len(dk.wal) = pr.pos + Len(pr.pend)
                           \/ a + Len(dk.wal) = pr.pos + 1 /\ pr.pend = <<>> /\ dk.side > 0
        ELSE a + Len(dk.wal) = dk.side \/ a + Len(dk.wal) = dk.side + 1

\* The engine is at record k, the snapshot file at record p; g are gone.
Settled(lg, g, k, p, pr, dk) ==
  /\ dk.db # {} /\ g <= p /\ p <= k /\ Clear(lg, 2 * (p - g))
  /\ (IF Moving(pr) THEN pr.pos ELSE dk.side) = 2 * (k - g)
  /\ LocalLog(lg, 2 * (p - g), pr, dk)

\* Nothing received since the snapshot, if there is one.
Fresh(pr, dk) == ~Moving(pr) /\ dk.side = 0 /\ dk.wal = <<>>

\* A follower that resumed in the middle of the first record gets nowhere.
Stuck(lg, pr, dk) ==
  /\ dk.db # {} /\ dk.side = 1
  /\ pr.pc # "restore" /\ pr.vol = 0
  /\ pr.pc # "down" => pr.pos = 1
  /\ Damaged(dk.wal) \/ Linked(lg, dk.wal)
  /\ pr.pend # <<>> =>
       dk.wal # <<>> /\ dk.wal[Len(dk.wal)] = pr.pend[Len(pr.pend)]

\* A snapshot of the state after record n.
Snapshot(lgd, db, n) == ~AtOf(lgd, n).open /\ \A d \in db : d = AtOf(lgd, n).base

\* What the records up to k and p left in the engine and in the snapshot file.
Points(lgd, g, k, p, en, pr, dk, fs) ==
  /\ Same(en, AtOf(lgd, k))
  /\ dk.db = {} => k = 0
  /\ Snapshot(lgd, dk.db, p) \/ dk.db = {}
  /\ Fresh(pr, dk) /\ dk.db # {} => k <= p
  /\ pr.pc = "restore" /\ fs # <<>> => fs[1].n = 2 * (p - g)
  /\ pr.pc = "hello" /\ FirstIs(fs, "snapshot") =>
       \E q \in g .. Len(lgd) :
         /\ k <= q /\ Snapshot(lgd, fs[1].db, q)
         /\ Len(fs) > 1 => fs[2].n = 2 * (q - g)

FollowerInv ==
  role = "follower" /\ ~Met({"truncate", "crash", "marker"}) =>
    \/ Met({"fallback"}) /\ Stuck(log, peer, disk)
    \/ \E k, p \in 0 .. Len(logged) :
         /\ Settled(log, Gone, k, p, peer, disk) \/ Fresh(peer, disk)
         /\ ~Met({"snapshot"}) => Points(logged, Gone, k, p, eng, peer, disk, net)

---------------------------------------------------------------------------
(* A subscriber.                                                           *)

\* The published writes among the first n records, from the start on.
CountOf(lgd, st, n) ==
  [w \in Writes |-> Cardinality({i \in 1 .. n : /\ \A s \in st : i > s
                                                /\ st # {}
                                                /\ Forwarded(lgd[i])
                                                /\ lgd[i].kind = "SQL" /\ lgd[i].w = w})]

\* Position q is at or after the start, and db is what was published until it.
Holds(lgd, g, st, q, db) ==
  \E n \in g .. Len(lgd) :
    /\ q = 2 * (n - g) /\ db = CountOf(lgd, st, n)
    /\ \A s \in st : g <= s /\ s <= n

SubscriberInv ==
  role = "subscriber" /\ ~Met({"truncate"}) =>
    /\ disk.side <= atom
    /\ ~eng.open
    /\ peer.pc = "stream" => atom <= peer.pos
    /\ ~Met({"baseline"}) =>
         /\ start = {} => atom = 0 /\ peer.pc = "down"
         /\ \A s \in start : s <= Len(logged)
         /\ peer.pc = "stream" => Holds(logged, Gone, start, peer.pos, eng.base)
         /\ atom > 0 => Holds(logged, Gone, start, atom, eng.base)
         /\ atom = 0 => eng.base = Nothing
         /\ \A d \in disk.db : IF disk.side > 0 THEN Holds(logged, Gone, start, disk.side, d)
                               ELSE d = Nothing

---------------------------------------------------------------------------
(* Readings.                                                               *)

\* The readings before the position are kept for the statement after it.
Keeps(lg, q, v) == \A m \in 1 .. Len(lg) : q = 2 * m /\ lg[m].kind = "INPUTS" => v = lg[m].w

Readings ==
  /\ drift = {}
  /\ Moving(peer) => Keeps(log, peer.pos, peer.vol)
  /\ ~Moving(peer) /\ role = "follower" => Clear(log, disk.side)
  /\ role = "subscriber" => Clear(log, atom) /\ Clear(log, disk.side)

ReadInv == ~Met({"truncate", "crash", "marker", "volatile"}) => Readings

ReplInv ==
  /\ TypeInv /\ LogInv /\ PrimInv
  /\ ~Met({"truncate"}) => NetInv /\ FileInv
  /\ FollowerInv /\ SubscriberInv /\ ReadInv

---------------------------------------------------------------------------
(* Types.                                                                  *)

\* The lines the primary writes.
LEMMA RecordType ==
  ASSUME NEW kind \in {"BEGIN", "SQL", "COMMIT", "ROLLBACK", "MARK", "INPUTS"},
         NEW w \in 0 .. MaxWrites
  PROVE  Record(kind, 0, w) \in LinesT /\ Record(kind, 0, w).kind = kind /\ Record(kind, 0, w).w = w
BY DEF Record, LinesT

\* The frames of a statement.
LEMMA FramesIs ==
  ASSUME NEW w \in Writes
  PROVE  /\ Frames(w) \in Seq(LinesT) /\ Paired(Frames(w)) /\ Unmarked(Frames(w))
         /\ w \in Volatile => Frames(w) = <<Record("INPUTS", 0, w), Record("SQL", 0, w)>>
         /\ w \notin Volatile => Frames(w) = <<Record("SQL", 0, w)>>
<1>0. w \in 0 .. MaxWrites
  BY WalRecordsAssumption DEF Writes
<1> DEFINE i == Record("INPUTS", 0, w)
           q == Record("SQL", 0, w)
<1>1. i \in LinesT /\ q \in LinesT /\ i.kind = "INPUTS" /\ q.kind = "SQL" /\ i.w = w /\ q.w = w
  BY <1>0, RecordType
<1>2. Frames(w) = (IF w \in Volatile THEN <<i>> ELSE <<>>) \o <<q>>
  BY DEF Frames
<1>3. i = Record("INPUTS", 0, w)
  OBVIOUS
<1> HIDE DEF i, q
<1>4. CASE w \in Volatile
  <2>1. Frames(w) = <<i, q>>
    <3> DEFINE a == <<i>>
               b == <<q>>
               c == <<i, q>>
    <3>1. a \in Seq(LinesT) /\ Len(a) = 1 /\ a[1] = i /\ b \in Seq(LinesT) /\ Len(b) = 1 /\ b[1] = q
      BY <1>1
    <3>2. c \in Seq(LinesT) /\ Len(c) = 2 /\ c[1] = i /\ c[2] = q
      BY <1>1
    <3>3. Frames(w) = a \o b
      BY <1>2, <1>4
    <3> HIDE DEF a, b, c
    <3>4. a \o b \in Seq(LinesT) /\ Len(a \o b) = 2 /\ (a \o b)[1] = i /\ (a \o b)[2] = q
      <4>1. /\ a \o b \in Seq(LinesT) /\ Len(a \o b) = Len(a) + Len(b)
            /\ \A j \in 1 .. Len(a) : (a \o b)[j] = a[j]
            /\ \A j \in 1 .. Len(b) : (a \o b)[Len(a) + j] = b[j]
        BY <3>1, ConcatIs
      <4>2. 1 \in 1 .. 1 /\ 1 + 1 = 2
        OBVIOUS
      <4>3. (a \o b)[Len(a) + 1] = b[1]
        BY <3>1, <4>1, <4>2
      <4> QED BY <3>1, <4>1, <4>2, <4>3
    <3>5. \A j \in 1 .. 2 : j = 1 \/ j = 2
      OBVIOUS
    <3>6. a \o b = c
      BY <3>2, <3>4, <3>5, SameElements
    <3> QED BY <3>3, <3>6 DEF c
  <2>2. <<i, q>> \in Seq(LinesT) /\ Len(<<i, q>>) = 2 /\ <<i, q>>[1] = i /\ <<i, q>>[2] = q /\ <<i, q>> # <<>>
    BY <1>1
  <2>3. \A j \in 1 .. 2 : j = 1 \/ j = 2
    OBVIOUS
  <2>4. Paired(<<i, q>>)
    <3>1. ASSUME NEW j \in 1 .. 2
          PROVE  /\ <<i, q>>[j].kind = "INPUTS" => <<i, q>>[j].w \in Writes
                 /\ <<i, q>>[j].kind = "SQL" /\ <<i, q>>[j].w \in Volatile =>
                      j > 1 /\ <<i, q>>[j - 1] = Record("INPUTS", 0, <<i, q>>[j].w)
      <4>1. CASE j = 1
        BY <1>1, <2>2, <4>1
      <4>2. CASE j = 2
        <5>1. j - 1 = 1 /\ j > 1
          BY <4>2
        <5> QED BY <1>1, <1>3, <2>2, <4>2, <5>1
      <4> QED BY <2>3, <4>1, <4>2
    <3> QED BY <1>1, <2>2, <3>1 DEF Paired
  <2>5. Unmarked(<<i, q>>)
    BY <1>1, <2>2, <2>3 DEF Unmarked
  <2> QED BY <1>4, <2>1, <2>2, <2>4, <2>5 DEF i, q
<1>5. CASE w \notin Volatile
  <2>1. Frames(w) = <<q>>
    BY <1>2, <1>5
  <2>2. <<q>> \in Seq(LinesT) /\ Len(<<q>>) = 1 /\ <<q>>[1] = q
    BY <1>1
  <2>3. \A j \in 1 .. 1 : j = 1
    OBVIOUS
  <2>4. Paired(<<q>>) /\ Unmarked(<<q>>)
    BY <1>1, <1>5, <2>2, <2>3 DEF Paired, Unmarked
  <2> QED BY <1>5, <2>1, <2>2, <2>4 DEF q
<1> QED BY <1>4, <1>5

\* Counting.
LEMMA SpendType ==
  ASSUME count \in Counts,
         NEW what \in {"writes", "txs", "marks", "ckpts", "cuts", "crashes"}, Spend(what),
         what = "writes" => count.writes < MaxWrites
  PROVE  count' \in Counts
BY WalRecordsAssumption DEF Spend, Counts

\* The next write is within the bound.
LEMMA NewWriteType ==
  ASSUME count \in Counts, count.writes < MaxWrites
  PROVE  NewWrite \in Writes
BY WalRecordsAssumption DEF NewWrite, Counts, Writes

\* The primary's steps.
LEMMA ClientType ==
  ASSUME TypeInv, Client
  PROVE  TypeInv'
<1> USE DEF TypeInv
<1>0. UNCHANGED <<role, mishaps, log, logged, linkVars, peerVars>>
  BY DEF Client, Execute, Begin, Statement, End
<1>1. PeerType' /\ LinkType'
  BY <1>0 DEF PeerType, LinkType, linkVars, peerVars
<1>2. role \in Roles /\ mem \in Databases /\ prim \in Prims /\ count \in Counts
      /\ log \in Seq(LinesT) /\ logged \in Seq(LinesT)
  BY DEF PrimType
<1>3. NoStmt \in Prims
  BY DEF NoStmt, Prims
<1>4. CASE Execute
  <2>1. NewWrite \in Writes
    BY <1>2, <1>4, NewWriteType DEF Execute
  <2>2. mem' \in Databases
    BY <1>2, <1>4, PlusType DEF Execute
  <2>3. Frames(NewWrite) \in Seq(LinesT)
    BY <2>1, FramesIs
  <2>4. prim' \in Prims
    <3> DEFINE fs == Frames(NewWrite)
    <3>1. prim' = [prim EXCEPT !.recs = fs]
      BY <1>4 DEF Execute
    <3>2. fs \in Seq(LinesT)
      BY <2>3
    <3> HIDE DEF fs
    <3> QED BY <1>2, <3>1, <3>2 DEF Prims
  <2>5. count' \in Counts
    BY <1>2, <1>4, SpendType DEF Execute
  <2> QED BY <1>0, <1>1, <1>2, <2>2, <2>4, <2>5 DEF PrimType
<1>5. CASE Begin
  <2>1. prim' = [NoStmt EXCEPT !.open = TRUE]
    BY <1>5 DEF Begin
  <2>10. prim' \in Prims
    BY <1>3, <2>1 DEF Prims
  <2>2. count' \in Counts
    BY <1>2, <1>5, SpendType DEF Begin
  <2> QED BY <1>0, <1>1, <1>2, <1>5, <2>10, <2>2 DEF PrimType, Begin
<1>6. CASE Statement
  <2>1. NewWrite \in Writes
    BY <1>2, <1>6, NewWriteType DEF Statement
  <2> DEFINE pre == IF prim.begun THEN <<>> ELSE <<Record("BEGIN", 0, 0)>>
             fs == pre \o Frames(NewWrite)
             sh == prim.shadow \cup {NewWrite}
  <2>2. pre \in Seq(LinesT)
    <3>1. Record("BEGIN", 0, 0) \in LinesT
      <4>1. 0 \in 0 .. MaxWrites
        BY WalRecordsAssumption
      <4> QED BY <4>1, RecordType
    <3> QED BY <3>1
  <2>3. fs \in Seq(LinesT)
    <3>1. Frames(NewWrite) \in Seq(LinesT)
      BY <2>1, FramesIs
    <3> HIDE DEF pre
    <3> QED BY <2>2, <3>1
  <2>4. sh \in SUBSET Writes
    BY <1>2, <2>1 DEF Prims
  <2>5. prim' = [prim EXCEPT !.begun = TRUE, !.shadow = sh, !.recs = fs]
    BY <1>6 DEF Statement
  <2> HIDE DEF sh, fs, pre
  <2>6. prim' \in Prims
    BY <1>2, <2>3, <2>4, <2>5 DEF Prims
  <2>7. count' \in Counts
    BY <1>2, <1>6, SpendType DEF Statement
  <2> QED BY <1>0, <1>1, <1>2, <1>6, <2>6, <2>7 DEF PrimType, Statement
<1>7. ASSUME NEW kind \in {"COMMIT", "ROLLBACK"}, End(kind) PROVE TypeInv'
  <2>1. Plus(mem, prim.shadow) \in Databases
    BY <1>2, PlusType
  <2>2. mem' \in Databases
    BY <1>2, <1>7, <2>1 DEF End
  <2> DEFINE fs == IF prim.begun THEN <<Record(kind, 0, 0)>> ELSE <<>>
  <2>3. fs \in Seq(LinesT)
    <3>1. Record(kind, 0, 0) \in LinesT
      <4>1. 0 \in 0 .. MaxWrites
        BY WalRecordsAssumption
      <4> QED BY <4>1, RecordType
    <3> QED BY <3>1
  <2>4. prim' = [NoStmt EXCEPT !.recs = fs]
    BY <1>7 DEF End
  <2> HIDE DEF fs
  <2>5. prim' \in Prims
    BY <1>3, <2>3, <2>4 DEF Prims
  <2> QED BY <1>0, <1>1, <1>2, <1>7, <2>2, <2>5 DEF PrimType, End
<1> QED BY <1>4, <1>5, <1>6, <1>7 DEF Client

\* The types survive the primary writing and truncating its log.
LEMMA LogType ==
  ASSUME TypeInv, Log \/ Mark \/ Truncate
  PROVE  TypeInv'
<1> USE DEF TypeInv
<1>0. UNCHANGED <<role, linkVars, peerVars, mem>>
  BY DEF Log, Mark, Truncate
<1>1. PeerType' /\ LinkType'
  BY <1>0 DEF PeerType, LinkType, linkVars, peerVars
<1>2. role \in Roles /\ mem \in Databases /\ prim \in Prims /\ count \in Counts
      /\ log \in Seq(LinesT) /\ logged \in Seq(LinesT)
  BY DEF PrimType
<1>3. CASE Log
  <2>1. prim.recs \in Seq(LinesT)
    BY <1>2 DEF Prims
  <2>2. log' \in Seq(LinesT) /\ logged' \in Seq(LinesT)
    BY <1>2, <1>3, <2>1 DEF Log
  <2>3. prim' \in Prims
    <3> DEFINE e == <<>>
    <3>1. e \in Seq(LinesT)
      OBVIOUS
    <3>2. prim' = [prim EXCEPT !.recs = e]
      BY <1>3 DEF Log
    <3> HIDE DEF e
    <3> QED BY <1>2, <3>1, <3>2 DEF Prims
  <2> QED BY <1>0, <1>1, <1>2, <1>3, <2>2, <2>3 DEF PrimType, Log
<1>4. CASE Mark
  <2>1. Record("MARK", 0, 0) \in LinesT
    <3>1. 0 \in 0 .. MaxWrites
      BY WalRecordsAssumption
    <3> QED BY <3>1, RecordType
  <2>2. log' \in Seq(LinesT) /\ logged' \in Seq(LinesT)
    BY <1>2, <1>4, <2>1 DEF Mark
  <2>3. count' \in Counts
    BY <1>2, <1>4, SpendType DEF Mark
  <2> QED BY <1>0, <1>1, <1>2, <1>4, <2>2, <2>3 DEF PrimType, Mark
<1>5. CASE Truncate
  <2>1. log' \in Seq(LinesT)
    BY <1>5 DEF Truncate
  <2>2. count' \in Counts
    BY <1>2, <1>5, SpendType DEF Truncate
  <2> QED BY <1>0, <1>1, <1>2, <1>5, <2>1, <2>2 DEF PrimType, Truncate
<1> QED BY <1>3, <1>4, <1>5

\* The frames the sender makes.
LEMMA FrameType ==
  /\ \A us \in Seq(Halves) : WalFrame(us) \in FrameSet /\ WalFrame(us).kind = "wal" /\ WalFrame(us).units = us
                             /\ WalFrame(us).db = {} /\ WalFrame(us).n = 0
  /\ \A n \in Nat : LET fr == [Frame("skip") EXCEPT !.n = n]
                    IN  fr \in FrameSet /\ fr.kind = "skip" /\ fr.n = n /\ fr.db = {}
  /\ \A n \in Nat : LET fr == [Frame("position") EXCEPT !.n = n]
                    IN  fr \in FrameSet /\ fr.kind = "position" /\ fr.n = n /\ fr.db = {}
  /\ \A d \in Databases : LET fr == [Frame("snapshot") EXCEPT !.db = {d}]
                          IN  fr \in FrameSet /\ fr.kind = "snapshot" /\ fr.db = {d}
  /\ Frame("resume") \in FrameSet /\ Frame("resume").kind = "resume" /\ Frame("resume").db = {}
<1>1. <<>> \in Seq(Halves)
  OBVIOUS
<1> QED BY <1>1 DEF Frame, WalFrame, FrameSet

\* A peer that is not connected.
LEMMA DownType == Down \in Peers /\ Down.pc = "down" /\ Down.pos = 0 /\ Down.pend = <<>> /\ Down.vol = 0
<1>1. <<>> \in Seq(Halves) /\ 0 \in 0 .. MaxWrites
  BY WalRecordsAssumption
<1> QED BY <1>1 DEF Down, Peers

\* A frame more, a frame less, fewer frames.
LEMMA FramesMore ==
  ASSUME NEW fs \in Seq(FrameSet), NEW fr \in FrameSet, NEW rl, FrameOK(fr, rl),
         \A i \in 1 .. Len(fs) : FrameOK(fs[i], rl)
  PROVE  /\ Append(fs, fr) \in Seq(FrameSet) /\ Len(Append(fs, fr)) = Len(fs) + 1
         /\ \A i \in 1 .. Len(Append(fs, fr)) : FrameOK(Append(fs, fr)[i], rl)
<1>1. Append(fs, fr) \in Seq(FrameSet) /\ Len(Append(fs, fr)) = Len(fs) + 1
  OBVIOUS
<1>2. ASSUME NEW i \in 1 .. (Len(fs) + 1) PROVE FrameOK(Append(fs, fr)[i], rl)
  <2>1. CASE i = Len(fs) + 1
    BY <2>1
  <2>2. CASE i # Len(fs) + 1
    <3>1. i \in 1 .. Len(fs) /\ Append(fs, fr)[i] = fs[i]
      BY <2>2
    <3> QED BY <3>1
  <2> QED BY <2>1, <2>2
<1> QED BY <1>1, <1>2

\* Taking a frame off the wire.
LEMMA FramesTail ==
  ASSUME NEW fs \in Seq(FrameSet), NEW rl, fs # <<>>,
         \A i \in 1 .. Len(fs) : FrameOK(fs[i], rl)
  PROVE  /\ Tail(fs) \in Seq(FrameSet) /\ Len(Tail(fs)) = Len(fs) - 1 /\ Len(fs) \in Nat
         /\ \A i \in 1 .. Len(Tail(fs)) : FrameOK(Tail(fs)[i], rl)
         /\ Head(fs) = fs[1] /\ fs[1] \in FrameSet /\ FrameOK(fs[1], rl)
<1>1. Tail(fs) \in Seq(FrameSet) /\ Len(Tail(fs)) = Len(fs) - 1 /\ Len(fs) \in Nat /\ Len(fs) >= 1
  OBVIOUS
<1>2. ASSUME NEW i \in 1 .. (Len(fs) - 1) PROVE FrameOK(Tail(fs)[i], rl)
  <2>1. i + 1 \in 1 .. Len(fs) /\ Tail(fs)[i] = fs[i + 1]
    BY <1>1
  <2> QED BY <2>1
<1>3. Head(fs) = fs[1] /\ fs[1] \in FrameSet /\ 1 \in 1 .. Len(fs)
  BY <1>1
<1> QED BY <1>1, <1>2, <1>3

\* Losing the end of what is on the wire.
LEMMA FramesCut ==
  ASSUME NEW fs \in Seq(FrameSet), NEW rl, NEW n \in 0 .. Len(fs),
         \A i \in 1 .. Len(fs) : FrameOK(fs[i], rl)
  PROVE  /\ SubSeq(fs, 1, n) \in Seq(FrameSet) /\ Len(SubSeq(fs, 1, n)) = n
         /\ \A i \in 1 .. n : SubSeq(fs, 1, n)[i] = fs[i]
         /\ \A i \in 1 .. Len(SubSeq(fs, 1, n)) : FrameOK(SubSeq(fs, 1, n)[i], rl)
<1>1. SubSeq(fs, 1, n) \in Seq(FrameSet) /\ Len(SubSeq(fs, 1, n)) = n /\ \A i \in 1 .. n : SubSeq(fs, 1, n)[i] = fs[i]
  OBVIOUS
<1>2. \A i \in 1 .. n : i \in 1 .. Len(fs)
  OBVIOUS
<1> QED BY <1>1, <1>2

\* The steps of the sender and of the connection.
LEMMA LinkTypes ==
  ASSUME TypeInv, SendBytes \/ SendRecord \/ Cut \/ HangUp \/ Poll
  PROVE  TypeInv'
<1> USE DEF TypeInv
<1>0. UNCHANGED <<role, primVars>>
  BY DEF SendBytes, SendRecord, Cut, HangUp, Poll, vars
<1>1. /\ role \in Roles /\ mem \in Databases /\ prim \in Prims /\ count \in Counts
      /\ log \in Seq(LinesT) /\ logged \in Seq(LinesT)
  BY DEF PrimType
<1>2. /\ link \in {"none", "up", "cut"} /\ net \in Seq(FrameSet) /\ Len(net) <= NetMax + 1 /\ sent \in Nat
      /\ \A i \in 1 .. Len(net) : FrameOK(net[i], role)
      /\ (link = "none" <=> peer.pc = "down")
      /\ link = "none" => net = <<>> /\ sent = 0 /\ peer = Down
  BY DEF LinkType
<1>3. NetMax \in Nat /\ FrameMax \in Nat
  BY ReplicationAssumption
<1>4. role = "subscriber" \/ role = "follower"
  BY <1>1, ReplicationAssumption
<1>5. CASE SendBytes
  <2>0. UNCHANGED <<link, peerVars, count>> /\ link = "up" /\ Len(net) < NetMax /\ role = "follower"
    BY <1>5 DEF SendBytes
  <2>1. PICK n \in 1 .. FrameMax :
               /\ sent + n <= Size
               /\ net' = Append(net, WalFrame(SubSeq(UnitsOf(log), sent + 1, sent + n)))
               /\ sent' = sent + n
    BY <1>5 DEF SendBytes
  <2> DEFINE us == SubSeq(UnitsOf(log), sent + 1, sent + n)
             fr == WalFrame(us)
  <2>2. us \in Seq(Halves) /\ Len(us) = n
    <3>1. n \in Nat /\ sent + n <= 2 * Len(log)
      BY <2>1 DEF Size
    <3> QED BY <1>1, <1>2, <3>1, ContigRead
  <2> HIDE DEF us
  <2>3. fr \in FrameSet /\ fr.kind = "wal" /\ fr.units = us /\ fr.db = {}
    BY <2>2, FrameType
  <2> HIDE DEF fr
  <2>4. FrameOK(fr, role)
    BY <2>0, <2>2, <2>3 DEF FrameOK, AtMostOne
  <2>5. net' = Append(net, fr)
    BY <2>1 DEF us, fr
  <2>6. LinkType'
    <3>1. /\ Append(net, fr) \in Seq(FrameSet) /\ Len(Append(net, fr)) = Len(net) + 1
          /\ \A i \in 1 .. Len(Append(net, fr)) : FrameOK(Append(net, fr)[i], role)
      BY <1>2, <2>3, <2>4, FramesMore
    <3>2. Len(net') <= NetMax + 1 /\ sent' \in Nat
      BY <1>2, <1>3, <2>0, <2>1, <2>5, <3>1
    <3>3. peer.pc # "down" /\ peer' = peer /\ link' = link /\ role' = role
      BY <1>0, <1>2, <2>0 DEF peerVars
    <3> QED BY <1>2, <2>0, <2>5, <3>1, <3>2, <3>3 DEF LinkType
  <2> QED BY <1>0, <1>1, <2>0, <2>6 DEF PrimType, PeerType, primVars, peerVars
<1>6. CASE SendRecord
  <2>0. UNCHANGED <<link, peerVars, count>> /\ link = "up" /\ Len(net) < NetMax /\ role = "subscriber" /\ sent < Size
    BY <1>6 DEF SendRecord
  <2>1. PICK h \in Nat : sent = 2 * h
    BY <2>0 DEF LinkType, IsEven
  <2> DEFINE i == sent \div 2 + 1
  <2>2. i = h + 1 /\ h + 1 <= Len(log)
    BY <1>1, <2>0, <2>1 DEF Size
  <2>3. \E fr \in FrameSet : FrameOK(fr, role) /\ net' = Append(net, fr) /\ sent' \in Nat /\ IsEven(sent')
    <3>1. CASE /\ net' = Append(net, WalFrame(SubSeq(UnitsOf(log), sent + 1, sent + 2)))
               /\ sent' = sent + 2
      <4> DEFINE us == SubSeq(UnitsOf(log), sent + 1, sent + 2)
                 fr == WalFrame(us)
      <4>1. us \in Seq(Halves) /\ Len(us) = 2
        <5>1. 2 \in Nat /\ sent + 2 <= 2 * Len(log)
          BY <1>1, <2>1, <2>2
        <5> QED BY <1>1, <1>2, <5>1, ContigRead
      <4> HIDE DEF us
      <4>2. fr \in FrameSet /\ fr.kind = "wal" /\ fr.units = us /\ fr.db = {} /\ fr.n = 0
        BY <4>1, FrameType
      <4> HIDE DEF fr
      <4>3. IsEven(fr.n)
        <5>1. 0 = 2 * 0 /\ 0 \in Nat
          OBVIOUS
        <5> QED BY <4>2, <5>1 DEF IsEven
      <4>30. Len(us) > 0
        BY <4>1
      <4>31. fr.kind = "wal" /\ fr.units = us /\ fr.db = {}
        BY <4>2, Zenon
      <4>4. FrameOK(fr, role)
        BY <2>0, <4>3, <4>30, <4>31 DEF FrameOK, AtMostOne
      <4>5. sent' = 2 * (h + 1) /\ h + 1 \in Nat /\ sent' \in Nat
        BY <2>1, <3>1
      <4>6. IsEven(sent')
        BY <4>5 DEF IsEven
      <4> QED BY <3>1, <4>2, <4>4, <4>5, <4>6 DEF us, fr
    <3>2. CASE \E j \in i .. Len(log) :
                 /\ net' = Append(net, [Frame("skip") EXCEPT !.n = 2 * (j - i + 1)])
                 /\ sent' = 2 * j
      <4>1. PICK j \in i .. Len(log) :
                 /\ net' = Append(net, [Frame("skip") EXCEPT !.n = 2 * (j - i + 1)])
                 /\ sent' = 2 * j
        BY <3>2
      <4> DEFINE x == j - i + 1
                 n == 2 * x
                 fr == [Frame("skip") EXCEPT !.n = n]
      <4>2. x \in Nat /\ j \in Nat
        BY <2>2
      <4> HIDE DEF x
      <4>3. n \in Nat /\ IsEven(n)
        BY <4>2 DEF IsEven
      <4> HIDE DEF n
      <4>4. fr \in FrameSet /\ fr.kind = "skip" /\ fr.n = n /\ fr.db = {}
        BY <4>3, FrameType
      <4>5. net' = Append(net, fr)
        BY <4>1 DEF x, n
      <4> HIDE DEF fr
      <4>6. FrameOK(fr, role)
        BY <2>0, <4>3, <4>4 DEF FrameOK, AtMostOne
      <4>7. sent' \in Nat /\ IsEven(sent')
        BY <4>1, <4>2 DEF IsEven
      <4> QED BY <4>4, <4>5, <4>6, <4>7
    <3> QED BY <1>6, <3>1, <3>2 DEF SendRecord
  <2> HIDE DEF i
  <2>4. PICK fr \in FrameSet : FrameOK(fr, role) /\ net' = Append(net, fr) /\ sent' \in Nat /\ IsEven(sent')
    BY <2>3
  <2>6. LinkType'
    <3>1. /\ Append(net, fr) \in Seq(FrameSet) /\ Len(Append(net, fr)) = Len(net) + 1
          /\ \A k \in 1 .. Len(Append(net, fr)) : FrameOK(Append(net, fr)[k], role)
      BY <1>2, <2>4, FramesMore
    <3>2. Len(net') <= NetMax + 1
      BY <1>2, <1>3, <2>0, <2>4, <3>1
    <3>3. peer.pc # "down" /\ peer' = peer /\ link' = link /\ role' = role
      BY <1>0, <1>2, <2>0 DEF peerVars
    <3> QED BY <1>2, <2>0, <2>4, <3>1, <3>2, <3>3 DEF LinkType
  <2> QED BY <1>0, <1>1, <2>0, <2>6 DEF PrimType, PeerType, primVars, peerVars
<1>7. CASE Cut
  <2>0. UNCHANGED <<sent, peerVars>> /\ link = "up" /\ link' = "cut"
    BY <1>7 DEF Cut
  <2>1. PICK n \in 0 .. Len(net) : net' = SubSeq(net, 1, n)
    BY <1>7 DEF Cut
  <2>2. /\ net' \in Seq(FrameSet) /\ Len(net') = n
        /\ \A i \in 1 .. Len(net') : FrameOK(net'[i], role)
    BY <1>2, <2>1, FramesCut
  <2>3. Len(net') <= NetMax + 1
    BY <1>2, <1>3, <2>1, <2>2
  <2>4. LinkType'
    BY <1>0, <1>2, <2>0, <2>2, <2>3 DEF LinkType, peerVars
  <2>5. count' \in Counts
    BY <1>1, <1>7, SpendType DEF Cut
  <2> QED BY <1>0, <1>1, <2>0, <2>4, <2>5 DEF PrimType, PeerType, primVars, peerVars
<1>8. CASE HangUp
  <2>0. /\ UNCHANGED <<net, eng, atom, disk, start, drift, count>> /\ net = <<>>
        /\ link' = "none" /\ sent' = 0 /\ peer' = Down
    BY <1>8 DEF HangUp
  <2>1. peer' \in Peers /\ peer'.pc = "down" /\ IsEven(peer'.pos) /\ IsEven(sent')
    <3>1. 0 = 2 * 0 /\ 0 \in Nat
      OBVIOUS
    <3> QED BY <2>0, <3>1, DownType DEF IsEven
  <2>2. PeerType'
    BY <1>0, <2>0, <2>1 DEF PeerType
  <2>3. LinkType'
    BY <1>0, <1>2, <2>0, <2>1 DEF LinkType
  <2> QED BY <1>0, <1>1, <2>0, <2>2, <2>3 DEF PrimType, primVars
<1>9. CASE Poll
  BY <1>9 DEF Poll, vars, PrimType, PeerType, LinkType, primVars, linkVars, peerVars
<1> QED BY <1>5, <1>6, <1>7, <1>8, <1>9

\* The steps of a follower.
LEMMA FollowerTypes ==
  ASSUME TypeInv, Connect \/ Resume \/ WriteSnapshot \/ Restore \/ ReceiveBytes \/ Drained
  PROVE  TypeInv'
<1> USE DEF TypeInv
<1>0. UNCHANGED <<role, primVars, count>> /\ (role = "follower" \/ Drained)
  BY DEF Connect, Resume, WriteSnapshot, Restore, ReceiveBytes, Drained
<1>1. PrimType'
  BY <1>0 DEF PrimType, primVars
<1>2. /\ role \in Roles /\ mem \in Databases /\ log \in Seq(LinesT) /\ logged \in Seq(LinesT)
  BY DEF PrimType
<1>3. /\ link \in {"none", "up", "cut"} /\ net \in Seq(FrameSet) /\ Len(net) <= NetMax + 1 /\ sent \in Nat
      /\ \A i \in 1 .. Len(net) : FrameOK(net[i], role)
      /\ (link = "none" <=> peer.pc = "down")
      /\ link = "none" => net = <<>> /\ sent = 0 /\ peer = Down
      /\ role = "subscriber" => IsEven(sent)
  BY DEF LinkType
<1>4. /\ eng \in Engines /\ peer \in Peers /\ atom \in Nat /\ disk \in Disks
      /\ AtMostOne(disk.db) /\ AtMostOne(start) /\ start \in SUBSET Nat /\ drift \in SUBSET Writes
      /\ role = "subscriber" =>
           /\ peer.pc \in {"down", "stream"} /\ disk.db # {} /\ disk.wal = <<>>
           /\ IsEven(peer.pos) /\ IsEven(atom) /\ IsEven(disk.side)
  BY DEF PeerType
<1>5. NetMax \in Nat \ {0}
  BY ReplicationAssumption
<1>6. disk.db \in SUBSET Databases /\ disk.wal \in Seq(Halves) /\ disk.side \in Nat
  BY <1>4 DEF Disks
<1>7. peer.pos \in Nat /\ peer.pend \in Seq(Halves) /\ peer.vol \in 0 .. MaxWrites
  BY <1>4 DEF Peers
<1>8. CASE Connect
  <2>0. /\ role = "follower" /\ UNCHANGED <<eng, disk, start, drift>>
        /\ link' = "up" /\ atom' = Seeded /\ peer' = [Down EXCEPT !.pc = "hello", !.pos = StartOffset]
        /\ \/ /\ net' = <<[Frame("snapshot") EXCEPT !.db = {mem}], [Frame("position") EXCEPT !.n = Size]>>
              /\ sent' = Size
           \/ net' = <<Frame("resume")>> /\ sent' = StartOffset
    BY <1>8 DEF Connect
  <2>1. Seeded \in Nat /\ StartOffset \in Nat /\ Size \in Nat
    <3>1. Seeded \in Nat
      BY <1>4, <1>6 DEF Seeded
    <3>2. Len(disk.wal) \in Nat /\ Size \in Nat
      BY <1>2, <1>6 DEF Size
    <3> QED BY <3>1, <3>2 DEF StartOffset
  <2>2. peer' \in Peers /\ peer'.pc = "hello"
    BY <2>0, <2>1, DownType DEF Peers
  <2>3. PeerType'
    BY <1>0, <1>4, <2>0, <2>1, <2>2 DEF PeerType
  <2>4. /\ net' \in Seq(FrameSet) /\ Len(net') <= NetMax + 1 /\ sent' \in Nat
        /\ \A i \in 1 .. Len(net') : FrameOK(net'[i], role)
    <3>1. CASE net' = <<Frame("resume")>> /\ sent' = StartOffset
      <4> DEFINE fr == Frame("resume")
      <4>1. fr \in FrameSet /\ fr.kind = "resume" /\ fr.db = {}
        BY FrameType
      <4>2. net' = <<fr>>
        BY <3>1
      <4> HIDE DEF fr
      <4>3. net' \in Seq(FrameSet) /\ Len(net') = 1 /\ net'[1] = fr
        BY <4>1, <4>2
      <4>4. FrameOK(fr, role)
        BY <2>0, <4>1 DEF FrameOK, AtMostOne
      <4>5. \A i \in 1 .. 1 : i = 1
        OBVIOUS
      <4> QED BY <1>5, <2>1, <3>1, <4>3, <4>4, <4>5
    <3>2. CASE /\ net' = <<[Frame("snapshot") EXCEPT !.db = {mem}], [Frame("position") EXCEPT !.n = Size]>>
               /\ sent' = Size
      <4> DEFINE fr == [Frame("snapshot") EXCEPT !.db = {mem}]
                 fp == [Frame("position") EXCEPT !.n = Size]
      <4>1. fr \in FrameSet /\ fr.kind = "snapshot" /\ fr.db = {mem}
        BY <1>2, FrameType
      <4>2. fp \in FrameSet /\ fp.kind = "position" /\ fp.db = {}
        BY <2>1, FrameType
      <4>3. net' = <<fr, fp>>
        BY <3>2
      <4> HIDE DEF fr, fp
      <4>4. net' \in Seq(FrameSet) /\ Len(net') = 2 /\ net'[1] = fr /\ net'[2] = fp
        BY <4>1, <4>2, <4>3
      <4>5. FrameOK(fr, role)
        BY <2>0, <4>1 DEF FrameOK, AtMostOne
      <4>6. FrameOK(fp, role)
        BY <2>0, <4>2 DEF FrameOK, AtMostOne
      <4>7. \A i \in 1 .. 2 : i = 1 \/ i = 2
        OBVIOUS
      <4>8. Len(net') <= NetMax + 1
        BY <1>5, <4>4
      <4>9. \A i \in 1 .. Len(net') : FrameOK(net'[i], role)
        BY <4>4, <4>5, <4>6, <4>7
      <4> QED BY <2>1, <3>2, <4>4, <4>8, <4>9
    <3> QED BY <2>0, <3>1, <3>2
  <2>5. LinkType'
    BY <1>0, <1>3, <2>0, <2>2, <2>4 DEF LinkType
  <2> QED BY <1>1, <2>3, <2>5
<1>9. ASSUME net # <<>>, net' = Tail(net), UNCHANGED <<link, sent>>, peer.pc # "down", peer'.pc # "down"
      PROVE  LinkType'
  <2>1. /\ Tail(net) \in Seq(FrameSet) /\ Len(Tail(net)) = Len(net) - 1 /\ Len(net) \in Nat
        /\ \A i \in 1 .. Len(Tail(net)) : FrameOK(Tail(net)[i], role)
    BY <1>3, <1>9, FramesTail
  <2>2. Len(net') <= NetMax + 1
    BY <1>3, <1>5, <1>9, <2>1
  <2> QED BY <1>0, <1>3, <1>9, <2>1, <2>2 DEF LinkType
<1>10. net # <<>> => Head(net) \in FrameSet /\ FrameOK(Head(net), role)
  BY <1>3, FramesTail
<1>11. CASE Resume
  <2>0. /\ role = "follower" /\ peer.pc = "hello" /\ net # <<>> /\ UNCHANGED <<link, sent, eng, start, drift>>
        /\ net' = Tail(net) /\ atom' = peer.pos /\ disk' = [disk EXCEPT !.side = peer.pos]
        /\ peer' = [peer EXCEPT !.pc = "stream"]
    BY <1>11 DEF Resume, Arrives, StorePosition
  <2>1. peer' \in Peers /\ peer'.pc = "stream" /\ disk' \in Disks /\ disk'.db = disk.db
    BY <1>4, <1>7, <2>0 DEF Peers, Disks
  <2>2. PeerType'
    BY <1>0, <1>4, <1>7, <2>0, <2>1 DEF PeerType
  <2> QED BY <1>1, <1>9, <2>0, <2>1, <2>2
<1>12. CASE WriteSnapshot
  <2>0. /\ role = "follower" /\ peer.pc = "hello" /\ net # <<>> /\ UNCHANGED <<link, sent, eng, atom, start, drift>>
        /\ net' = Tail(net) /\ disk' = [disk EXCEPT !.db = Head(net).db]
        /\ peer' = [peer EXCEPT !.pc = "restore"]
    BY <1>12 DEF WriteSnapshot, Arrives
  <2>1. Head(net).db \in SUBSET Databases /\ AtMostOne(Head(net).db)
    BY <1>10, <2>0 DEF FrameSet, FrameOK
  <2>2. peer' \in Peers /\ peer'.pc = "restore" /\ disk' \in Disks /\ disk'.db = Head(net).db
    BY <1>4, <2>0, <2>1 DEF Peers, Disks
  <2>3. PeerType'
    BY <1>0, <1>4, <2>0, <2>1, <2>2 DEF PeerType
  <2> QED BY <1>1, <1>9, <2>0, <2>2, <2>3
<1>13. CASE Restore
  <2>0. /\ role = "follower" /\ peer.pc = "restore" /\ net # <<>> /\ UNCHANGED <<link, sent, start>>
        /\ net' = Tail(net) /\ disk' = [disk EXCEPT !.wal = <<>>, !.side = Head(net).n]
        /\ atom' = Head(net).n /\ drift' = {} /\ (\E d \in disk.db : eng' = Engine(d))
        /\ peer' = [peer EXCEPT !.pc = "stream", !.pos = Head(net).n]
    BY <1>13 DEF Restore, Arrives
  <2>1. Head(net).n \in Nat /\ <<>> \in Seq(Halves)
    BY <1>10, <2>0 DEF FrameSet
  <2>2. peer' \in Peers /\ peer'.pc = "stream" /\ disk' \in Disks /\ disk'.db = disk.db
    BY <1>4, <2>0, <2>1 DEF Peers, Disks
  <2>3. eng' \in Engines
    BY <1>6, <2>0, EngineType
  <2>4. PeerType'
    BY <1>0, <1>4, <2>0, <2>1, <2>2, <2>3 DEF PeerType
  <2> QED BY <1>1, <1>9, <2>0, <2>2, <2>4
<1>14. CASE ReceiveBytes
  <2>0. /\ role = "follower" /\ peer.pc = "stream" /\ net # <<>> /\ UNCHANGED <<link, sent, eng, atom, start, drift>>
        /\ net' = Tail(net) /\ disk' = [disk EXCEPT !.wal = disk.wal \o Head(net).units]
        /\ peer' = [peer EXCEPT !.pc = "drain", !.pend = peer.pend \o Head(net).units]
    BY <1>14 DEF ReceiveBytes, Arrives
  <2> DEFINE us == Head(net).units
             pd == peer.pend \o us
             wl == disk.wal \o us
  <2>1. us \in Seq(Halves)
    BY <1>10, <2>0 DEF FrameSet
  <2> HIDE DEF us
  <2>2. pd \in Seq(Halves) /\ wl \in Seq(Halves)
    BY <1>6, <1>7, <2>1
  <2>3. disk' = [disk EXCEPT !.wal = wl] /\ peer' = [peer EXCEPT !.pc = "drain", !.pend = pd]
    BY <2>0 DEF us
  <2> HIDE DEF pd, wl
  <2>4. peer' \in Peers /\ peer'.pc = "drain" /\ disk' \in Disks /\ disk'.db = disk.db
    BY <1>4, <2>2, <2>3 DEF Peers, Disks
  <2>5. PeerType'
    BY <1>0, <1>4, <2>0, <2>4 DEF PeerType
  <2> QED BY <1>1, <1>9, <2>0, <2>4, <2>5
<1>15. CASE Drained
  <2>0. /\ peer.pc = "drain" /\ UNCHANGED <<linkVars, eng, start, drift>>
        /\ atom' = peer.pos /\ disk' = [disk EXCEPT !.side = peer.pos]
        /\ peer' = [peer EXCEPT !.pc = "stream"]
    BY <1>15 DEF Drained, StorePosition
  <2>1. peer' \in Peers /\ peer'.pc = "stream" /\ disk' \in Disks /\ disk'.db = disk.db
    BY <1>4, <1>7, <2>0 DEF Peers, Disks
  <2>2. role # "subscriber"
    BY <1>4, <2>0
  <2>3. PeerType'
    BY <1>0, <1>4, <1>7, <2>0, <2>1, <2>2 DEF PeerType
  <2>4. LinkType'
    BY <1>0, <1>3, <2>0, <2>1 DEF LinkType, linkVars
  <2> QED BY <1>1, <2>3, <2>4
<1> QED BY <1>8, <1>11, <1>12, <1>13, <1>14, <1>15

\* The re-execution of a record.
LEMMA ExecutedType ==
  ASSUME drift \in SUBSET Writes, NEW r, Executed(r)
  PROVE  drift' \in SUBSET Writes
BY ReplicationAssumption DEF Executed

\* What a boot of the follower starts from.
BootBase(db) == IF db = {} THEN Nothing ELSE CHOOSE d \in db : TRUE

\* The database a boot starts from.
LEMMA BootBaseType ==
  ASSUME NEW db \in SUBSET Databases
  PROVE  BootBase(db) \in Databases /\ (db # {} => BootBase(db) \in db) /\ (db = {} => BootBase(db) = Nothing)
BY NothingType DEF BootBase

\* The types survive a record drained from the pending bytes.
LEMMA DrainTypes ==
  ASSUME TypeInv, DrainRecord
  PROVE  TypeInv'
<1> USE DEF TypeInv
<1>0. UNCHANGED <<role, primVars, atom, disk, start, count>> /\ peer.pc = "drain" /\ Whole(peer.pend)
  BY DEF DrainRecord
<1>1. PrimType'
  BY <1>0 DEF PrimType, primVars
<1>2. /\ eng \in Engines /\ peer \in Peers /\ drift \in SUBSET Writes /\ role # "subscriber"
  BY <1>0 DEF PeerType
<1>3. peer.pos \in Nat /\ peer.pend \in Seq(Halves) /\ Len(peer.pend) >= 2
  BY <1>0, <1>2 DEF Peers, Whole
<1> DEFINE r == peer.pend[1].rec
<1>4. r \in LinesT
  <2>1. 1 \in 1 .. Len(peer.pend)
    BY <1>3
  <2>2. peer.pend[1] \in Halves
    BY <1>3, <2>1
  <2> QED BY <2>2 DEF Halves
<1>5. CASE Sound(peer.pend) /\ r.kind \in Accepted
  <2>1. /\ eng' = ReplayRecord(eng, r) /\ Executed(r) /\ UNCHANGED linkVars
        /\ peer' = [peer EXCEPT !.pend = Rest(peer.pend, 2), !.pos = peer.pos + 2,
                                      !.vol = IF r.kind = "INPUTS" THEN r.w ELSE 0]
    BY <1>5 DEF DrainRecord
  <2>2. eng' \in Engines
    BY <1>2, <1>4, <2>1, ReplayRecordType
  <2>3. drift' \in SUBSET Writes
    BY <1>2, <2>1, ExecutedType
  <2> DEFINE v == IF r.kind = "INPUTS" THEN r.w ELSE 0
             pd == Rest(peer.pend, 2)
             ps == peer.pos + 2
  <2>4. v \in 0 .. MaxWrites
    BY <1>4, WalRecordsAssumption DEF LinesT
  <2>5. pd \in Seq(Halves) /\ ps \in Nat
    BY <1>3, RestIs
  <2>6. peer' = [peer EXCEPT !.pend = pd, !.pos = ps, !.vol = v]
    BY <2>1
  <2> HIDE DEF v, pd, ps, r
  <2>7. peer' \in Peers /\ peer'.pc = "drain"
    BY <1>0, <1>2, <2>4, <2>5, <2>6 DEF Peers
  <2>8. PeerType'
    BY <1>0, <1>2, <2>2, <2>3, <2>7 DEF PeerType
  <2>9. LinkType'
    BY <1>0, <2>1, <2>7 DEF LinkType, linkVars
  <2> QED BY <1>1, <2>8, <2>9
<1>6. CASE ~(Sound(peer.pend) /\ r.kind \in Accepted)
  <2>1. peer' = Down /\ link' = "none" /\ net' = <<>> /\ sent' = 0 /\ UNCHANGED <<eng, drift>>
    BY <1>6 DEF DrainRecord
  <2>2. PeerType'
    BY <1>0, <1>2, <2>1, DownType DEF PeerType
  <2>3. LinkType'
    <3>1. net' \in Seq(FrameSet) /\ Len(net') = 0 /\ NetMax \in Nat
      BY <2>1, ReplicationAssumption
    <3> QED BY <1>0, <1>2, <2>1, <3>1, DownType DEF LinkType
  <2> QED BY <1>1, <2>2, <2>3
<1> QED BY <1>5, <1>6

\* The types survive a crash of the follower or the subscriber.
LEMMA CrashTypes ==
  ASSUME TypeInv, CrashFollower \/ CrashSubscriber
  PROVE  TypeInv'
<1> USE DEF TypeInv
<1>0. UNCHANGED <<role, primVars, start>> /\ peer' = Down /\ link' = "none" /\ net' = <<>> /\ sent' = 0
  BY DEF CrashFollower, CrashSubscriber
<1>1. /\ role \in Roles /\ mem \in Databases /\ log \in Seq(LinesT) /\ logged \in Seq(LinesT) /\ count \in Counts
      /\ prim \in Prims
  BY DEF PrimType
<1>2. count' \in Counts
  BY <1>1, SpendType DEF CrashFollower, CrashSubscriber
<1>3. PrimType'
  BY <1>0, <1>1, <1>2 DEF PrimType, primVars
<1>4. LinkType'
  <2>1. net' \in Seq(FrameSet) /\ Len(net') = 0 /\ NetMax \in Nat
    BY <1>0, ReplicationAssumption
  <2>2. IsEven(sent')
    <3>1. 0 = 2 * 0 /\ 0 \in Nat
      OBVIOUS
    <3> QED BY <1>0, <3>1 DEF IsEven
  <2> QED BY <1>0, <2>1, <2>2, DownType DEF LinkType
<1>5. disk \in Disks /\ disk.db \in SUBSET Databases /\ disk.wal \in Seq(Halves) /\ disk.side \in Nat
      /\ AtMostOne(disk.db) /\ AtMostOne(start) /\ start \in SUBSET Nat /\ drift \in SUBSET Writes
      /\ (role = "subscriber" => disk.db # {} /\ disk.wal = <<>> /\ IsEven(disk.side))
  BY DEF PeerType, Disks
<1>6. CASE CrashFollower
  <2> DEFINE kept == RecordsIn(disk.wal)
             base == BootBase(disk.db)
  <2>1. /\ role = "follower" /\ eng' = Engine(Recovered(base, kept)) /\ atom' = 0
        /\ disk' = [disk EXCEPT !.wal = UnitsOf(kept)] /\ drift' = Blind(kept)
    BY <1>6 DEF CrashFollower, BootBase
  <2>2. kept \in Seq(LinesT)
    BY <1>5, RecordsInIs
  <2>3. base \in Databases
    BY <1>5, BootBaseType
  <2> HIDE DEF kept, base
  <2>4. eng' \in Engines
    <3>1. Engine(base) \in Engines
      BY <2>3, EngineType
    <3>2. Replayed(Engine(base), kept) \in Engines
      BY <2>2, <3>1, ReplayedType
    <3>3. Recovered(base, kept) \in Databases
      BY <3>2 DEF Recovered, Engines
    <3> QED BY <2>1, <3>3, EngineType
  <2>5. disk' \in Disks /\ disk'.db = disk.db
    <3> DEFINE us == UnitsOf(kept)
    <3>1. us \in Seq(Halves)
      BY <2>2, UnitsOfIs
    <3>2. disk' = [disk EXCEPT !.wal = us]
      BY <2>1
    <3> HIDE DEF us
    <3> QED BY <1>5, <3>1, <3>2 DEF Disks
  <2>6. drift' \in SUBSET Writes
    BY <2>1 DEF Blind
  <2>7. PeerType'
    BY <1>0, <1>5, <2>1, <2>4, <2>5, <2>6, DownType DEF PeerType
  <2> QED BY <1>3, <1>4, <2>7
<1>7. CASE CrashSubscriber
  <2>1. /\ role = "subscriber" /\ atom' = disk.side /\ UNCHANGED <<disk, drift>> /\ \E d \in disk.db : eng' = Engine(d)
    BY <1>7 DEF CrashSubscriber
  <2>2. eng' \in Engines
    BY <1>5, <2>1, EngineType
  <2>3. IsEven(peer'.pos)
    <3>1. 0 = 2 * 0 /\ 0 \in Nat
      OBVIOUS
    <3> QED BY <1>0, <3>1, DownType DEF IsEven
  <2>4. PeerType'
    BY <1>0, <1>5, <2>1, <2>2, <2>3, DownType DEF PeerType
  <2> QED BY <1>3, <1>4, <2>4
<1> QED BY <1>6, <1>7

\* Even lengths add up to an even one.
LEMMA EvenPlus ==
  ASSUME NEW a \in Nat, NEW b \in Nat, IsEven(a), IsEven(b)
  PROVE  IsEven(a + b)
<1>1. PICK m \in Nat : a = 2 * m
  BY DEF IsEven
<1>2. PICK n \in Nat : b = 2 * n
  BY DEF IsEven
<1>3. a + b = 2 * (m + n) /\ m + n \in Nat
  BY <1>1, <1>2
<1> QED BY <1>3 DEF IsEven

\* The types survive the steps of the subscriber.
LEMMA SubscriberTypes ==
  ASSUME TypeInv, Len(log) <= Len(logged), Subscribe \/ ReceiveRecord \/ ReceiveSkip \/ SaveSubscriber
  PROVE  TypeInv'
<1> USE DEF TypeInv
<1>0. UNCHANGED <<role, primVars>> /\ role = "subscriber"
  BY DEF Subscribe, ReceiveRecord, ReceiveSkip, SaveSubscriber
<1>1. /\ role \in Roles /\ mem \in Databases /\ log \in Seq(LinesT) /\ logged \in Seq(LinesT) /\ count \in Counts
      /\ prim \in Prims
  BY DEF PrimType
<1>2. count' \in Counts
  BY <1>1, SpendType DEF Subscribe, ReceiveRecord, ReceiveSkip, SaveSubscriber
<1>3. PrimType'
  BY <1>0, <1>1, <1>2 DEF PrimType, primVars
<1>4. /\ link \in {"none", "up", "cut"} /\ net \in Seq(FrameSet) /\ Len(net) <= NetMax + 1 /\ sent \in Nat
      /\ \A i \in 1 .. Len(net) : FrameOK(net[i], role)
      /\ (link = "none" <=> peer.pc = "down")
      /\ link = "none" => net = <<>> /\ sent = 0 /\ peer = Down
      /\ IsEven(sent)
  BY <1>0 DEF LinkType
<1>5. /\ eng \in Engines /\ peer \in Peers /\ atom \in Nat /\ disk \in Disks
      /\ AtMostOne(disk.db) /\ AtMostOne(start) /\ start \in SUBSET Nat /\ drift \in SUBSET Writes
      /\ peer.pc \in {"down", "stream"} /\ disk.db # {} /\ disk.wal = <<>>
      /\ IsEven(peer.pos) /\ IsEven(atom) /\ IsEven(disk.side)
  BY <1>0 DEF PeerType
<1>6. peer.pos \in Nat /\ peer.pend \in Seq(Halves) /\ peer.vol \in 0 .. MaxWrites
  BY <1>5 DEF Peers
<1>7. Size \in Nat /\ IsEven(Size) /\ Len(logged) \in Nat /\ Len(log) \in Nat
  BY <1>1 DEF Size, IsEven
<1>8. CASE SaveSubscriber
  <2>1. UNCHANGED <<linkVars, eng, peer, atom, start, drift>> /\ disk' = [disk EXCEPT !.db = {eng.base}, !.side = atom]
    BY <1>8 DEF SaveSubscriber
  <2>2. eng.base \in Databases
    BY <1>5 DEF Engines
  <2>3. disk' \in Disks /\ disk'.db = {eng.base} /\ disk'.side = atom /\ disk'.wal = disk.wal
    BY <1>5, <2>1, <2>2 DEF Disks
  <2>4. PeerType'
    BY <1>0, <1>5, <2>1, <2>3 DEF PeerType, AtMostOne
  <2>5. LinkType'
    BY <1>0, <1>4, <2>1 DEF LinkType, linkVars
  <2> QED BY <1>3, <2>4, <2>5
<1>9. ASSUME net # <<>>, net' = Tail(net), UNCHANGED <<link, sent>>, peer.pc = "stream", peer'.pc = "stream"
      PROVE  LinkType'
  <2>1. /\ Tail(net) \in Seq(FrameSet) /\ Len(Tail(net)) = Len(net) - 1 /\ Len(net) \in Nat
        /\ \A i \in 1 .. Len(Tail(net)) : FrameOK(Tail(net)[i], role)
    BY <1>4, <1>9, FramesTail
  <2>2. Len(net') <= NetMax + 1
    BY <1>4, <1>9, <2>1, ReplicationAssumption
  <2> QED BY <1>0, <1>4, <1>9, <2>1, <2>2 DEF LinkType
<1>10. net # <<>> => Head(net) \in FrameSet /\ FrameOK(Head(net), role)
  BY <1>4, FramesTail
<1>11. ASSUME NEW q \in Nat, IsEven(q), Advance(q) PROVE atom' \in Nat /\ IsEven(atom')
  BY <1>5, <1>11 DEF Advance
<1>12. CASE ReceiveRecord
  <2> DEFINE r == Head(net).units[1].rec
  <2>1. /\ peer.pc = "stream" /\ net # <<>> /\ net' = Tail(net) /\ Head(net).kind = "wal"
        /\ UNCHANGED <<link, sent, disk, start>>
        /\ eng' = ReplayRecord(eng, r) /\ Executed(r)
        /\ peer' = [peer EXCEPT !.pos = peer.pos + 2, !.vol = IF r.kind = "INPUTS" THEN r.w ELSE 0]
        /\ (atom' = atom \/ Advance(peer.pos + 2))
    BY <1>12 DEF ReceiveRecord, Arrives
  <2>2. r \in LinesT
    <3>1. Head(net).units \in Seq(Halves) /\ Len(Head(net).units) > 0
      BY <1>10, <2>1 DEF FrameSet, FrameOK
    <3>2. 1 \in 1 .. Len(Head(net).units)
      BY <3>1
    <3>3. Head(net).units[1] \in Halves
      BY <3>1, <3>2
    <3> QED BY <3>3 DEF Halves
  <2>3. eng' \in Engines /\ drift' \in SUBSET Writes
    BY <1>5, <2>1, <2>2, ReplayRecordType, ExecutedType
  <2> DEFINE v == IF r.kind = "INPUTS" THEN r.w ELSE 0
             ps == peer.pos + 2
  <2>4. v \in 0 .. MaxWrites
    BY <2>2, WalRecordsAssumption DEF LinesT
  <2>5. ps \in Nat /\ IsEven(ps)
    <3>1. 2 = 2 * 1 /\ 1 \in Nat /\ 2 \in Nat /\ ps \in Nat
      BY <1>6
    <3>2. IsEven(2)
      BY <3>1 DEF IsEven
    <3> QED BY <1>5, <1>6, <3>1, <3>2, EvenPlus
  <2>6. peer' = [peer EXCEPT !.pos = ps, !.vol = v] /\ (atom' = atom \/ Advance(ps))
    BY <2>1
  <2> HIDE DEF v, ps, r
  <2>7. peer' \in Peers /\ peer'.pc = "stream" /\ peer'.pos = ps
    BY <1>5, <2>1, <2>4, <2>5, <2>6 DEF Peers
  <2>8. atom' \in Nat /\ IsEven(atom')
    BY <1>5, <1>11, <2>5, <2>6
  <2>9. PeerType'
    BY <1>0, <1>5, <2>1, <2>3, <2>5, <2>7, <2>8 DEF PeerType
  <2> QED BY <1>3, <1>9, <2>1, <2>7, <2>9
<1>13. CASE ReceiveSkip
  <2>1. /\ peer.pc = "stream" /\ net # <<>> /\ net' = Tail(net)
        /\ UNCHANGED <<link, sent, eng, disk, start, drift>>
        /\ peer' = [peer EXCEPT !.pos = peer.pos + Head(net).n]
        /\ Advance(peer.pos + Head(net).n)
    BY <1>13 DEF ReceiveSkip, Arrives
  <2> DEFINE ps == peer.pos + Head(net).n
  <2>2. Head(net).n \in Nat /\ IsEven(Head(net).n)
    BY <1>0, <1>10, <2>1 DEF FrameSet, FrameOK
  <2>3. ps \in Nat /\ IsEven(ps)
    <3>1. ps \in Nat
      BY <1>6, <2>2
    <3>2. IsEven(ps)
      BY <1>5, <1>6, <2>2, EvenPlus, Zenon
    <3> QED BY <3>1, <3>2
  <2>4. peer' = [peer EXCEPT !.pos = ps] /\ Advance(ps)
    BY <2>1
  <2> HIDE DEF ps
  <2>5. peer' \in Peers /\ peer'.pc = "stream" /\ peer'.pos = ps
    BY <1>5, <2>1, <2>3, <2>4 DEF Peers
  <2>6. atom' \in Nat /\ IsEven(atom')
    BY <1>11, <2>3, <2>4
  <2>7. PeerType'
    BY <1>0, <1>5, <2>1, <2>3, <2>5, <2>6 DEF PeerType
  <2> QED BY <1>3, <1>9, <2>1, <2>5, <2>7
<1>14. CASE Subscribe
  <2> DEFINE from == IF atom = 0 THEN Size ELSE atom
             s == Len(logged) - Len(log) + from \div 2
  <2>1. /\ sent' = from /\ peer' = [Down EXCEPT !.pc = "stream", !.pos = from]
        /\ start' = (IF start = {} THEN {s} ELSE start)
        /\ link' = "up" /\ net' = <<>> /\ UNCHANGED <<eng, atom, disk, drift>>
    BY <1>14 DEF Subscribe
  <2>2. from \in Nat /\ IsEven(from)
    BY <1>5, <1>7
  <2>3. s \in Nat
    <3>1. from \div 2 \in Nat
      BY <2>2
    <3> HIDE DEF from
    <3> QED BY <1>7, <3>1
  <2> HIDE DEF from, s
  <2>4. peer' \in Peers /\ peer'.pc = "stream" /\ peer'.pos = from
    BY <2>1, <2>2, DownType DEF Peers
  <2>5. start' \in SUBSET Nat /\ AtMostOne(start')
    BY <1>5, <2>1, <2>3 DEF AtMostOne
  <2>6. PeerType'
    BY <1>0, <1>5, <2>1, <2>2, <2>4, <2>5 DEF PeerType
  <2>7. LinkType'
    <3>1. net' \in Seq(FrameSet) /\ Len(net') = 0 /\ NetMax \in Nat
      BY <2>1, ReplicationAssumption
    <3> QED BY <1>0, <2>1, <2>2, <2>4, <3>1 DEF LinkType
  <2> QED BY <1>3, <2>6, <2>7
<1> QED BY <1>8, <1>12, <1>13, <1>14

\* The whole of Types.
LEMMA InitTypes == ReplInit => TypeInv
<1> SUFFICES ASSUME ReplInit PROVE TypeInv
  OBVIOUS
<1>1. NoStmt \in Prims
  <2>1. <<>> \in Seq(LinesT)
    OBVIOUS
  <2> QED BY <2>1 DEF NoStmt, Prims
<1>2. PrimType
  <2>1. 0 \in 0 .. MaxWrites /\ <<>> \in Seq(LinesT)
    BY WalRecordsAssumption
  <2>2. count \in Counts
    BY <2>1 DEF ReplInit, Counts
  <2> QED BY <1>1, <2>1, <2>2, NothingType DEF ReplInit, PrimType
<1>3. IsEven(0)
  <2>1. 0 = 2 * 0 /\ 0 \in Nat
    OBVIOUS
  <2> QED BY <2>1 DEF IsEven
<1>4. disk \in Disks /\ AtMostOne(disk.db) /\ disk.side = 0 /\ disk.wal = <<>> /\ (role = "subscriber" => disk.db # {})
  <2>1. <<>> \in Seq(Halves)
    OBVIOUS
  <2>2. {Nothing} \in SUBSET Databases /\ {} \in SUBSET Databases
    BY NothingType
  <2> QED BY <2>1, <2>2 DEF ReplInit, Disks, AtMostOne
<1>5. PeerType
  <2>1. eng \in Engines
    BY NothingType, EngineType DEF ReplInit
  <2> QED BY <1>3, <1>4, <2>1, DownType DEF ReplInit, PeerType, AtMostOne
<1>6. LinkType
  <2>1. net \in Seq(FrameSet) /\ Len(net) = 0 /\ NetMax \in Nat
    BY ReplicationAssumption DEF ReplInit
  <2> QED BY <1>3, <2>1, DownType DEF ReplInit, LinkType
<1> QED BY <1>2, <1>5, <1>6 DEF TypeInv

\* The types survive every step.
LEMMA StepTypes == TypeInv /\ Len(log) <= Len(logged) /\ [ReplNext]_vars => TypeInv'
<1> SUFFICES ASSUME TypeInv, Len(log) <= Len(logged), [ReplNext]_vars PROVE TypeInv'
  OBVIOUS
<1>1. CASE UNCHANGED vars
  BY <1>1 DEF vars, TypeInv, PrimType, PeerType, LinkType, primVars, linkVars, peerVars
<1>2. CASE ReplNext
  BY <1>2, ClientType, LogType, LinkTypes, FollowerTypes, DrainTypes, CrashTypes, SubscriberTypes
     DEF ReplNext, Sender, Receiver
<1> QED BY <1>1, <1>2

---------------------------------------------------------------------------
(* The primary and its log.                                                *)

\* What was met stays met.
LEMMA MishapsStay == [ReplNext]_vars => mishaps \subseteq mishaps'
<1> SUFFICES ASSUME [ReplNext]_vars PROVE mishaps \subseteq mishaps'
  OBVIOUS
<1>1. \/ UNCHANGED vars
      \/ \E K : Meets(K)
      \/ UNCHANGED mishaps
  <2>1. CASE DrainRecord
    BY <2>1 DEF DrainRecord
  <2>2. CASE ReplNext /\ ~DrainRecord
    BY <2>2 DEF ReplNext, Client, Execute, Begin, Statement, End, Log, Mark, Truncate, Sender, SendBytes,
         SendRecord, Receiver, Connect, Resume, WriteSnapshot, Restore, ReceiveBytes, Drained,
         Subscribe, ReceiveRecord, ReceiveSkip, HangUp, Poll, SaveSubscriber, Cut, CrashFollower, CrashSubscriber
  <2> QED BY <2>1, <2>2
<1> QED BY <1>1 DEF Meets, vars

\* What did not happen by the end of a step had not happened before it.
LEMMA MetStays ==
  ASSUME NEW K, mishaps \subseteq mishaps', ~Met(K)'
  PROVE  ~Met(K)
BY DEF Met

\* Readings still precede their statement when logs are put together.
LEMMA PairedConcat ==
  ASSUME NEW a \in Seq(LinesT), NEW b \in Seq(LinesT), Paired(a), Paired(b)
  PROVE  Paired(a \o b)
<1> DEFINE c == a \o b
           P(lg, i) == /\ lg[i].kind = "INPUTS" => lg[i].w \in Writes
                       /\ lg[i].kind = "SQL" /\ lg[i].w \in Volatile =>
                            i > 1 /\ lg[i - 1] = Record("INPUTS", 0, lg[i].w)
<1>1. /\ c \in Seq(LinesT) /\ Len(c) = Len(a) + Len(b) /\ Len(a) \in Nat /\ Len(b) \in Nat
      /\ \A i \in 1 .. Len(a) : c[i] = a[i]
      /\ \A i \in 1 .. Len(b) : c[Len(a) + i] = b[i]
  BY ConcatIs
<1> HIDE DEF c
<1>2. ASSUME NEW i \in 1 .. Len(c) PROVE P(c, i)
  <2>1. CASE i <= Len(a)
    <3>1. i \in 1 .. Len(a) /\ (i > 1 => i - 1 \in 1 .. Len(a))
      BY <1>1, <2>1
    <3>2. P(a, i)
      BY <3>1 DEF Paired
    <3>3. c[i] = a[i] /\ (i > 1 => c[i - 1] = a[i - 1])
      BY <1>1, <3>1
    <3> QED BY <3>2, <3>3
  <2>2. CASE ~(i <= Len(a))
    <3> DEFINE j == i - Len(a)
    <3>1. j \in 1 .. Len(b) /\ i = Len(a) + j /\ (j > 1 => j - 1 \in 1 .. Len(b) /\ i - 1 = Len(a) + (j - 1)) /\ (j > 1 => i > 1)
      BY <1>1, <2>2
    <3> HIDE DEF j
    <3>2. P(b, j)
      BY <3>1 DEF Paired
    <3>3. c[i] = b[j] /\ (j > 1 => c[i - 1] = b[j - 1])
      BY <1>1, <3>1
    <3> QED BY <3>1, <3>2, <3>3
  <2> QED BY <2>1, <2>2
<1>3. ASSUME c # <<>> PROVE c[Len(c)].kind # "INPUTS"
  <2>1. CASE Len(b) = 0
    <3>1. Len(a) > 0 /\ a # <<>> /\ Len(c) = Len(a) /\ Len(a) \in 1 .. Len(a)
      BY <1>1, <1>3, <2>1
    <3> QED BY <1>1, <3>1 DEF Paired
  <2>2. CASE Len(b) > 0
    <3>1. b # <<>> /\ Len(b) \in 1 .. Len(b)
      BY <1>1, <2>2
    <3>2. c[Len(c)] = b[Len(b)]
      BY <1>1, <3>1
    <3> QED BY <3>1, <3>2 DEF Paired
  <2> QED BY <1>1, <2>1, <2>2
<1>4. Paired(c)
  BY <1>2, <1>3 DEF Paired
<1> QED BY <1>4 DEF c

\* No marker comes from putting logs without one together.
LEMMA UnmarkedConcat ==
  ASSUME NEW a \in Seq(LinesT), NEW b \in Seq(LinesT), Unmarked(a), Unmarked(b)
  PROVE  Unmarked(a \o b)
<1> DEFINE c == a \o b
<1>1. /\ Len(c) = Len(a) + Len(b) /\ Len(a) \in Nat /\ Len(b) \in Nat
      /\ \A i \in 1 .. Len(a) : c[i] = a[i]
      /\ \A i \in 1 .. Len(b) : c[Len(a) + i] = b[i]
  BY ConcatIs
<1> HIDE DEF c
<1>2. ASSUME NEW i \in 1 .. Len(c) PROVE c[i].kind # "MARK"
  <2>1. CASE i <= Len(a)
    BY <1>1, <2>1 DEF Unmarked
  <2>2. CASE ~(i <= Len(a))
    <3> DEFINE j == i - Len(a)
    <3>1. j \in 1 .. Len(b) /\ i = Len(a) + j
      BY <1>1, <2>2
    <3> HIDE DEF j
    <3> QED BY <1>1, <3>1 DEF Unmarked
  <2> QED BY <2>1, <2>2
<1> QED BY <1>2 DEF Unmarked, c

\* One record by itself.
LEMMA OneRecord ==
  ASSUME NEW kind \in {"BEGIN", "COMMIT", "ROLLBACK", "MARK"}
  PROVE  LET r == Record(kind, 0, 0)
         IN  /\ r \in LinesT /\ <<r>> \in Seq(LinesT) /\ r.kind = kind
             /\ Paired(<<r>>) /\ (kind # "MARK" => Unmarked(<<r>>))
<1> DEFINE r == Record(kind, 0, 0)
<1>1. r \in LinesT /\ r.kind = kind
  <2>1. 0 \in 0 .. MaxWrites
    BY WalRecordsAssumption
  <2> QED BY <2>1, RecordType
<1> HIDE DEF r
<1>2. <<r>> \in Seq(LinesT) /\ Len(<<r>>) = 1 /\ <<r>>[1] = r
  BY <1>1
<1>3. \A j \in 1 .. 1 : j = 1
  OBVIOUS
<1>4. Paired(<<r>>) /\ (kind # "MARK" => Unmarked(<<r>>))
  BY <1>1, <1>2, <1>3 DEF Paired, Unmarked
<1> QED BY <1>1, <1>2, <1>4 DEF r

\* The empty log.
LEMMA NoRecord == <<>> \in Seq(LinesT) /\ Paired(<<>>) /\ Unmarked(<<>>)
BY DEF Paired, Unmarked

\* A longer log.
LEMMA LogGrows ==
  ASSUME TypeInv, Len(log) <= Len(logged), \A i \in 1 .. Len(log) : log[i] = logged[Gone + i],
         NEW more \in Seq(LinesT), log' = log \o more, logged' = logged \o more
  PROVE  /\ Len(log') <= Len(logged') /\ Gone' = Gone /\ Gone \in Nat
         /\ \A i \in 1 .. Len(log') : log'[i] = logged'[Gone + i]
<1>1. log \in Seq(LinesT) /\ logged \in Seq(LinesT) /\ Len(log) \in Nat /\ Len(logged) \in Nat /\ Len(more) \in Nat
  BY DEF TypeInv, PrimType
<1>2. /\ Len(log') = Len(log) + Len(more) /\ Len(logged') = Len(logged) + Len(more)
      /\ \A i \in 1 .. Len(log) : log'[i] = log[i]
      /\ \A i \in 1 .. Len(more) : log'[Len(log) + i] = more[i]
      /\ \A i \in 1 .. Len(logged) : logged'[i] = logged[i]
      /\ \A i \in 1 .. Len(more) : logged'[Len(logged) + i] = more[i]
  BY <1>1, ConcatIs
<1>3. Gone = Len(logged) - Len(log) /\ Gone' = Len(logged') - Len(log')
  BY DEF Gone
<1>4. Len(log') <= Len(logged') /\ Gone' = Gone /\ Gone \in Nat
  BY <1>1, <1>2, <1>3
<1>5. ASSUME NEW i \in 1 .. Len(log') PROVE log'[i] = logged'[Gone + i]
  <2>1. CASE i <= Len(log)
    <3>1. i \in 1 .. Len(log) /\ Gone + i \in 1 .. Len(logged)
      BY <1>1, <1>3, <1>4, <2>1
    <3> QED BY <1>2, <3>1
  <2>2. CASE ~(i <= Len(log))
    <3> DEFINE j == i - Len(log)
    <3>1. j \in 1 .. Len(more) /\ i = Len(log) + j /\ Gone + i = Len(logged) + j
      BY <1>1, <1>2, <1>3, <1>4, <2>2
    <3> HIDE DEF j
    <3> QED BY <1>2, <3>1
  <2> QED BY <2>1, <2>2
<1> QED BY <1>4, <1>5

\* Appending is putting a log of one record behind.
LEMMA AppendIsConcat ==
  ASSUME NEW T, NEW s \in Seq(T), NEW x \in T
  PROVE  Append(s, x) = s \o <<x>>
OBVIOUS

\* What the primary wrote is well formed after every step.
LEMMA StepLog == TypeInv /\ LogInv /\ [ReplNext]_vars => LogInv'
<1> SUFFICES ASSUME TypeInv, LogInv, [ReplNext]_vars PROVE LogInv'
  OBVIOUS
<1>0. mishaps \subseteq mishaps'
  BY MishapsStay
<1>1. /\ log \in Seq(LinesT) /\ logged \in Seq(LinesT) /\ prim \in Prims /\ prim.recs \in Seq(LinesT) /\ count \in Counts
  BY DEF TypeInv, PrimType, Prims
<1>2. ASSUME UNCHANGED <<role, log, logged>>, Paired(prim'.recs), Unmarked(prim'.recs)
      PROVE  LogInv'
  BY <1>0, <1>2, MetStays DEF LogInv, Gone
<1>3. CASE Client
  <2>1. UNCHANGED <<role, log, logged>>
    BY <1>3 DEF Client, Execute, Begin, Statement, End
  <2>2. Paired(prim'.recs) /\ Unmarked(prim'.recs)
    <3>1. CASE Execute
      <4>1. NewWrite \in Writes
        BY <1>1, <3>1, NewWriteType DEF Execute
      <4>2. prim'.recs = Frames(NewWrite)
        BY <1>1, <3>1 DEF Execute, Prims
      <4> QED BY <4>1, <4>2, FramesIs
    <3>2. CASE Begin
      <4>1. prim'.recs = <<>>
        BY <3>2 DEF Begin, NoStmt
      <4> QED BY <4>1, NoRecord
    <3>3. CASE Statement
      <4>1. NewWrite \in Writes
        BY <1>1, <3>3, NewWriteType DEF Statement
      <4> DEFINE pre == IF prim.begun THEN <<>> ELSE <<Record("BEGIN", 0, 0)>>
                 fs == Frames(NewWrite)
      <4>2. prim'.recs = pre \o fs
        BY <1>1, <3>3 DEF Statement, Prims
      <4>3. pre \in Seq(LinesT) /\ Paired(pre) /\ Unmarked(pre)
        BY OneRecord, NoRecord
      <4>4. fs \in Seq(LinesT) /\ Paired(fs) /\ Unmarked(fs)
        BY <4>1, FramesIs
      <4> HIDE DEF pre, fs
      <4> QED BY <4>2, <4>3, <4>4, PairedConcat, UnmarkedConcat
    <3>4. ASSUME NEW kind \in {"COMMIT", "ROLLBACK"}, End(kind) PROVE Paired(prim'.recs) /\ Unmarked(prim'.recs)
      <4>1. prim'.recs = IF prim.begun THEN <<Record(kind, 0, 0)>> ELSE <<>>
        BY <3>4 DEF End, NoStmt
      <4> QED BY <4>1, OneRecord, NoRecord
    <3> QED BY <1>3, <3>1, <3>2, <3>3, <3>4 DEF Client
  <2> QED BY <1>2, <2>1, <2>2
<1>4. CASE Log
  <2>1. /\ log' = log \o prim.recs /\ logged' = logged \o prim.recs /\ UNCHANGED <<role, mishaps>>
        /\ prim'.recs = <<>>
    BY <1>1, <1>4 DEF Log, Prims
  <2>2. /\ Len(log') <= Len(logged') /\ Gone' = Gone
        /\ \A i \in 1 .. Len(log') : log'[i] = logged'[Gone + i]
    BY <1>1, <2>1, LogGrows DEF LogInv
  <2>3. Paired(log')
    BY <1>1, <2>1, PairedConcat DEF LogInv
  <2>4. role' = "follower" /\ ~Met({"marker"})' => Unmarked(log')
    BY <1>1, <2>1, UnmarkedConcat DEF LogInv, Met
  <2> QED BY <2>1, <2>2, <2>3, <2>4, NoRecord DEF LogInv
<1>5. CASE Mark
  <2> DEFINE r == Record("MARK", 0, 0)
             more == <<r>>
  <2>1. r \in LinesT /\ more \in Seq(LinesT) /\ Paired(more)
    BY OneRecord
  <2>2. /\ log' = log \o more /\ logged' = logged \o more /\ UNCHANGED <<role, prim>>
        /\ Meets(When(role = "follower", {"marker"}))
    <3> HIDE DEF r
    <3>1. log' = Append(log, r) /\ logged' = Append(logged, r) /\ UNCHANGED <<role, prim>>
        /\ Meets(When(role = "follower", {"marker"}))
      BY <1>5 DEF Mark, r
    <3> QED BY <1>1, <2>1, <3>1, AppendIsConcat
  <2> HIDE DEF more, r
  <2>3. /\ Len(log') <= Len(logged') /\ Gone' = Gone
        /\ \A i \in 1 .. Len(log') : log'[i] = logged'[Gone + i]
    BY <2>1, <2>2, LogGrows DEF LogInv
  <2>4. Paired(log')
    BY <1>1, <2>1, <2>2, PairedConcat DEF LogInv
  <2>5. role' = "follower" => Met({"marker"})'
    BY <2>2 DEF Meets, When, Met
  <2> QED BY <2>2, <2>3, <2>4, <2>5 DEF LogInv
<1>6. CASE Truncate
  <2>1. log' = <<>> /\ UNCHANGED <<role, prim, logged>>
    BY <1>6 DEF Truncate
  <2>2. Len(log') = 0 /\ Len(logged) \in Nat
    BY <1>1, <2>1
  <2>3. Unmarked(log') /\ Paired(log')
    BY <2>1, NoRecord
  <2> QED BY <2>1, <2>2, <2>3 DEF LogInv
<1>7. CASE ~(Client \/ Log \/ Mark \/ Truncate)
  <2>1. UNCHANGED <<role, primVars>>
    BY <1>7 DEF ReplNext, Sender, SendBytes, vars,
         SendRecord, Receiver, Connect, Resume, WriteSnapshot, Restore, ReceiveBytes, DrainRecord, Drained,
         Subscribe, ReceiveRecord, ReceiveSkip, HangUp, Poll, SaveSubscriber, Cut, CrashFollower, CrashSubscriber
  <2> QED BY <1>2, <2>1 DEF primVars, LogInv
<1> QED BY <1>3, <1>4, <1>5, <1>6, <1>7

\* Two records behind a log.
LEMMA ConcatTwo ==
  ASSUME NEW T, NEW s \in Seq(T), NEW x \in T, NEW y \in T
  PROVE  s \o <<x, y>> = Append(Append(s, x), y)
OBVIOUS

\* The frames of a statement do what the statement does.
LEMMA ReplayFrames ==
  ASSUME NEW st \in Engines, NEW lg \in Seq(LinesT), NEW w \in Writes
  PROVE  Replayed(st, lg \o Frames(w)) = ReplayRecord(Replayed(st, lg), Record("SQL", 0, w))
<1> DEFINE i == Record("INPUTS", 0, w)
           q == Record("SQL", 0, w)
<1>1. i \in LinesT /\ q \in LinesT /\ i.kind = "INPUTS"
  <2>1. w \in 0 .. MaxWrites
    BY WalRecordsAssumption DEF Writes
  <2> QED BY <2>1, RecordType
<1>2. Frames(w) = IF w \in Volatile THEN <<i, q>> ELSE <<q>>
  BY FramesIs
<1> HIDE DEF i, q
<1>3. Replayed(st, Append(lg, q)) = ReplayRecord(Replayed(st, lg), q) /\ Replayed(st, lg) \in Engines
  BY <1>1, ReplayedAppend
<1>4. CASE w \notin Volatile
  <2>1. lg \o <<q>> = Append(lg, q)
    BY <1>1, AppendIsConcat
  <2> QED BY <1>2, <1>3, <1>4, <2>1 DEF q
<1>5. CASE w \in Volatile
  <2> DEFINE l == Append(lg, i)
             a == lg \o <<i, q>>
             b == Append(l, q)
  <2>1. l \in Seq(LinesT) /\ Len(l) = Len(lg) + 1 /\ l[Len(lg) + 1] = i /\ \A j \in 1 .. Len(lg) : l[j] = lg[j]
    BY <1>1
  <2>4. a = b
    BY <1>1, ConcatTwo
  <2> HIDE DEF l, a, b
  <2>5. Replayed(st, l) = ReplayRecord(Replayed(st, lg), i)
    BY <1>1, ReplayedAppend DEF l
  <2>6. Replayed(st, l) = Replayed(st, lg)
    BY <1>1, <2>5 DEF ReplayRecord
  <2>7. Replayed(st, b) = ReplayRecord(Replayed(st, l), q)
    BY <1>1, <2>1, ReplayedAppend DEF b
  <2> QED BY <1>2, <1>5, <2>4, <2>6, <2>7 DEF a, q
<1> QED BY <1>4, <1>5

\* What single records do to an engine.
LEMMA RecordDoes ==
  ASSUME NEW e \in Engines, NEW w \in 0 .. MaxWrites
  PROVE  /\ LET f == ReplayRecord(e, Record("SQL", 0, w))
            IN  /\ f.open <=> e.open
                /\ e.open => f.base = e.base /\ f.shadow = e.shadow \cup {w}
                /\ ~e.open => f.base = Plus(e.base, {w})
         /\ LET f == ReplayRecord(e, Record("BEGIN", 0, 0))
            IN  f.open /\ f.base = e.base /\ (~e.open => f.shadow = {})
         /\ LET f == ReplayRecord(e, Record("COMMIT", 0, 0))
            IN  ~f.open /\ (e.open => f.base = Plus(e.base, e.shadow)) /\ (~e.open => f.base = e.base)
         /\ LET f == ReplayRecord(e, Record("ROLLBACK", 0, 0))
            IN  ~f.open /\ f.base = e.base
<1>1. e = [base |-> e.base, open |-> e.open, shadow |-> e.shadow] /\ e.open \in BOOLEAN
  BY DEF Engines
<1>2. \A k : \A v : Record(k, 0, v).kind = k /\ Record(k, 0, v).w = v
  BY DEF Record
<1> DEFINE s == Record("SQL", 0, w)
           b == Record("BEGIN", 0, 0)
           c == Record("COMMIT", 0, 0)
           r == Record("ROLLBACK", 0, 0)
<1>3. s.kind = "SQL" /\ s.w = w /\ b.kind = "BEGIN" /\ c.kind = "COMMIT" /\ r.kind = "ROLLBACK"
  BY <1>2
<1> HIDE DEF s, b, c, r
<1>4. LET f == ReplayRecord(e, s)
      IN  /\ f.open <=> e.open
          /\ e.open => f.base = e.base /\ f.shadow = e.shadow \cup {w}
          /\ ~e.open => f.base = Plus(e.base, {w})
  BY <1>1, <1>3 DEF ReplayRecord
<1>5. LET f == ReplayRecord(e, b)
      IN  f.open /\ f.base = e.base /\ (~e.open => f.shadow = {})
  BY <1>1, <1>3 DEF ReplayRecord
<1>6. LET f == ReplayRecord(e, c)
      IN  ~f.open /\ (e.open => f.base = Plus(e.base, e.shadow)) /\ (~e.open => f.base = e.base)
  BY <1>1, <1>3 DEF ReplayRecord
<1>7. LET f == ReplayRecord(e, r)
      IN  ~f.open /\ f.base = e.base
  BY <1>1, <1>3 DEF ReplayRecord
<1> QED BY <1>4, <1>5, <1>6, <1>7 DEF s, b, c, r

\* Adding no write changes nothing.
LEMMA PlusNothing ==
  ASSUME NEW d \in Databases
  PROVE  Plus(d, {}) = d
BY DEF Plus, Databases

\* The log stays the history of the primary.
LEMMA StepPrim == TypeInv /\ PrimInv /\ [ReplNext]_vars => PrimInv'
<1> SUFFICES ASSUME TypeInv, PrimInv, [ReplNext]_vars PROVE PrimInv'
  OBVIOUS
<1>0. mishaps \subseteq mishaps' /\ (role = "follower" /\ ~Met({"marker"})' => ~Met({"marker"}))
  BY MishapsStay, MetStays
<1>1. /\ log \in Seq(LinesT) /\ logged \in Seq(LinesT) /\ prim \in Prims /\ prim.recs \in Seq(LinesT)
      /\ count \in Counts /\ mem \in Databases /\ prim.shadow \in SUBSET Writes /\ prim.begun \in BOOLEAN
  BY DEF TypeInv, PrimType, Prims
<1> DEFINE z == Engine(Nothing)
           R == Replayed(z, logged)
<1>2. z \in Engines
  BY NothingType, EngineType
<1>3. R \in Engines
  BY <1>1, <1>2, ReplayedType
<1>4. logged \o <<>> = logged
  BY <1>1
<1>5. /\ prim.begun => prim.open
      /\ ~prim.begun => prim.shadow = {}
      /\ role = "follower" /\ ~Met({"marker"}) => Same(Replayed(z, logged \o prim.recs), Primary)
  BY DEF PrimInv
<1>6. ASSUME Idle, role = "follower", ~Met({"marker"})
      PROVE  R.base = mem /\ (R.open <=> prim.begun) /\ (prim.begun => R.shadow = prim.shadow)
  <2>1. prim.recs = <<>>
    BY <1>6 DEF Idle
  <2>2. Same(R, Primary)
    BY <1>4, <1>5, <1>6, <2>1
  <2> HIDE DEF R
  <2> QED BY <2>2 DEF Same, Primary
<1> HIDE DEF z, R
<1>10. CASE Execute
  <2>0. /\ Idle /\ ~prim.open /\ mem' = Plus(mem, {NewWrite}) /\ prim' = [prim EXCEPT !.recs = Frames(NewWrite)]
        /\ UNCHANGED <<role, logged>>
    BY <1>10 DEF Execute
  <2>1. NewWrite \in Writes /\ NewWrite \in 0 .. MaxWrites
    BY <1>1, <1>10, NewWriteType, WalRecordsAssumption DEF Execute, Writes
  <2>2. prim'.begun = prim.begun /\ prim'.open = prim.open /\ prim'.shadow = prim.shadow /\ prim'.recs = Frames(NewWrite)
    BY <1>1, <2>0 DEF Prims
  <2>3. ASSUME role = "follower", ~Met({"marker"})'
        PROVE  Same(Replayed(z, logged \o Frames(NewWrite)), [base |-> mem', open |-> prim'.begun, shadow |-> prim'.shadow])
    <3>1. R.base = mem /\ ~R.open /\ ~prim.begun
      BY <1>0, <1>5, <1>6, <2>0, <2>3
    <3> DEFINE f == ReplayRecord(R, Record("SQL", 0, NewWrite))
    <3>2. ~f.open /\ f.base = Plus(mem, {NewWrite})
      BY <1>3, <2>1, <3>1, RecordDoes
    <3>3. Replayed(z, logged \o Frames(NewWrite)) = f
      BY <1>1, <1>2, <2>1, ReplayFrames DEF R
    <3> HIDE DEF f
    <3> QED BY <2>0, <2>2, <3>1, <3>2, <3>3 DEF Same
  <2> QED BY <1>5, <2>0, <2>2, <2>3 DEF PrimInv, Primary, z
<1>11. CASE Begin
  <2>0. Idle /\ ~prim.open /\ prim' = [NoStmt EXCEPT !.open = TRUE] /\ UNCHANGED <<role, logged, mem>>
    BY <1>11 DEF Begin
  <2>1. ~prim'.begun /\ prim'.open /\ prim'.shadow = {} /\ prim'.recs = <<>>
    BY <2>0 DEF NoStmt
  <2>2. ASSUME role = "follower", ~Met({"marker"})'
        PROVE  Same(Replayed(z, logged \o <<>>), [base |-> mem', open |-> prim'.begun, shadow |-> prim'.shadow])
    <3>1. R.base = mem /\ ~R.open /\ ~prim.begun
      BY <1>0, <1>5, <1>6, <2>0, <2>2
    <3> QED BY <1>4, <2>0, <2>1, <3>1 DEF Same, R
  <2> QED BY <2>0, <2>1, <2>2 DEF PrimInv, Primary, z
<1>12. CASE Statement
  <2> DEFINE pre == IF prim.begun THEN <<>> ELSE <<Record("BEGIN", 0, 0)>>
             recs == pre \o Frames(NewWrite)
  <2>0. /\ Idle /\ prim.open /\ UNCHANGED <<role, logged, mem>>
        /\ prim' = [prim EXCEPT !.begun = TRUE, !.shadow = prim.shadow \cup {NewWrite}, !.recs = recs]
    BY <1>12 DEF Statement
  <2>1. NewWrite \in Writes /\ NewWrite \in 0 .. MaxWrites
    BY <1>1, <1>12, NewWriteType, WalRecordsAssumption DEF Statement, Writes
  <2>2. prim'.begun = TRUE /\ prim'.open = prim.open /\ prim'.shadow = prim.shadow \cup {NewWrite} /\ prim'.recs = recs
    <3> HIDE DEF recs
    <3> QED BY <1>1, <2>0 DEF Prims
  <2>3. ASSUME role = "follower", ~Met({"marker"})'
        PROVE  Same(Replayed(z, logged \o recs), [base |-> mem', open |-> prim'.begun, shadow |-> prim'.shadow])
    <3>1. R.base = mem /\ (R.open <=> prim.begun) /\ (prim.begun => R.shadow = prim.shadow)
      BY <1>0, <1>6, <2>0, <2>3
    <3>2. Frames(NewWrite) \in Seq(LinesT)
      BY <2>1, FramesIs
    <3>3. CASE prim.begun
      <4> DEFINE f == ReplayRecord(R, Record("SQL", 0, NewWrite))
      <4>0. (f.open <=> R.open) /\ (R.open => f.base = R.base /\ f.shadow = R.shadow \cup {NewWrite})
        BY <1>3, <2>1, RecordDoes, Zenon
      <4>1. f.open /\ f.base = mem /\ f.shadow = prim.shadow \cup {NewWrite}
        BY <3>1, <3>3, <4>0, Zenon
      <4>2. recs = Frames(NewWrite)
        BY <3>2, <3>3
      <4>3. Replayed(z, logged \o Frames(NewWrite)) = f
        BY <1>1, <1>2, <2>1, ReplayFrames DEF R
      <4> HIDE DEF f, recs
      <4> QED BY <2>0, <2>2, <4>1, <4>2, <4>3 DEF Same
    <3>4. CASE ~prim.begun
      <4> DEFINE b == Record("BEGIN", 0, 0)
                 l == Append(logged, b)
                 B == ReplayRecord(R, b)
                 f == ReplayRecord(B, Record("SQL", 0, NewWrite))
      <4>1. b \in LinesT
        BY OneRecord
      <4>2. B.open /\ B.base = mem /\ B.shadow = {} /\ B \in Engines
        BY <1>3, <2>1, <3>1, <3>4, <4>1, RecordDoes, ReplayRecordType
      <4>3. Replayed(z, l) = B
        BY <1>1, <1>2, <4>1, ReplayedAppend DEF R
      <4> HIDE DEF B
      <4>40. (f.open <=> B.open) /\ (B.open => f.base = B.base /\ f.shadow = B.shadow \cup {NewWrite})
        BY <2>1, <4>2, RecordDoes, Zenon
      <4>4. f.open /\ f.base = mem /\ f.shadow = {} \cup {NewWrite}
        BY <4>2, <4>40, Zenon
      <4> HIDE DEF b
      <4>5. l \in Seq(LinesT) /\ l = logged \o <<b>>
        BY <1>1, <4>1, AppendIsConcat
      <4>6. Replayed(z, l \o Frames(NewWrite)) = f
        <5> HIDE DEF l, f
        <5>1. Replayed(z, l \o Frames(NewWrite)) = ReplayRecord(Replayed(z, l), Record("SQL", 0, NewWrite))
          BY <1>2, <2>1, <4>5, ReplayFrames
        <5> QED BY <4>3, <5>1 DEF f
      <4>7. logged \o recs = l \o Frames(NewWrite)
        <5>1. recs = <<b>> \o Frames(NewWrite)
          BY <3>4 DEF b
        <5> DEFINE fs == Frames(NewWrite)
                   bs == <<b>>
        <5>2. bs \in Seq(LinesT) /\ fs \in Seq(LinesT)
          BY <3>2, <4>1
        <5> HIDE DEF fs, bs
        <5>3. logged \o (bs \o fs) = (logged \o bs) \o fs
          BY <1>1, <5>2
        <5> HIDE DEF l, recs
        <5> QED BY <4>5, <5>1, <5>3 DEF fs, bs
      <4>8. prim.shadow = {}
        BY <1>5, <3>4
      <4> HIDE DEF f, recs, l
      <4> QED BY <2>0, <2>2, <4>4, <4>6, <4>7, <4>8 DEF Same
    <3> QED BY <3>3, <3>4
  <2> HIDE DEF recs
  <2> QED BY <2>0, <2>2, <2>3 DEF PrimInv, Primary, z
<1>13. ASSUME NEW kind \in {"COMMIT", "ROLLBACK"}, End(kind) PROVE PrimInv'
  <2> DEFINE r == Record(kind, 0, 0)
             recs == IF prim.begun THEN <<r>> ELSE <<>>
  <2>0. /\ Idle /\ prim.open /\ UNCHANGED <<role, logged>>
        /\ mem' = (IF kind = "COMMIT" THEN Plus(mem, prim.shadow) ELSE mem)
        /\ prim' = [NoStmt EXCEPT !.recs = recs]
    BY <1>13 DEF End
  <2>1. ~prim'.begun /\ prim'.shadow = {} /\ prim'.recs = recs
    <3> HIDE DEF recs
    <3> QED BY <2>0 DEF NoStmt
  <2>2. ASSUME role = "follower", ~Met({"marker"})'
        PROVE  Same(Replayed(z, logged \o recs), [base |-> mem', open |-> prim'.begun, shadow |-> prim'.shadow])
    <3>1. R.base = mem /\ (R.open <=> prim.begun) /\ (prim.begun => R.shadow = prim.shadow)
      BY <1>0, <1>6, <2>0, <2>2
    <3>2. CASE prim.begun
      <4> DEFINE f == ReplayRecord(R, r)
      <4>1. r \in LinesT
        BY OneRecord
      <4>2. logged \o recs = Append(logged, r)
        <5> HIDE DEF r
        <5> QED BY <1>1, <3>2, <4>1, AppendIsConcat
      <4>3. Replayed(z, Append(logged, r)) = f
        BY <1>1, <1>2, <4>1, ReplayedAppend DEF R
      <4>4. ~f.open /\ f.base = mem'
        <5>1. 0 \in 0 .. MaxWrites
          BY WalRecordsAssumption
        <5>2. CASE kind = "COMMIT"
          <6>1. ~f.open /\ f.base = Plus(R.base, R.shadow)
            BY <1>3, <3>1, <3>2, <5>1, <5>2, RecordDoes
          <6> QED BY <2>0, <3>1, <3>2, <5>2, <6>1
        <5>3. CASE kind = "ROLLBACK"
          <6>1. ~f.open /\ f.base = R.base
            BY <1>3, <5>1, <5>3, RecordDoes
          <6> QED BY <2>0, <3>1, <5>3, <6>1
        <5> QED BY <5>2, <5>3
      <4> HIDE DEF f, recs, r
      <4> QED BY <2>1, <4>2, <4>3, <4>4 DEF Same
    <3>3. CASE ~prim.begun
      <4>1. mem' = mem
        BY <1>1, <1>5, <2>0, <3>3, PlusNothing
      <4>2. logged \o recs = logged
        BY <1>4, <3>3
      <4> HIDE DEF recs
      <4> QED BY <2>1, <3>1, <3>3, <4>1, <4>2 DEF Same, R
    <3> QED BY <3>2, <3>3
  <2> HIDE DEF recs
  <2> QED BY <2>0, <2>1, <2>2 DEF PrimInv, Primary, z
<1>14. CASE Log
  <2>0. logged' = logged \o prim.recs /\ prim' = [prim EXCEPT !.recs = <<>>] /\ UNCHANGED <<role, mishaps, mem>>
    BY <1>14 DEF Log
  <2>1. prim'.begun = prim.begun /\ prim'.open = prim.open /\ prim'.shadow = prim.shadow /\ prim'.recs = <<>>
    BY <1>1, <2>0 DEF Prims
  <2>2. logged' \o <<>> = logged'
    <3>1. logged' \in Seq(LinesT)
      BY <1>1, <2>0
    <3> QED BY <3>1
  <2>3. ASSUME role = "follower", ~Met({"marker"})'
        PROVE  Same(Replayed(z, logged' \o prim'.recs), [base |-> mem', open |-> prim'.begun, shadow |-> prim'.shadow])
    BY <1>0, <1>5, <2>0, <2>1, <2>2, <2>3 DEF Primary
  <2> QED BY <1>5, <2>0, <2>1, <2>3 DEF PrimInv, Primary, z
<1>15. CASE Mark
  <2>1. UNCHANGED <<role, prim>> /\ (role = "follower" => Met({"marker"})')
    BY <1>15 DEF Mark, Meets, When, Met
  <2> QED BY <1>5, <2>1 DEF PrimInv
<1>16. CASE ~(Client \/ Log \/ Mark)
  <2>1. UNCHANGED <<role, mem, prim, logged>>
    BY <1>16 DEF ReplNext, Sender, SendBytes, vars, primVars, Truncate,
         SendRecord, Receiver, Connect, Resume, WriteSnapshot, Restore, ReceiveBytes, DrainRecord, Drained,
         Subscribe, ReceiveRecord, ReceiveSkip, HangUp, Poll, SaveSubscriber, Cut, CrashFollower, CrashSubscriber
  <2> QED BY <1>0, <1>5, <2>1 DEF PrimInv, Primary, z
<1> QED BY <1>10, <1>11, <1>12, <1>13, <1>14, <1>15, <1>16 DEF Client

---------------------------------------------------------------------------
(* The stream.                                                             *)

\* Append at one end, take off at the other.
LEMMA TailAppend ==
  ASSUME NEW T, NEW s \in Seq(T), NEW x \in T, s # <<>>
  PROVE  /\ Tail(Append(s, x)) = Append(Tail(s), x) /\ Append(s, x)[1] = s[1]
         /\ Append(s, x) # <<>> /\ Tail(s) \in Seq(T)
<1>1. Len(s) \in Nat /\ Len(s) >= 1 /\ Tail(s) \in Seq(T) /\ Len(Tail(s)) = Len(s) - 1
      /\ \A i \in 1 .. (Len(s) - 1) : Tail(s)[i] = s[i + 1]
  OBVIOUS
<1> DEFINE a == Append(s, x)
           t == Tail(s)
           b == Append(t, x)
           c == Tail(a)
<1>2. a \in Seq(T) /\ Len(a) = Len(s) + 1 /\ a # <<>> /\ a[1] = s[1] /\ a[Len(s) + 1] = x
      /\ \A i \in 1 .. Len(s) : a[i] = s[i]
  BY <1>1
<1> HIDE DEF t
<1>3. b \in Seq(T) /\ Len(b) = Len(s) /\ b[Len(s)] = x /\ \A i \in 1 .. (Len(s) - 1) : b[i] = t[i]
  BY <1>1 DEF t
<1> HIDE DEF a, b
<1>4. c \in Seq(T) /\ Len(c) = Len(s) /\ \A i \in 1 .. Len(s) : c[i] = a[i + 1]
  BY <1>1, <1>2
<1> HIDE DEF c
<1>5. ASSUME NEW i \in 1 .. Len(s) PROVE c[i] = b[i]
  <2>1. CASE i = Len(s)
    BY <1>2, <1>3, <1>4, <2>1
  <2>2. CASE i # Len(s)
    <3>0. Len(s) \in Nat
      OBVIOUS
    <3>1. i \in 1 .. (Len(s) - 1) /\ i + 1 \in 1 .. Len(s)
      BY <2>2, <3>0
    <3>2. c[i] = s[i + 1]
      BY <1>2, <1>4, <3>1
    <3>3. b[i] = s[i + 1]
      BY <1>1, <1>3, <3>1 DEF t
    <3> QED BY <3>2, <3>3
  <2> QED BY <2>1, <2>2
<1>6. c = b
  BY <1>3, <1>4, <1>5, SameElements
<1> QED BY <1>1, <1>2, <1>6 DEF a, b, c, t

\* Cut at one end, take off at the other.
LEMMA TailCut ==
  ASSUME NEW T, NEW s \in Seq(T), s # <<>>, NEW n \in 1 .. Len(s)
  PROVE  /\ Tail(SubSeq(s, 1, n)) = SubSeq(Tail(s), 1, n - 1) /\ SubSeq(s, 1, n)[1] = s[1]
         /\ SubSeq(s, 1, n) # <<>> /\ Tail(s) \in Seq(T) /\ n - 1 \in 0 .. Len(Tail(s))
<1>1. Len(s) \in Nat /\ Len(s) >= 1 /\ Tail(s) \in Seq(T) /\ Len(Tail(s)) = Len(s) - 1
      /\ \A i \in 1 .. (Len(s) - 1) : Tail(s)[i] = s[i + 1]
  OBVIOUS
<1> DEFINE a == SubSeq(s, 1, n)
           t == Tail(s)
           b == SubSeq(t, 1, n - 1)
           c == Tail(a)
<1>2. a \in Seq(T) /\ Len(a) = n /\ a # <<>> /\ a[1] = s[1]
      /\ \A i \in 1 .. n : a[i] = s[i]
  BY <1>1
<1> HIDE DEF t
<1>3. b \in Seq(T) /\ Len(b) = n - 1 /\ \A i \in 1 .. (n - 1) : b[i] = t[i]
  BY <1>1 DEF t
<1> HIDE DEF a, b
<1>4. c \in Seq(T) /\ Len(c) = n - 1 /\ \A i \in 1 .. (n - 1) : c[i] = a[i + 1]
  BY <1>1, <1>2
<1> HIDE DEF c
<1>5. ASSUME NEW i \in 1 .. (n - 1) PROVE c[i] = b[i]
  <2>1. i \in 1 .. (Len(s) - 1) /\ i + 1 \in 1 .. n
    BY <1>1
  <2>2. c[i] = s[i + 1]
    BY <1>2, <1>4, <2>1
  <2>3. b[i] = s[i + 1]
    BY <1>1, <1>3, <2>1 DEF t
  <2> QED BY <2>2, <2>3
<1>6. c = b
  BY <1>3, <1>4, <1>5, SameElements
<1>7. n - 1 \in 0 .. Len(Tail(s))
  BY <1>1
<1> QED BY <1>1, <1>2, <1>6, <1>7 DEF a, b, c, t

\* The stream when the file grows.
LEMMA ClearGrow ==
  ASSUME NEW lg \in Seq(LinesT), NEW more \in Seq(LinesT), NEW q \in Nat, q <= 2 * Len(lg), Clear(lg, q)
  PROVE  Clear(lg \o more, q)
<1>1. Len(lg) \in Nat /\ Len(more) \in Nat /\ Len(lg \o more) = Len(lg) + Len(more) /\ \A i \in 1 .. Len(lg) : (lg \o more)[i] = lg[i]
  OBVIOUS
<1>2. ASSUME NEW m \in 1 .. Len(lg \o more), q = 2 * m PROVE (lg \o more)[m].kind # "INPUTS"
  <2>1. m \in 1 .. Len(lg)
    BY <1>1, <1>2
  <2> QED BY <1>1, <1>2, <2>1 DEF Clear
<1> QED BY <1>2 DEF Clear

\* The answer a peer awaits stays the right one when the log grows.
LEMMA AwaitsGrow ==
  ASSUME NEW lg \in Seq(LinesT), NEW more \in Seq(LinesT), NEW fs \in Seq(FrameSet),
         NEW s \in Nat, NEW lk, NEW rl, Awaits(lg, fs, s, lk, rl)
  PROVE  Awaits(lg \o more, fs, s, lk, rl)
<1>1. CASE fs = <<>> /\ lk = "cut"
  BY <1>1 DEF Awaits
<1>2. CASE ~(fs = <<>> /\ lk = "cut")
  <2>1. /\ fs # <<>> /\ fs[1].kind = "position" /\ fs[1].n <= 2 * Len(lg)
        /\ IsEven(fs[1].n) /\ Clear(lg, fs[1].n) /\ Chain(lg, Tail(fs), fs[1].n, s, lk, rl)
    BY <1>2 DEF Awaits
  <2>2. fs[1] \in FrameSet /\ Tail(fs) \in Seq(FrameSet)
    BY <2>1
  <2>3. fs[1].n \in Nat
    BY <2>2 DEF FrameSet
  <2> DEFINE n == fs[1].n
             t == Tail(fs)
  <2> HIDE DEF n, t
  <2>4. Clear(lg \o more, n)
    BY <2>1, <2>3, ClearGrow DEF n
  <2>5. Chain(lg \o more, t, n, s, lk, rl)
    BY <2>1, <2>2, <2>3, ChainGrow DEF n, t
  <2>6. Len(lg \o more) = Len(lg) + Len(more) /\ Len(lg) \in Nat /\ Len(more) \in Nat
    OBVIOUS
  <2>7. n <= 2 * Len(lg \o more)
    BY <2>1, <2>3, <2>6 DEF n
  <2> QED BY <2>1, <2>4, <2>5, <2>7 DEF Awaits, n, t
<1> QED BY <1>1, <1>2

\* What is under way to a peer stays right when the log grows.
LEMMA IncomingGrow ==
  ASSUME NEW lg \in Seq(LinesT), NEW more \in Seq(LinesT), NEW fs \in Seq(FrameSet), NEW pr \in Peers,
         NEW s \in Nat, NEW lk, NEW rl, Incoming(lg, pr, fs, s, lk, rl)
  PROVE  Incoming(lg \o more, pr, fs, s, lk, rl)
<1>0. pr.pos \in Nat /\ pr.pend \in Seq(Halves)
  BY DEF Peers
<1>1. Len(lg \o more) = Len(lg) + Len(more) /\ Len(lg) \in Nat /\ Len(more) \in Nat
  OBVIOUS
<1>2. ASSUME pr.pc \in {"stream", "drain"}
      PROVE  Contig(lg \o more, pr.pend, pr.pos) /\ Chain(lg \o more, fs, pr.pos + Len(pr.pend), s, lk, rl)
  <2>1. Contig(lg, pr.pend, pr.pos) /\ Chain(lg, fs, pr.pos + Len(pr.pend), s, lk, rl)
    BY <1>2 DEF Incoming
  <2>2. pr.pos + Len(pr.pend) \in Nat
    BY <1>0
  <2> QED BY <1>0, <2>1, <2>2, ContigGrow, ChainGrow
<1>3. ASSUME pr.pc \in {"hello", "restore"} PROVE pr.pos <= 2 * Len(lg \o more)
  BY <1>0, <1>1, <1>3 DEF Incoming
<1>4. ASSUME pr.pc = "restore" PROVE Awaits(lg \o more, fs, s, lk, rl)
  BY <1>4, AwaitsGrow DEF Incoming
<1>5. ASSUME pr.pc = "hello" PROVE Hello(lg \o more, pr.pos, fs, s, lk, rl)
  <2>1. Hello(lg, pr.pos, fs, s, lk, rl)
    BY <1>5 DEF Incoming
  <2>2. fs # <<>> => Tail(fs) \in Seq(FrameSet)
    OBVIOUS
  <2> QED BY <1>0, <2>1, <2>2, AwaitsGrow, ChainGrow DEF Hello
<1> QED BY <1>2, <1>3, <1>4, <1>5 DEF Incoming

\* The stream when the sender adds a frame.
LEMMA AwaitsAppend ==
  ASSUME NEW lg, NEW fs \in Seq(FrameSet), NEW fr \in FrameSet, NEW s \in Nat, NEW t \in Nat, NEW rl,
         s <= t, Awaits(lg, fs, s, "up", rl), Piece(lg, fr, s, t, rl)
  PROVE  Awaits(lg, Append(fs, fr), t, "up", rl)
<1>1. /\ fs # <<>> /\ fs[1].kind = "position" /\ fs[1].n <= 2 * Len(lg)
      /\ IsEven(fs[1].n) /\ Clear(lg, fs[1].n) /\ Chain(lg, Tail(fs), fs[1].n, s, "up", rl)
  BY DEF Awaits
<1>2. /\ Tail(Append(fs, fr)) = Append(Tail(fs), fr) /\ Append(fs, fr)[1] = fs[1]
      /\ Append(fs, fr) # <<>> /\ Tail(fs) \in Seq(FrameSet)
  BY <1>1, TailAppend
<1>3. fs[1].n \in Nat
  <2>1. fs[1] \in FrameSet
    BY <1>1
  <2> QED BY <2>1 DEF FrameSet
<1>4. Chain(lg, Append(Tail(fs), fr), fs[1].n, t, "up", rl)
  BY <1>1, <1>2, <1>3, ChainAppend
<1> QED BY <1>1, <1>2, <1>4 DEF Awaits

\* A frame that continues the last one is put on the wire.
LEMMA IncomingAppend ==
  ASSUME NEW lg, NEW fs \in Seq(FrameSet), NEW fr \in FrameSet, NEW s \in Nat, NEW t \in Nat, NEW rl,
         NEW pr \in Peers, s <= t, Incoming(lg, pr, fs, s, "up", rl), Piece(lg, fr, s, t, rl)
  PROVE  Incoming(lg, pr, Append(fs, fr), t, "up", rl)
<1>0. pr.pos \in Nat /\ pr.pend \in Seq(Halves)
  BY DEF Peers
<1>1. ASSUME pr.pc \in {"stream", "drain"}
      PROVE  Chain(lg, Append(fs, fr), pr.pos + Len(pr.pend), t, "up", rl)
  <2>1. Chain(lg, fs, pr.pos + Len(pr.pend), s, "up", rl)
    BY <1>1 DEF Incoming
  <2>2. pr.pos + Len(pr.pend) \in Nat
    BY <1>0
  <2> QED BY <2>1, <2>2, ChainAppend
<1>2. ASSUME pr.pc = "restore" PROVE Awaits(lg, Append(fs, fr), t, "up", rl)
  BY <1>2, AwaitsAppend DEF Incoming
<1>3. ASSUME pr.pc = "hello" PROVE Hello(lg, pr.pos, Append(fs, fr), t, "up", rl)
  <2>1. Hello(lg, pr.pos, fs, s, "up", rl)
    BY <1>3 DEF Incoming
  <2>2. fs # <<>>
    BY <2>1 DEF Hello
  <2>3. /\ Tail(Append(fs, fr)) = Append(Tail(fs), fr) /\ Append(fs, fr)[1] = fs[1]
        /\ Append(fs, fr) # <<>> /\ Tail(fs) \in Seq(FrameSet)
    BY <2>2, TailAppend
  <2>4. Chain(lg, Tail(fs), pr.pos, s, "up", rl) => Chain(lg, Append(Tail(fs), fr), pr.pos, t, "up", rl)
    BY <1>0, <2>3, ChainAppend
  <2>5. Awaits(lg, Tail(fs), s, "up", rl) => Awaits(lg, Append(Tail(fs), fr), t, "up", rl)
    BY <2>3, AwaitsAppend
  <2> QED BY <2>1, <2>2, <2>3, <2>4, <2>5 DEF Hello
<1> QED BY <1>1, <1>2, <1>3 DEF Incoming

\* The stream when the connection is lost.
LEMMA AwaitsCut ==
  ASSUME NEW lg, NEW fs \in Seq(FrameSet), NEW s \in Nat, NEW lk, NEW rl,
         Awaits(lg, fs, s, lk, rl), NEW n \in 0 .. Len(fs)
  PROVE  Awaits(lg, SubSeq(fs, 1, n), s, "cut", rl)
<1>1. CASE n = 0
  <2>1. SubSeq(fs, 1, n) = <<>>
    BY <1>1
  <2> QED BY <2>1 DEF Awaits
<1>2. CASE n # 0
  <2>0. n \in 1 .. Len(fs) /\ fs # <<>>
    BY <1>2
  <2>1. /\ fs[1].kind = "position" /\ fs[1].n <= 2 * Len(lg)
        /\ IsEven(fs[1].n) /\ Clear(lg, fs[1].n) /\ Chain(lg, Tail(fs), fs[1].n, s, lk, rl)
    BY <2>0 DEF Awaits
  <2>2. /\ Tail(SubSeq(fs, 1, n)) = SubSeq(Tail(fs), 1, n - 1) /\ SubSeq(fs, 1, n)[1] = fs[1]
        /\ SubSeq(fs, 1, n) # <<>> /\ Tail(fs) \in Seq(FrameSet) /\ n - 1 \in 0 .. Len(Tail(fs))
    BY <2>0, TailCut
  <2>3. fs[1].n \in Nat
    <3>1. fs[1] \in FrameSet
      BY <2>0
    <3> QED BY <3>1 DEF FrameSet
  <2> DEFINE t == Tail(fs)
             k == n - 1
             a == fs[1].n
  <2>4. t \in Seq(FrameSet) /\ k \in 0 .. Len(t) /\ a \in Nat /\ Chain(lg, t, a, s, lk, rl)
    BY <2>1, <2>2, <2>3
  <2> HIDE DEF t, k, a
  <2>5. Chain(lg, SubSeq(t, 1, k), a, s, "cut", rl)
    BY <2>4, ChainCut
  <2> QED BY <2>1, <2>2, <2>5 DEF Awaits, t, k, a
<1> QED BY <1>1, <1>2

\* A connection is cut anywhere in what is under way.
LEMMA IncomingCut ==
  ASSUME NEW lg, NEW fs \in Seq(FrameSet), NEW s \in Nat, NEW lk, NEW rl,
         NEW pr \in Peers, Incoming(lg, pr, fs, s, lk, rl), NEW n \in 0 .. Len(fs)
  PROVE  Incoming(lg, pr, SubSeq(fs, 1, n), s, "cut", rl)
<1>0. pr.pos \in Nat /\ pr.pend \in Seq(Halves)
  BY DEF Peers
<1>1. ASSUME pr.pc \in {"stream", "drain"}
      PROVE  Chain(lg, SubSeq(fs, 1, n), pr.pos + Len(pr.pend), s, "cut", rl)
  <2>1. Chain(lg, fs, pr.pos + Len(pr.pend), s, lk, rl)
    BY <1>1 DEF Incoming
  <2> DEFINE a == pr.pos + Len(pr.pend)
  <2>2. a \in Nat /\ Chain(lg, fs, a, s, lk, rl)
    BY <1>0, <2>1
  <2> HIDE DEF a
  <2>3. Chain(lg, SubSeq(fs, 1, n), a, s, "cut", rl)
    BY <2>2, ChainCut
  <2> QED BY <2>3 DEF a
<1>2. ASSUME pr.pc = "restore" PROVE Awaits(lg, SubSeq(fs, 1, n), s, "cut", rl)
  BY <1>2, AwaitsCut DEF Incoming
<1>3. ASSUME pr.pc = "hello" PROVE Hello(lg, pr.pos, SubSeq(fs, 1, n), s, "cut", rl)
  <2>1. Hello(lg, pr.pos, fs, s, lk, rl)
    BY <1>3 DEF Incoming
  <2>2. CASE n = 0
    <3>1. SubSeq(fs, 1, n) = <<>>
      BY <2>2
    <3> QED BY <3>1 DEF Hello
  <2>3. CASE n # 0
    <3>0. n \in 1 .. Len(fs) /\ fs # <<>>
      BY <2>3
    <3>1. /\ Tail(SubSeq(fs, 1, n)) = SubSeq(Tail(fs), 1, n - 1) /\ SubSeq(fs, 1, n)[1] = fs[1]
          /\ SubSeq(fs, 1, n) # <<>> /\ Tail(fs) \in Seq(FrameSet) /\ n - 1 \in 0 .. Len(Tail(fs))
      BY <3>0, TailCut
    <3> DEFINE t == Tail(fs)
               k == n - 1
    <3>2. t \in Seq(FrameSet) /\ k \in 0 .. Len(t)
      BY <3>1
    <3> HIDE DEF t, k
    <3>3. Chain(lg, t, pr.pos, s, lk, rl) => Chain(lg, SubSeq(t, 1, k), pr.pos, s, "cut", rl)
      BY <1>0, <3>2, ChainCut
    <3>4. Awaits(lg, t, s, lk, rl) => Awaits(lg, SubSeq(t, 1, k), s, "cut", rl)
      BY <3>2, AwaitsCut
    <3> QED BY <2>1, <3>0, <3>1, <3>3, <3>4 DEF Hello, t, k
  <2> QED BY <2>2, <2>3
<1> QED BY <1>1, <1>2, <1>3 DEF Incoming

---------------------------------------------------------------------------
(* Every step keeps the stream and the files in order.                     *)

\* The facts all steps use.
LEMMA Basics ==
  ASSUME TypeInv
  PROVE  /\ role \in {"follower", "subscriber"} /\ log \in Seq(LinesT) /\ logged \in Seq(LinesT) /\ Len(log) \in Nat /\ Len(logged) \in Nat
         /\ Size = 2 * Len(log) /\ Size \in Nat
         /\ peer \in Peers /\ peer.pos \in Nat /\ peer.pend \in Seq(Halves) /\ Len(peer.pend) \in Nat /\ peer.vol \in Nat
         /\ disk \in Disks /\ disk.wal \in Seq(Halves) /\ Len(disk.wal) \in Nat /\ disk.side \in Nat /\ disk.db \in SUBSET Databases
         /\ net \in Seq(FrameSet) /\ sent \in Nat /\ atom \in Nat /\ eng \in Engines
BY ReplicationAssumption, WalRecordsAssumption DEF TypeInv, PrimType, PeerType, LinkType, Peers, Disks, Size

\* The sender of bytes continues where it stands.
LEMMA SendBytesWire ==
  ASSUME TypeInv, NetInv, FileInv, SendBytes
  PROVE  NetInv' /\ FileInv'
<1>0. /\ role = "follower" /\ link = "up" /\ UNCHANGED <<role, mishaps, primVars, link, peerVars, count>>
  BY DEF SendBytes
<1>1. PICK n \in 1 .. FrameMax :
               /\ sent + n <= Size
               /\ net' = Append(net, WalFrame(SubSeq(UnitsOf(log), sent + 1, sent + n)))
               /\ sent' = sent + n
  BY DEF SendBytes
<1>2. log \in Seq(LinesT) /\ Len(log) \in Nat /\ Size = 2 * Len(log) /\ peer \in Peers /\ net \in Seq(FrameSet) /\ sent \in Nat
  BY Basics
<1> DEFINE us == SubSeq(UnitsOf(log), sent + 1, sent + n)
           fr == WalFrame(us)
           t == sent + n
<1>3. n \in Nat /\ n > 0 /\ t \in Nat /\ sent <= t /\ sent < t /\ t <= 2 * Len(log)
  BY <1>1, <1>2, ReplicationAssumption
<1>4. us \in Seq(Halves) /\ Len(us) = n /\ Contig(log, us, sent)
  BY <1>2, <1>3, ContigRead
<1> HIDE DEF us
<1>5. fr \in FrameSet /\ fr.kind = "wal" /\ fr.units = us
  BY <1>4, FrameType
<1>6. net' = Append(net, fr) /\ sent' = t
  BY <1>1 DEF us
<1> HIDE DEF fr
<1>7. Piece(log, fr, sent, t, role)
  BY <1>0, <1>3, <1>4, <1>5 DEF Piece
<1> HIDE DEF t
<1>8. Incoming(log, peer, net, sent, "up", role)
  BY <1>0 DEF NetInv
<1>9. Incoming(log, peer, net', t, "up", role)
  BY <1>2, <1>3, <1>5, <1>6, <1>7, <1>8, IncomingAppend
<1>10. NetInv'
  BY <1>0, <1>2, <1>3, <1>6, <1>9 DEF NetInv, primVars, peerVars, Size
<1>11. ASSUME NEW kind \in {"snapshot", "resume"}, FirstIs(net', kind) PROVE FirstIs(net, kind)
  <2>1. CASE net = <<>>
    <3>1. net' = <<fr>> /\ net'[1] = fr
      BY <1>6, <2>1
    <3> QED BY <1>5, <1>11, <3>1 DEF FirstIs
  <2>2. CASE net # <<>>
    BY <1>2, <1>5, <1>6, <1>11, <2>2, TailAppend DEF FirstIs
  <2> QED BY <2>1, <2>2
<1>12. FileInv'
  <2>1. FirstIs(net', "snapshot") => FirstIs(net, "snapshot")
    BY <1>11
  <2>2. FirstIs(net', "resume") => FirstIs(net, "resume")
    BY <1>11
  <2> QED BY <1>0, <2>1, <2>2 DEF FileInv, primVars, peerVars, Size, Met
<1> QED BY <1>10, <1>12

\* The sender of records continues where it stands.
LEMMA SendRecordWire ==
  ASSUME TypeInv, NetInv, SendRecord
  PROVE  NetInv' /\ FileInv'
<1>0. /\ role = "subscriber" /\ link = "up" /\ sent < Size
      /\ UNCHANGED <<role, mishaps, primVars, link, peerVars, count>>
  BY DEF SendRecord
<1>1. log \in Seq(LinesT) /\ Len(log) \in Nat /\ Size = 2 * Len(log) /\ peer \in Peers /\ net \in Seq(FrameSet) /\ sent \in Nat
  BY Basics
<1>2. PICK h \in Nat : sent = 2 * h
  BY <1>0 DEF TypeInv, LinkType, IsEven
<1> DEFINE i == sent \div 2 + 1
<1>3. i = h + 1 /\ h + 1 <= Len(log) /\ h \in 0 .. Len(log)
  BY <1>0, <1>1, <1>2
<1>4. \E fr \in FrameSet : \E t \in Nat :
         net' = Append(net, fr) /\ sent' = t /\ sent <= t /\ t <= 2 * Len(log) /\ Piece(log, fr, sent, t, role)
  <2>1. CASE /\ Forwarded(log[i])
             /\ net' = Append(net, WalFrame(SubSeq(UnitsOf(log), sent + 1, sent + 2)))
             /\ sent' = sent + 2
    <3> DEFINE us == SubSeq(UnitsOf(log), sent + 1, sent + 2)
               fr == WalFrame(us)
               t == sent + 2
    <3>1. t \in Nat /\ sent <= t /\ sent < t /\ t <= 2 * Len(log) /\ t = 2 * h + 2
      BY <1>1, <1>2, <1>3
    <3>2. us \in Seq(Halves) /\ Len(us) = 2 /\ Contig(log, us, sent)
      <4>1. 2 \in Nat
        OBVIOUS
      <4> QED BY <1>1, <3>1, <4>1, ContigRead
    <3> HIDE DEF us
    <3>3. fr \in FrameSet /\ fr.kind = "wal" /\ fr.units = us
      BY <3>2, FrameType
    <3>4. net' = Append(net, fr) /\ sent' = t
      BY <2>1 DEF us
    <3> HIDE DEF fr
    <3>5. \E m \in 0 .. Len(log) : sent = 2 * m /\ t = 2 * m + 2 /\ Forwarded(log[m + 1])
      <4>1. Forwarded(log[h + 1])
        BY <1>3, <2>1
      <4> QED BY <1>2, <1>3, <3>1, <4>1
    <3>6. Piece(log, fr, sent, t, role)
      BY <3>1, <3>2, <3>3, <3>5 DEF Piece
    <3> HIDE DEF t
    <3> QED BY <3>1, <3>3, <3>4, <3>6
  <2>2. CASE \E j \in i .. Len(log) :
              /\ \A k \in i .. j : ~Forwarded(log[k])
              /\ net' = Append(net, [Frame("skip") EXCEPT !.n = 2 * (j - i + 1)])
              /\ sent' = 2 * j
    <3>1. PICK j \in i .. Len(log) :
              /\ \A k \in i .. j : ~Forwarded(log[k])
              /\ net' = Append(net, [Frame("skip") EXCEPT !.n = 2 * (j - i + 1)])
              /\ sent' = 2 * j
      BY <2>2
    <3> DEFINE n == 2 * (j - i + 1)
               fr == [Frame("skip") EXCEPT !.n = n]
               t == 2 * j
    <3>2. n \in Nat /\ t \in Nat /\ sent <= t /\ sent < t /\ t <= 2 * Len(log) /\ t = sent + n /\ j \in 0 .. Len(log)
      BY <1>1, <1>2, <1>3
    <3> HIDE DEF n
    <3>3. fr \in FrameSet /\ fr.kind = "skip" /\ fr.n = n
      BY <3>2, FrameType
    <3>4. net' = Append(net, fr) /\ sent' = t
      BY <3>1 DEF n
    <3> HIDE DEF fr
    <3>5. \A k \in (h + 1) .. j : ~Forwarded(log[k])
      BY <1>3, <3>1
    <3>6. Piece(log, fr, sent, t, role)
      BY <1>2, <1>3, <3>2, <3>3, <3>5 DEF Piece
    <3> HIDE DEF t
    <3> QED BY <3>2, <3>3, <3>4, <3>6
  <2> QED BY <2>1, <2>2 DEF SendRecord
<1>5. PICK fr \in FrameSet, t \in Nat :
         net' = Append(net, fr) /\ sent' = t /\ sent <= t /\ t <= 2 * Len(log) /\ Piece(log, fr, sent, t, role)
  BY <1>4
<1>6. Incoming(log, peer, net, sent, "up", role)
  BY <1>0 DEF NetInv
<1>7. Incoming(log, peer, net', t, "up", role)
  BY <1>1, <1>5, <1>6, IncomingAppend
<1>8. NetInv'
  BY <1>0, <1>1, <1>5, <1>7 DEF NetInv, primVars, peerVars, Size
<1>9. FileInv'
  BY <1>0 DEF FileInv
<1> QED BY <1>8, <1>9

\* A cut leaves a beginning of what was under way.
LEMMA CutWire ==
  ASSUME TypeInv, NetInv, FileInv, Cut
  PROVE  NetInv' /\ FileInv'
<1>0. link' = "cut" /\ UNCHANGED <<role, mishaps, primVars, sent, peerVars>>
  BY DEF Cut
<1>1. PICK n \in 0 .. Len(net) : net' = SubSeq(net, 1, n)
  BY DEF Cut
<1>2. peer \in Peers /\ net \in Seq(FrameSet) /\ sent \in Nat
  BY Basics
<1>3. Incoming(log, peer, net', sent, "cut", role)
  BY <1>1, <1>2, IncomingCut DEF NetInv
<1>4. NetInv'
  BY <1>0, <1>3 DEF NetInv, primVars, peerVars, Size
<1>5. ASSUME NEW kind, FirstIs(net', kind) PROVE FirstIs(net, kind)
  <2>1. n # 0
    BY <1>1, <1>2, <1>5 DEF FirstIs
  <2>2. net # <<>> /\ n \in 1 .. Len(net)
    BY <1>1, <1>2, <2>1
  <2>3. net'[1] = net[1]
    BY <1>1, <1>2, <2>2, TailCut
  <2> QED BY <1>5, <2>2, <2>3 DEF FirstIs
<1>6. FileInv'
  <2>1. FirstIs(net', "snapshot") => FirstIs(net, "snapshot")
    BY <1>5
  <2>2. FirstIs(net', "resume") => FirstIs(net, "resume")
    BY <1>5
  <2> QED BY <1>0, <2>1, <2>2 DEF FileInv, primVars, peerVars, Size, Met
<1> QED BY <1>4, <1>6

\* The receiver is disconnected: nothing is on the way.
LEMMA DownWire ==
  ASSUME TypeInv, NetInv, FileInv, UNCHANGED <<role, primVars>>, peer' = Down,
         disk'.db = disk.db, disk'.side = disk.side, atom' \in {0, disk.side, atom},
         disk'.wal = disk.wal \/ (disk'.wal \in Seq(Halves) /\ Len(disk'.wal) <= Len(disk.wal)),
         sent' = 0
  PROVE  NetInv' /\ FileInv'
<1>1. /\ Len(log) \in Nat /\ Size = 2 * Len(log) /\ peer.pos \in Nat /\ Len(peer.pend) \in Nat /\ disk.side \in Nat
      /\ Len(disk.wal) \in Nat /\ atom \in Nat /\ disk.wal \in Seq(Halves) /\ Size \in Nat
  BY Basics
<1>2. peer'.pc = "down" /\ Size' = Size
  BY DownType DEF primVars, Size
<1>3. Incoming(log', peer', net', sent', link', role')
  BY <1>2 DEF Incoming
<1>4. atom' <= Size /\ disk'.side <= Size
  BY <1>1 DEF NetInv
<1>5. NetInv'
  BY <1>1, <1>2, <1>3, <1>4 DEF NetInv
<1>6. Len(disk'.wal) \in Nat /\ Len(disk'.wal) <= Len(disk.wal)
  BY <1>1
<1>7. ASSUME role = "follower", disk.side = 0 PROVE Len(disk'.wal) <= Size
  <2>1. CASE Moving(peer)
    <3>1. Len(disk.wal) <= peer.pos + Len(peer.pend)
      BY <1>7, <2>1 DEF FileInv
    <3>2. peer.pos + Len(peer.pend) <= Size
      BY <1>1, <2>1 DEF NetInv, Incoming, Contig, Moving
    <3> QED BY <1>1, <1>6, <3>1, <3>2
  <2>2. CASE ~Moving(peer)
    BY <1>1, <1>6, <1>7, <2>2 DEF FileInv
  <2> QED BY <2>1, <2>2
<1>8. ASSUME role = "follower", disk.db = {} PROVE disk'.wal = <<>> /\ disk.side = 0
  <2>1. disk.wal = <<>> /\ disk.side = 0
    BY <1>8 DEF FileInv
  <2>2. Len(disk'.wal) = 0
    BY <1>1, <1>6, <2>1
  <2> QED BY <2>1, <2>2
<1>9. role = "follower" => atom' \in {0, disk.side}
  BY DEF FileInv
<1>10. ~Moving(peer')
  BY <1>2 DEF Moving
<1>11. FileInv'
  BY <1>2, <1>7, <1>8, <1>9, <1>10 DEF FileInv
<1> QED BY <1>5, <1>11

\* The stream when the primary's log grows.
LEMMA GrowWire ==
  ASSUME TypeInv, NetInv, FileInv, NEW more \in Seq(LinesT), log' = log \o more,
         UNCHANGED <<role, linkVars, peerVars>>, mishaps \subseteq mishaps'
  PROVE  NetInv' /\ FileInv'
<1>1. /\ log \in Seq(LinesT) /\ Len(log) \in Nat /\ Size = 2 * Len(log) /\ peer \in Peers /\ net \in Seq(FrameSet)
      /\ sent \in Nat /\ atom \in Nat /\ disk.side \in Nat /\ Len(disk.wal) \in Nat
      /\ peer.pos \in Nat /\ Len(peer.pend) \in Nat
  BY Basics
<1>2. Len(log') = Len(log) + Len(more) /\ Len(more) \in Nat
  BY <1>1, ConcatIs
<1>3. Size' = 2 * Len(log')
  BY DEF Size
<1>4. Incoming(log', peer, net, sent, link, role)
  BY <1>1, IncomingGrow DEF NetInv
<1>5. sent <= Size /\ atom <= Size /\ disk.side <= Size
  BY DEF NetInv
<1>6. sent <= Size' /\ atom <= Size' /\ disk.side <= Size' /\ Size <= Size'
  BY <1>1, <1>2, <1>3, <1>5
<1>7. NetInv'
  BY <1>4, <1>6 DEF NetInv, linkVars, peerVars
<1>8. Met({"fallback"}) => Met({"fallback"})'
  BY DEF Met
<1>9. role = "follower" /\ disk.side = 0 =>
        Len(disk.wal) <= IF Moving(peer) THEN peer.pos + Len(peer.pend) ELSE Size'
  <2>1. Size' \in Nat /\ Size \in Nat
    BY <1>1, <1>2, <1>3
  <2> QED BY <1>1, <1>6, <2>1 DEF FileInv
<1>10. FileInv'
  BY <1>8, <1>9 DEF FileInv, linkVars, peerVars
<1> QED BY <1>7, <1>10

\* The primary's steps.
LEMMA PrimWire ==
  ASSUME TypeInv, NetInv, FileInv, Client \/ Log \/ Mark \/ Truncate \/ Poll \/ SaveSubscriber,
         ~Met({"truncate"})'
  PROVE  NetInv' /\ FileInv'
<1>1. CASE Client \/ Poll
  BY <1>1 DEF Client, Execute, Begin, Statement, End, Poll, NetInv, FileInv, Size, Met, linkVars, peerVars, primVars, vars
<1>2. CASE Log
  <2>1. prim.recs \in Seq(LinesT)
    BY DEF TypeInv, PrimType, Prims
  <2>2. log' = log \o prim.recs /\ UNCHANGED <<role, linkVars, peerVars>> /\ mishaps \subseteq mishaps'
    BY <1>2 DEF Log
  <2> QED BY <2>1, <2>2, GrowWire
<1>3. CASE Mark
  <2>1. <<Record("MARK", 0, 0)>> \in Seq(LinesT) /\ Record("MARK", 0, 0) \in LinesT
    BY OneRecord
  <2>2. log \in Seq(LinesT)
    BY Basics
  <2>3. log' = log \o <<Record("MARK", 0, 0)>>
    BY <1>3, <2>1, <2>2, AppendIsConcat DEF Mark
  <2>4. UNCHANGED <<role, linkVars, peerVars>> /\ mishaps \subseteq mishaps'
    BY <1>3 DEF Mark, Meets
  <2> QED BY <2>1, <2>3, <2>4, GrowWire
<1>4. CASE Truncate
  <2>1. Unread /\ log' = <<>> /\ UNCHANGED <<role, linkVars, peerVars>>
    BY <1>4 DEF Truncate, Meets, When, Met
  <2>2. peer = Down /\ net = <<>> /\ sent = 0 /\ link = "none"
    BY <2>1 DEF Unread, TypeInv, LinkType
  <2>3. Size' = 0
    BY <2>1 DEF Size
  <2>4. peer.pc = "down" /\ ~Moving(peer)
    BY <2>2, DownType DEF Moving
  <2>5. Incoming(log', peer', net', sent', link', role')
    BY <2>1, <2>4 DEF Incoming, peerVars
  <2>6. NetInv'
    BY <2>1, <2>2, <2>3, <2>5 DEF NetInv, Unread, linkVars, peerVars
  <2>7. FileInv'
    BY <2>1, <2>2, <2>3, <2>4 DEF FileInv, Unread, linkVars, peerVars, FirstIs, Moving
  <2> QED BY <2>6, <2>7
<1>5. CASE SaveSubscriber
  <2>1. role = "subscriber" /\ UNCHANGED <<role, primVars, linkVars, peer, atom>> /\ disk' = [disk EXCEPT !.db = {eng.base}, !.side = atom]
    BY <1>5 DEF SaveSubscriber
  <2>2. disk \in Disks
    BY Basics
  <2>3. disk'.side = atom
    BY <2>1, <2>2 DEF Disks
  <2> QED BY <2>1, <2>3 DEF NetInv, FileInv, linkVars, primVars, Size
<1> QED BY <1>1, <1>2, <1>3, <1>4, <1>5

\* The handshake.
LEMMA ConnectWire ==
  ASSUME TypeInv, TypeInv', LogInv, NetInv, FileInv, Connect
  PROVE  NetInv' /\ FileInv'
<1>1. /\ log \in Seq(LinesT) /\ Len(log) \in Nat /\ Size = 2 * Len(log) /\ Size \in Nat /\ atom \in Nat /\ disk.side \in Nat
      /\ disk.wal \in Seq(Halves) /\ Len(disk.wal) \in Nat /\ mem \in Databases
  BY Basics DEF TypeInv, PrimType
<1>2. /\ role = "follower" /\ peer.pc = "down" /\ link' = "up" /\ atom' = Seeded
      /\ peer' = [Down EXCEPT !.pc = "hello", !.pos = StartOffset]
      /\ UNCHANGED <<role, primVars, eng, disk, start, drift, count>>
  BY DEF Connect
<1>3. atom = 0 \/ atom = disk.side
  BY <1>2 DEF FileInv
<1>4. Seeded = disk.side
  BY <1>3 DEF Seeded
<1>5. disk.side = 0 => Len(disk.wal) <= Size
  BY <1>2 DEF FileInv, Moving
<1>6. disk.side <= Size
  BY DEF NetInv
<1>7. StartOffset \in Nat /\ StartOffset <= Size
  BY <1>1, <1>4, <1>5, <1>6 DEF StartOffset
<1>8. peer'.pc = "hello" /\ peer'.pos = StartOffset /\ peer'.pend = <<>> /\ peer'.vol = 0
  BY <1>2 DEF Down
<1>9. Size' = Size /\ log' = log
  BY <1>2 DEF primVars, Size
<1>10. ~Moving(peer')
  BY <1>8 DEF Moving
<1>11. CASE StartOffset = 0
  <2> DEFINE a == [Frame("snapshot") EXCEPT !.db = {mem}]
             b == [Frame("position") EXCEPT !.n = Size]
  <2>1. net' = <<a, b>> /\ sent' = Size
    BY <1>11 DEF Connect
  <2>2. a \in FrameSet /\ a.kind = "snapshot" /\ b \in FrameSet /\ b.kind = "position" /\ b.n = Size
    BY <1>1, FrameType
  <2> HIDE DEF a, b
  <2>3. net' # <<>> /\ net'[1] = a /\ Tail(net') = <<b>>
    BY <2>1, <2>2
  <2>4. IsEven(Size)
    BY <1>1 DEF IsEven
  <2>5. Clear(log, Size)
    <3> SUFFICES ASSUME NEW m \in 1 .. Len(log), Size = 2 * m PROVE log[m].kind # "INPUTS"
      BY DEF Clear
    <3>1. m = Len(log) /\ log # <<>>
      BY <1>1
    <3> QED BY <3>1 DEF LogInv, Paired
  <2>6. Chain(log, <<>>, Size, Size, "up", role)
    BY <1>1, ChainEmpty
  <2>7. Tail(<<b>>) = <<>> /\ <<b>> # <<>> /\ <<b>>[1] = b
    BY <2>2
  <2>8. Size <= 2 * Len(log)
    BY <1>1
  <2>9. Awaits(log, <<b>>, Size, "up", role)
    BY <2>2, <2>4, <2>5, <2>6, <2>7, <2>8 DEF Awaits
  <2>10. Hello(log, StartOffset, net', Size, "up", role)
    BY <2>2, <2>3, <2>9 DEF Hello
  <2>11. Incoming(log, peer', net', Size, "up", role)
    BY <1>1, <1>7, <1>8, <2>10 DEF Incoming
  <2>12. NetInv'
    BY <1>1, <1>2, <1>4, <1>6, <1>9, <2>1, <2>11 DEF NetInv
  <2>13. disk.side = 0 /\ disk.wal = <<>>
    <3>1. CASE disk.db = {}
      BY <1>2, <3>1 DEF FileInv
    <3>2. CASE disk.db # {}
      <4>1. disk.side = 0 /\ Len(disk.wal) = 0
        BY <1>1, <1>4, <1>11, <3>2 DEF StartOffset
      <4> QED BY <1>1, <4>1
    <3> QED BY <3>1, <3>2
  <2>14. ~FirstIs(net', "resume")
    BY <2>2, <2>3 DEF FirstIs
  <2>15. FileInv'
    BY <1>1, <1>2, <1>4, <1>5, <1>8, <1>9, <1>10, <2>13, <2>14 DEF FileInv
  <2> QED BY <2>12, <2>15
<1>12. CASE StartOffset # 0
  <2>1. net' = <<Frame("resume")>> /\ sent' = StartOffset
    BY <1>12 DEF Connect
  <2>2. net' # <<>> /\ net'[1].kind = "resume" /\ Tail(net') = <<>>
    BY <2>1, FrameType
  <2>3. Chain(log, <<>>, StartOffset, StartOffset, "up", role)
    BY <1>7, ChainEmpty
  <2>3a. StartOffset > 0
    BY <1>7, <1>12
  <2>3b. Chain(log, Tail(net'), StartOffset, StartOffset, "up", role)
    BY <2>2, <2>3
  <2>4. Hello(log, StartOffset, net', StartOffset, "up", role)
    BY <2>2, <2>3a, <2>3b DEF Hello
  <2>5. Incoming(log, peer', net', StartOffset, "up", role)
    BY <1>1, <1>7, <1>8, <2>4 DEF Incoming
  <2>6. NetInv'
    BY <1>2, <1>4, <1>6, <1>7, <1>9, <2>1, <2>5 DEF NetInv
  <2>7. disk.db # {}
    BY <1>12 DEF StartOffset
  <2>8. IF disk.side > 0 THEN StartOffset = disk.side
        ELSE StartOffset = Len(disk.wal) /\ Met({"fallback"})'
    <3>1. CASE disk.side > 0
      BY <1>4, <2>7, <3>1 DEF StartOffset
    <3>2. CASE ~(disk.side > 0)
      <4>1. StartOffset > 0 /\ Seeded = 0
        BY <1>1, <1>4, <1>7, <1>12, <3>2
      <4>2. "fallback" \in mishaps'
        BY <4>1 DEF Connect, Meets, When
      <4> QED BY <1>4, <2>7, <3>2, <4>2 DEF StartOffset, Met
    <3> QED BY <3>1, <3>2
  <2>9. ~FirstIs(net', "snapshot")
    BY <2>2 DEF FirstIs
  <2>10. FileInv'
    BY <1>1, <1>2, <1>4, <1>5, <1>8, <1>9, <1>10, <2>7, <2>8, <2>9 DEF FileInv
  <2> QED BY <2>6, <2>10
<1> QED BY <1>11, <1>12

\* The follower takes a frame of the handshake.
LEMMA HelloWire ==
  ASSUME TypeInv, TypeInv', NetInv, FileInv, Resume \/ WriteSnapshot \/ Restore
  PROVE  NetInv' /\ FileInv'
<1>1. /\ log \in Seq(LinesT) /\ Len(log) \in Nat /\ Size = 2 * Len(log) /\ Size \in Nat /\ atom \in Nat /\ disk.side \in Nat
      /\ disk.wal \in Seq(Halves) /\ Len(disk.wal) \in Nat /\ peer \in Peers /\ disk \in Disks /\ peer.pos \in Nat
      /\ net \in Seq(FrameSet) /\ Len(peer.pend) \in Nat
  BY Basics
<1>2. /\ role = "follower" /\ net # <<>> /\ net' = Tail(net) /\ Head(net) = net[1]
      /\ UNCHANGED <<role, mishaps, primVars, link, sent>>
  BY <1>1 DEF Resume, WriteSnapshot, Restore, Arrives
<1>3. Size' = Size /\ log' = log
  BY <1>2 DEF primVars, Size
<1>4. sent <= Size /\ Incoming(log, peer, net, sent, link, role)
  BY DEF NetInv
<1>5. net[1] \in FrameSet /\ FrameOK(net[1], role)
  BY <1>1, <1>2, FramesTail DEF TypeInv, LinkType
<1>6. CASE Resume
  <2>1. peer.pc = "hello" /\ net[1].kind = "resume" /\ atom' = peer.pos /\ disk' = [disk EXCEPT !.side = peer.pos]
        /\ peer' = [peer EXCEPT !.pc = "stream"]
    BY <1>2, <1>6 DEF Resume, Arrives, StorePosition
  <2>2. peer'.pc = "stream" /\ peer'.pos = peer.pos /\ peer'.pend = peer.pend
    BY <1>1, <2>1 DEF Peers
  <2>3. disk'.side = peer.pos /\ disk'.wal = disk.wal /\ disk'.db = disk.db
    BY <1>1, <2>1 DEF Disks
  <2>4. peer.pend = <<>> /\ peer.pos <= 2 * Len(log) /\ peer.pos > 0 /\ Chain(log, net', peer.pos, sent, link, role)
    BY <1>2, <1>4, <2>1 DEF Incoming, Hello
  <2>5. Contig(log, peer.pend, peer.pos)
    BY <1>1, <2>4, ContigEmpty
  <2>6. peer.pos + Len(peer.pend) = peer.pos /\ Len(peer.pend) = 0
    BY <1>1, <2>4
  <2>7. Incoming(log, peer', net', sent, link, role)
    BY <1>2, <2>2, <2>4, <2>5, <2>6 DEF Incoming
  <2>8. NetInv'
    BY <1>1, <1>2, <1>3, <1>4, <2>1, <2>3, <2>4, <2>7 DEF NetInv
  <2>9. disk.db # {}
    BY <1>2, <2>1 DEF FileInv, FirstIs
  <2>10. Moving(peer')
    BY <2>2 DEF Moving
  <2>11. FileInv'
    BY <1>1, <1>2, <2>1, <2>2, <2>3, <2>4, <2>6, <2>9, <2>10 DEF FileInv
  <2> QED BY <2>8, <2>11
<1>7. CASE WriteSnapshot
  <2>1. peer.pc = "hello" /\ net[1].kind = "snapshot" /\ UNCHANGED atom /\ disk' = [disk EXCEPT !.db = net[1].db]
        /\ peer' = [peer EXCEPT !.pc = "restore"]
    BY <1>2, <1>7 DEF WriteSnapshot, Arrives
  <2>2. peer'.pc = "restore" /\ peer'.pos = peer.pos /\ peer'.pend = peer.pend /\ peer'.vol = peer.vol
    BY <1>1, <2>1 DEF Peers
  <2>3. disk'.side = disk.side /\ disk'.wal = disk.wal /\ disk'.db = net[1].db
    BY <1>1, <2>1 DEF Disks
  <2>4. peer.pend = <<>> /\ peer.vol = 0 /\ peer.pos <= 2 * Len(log) /\ Awaits(log, net', sent, link, role)
    BY <1>2, <1>4, <2>1 DEF Incoming, Hello
  <2>7. Incoming(log, peer', net', sent, link, role)
    BY <2>2, <2>4 DEF Incoming
  <2>8. NetInv'
    BY <1>2, <1>3, <2>1, <2>3, <2>7 DEF NetInv
  <2>9. disk.wal = <<>> /\ disk.side = 0 /\ atom = disk.side
    BY <1>2, <2>1 DEF FileInv, FirstIs
  <2>10. ~Moving(peer')
    BY <2>2 DEF Moving
  <2>10a. net[1].db # {}
    BY <1>5, <2>1 DEF FrameOK
  <2>11. FileInv'
    BY <1>1, <1>2, <1>3, <2>1, <2>2, <2>3, <2>9, <2>10, <2>10a DEF FileInv
  <2> QED BY <2>8, <2>11
<1>8. CASE Restore
  <2>1. peer.pc = "restore" /\ net[1].kind = "position" /\ atom' = net[1].n
        /\ disk' = [disk EXCEPT !.wal = <<>>, !.side = net[1].n]
        /\ peer' = [peer EXCEPT !.pc = "stream", !.pos = net[1].n]
    BY <1>2, <1>8 DEF Restore, Arrives
  <2>2. peer'.pc = "stream" /\ peer'.pos = net[1].n /\ peer'.pend = peer.pend /\ net[1].n \in Nat
    BY <1>1, <1>5, <2>1 DEF Peers, FrameSet
  <2>3. disk'.side = net[1].n /\ disk'.wal = <<>> /\ disk'.db = disk.db
    BY <1>1, <2>1 DEF Disks
  <2>4. peer.pend = <<>> /\ net[1].n <= 2 * Len(log) /\ Chain(log, net', net[1].n, sent, link, role)
    BY <1>2, <1>4, <2>1 DEF Incoming, Awaits
  <2>5. Contig(log, peer.pend, net[1].n)
    BY <1>1, <2>2, <2>4, ContigEmpty
  <2>6. net[1].n + Len(peer.pend) = net[1].n /\ Len(peer.pend) = 0
    BY <1>1, <2>2, <2>4
  <2>7. Incoming(log, peer', net', sent, link, role)
    BY <1>2, <2>2, <2>4, <2>5, <2>6 DEF Incoming
  <2>8. NetInv'
    BY <1>1, <1>2, <1>3, <1>4, <2>1, <2>2, <2>3, <2>4, <2>7 DEF NetInv
  <2>9. disk.db # {}
    BY <1>2, <2>1 DEF FileInv
  <2>10. Moving(peer')
    BY <2>2 DEF Moving
  <2>11. FileInv'
    <3>1. Len(disk'.wal) = 0 /\ Len(peer'.pend) = 0 /\ disk'.side = peer'.pos /\ peer'.pos \in Nat
      BY <2>2, <2>3, <2>6
    <3>2. Len(disk'.wal) <= peer'.pos + Len(peer'.pend) /\ Len(peer'.pend) < 2 /\ disk'.side <= peer'.pos
      BY <3>1
    <3>3. atom' = disk'.side /\ disk'.db # {}
      BY <2>1, <2>3, <2>9
    <3> QED BY <2>2, <2>10, <3>1, <3>2, <3>3 DEF FileInv
  <2> QED BY <2>8, <2>11
<1> QED BY <1>6, <1>7, <1>8

\* The follower takes a frame of the file.
LEMMA ReceiveBytesWire ==
  ASSUME TypeInv, TypeInv', NetInv, FileInv, ReceiveBytes
  PROVE  NetInv' /\ FileInv'
<1>1. /\ log \in Seq(LinesT) /\ Len(log) \in Nat /\ Size = 2 * Len(log) /\ Size \in Nat /\ atom \in Nat /\ disk.side \in Nat
      /\ disk.wal \in Seq(Halves) /\ Len(disk.wal) \in Nat /\ peer \in Peers /\ disk \in Disks /\ peer.pos \in Nat
      /\ net \in Seq(FrameSet) /\ Len(peer.pend) \in Nat /\ peer.pend \in Seq(Halves) /\ sent \in Nat
  BY Basics
<1>2. /\ role = "follower" /\ net # <<>> /\ net' = Tail(net) /\ Head(net) = net[1]
      /\ UNCHANGED <<role, mishaps, primVars, link, sent, atom>>
      /\ peer.pc = "stream" /\ net[1].kind = "wal"
      /\ disk' = [disk EXCEPT !.wal = @ \o net[1].units]
      /\ peer' = [peer EXCEPT !.pc = "drain", !.pend = @ \o net[1].units]
  <2>1. /\ role = "follower" /\ net # <<>> /\ net' = Tail(net)
        /\ UNCHANGED <<role, mishaps, primVars, link, sent, atom>>
        /\ peer.pc = "stream" /\ Head(net).kind = "wal"
        /\ disk' = [disk EXCEPT !.wal = @ \o Head(net).units]
        /\ peer' = [peer EXCEPT !.pc = "drain", !.pend = @ \o Head(net).units]
    BY DEF ReceiveBytes, Arrives
  <2>2. Head(net) = net[1]
    BY <1>1, <2>1
  <2> QED BY <2>1, <2>2
<1>2n. /\ peer.pos \in Nat /\ Len(peer.pend) \in Nat /\ Len(disk.wal) \in Nat /\ Len(log) \in Nat /\ disk.side \in Nat
  BY <1>1
<1>3. Size' = Size /\ log' = log
  BY <1>2 DEF primVars, Size
<1>4. sent <= Size /\ Incoming(log, peer, net, sent, link, role)
  BY DEF NetInv
<1>5. net[1] \in FrameSet /\ FrameOK(net[1], role)
  BY <1>1, <1>2, FramesTail DEF TypeInv, LinkType
<1>5a. PICK us \in Seq(Halves) : us = net[1].units
  BY <1>5 DEF FrameSet
<1>6. us \in Seq(Halves) /\ Len(us) \in Nat
  OBVIOUS
<1> DEFINE pend == peer.pend \o us
           wal == disk.wal \o us
<1>7. peer'.pc = "drain" /\ peer'.pos = peer.pos /\ peer'.pend = pend
  BY <1>1, <1>2, <1>5a DEF Peers
<1>8. disk'.side = disk.side /\ disk'.wal = wal /\ disk'.db = disk.db
  BY <1>1, <1>2, <1>5a DEF Disks
<1>9. Len(pend) = Len(peer.pend) + Len(us) /\ Len(wal) = Len(disk.wal) + Len(us)
  BY <1>1, <1>6, ConcatIs
<1>10. Contig(log, peer.pend, peer.pos) /\ Chain(log, net, peer.pos + Len(peer.pend), sent, link, role)
  BY <1>2, <1>4 DEF Incoming
<1>11. PICK b \in Nat : /\ Piece(log, net[1], peer.pos + Len(peer.pend), b, role)
                       /\ Chain(log, Tail(net), b, sent, link, role)
  <2>1. peer.pos + Len(peer.pend) \in Nat
    BY <1>1
  <2> QED BY <1>1, <1>2, <1>10, <2>1, ChainTail
<1>12. b = peer.pos + Len(peer.pend) + Len(us) /\ Contig(log, us, peer.pos + Len(peer.pend))
  BY <1>2, <1>5a, <1>11 DEF Piece
<1>13. Contig(log, pend, peer.pos)
  BY <1>1, <1>6, <1>10, <1>12, ContigAppend
<1> HIDE DEF pend, wal
<1>14. b = peer.pos + Len(pend)
  <2>1. Len(us) \in Nat
    BY <1>6
  <2>2. b = peer.pos + Len(peer.pend) + Len(us)
    BY <1>12
  <2>3. Len(pend) = Len(peer.pend) + Len(us)
    BY <1>9
  <2> QED BY <1>2n, <2>1, <2>2, <2>3
<1>15. Incoming(log, peer', net', sent, link, role)
  BY <1>2, <1>7, <1>11, <1>13, <1>14 DEF Incoming
<1>16. NetInv'
  BY <1>2, <1>3, <1>8, <1>15 DEF NetInv
<1>17. Moving(peer) /\ Moving(peer')
  BY <1>2, <1>7 DEF Moving
<1>18. disk.side = 0 => Len(wal) <= peer.pos + Len(pend)
  <2>1. disk.side = 0 => Len(disk.wal) <= peer.pos + Len(peer.pend)
    BY <1>2, <1>17 DEF FileInv
  <2>2. Len(us) \in Nat
    BY <1>6
  <2> QED BY <1>2n, <1>9, <2>1, <2>2
<1>19. disk.db # {} /\ disk.side = peer.pos /\ atom = disk.side
  BY <1>2, <1>17 DEF FileInv
<1>20. FileInv'
  <2>1. disk'.side <= peer'.pos /\ atom' = disk'.side /\ disk'.db # {}
    BY <1>2, <1>2n, <1>7, <1>8, <1>19
  <2>2. disk'.side = 0 => Len(disk'.wal) <= peer'.pos + Len(peer'.pend)
    BY <1>7, <1>8, <1>18
  <2> QED BY <1>7, <1>17, <2>1, <2>2 DEF FileInv
<1> QED BY <1>16, <1>20

\* The follower applies a record, or comes to the end of a frame.
LEMMA DrainWire ==
  ASSUME TypeInv, TypeInv', NetInv, FileInv, DrainRecord \/ Drained
  PROVE  NetInv' /\ FileInv'
<1>1. /\ log \in Seq(LinesT) /\ Len(log) \in Nat /\ Size = 2 * Len(log) /\ Size \in Nat /\ atom \in Nat /\ disk.side \in Nat
      /\ disk.wal \in Seq(Halves) /\ Len(disk.wal) \in Nat /\ peer \in Peers /\ disk \in Disks /\ peer.pos \in Nat
      /\ net \in Seq(FrameSet) /\ Len(peer.pend) \in Nat /\ peer.pend \in Seq(Halves) /\ sent \in Nat
  BY Basics
<1>2. peer.pc = "drain" /\ UNCHANGED <<role, primVars>>
  BY DEF DrainRecord, Drained
<1>3. role = "follower"
  BY <1>1, <1>2, Basics DEF TypeInv, PeerType
<1>4. Size' = Size /\ log' = log
  BY <1>2 DEF primVars, Size
<1>5. Contig(log, peer.pend, peer.pos) /\ Chain(log, net, peer.pos + Len(peer.pend), sent, link, role)
  BY <1>2 DEF NetInv, Incoming
<1>6. Moving(peer)
  BY <1>2 DEF Moving
<1>7. disk.db # {} /\ disk.side <= peer.pos /\ atom = disk.side
      /\ (disk.side = 0 => Len(disk.wal) <= peer.pos + Len(peer.pend))
  BY <1>2, <1>3, <1>6 DEF FileInv
<1>8. CASE Drained
  <2>1. /\ ~Whole(peer.pend) /\ atom' = peer.pos /\ disk' = [disk EXCEPT !.side = peer.pos]
        /\ peer' = [peer EXCEPT !.pc = "stream"] /\ UNCHANGED linkVars
    BY <1>8 DEF Drained, StorePosition
  <2>2. peer'.pc = "stream" /\ peer'.pos = peer.pos /\ peer'.pend = peer.pend
    BY <1>1, <2>1 DEF Peers
  <2>3. disk'.side = peer.pos /\ disk'.wal = disk.wal /\ disk'.db = disk.db
    BY <1>1, <2>1 DEF Disks
  <2>4. Incoming(log, peer', net, sent, link, role)
    BY <1>3, <1>5, <2>2 DEF Incoming
  <2>5. peer.pos <= Size
    BY <1>1, <1>5 DEF Contig
  <2>6. NetInv'
    BY <1>2, <1>4, <2>1, <2>3, <2>4, <2>5 DEF NetInv, linkVars
  <2>7. Moving(peer') /\ Len(peer.pend) < 2
    BY <1>1, <2>1, <2>2 DEF Moving, Whole
  <2>8. FileInv'
    <3>1. disk'.side = 0 => Len(disk'.wal) <= peer'.pos + Len(peer'.pend)
      BY <1>1, <1>7, <2>2, <2>3
    <3>2. /\ atom' \in {0, disk'.side} /\ atom' = disk'.side /\ disk'.db # {} /\ disk'.side <= peer'.pos
          /\ peer'.pos = disk'.side /\ Len(peer'.pend) < 2
      BY <1>1, <1>7, <2>1, <2>2, <2>3, <2>7
    <3> QED BY <2>2, <2>7, <3>1, <3>2 DEF FileInv
  <2> QED BY <2>6, <2>8
<1>9. CASE DrainRecord /\ Sound(peer.pend) /\ peer.pend[1].rec.kind \in Accepted
  <2>1. PICK v : peer' = [peer EXCEPT !.pend = Rest(@, 2), !.pos = @ + 2, !.vol = v]
    BY <1>9 DEF DrainRecord
  <2>2. UNCHANGED <<linkVars, mishaps, atom, disk>> /\ Whole(peer.pend)
    BY <1>9 DEF DrainRecord
  <2>3. peer'.pc = "drain" /\ peer'.pos = peer.pos + 2 /\ peer'.pend = Rest(peer.pend, 2)
    BY <1>1, <1>2, <2>1 DEF Peers
  <2>4. Len(Rest(peer.pend, 2)) = Len(peer.pend) - 2 /\ Len(peer.pend) >= 2
    BY <1>1, <2>2, RestIs DEF Whole
  <2>5. Contig(log, Rest(peer.pend, 2), peer.pos + 2)
    BY <1>1, <1>5, <2>4, ContigRest
  <2>6. peer'.pos + Len(peer'.pend) = peer.pos + Len(peer.pend)
    <3>1. peer.pos \in Nat /\ Len(peer.pend) \in Nat
      BY <1>1
    <3>2. Len(peer'.pend) = Len(peer.pend) - 2 /\ peer'.pos = peer.pos + 2
      BY <2>3, <2>4
    <3> QED BY <3>1, <3>2
  <2>7. Incoming(log, peer', net, sent, link, role)
    BY <1>3, <1>5, <2>3, <2>5, <2>6 DEF Incoming
  <2>8. NetInv'
    BY <1>2, <1>4, <2>2, <2>7 DEF NetInv, linkVars
  <2>9. Moving(peer') /\ disk.side <= peer'.pos
    BY <1>1, <1>7, <2>3 DEF Moving
  <2>10. FileInv'
    BY <1>3, <1>7, <2>2, <2>3, <2>6, <2>9 DEF FileInv
  <2> QED BY <2>8, <2>10
<1>10. CASE DrainRecord /\ ~(Sound(peer.pend) /\ peer.pend[1].rec.kind \in Accepted)
  <2>1. peer' = Down /\ sent' = 0 /\ UNCHANGED <<atom, disk>>
    BY <1>10 DEF DrainRecord
  <2>2. atom' \in {0, disk.side, atom}
    BY <2>1
  <2> QED BY <1>2, <2>1, <2>2, DownWire
<1> QED BY <1>8, <1>9, <1>10

\* A subscriber connects, or takes a frame.
LEMMA SubscriberWire ==
  ASSUME TypeInv, TypeInv', NetInv, Subscribe \/ ReceiveRecord \/ ReceiveSkip
  PROVE  NetInv' /\ FileInv'
<1>1. /\ log \in Seq(LinesT) /\ Len(log) \in Nat /\ Size = 2 * Len(log) /\ Size \in Nat /\ atom \in Nat /\ disk.side \in Nat
      /\ peer \in Peers /\ peer.pos \in Nat /\ net \in Seq(FrameSet) /\ sent \in Nat
  BY Basics
<1>2. role = "subscriber" /\ UNCHANGED <<role, primVars, disk>>
  BY DEF Subscribe, ReceiveRecord, ReceiveSkip
<1>3. Size' = Size /\ log' = log
  BY <1>2 DEF primVars, Size
<1>4. FileInv'
  BY <1>2 DEF FileInv
<1>5. sent <= Size /\ atom <= Size /\ disk.side <= Size /\ Incoming(log, peer, net, sent, link, role)
  BY DEF NetInv
<1>6. CASE Subscribe
  <2> DEFINE from == IF atom = 0 THEN Size ELSE atom
  <2>1. /\ sent' = from /\ peer' = [Down EXCEPT !.pc = "stream", !.pos = from] /\ link' = "up" /\ net' = <<>>
        /\ UNCHANGED atom
    BY <1>6 DEF Subscribe
  <2>2. from \in Nat /\ from <= Size
    BY <1>1, <1>5
  <2> HIDE DEF from
  <2>3. peer'.pc = "stream" /\ peer'.pos = from /\ peer'.pend = <<>>
    BY <2>1 DEF Down
  <2>4. Contig(log, <<>>, from) /\ from + Len(<<>>) = from
    BY <1>1, <2>2, ContigEmpty
  <2>5. Chain(log, <<>>, from, from, "up", role)
    BY <2>2, ChainEmpty
  <2>6. Incoming(log, peer', <<>>, from, "up", role)
    BY <2>3, <2>4, <2>5 DEF Incoming
  <2>7. NetInv'
    BY <1>2, <1>3, <1>5, <2>1, <2>2, <2>6 DEF NetInv
  <2> QED BY <1>4, <2>7
<1>7. CASE ReceiveRecord \/ ReceiveSkip
  <2>1. /\ peer.pc = "stream" /\ net # <<>> /\ net' = Tail(net) /\ UNCHANGED <<link, sent>>
    BY <1>7 DEF ReceiveRecord, ReceiveSkip, Arrives
  <2>2. Head(net) = net[1] /\ net[1] \in FrameSet
    BY <1>1, <2>1, FramesTail DEF TypeInv, LinkType
  <2>3. peer.pend = <<>> /\ Chain(log, net, peer.pos + Len(peer.pend), sent, link, role)
    BY <1>2, <1>5, <2>1 DEF Incoming
  <2>4. peer.pos + Len(peer.pend) = peer.pos
    BY <1>1, <2>3
  <2>5. PICK b \in Nat : b <= sent /\ Piece(log, net[1], peer.pos, b, role) /\ Chain(log, Tail(net), b, sent, link, role)
    <3>1. \E b \in 0 .. sent : Piece(log, net[1], peer.pos, b, role) /\ Chain(log, Tail(net), b, sent, link, role)
      BY <1>1, <2>1, <2>3, <2>4, ChainTail
    <3> QED BY <1>1, <3>1
  <2>6. peer'.pc = "stream" /\ peer'.pos = b /\ peer'.pend = <<>>
    <3>1. CASE ReceiveRecord
      <4>1. net[1].kind = "wal"
        BY <2>2, <3>1 DEF ReceiveRecord, Arrives
      <4>2. b = peer.pos + 2
        BY <1>1, <1>2, <2>5, <4>1 DEF Piece
      <4>3. PICK v : peer' = [peer EXCEPT !.pos = @ + 2, !.vol = v]
        BY <3>1 DEF ReceiveRecord
      <4> QED BY <1>1, <2>1, <2>3, <4>2, <4>3 DEF Peers
    <3>2. CASE ReceiveSkip
      <4>1. net[1].kind = "skip"
        BY <2>2, <3>2 DEF ReceiveSkip, Arrives
      <4>2. b = peer.pos + net[1].n
        BY <1>1, <1>2, <2>5, <4>1 DEF Piece
      <4>3. peer' = [peer EXCEPT !.pos = @ + net[1].n]
        BY <2>2, <3>2 DEF ReceiveSkip
      <4> QED BY <1>1, <2>1, <2>3, <4>2, <4>3 DEF Peers
    <3> QED BY <1>7, <3>1, <3>2
  <2>7. atom' = atom \/ atom' = b
    <3>1. CASE ReceiveRecord
      <4>1. net[1].kind = "wal"
        BY <2>2, <3>1 DEF ReceiveRecord, Arrives
      <4>2. b = peer.pos + 2
        BY <1>1, <1>2, <2>5, <4>1 DEF Piece
      <4> QED BY <3>1, <4>2 DEF ReceiveRecord, Advance
    <3>2. CASE ReceiveSkip
      <4>1. net[1].kind = "skip"
        BY <2>2, <3>2 DEF ReceiveSkip, Arrives
      <4>2. b = peer.pos + net[1].n
        BY <1>1, <1>2, <2>5, <4>1 DEF Piece
      <4> QED BY <2>2, <3>2, <4>2 DEF ReceiveSkip, Advance
    <3> QED BY <1>7, <3>1, <3>2
  <2>8. b <= 2 * Len(log)
    BY <1>1, <1>5, <2>5
  <2>9. Contig(log, <<>>, b) /\ b + Len(<<>>) = b
    BY <1>1, <2>8, ContigEmpty
  <2>10. Incoming(log, peer', net', sent, link, role)
    BY <2>1, <2>5, <2>6, <2>9 DEF Incoming
  <2>11. NetInv'
    BY <1>1, <1>2, <1>3, <1>5, <2>1, <2>7, <2>8, <2>10 DEF NetInv
  <2> QED BY <1>4, <2>11
<1> QED BY <1>6, <1>7

\* A crash or the end of the stream.
LEMMA LostWire ==
  ASSUME TypeInv, NetInv, FileInv, HangUp \/ CrashFollower \/ CrashSubscriber
  PROVE  NetInv' /\ FileInv'
<1>1. disk \in Disks /\ disk.wal \in Seq(Halves) /\ Len(disk.wal) \in Nat
  BY Basics
<1>2. UNCHANGED <<role, primVars>> /\ peer' = Down /\ sent' = 0
  BY DEF HangUp, CrashFollower, CrashSubscriber
<1>3. CASE HangUp \/ CrashSubscriber
  <2>1. disk' = disk /\ atom' \in {0, disk.side, atom}
    BY <1>3 DEF HangUp, CrashSubscriber
  <2> QED BY <1>2, <2>1, DownWire
<1>4. CASE CrashFollower
  <2> DEFINE us == UnitsOf(RecordsIn(disk.wal))
  <2>1. disk' = [disk EXCEPT !.wal = us] /\ atom' = 0
    BY <1>4 DEF CrashFollower
  <2>2. us \in Seq(Halves) /\ Len(us) = 2 * Len(RecordsIn(disk.wal))
    BY <1>1, RecordsInIs, UnitsOfIs
  <2>3. Len(RecordsIn(disk.wal)) = Readable(disk.wal) /\ Readable(disk.wal) \in Nat /\ 2 * Readable(disk.wal) <= Len(disk.wal)
    BY <1>1, RecordsInIs, ReadableIs
  <2> HIDE DEF us
  <2>4. disk'.db = disk.db /\ disk'.side = disk.side /\ disk'.wal = us
    BY <1>1, <2>1 DEF Disks
  <2>5. Len(us) <= Len(disk.wal)
    BY <1>1, <2>2, <2>3
  <2>6. atom' \in {0, disk.side, atom}
    BY <2>1
  <2> QED BY <1>2, <2>2, <2>4, <2>5, <2>6, DownWire
<1> QED BY <1>3, <1>4

\* The whole of the connection.
LEMMA InitWire == ReplInit => NetInv /\ FileInv
<1> SUFFICES ASSUME ReplInit PROVE NetInv /\ FileInv
  OBVIOUS
<1>1. /\ log = <<>> /\ net = <<>> /\ sent = 0 /\ peer = Down /\ atom = 0 /\ disk.wal = <<>> /\ disk.side = 0
  BY DEF ReplInit
<1>2. Size = 0 /\ Len(disk.wal) = 0 /\ peer.pc = "down"
  BY <1>1, DownType DEF Size
<1>3. ~Moving(peer) /\ ~FirstIs(net, "snapshot") /\ ~FirstIs(net, "resume")
  BY <1>1, <1>2 DEF Moving, FirstIs
<1>4. FileInv
  BY <1>1, <1>2, <1>3 DEF FileInv
<1>5. NetInv
  BY <1>1, <1>2 DEF NetInv, Incoming
<1> QED BY <1>4, <1>5

\* What is under way, and in the files of a peer, stays a piece of the log.
LEMMA StepWire ==
  ASSUME TypeInv, TypeInv', LogInv, NetInv, FileInv, [ReplNext]_vars, ~Met({"truncate"})'
  PROVE  NetInv' /\ FileInv'
<1>1. CASE UNCHANGED vars
  BY <1>1 DEF vars, primVars, linkVars, peerVars, NetInv, FileInv, Met, Size
<1>2. CASE Client \/ Log \/ Mark \/ Truncate \/ Poll \/ SaveSubscriber
  BY <1>2, PrimWire
<1>3. CASE Sender
  BY <1>3, SendBytesWire, SendRecordWire DEF Sender
<1>4. CASE Receiver
  BY <1>4, ConnectWire, HelloWire, ReceiveBytesWire, DrainWire, SubscriberWire, LostWire DEF Receiver
<1>5. CASE Cut \/ CrashFollower \/ CrashSubscriber
  BY <1>5, CutWire, LostWire
<1> QED BY <1>1, <1>2, <1>3, <1>4, <1>5 DEF ReplNext

---------------------------------------------------------------------------
(* A follower's steps.                                                     *)

\* What a follower's step starts from.
LEMMA FollowerBefore ==
  ASSUME TypeInv, FollowerInv, role = "follower", mishaps \subseteq mishaps',
         ~Met({"truncate", "crash", "marker"})'
  PROVE  /\ ~Met({"truncate", "crash", "marker"}) /\ ~Met({"truncate"}) /\ ~Met({"crash"})' /\ ~Met({"marker"})
         /\ Met({"fallback"}) => Met({"fallback"})'
         /\ ~Met({"snapshot"})' => ~Met({"snapshot"})
         /\ \/ Met({"fallback"}) /\ Stuck(log, peer, disk)
            \/ \E k, p \in Nat :
                 /\ k <= Len(logged) /\ p <= Len(logged)
                 /\ Settled(log, Gone, k, p, peer, disk) \/ Fresh(peer, disk)
                 /\ ~Met({"snapshot"}) => Points(logged, Gone, k, p, eng, peer, disk, net)
<1>1. ~Met({"truncate", "crash", "marker"})
  BY MetStays
<1>2. Len(logged) \in Nat
  BY Basics
<1>3. \/ Met({"fallback"}) /\ Stuck(log, peer, disk)
      \/ \E k, p \in 0 .. Len(logged) :
           /\ Settled(log, Gone, k, p, peer, disk) \/ Fresh(peer, disk)
           /\ ~Met({"snapshot"}) => Points(logged, Gone, k, p, eng, peer, disk, net)
  BY <1>1 DEF FollowerInv
<1>4. CASE Met({"fallback"}) /\ Stuck(log, peer, disk)
  BY <1>1, <1>4 DEF Met
<1>5. CASE \E k, p \in 0 .. Len(logged) :
           /\ Settled(log, Gone, k, p, peer, disk) \/ Fresh(peer, disk)
           /\ ~Met({"snapshot"}) => Points(logged, Gone, k, p, eng, peer, disk, net)
  <2>1. PICK k \in 0 .. Len(logged), p \in 0 .. Len(logged) :
           /\ Settled(log, Gone, k, p, peer, disk) \/ Fresh(peer, disk)
           /\ ~Met({"snapshot"}) => Points(logged, Gone, k, p, eng, peer, disk, net)
    BY <1>5
  <2>2. k \in Nat /\ p \in Nat /\ k <= Len(logged) /\ p <= Len(logged)
    BY <1>2
  <2>3. \E i, j \in Nat :
                 /\ i <= Len(logged) /\ j <= Len(logged)
                 /\ Settled(log, Gone, i, j, peer, disk) \/ Fresh(peer, disk)
                 /\ ~Met({"snapshot"}) => Points(logged, Gone, i, j, eng, peer, disk, net)
    BY <2>1, <2>2
  <2> QED BY <1>1, <2>3 DEF Met
<1> QED BY <1>3, <1>4, <1>5

\* What a follower's step has to end with.
LEMMA FollowerAfter ==
  ASSUME TypeInv',
         \/ Met({"fallback"})' /\ Stuck(log', peer', disk')
         \/ \E k, p \in Nat :
              /\ k <= Len(logged') /\ p <= Len(logged')
              /\ Settled(log', Gone', k, p, peer', disk') \/ Fresh(peer', disk')
              /\ ~Met({"snapshot"})' => Points(logged', Gone', k, p, eng', peer', disk', net')
  PROVE  FollowerInv'
<1>1. logged' \in Seq(LinesT) /\ Len(logged') \in Nat
  BY DEF TypeInv, PrimType
<1>2. CASE Met({"fallback"})' /\ Stuck(log', peer', disk')
  BY <1>2 DEF FollowerInv
<1>3. CASE \E k, p \in Nat :
              /\ k <= Len(logged') /\ p <= Len(logged')
              /\ Settled(log', Gone', k, p, peer', disk') \/ Fresh(peer', disk')
              /\ ~Met({"snapshot"})' => Points(logged', Gone', k, p, eng', peer', disk', net')
  <2>1. PICK k \in Nat, p \in Nat :
              /\ k <= Len(logged') /\ p <= Len(logged')
              /\ Settled(log', Gone', k, p, peer', disk') \/ Fresh(peer', disk')
              /\ ~Met({"snapshot"})' => Points(logged', Gone', k, p, eng', peer', disk', net')
    BY <1>3
  <2>2. k \in 0 .. Len(logged') /\ p \in 0 .. Len(logged')
    BY <1>1, <2>1
  <2> QED BY <2>1, <2>2 DEF FollowerInv
<1> QED BY <1>2, <1>3

\* The links of a local log when the primary's log grows.
LEMMA LinkedGrow ==
  ASSUME NEW lg \in Seq(LinesT), NEW more \in Seq(LinesT), NEW us \in Seq(Halves), Linked(lg, us)
  PROVE  Linked(lg \o more, us)
<1> DEFINE big == lg \o more
<1>1. Len(big) = Len(lg) + Len(more) /\ Len(lg) \in Nat /\ Len(more) \in Nat /\ \A i \in 1 .. Len(lg) : big[i] = lg[i]
  BY ConcatIs
<1> HIDE DEF big
<1> SUFFICES ASSUME NEW j \in 1 .. (Len(us) - 1), us[j + 1].half = 1
             PROVE  \E m \in 1 .. (Len(big) - 1) : us[j] = Unit(big[m], 2) /\ us[j + 1] = Unit(big[m + 1], 1)
  BY DEF Linked, big
<1>2. PICK m \in 1 .. (Len(lg) - 1) : us[j] = Unit(lg[m], 2) /\ us[j + 1] = Unit(lg[m + 1], 1)
  BY DEF Linked
<1>3. m \in 1 .. Len(lg) /\ m + 1 \in 1 .. Len(lg) /\ m \in 1 .. (Len(big) - 1)
  BY <1>1
<1>4. big[m] = lg[m] /\ big[m + 1] = lg[m + 1]
  BY <1>1, <1>3
<1> QED BY <1>2, <1>3, <1>4

\* A follower's log and points when the primary's log grows.
LEMMA SettledGrow ==
  ASSUME NEW lg \in Seq(LinesT), NEW more \in Seq(LinesT), NEW g \in Nat, NEW k \in Nat, NEW p \in Nat,
         NEW pr \in Peers, NEW dk \in Disks, p <= g + Len(lg), Settled(lg, g, k, p, pr, dk)
  PROVE  Settled(lg \o more, g, k, p, pr, dk)
<1>1. dk.wal \in Seq(Halves) /\ Len(lg) \in Nat
  BY DEF Disks
<1>2. g <= p /\ 2 * (p - g) \in Nat /\ 2 * (p - g) <= 2 * Len(lg)
  <2>1. g <= p
    BY DEF Settled
  <2> QED BY <1>1, <2>1
<1>3. Clear(lg \o more, 2 * (p - g))
  BY <1>2, ClearGrow DEF Settled
<1>4. Contig(lg, dk.wal, 2 * (p - g)) => Contig(lg \o more, dk.wal, 2 * (p - g))
  BY <1>1, <1>2, ContigGrow
<1>5. LocalLog(lg \o more, 2 * (p - g), pr, dk)
  BY <1>4 DEF Settled, LocalLog
<1> QED BY <1>3, <1>5 DEF Settled

\* A snapshot frame when the primary's log grows.
LEMMA SnapshotGrow ==
  ASSUME NEW lgd \in Seq(LinesT), NEW more \in Seq(LinesT), NEW q \in 0 .. Len(lgd), NEW db,
         Snapshot(lgd, db, q)
  PROVE  Snapshot(lgd \o more, db, q)
<1>1. AtOf(lgd \o more, q) = AtOf(lgd, q)
  BY AtGrow
<1> QED BY <1>1 DEF Snapshot

\* The positions of the follower survive a longer log.
LEMMA PointsGrow ==
  ASSUME NEW lgd \in Seq(LinesT), NEW more \in Seq(LinesT), NEW g \in Nat, NEW k \in Nat, NEW p \in Nat,
         NEW en, NEW pr, NEW dk, NEW fs, k <= Len(lgd), p <= Len(lgd),
         Points(lgd, g, k, p, en, pr, dk, fs)
  PROVE  Points(lgd \o more, g, k, p, en, pr, dk, fs)
<1>1. Len(lgd) \in Nat /\ Len(lgd \o more) \in Nat /\ Len(lgd) <= Len(lgd \o more)
  BY ConcatIs
<1>2. \A n \in 0 .. Len(lgd) : AtOf(lgd \o more, n) = AtOf(lgd, n)
  BY AtGrow
<1>3. AtOf(lgd \o more, k) = AtOf(lgd, k) /\ AtOf(lgd \o more, p) = AtOf(lgd, p)
  BY <1>1, <1>2
<1>4. \A q \in g .. Len(lgd) : q \in 0 .. Len(lgd) /\ q \in g .. Len(lgd \o more)
  BY <1>1
<1>5. ASSUME pr.pc = "hello" /\ FirstIs(fs, "snapshot")
      PROVE  \E q \in g .. Len(lgd \o more) :
               /\ k <= q /\ Snapshot(lgd \o more, fs[1].db, q)
               /\ Len(fs) > 1 => fs[2].n = 2 * (q - g)
  <2>1. PICK q \in g .. Len(lgd) :
            /\ k <= q /\ Snapshot(lgd, fs[1].db, q)
            /\ Len(fs) > 1 => fs[2].n = 2 * (q - g)
    BY <1>5 DEF Points
  <2>2. q \in 0 .. Len(lgd)
    BY <1>4
  <2>3. Snapshot(lgd \o more, fs[1].db, q)
    BY <2>1, <2>2, SnapshotGrow, Zenon
  <2>4. q \in g .. Len(lgd \o more)
    BY <1>4
  <2> QED BY <2>1, <2>3, <2>4, Zenon
<1>6. Snapshot(lgd, dk.db, p) => Snapshot(lgd \o more, dk.db, p)
  BY <1>3 DEF Snapshot
<1> QED BY <1>3, <1>5, <1>6 DEF Points

\* The primary's steps as a follower sees them.
LEMMA FollowerPrim ==
  ASSUME TypeInv, TypeInv', LogInv, FollowerInv, role = "follower",
         Client \/ Log \/ Mark \/ Truncate \/ Poll, ~Met({"truncate", "crash", "marker"})', mishaps \subseteq mishaps'
  PROVE  FollowerInv'
<1>1. /\ log \in Seq(LinesT) /\ logged \in Seq(LinesT) /\ Len(log) \in Nat /\ Len(logged) \in Nat
      /\ peer \in Peers /\ disk \in Disks /\ disk.wal \in Seq(Halves)
  BY Basics
<1>2. CASE Client \/ Poll
  BY <1>2 DEF Client, Execute, Begin, Statement, End, Poll, FollowerInv, Gone, Met, linkVars, peerVars, primVars, vars
<1>3. CASE Log
  <2>1. prim.recs \in Seq(LinesT)
    BY DEF TypeInv, PrimType, Prims
  <2>2. log' = log \o prim.recs /\ logged' = logged \o prim.recs /\ UNCHANGED <<role, mishaps, linkVars, peerVars>>
    BY <1>3 DEF Log
  <2>3. Gone' = Gone /\ Gone \in Nat /\ Len(logged) <= Len(logged') /\ Gone + Len(log) = Len(logged)
    <3>1. Gone' = Gone /\ Gone \in Nat
      BY <2>1, <2>2, LogGrows DEF LogInv
    <3>2. Len(logged') = Len(logged) + Len(prim.recs) /\ Len(prim.recs) \in Nat
      BY <1>1, <2>1, <2>2, ConcatIs
    <3> QED BY <1>1, <3>1, <3>2 DEF Gone
  <2>4. CASE Met({"fallback"}) /\ Stuck(log, peer, disk)
    <3>1. Linked(log, disk.wal) => Linked(log', disk.wal)
      BY <1>1, <2>1, <2>2, LinkedGrow
    <3>2. Stuck(log', peer', disk') /\ Met({"fallback"})'
      BY <2>2, <2>4, <3>1 DEF Stuck, peerVars, Met
    <3> QED BY <3>2, FollowerAfter
  <2>5. CASE \E k, p \in Nat :
               /\ k <= Len(logged) /\ p <= Len(logged)
               /\ Settled(log, Gone, k, p, peer, disk) \/ Fresh(peer, disk)
               /\ ~Met({"snapshot"}) => Points(logged, Gone, k, p, eng, peer, disk, net)
    <3>1. PICK k \in Nat, p \in Nat :
               /\ k <= Len(logged) /\ p <= Len(logged)
               /\ Settled(log, Gone, k, p, peer, disk) \/ Fresh(peer, disk)
               /\ ~Met({"snapshot"}) => Points(logged, Gone, k, p, eng, peer, disk, net)
      BY <2>5
    <3>2. k <= Len(logged') /\ p <= Len(logged') /\ p <= Gone + Len(log)
      <4>1. Len(logged') \in Nat
        BY DEF TypeInv, PrimType
      <4> QED BY <1>1, <2>3, <3>1, <4>1
    <3>3. Settled(log, Gone, k, p, peer, disk) => Settled(log', Gone', k, p, peer', disk')
      <4>1. Settled(log, Gone, k, p, peer, disk) => Settled(log \o prim.recs, Gone, k, p, peer, disk)
        BY <1>1, <2>1, <2>3, <3>2, SettledGrow
      <4> QED BY <2>2, <2>3, <4>1 DEF peerVars
    <3>4. Fresh(peer, disk) => Fresh(peer', disk')
      BY <2>2 DEF peerVars
    <3>5. Points(logged, Gone, k, p, eng, peer, disk, net) => Points(logged', Gone', k, p, eng', peer', disk', net')
      <4>1. Points(logged, Gone, k, p, eng, peer, disk, net) => Points(logged \o prim.recs, Gone, k, p, eng, peer, disk, net)
        BY <1>1, <2>1, <2>3, <3>1, PointsGrow
      <4> QED BY <2>2, <2>3, <4>1 DEF peerVars, linkVars
    <3>6. Met({"snapshot"})' <=> Met({"snapshot"})
      BY <2>2 DEF Met
    <3> QED BY <3>1, <3>2, <3>3, <3>4, <3>5, <3>6, FollowerAfter
  <2> QED BY <2>4, <2>5, FollowerBefore
<1>4. CASE Mark
  BY <1>4 DEF Mark, Meets, When, Met
<1>5. CASE Truncate
  <2>1. Unread /\ log' = <<>> /\ UNCHANGED <<role, logged, linkVars, peerVars>>
    BY <1>5 DEF Truncate, Meets, When, Met
  <2>2. peer = Down /\ peer.pc = "down" /\ disk.side = 0 /\ disk.wal = <<>>
    BY <2>1, DownType DEF Unread, TypeInv, LinkType
  <2>3. ~Stuck(log, peer, disk)
    BY <2>2 DEF Stuck
  <2>4. PICK k \in Nat, p \in Nat :
               /\ k <= Len(logged) /\ p <= Len(logged)
               /\ ~Met({"snapshot"}) => Points(logged, Gone, k, p, eng, peer, disk, net)
    BY <2>3, FollowerBefore
  <2>5. Fresh(peer', disk')
    BY <2>1, <2>2 DEF Fresh, Moving, peerVars
  <2>6. ~Met({"snapshot"})' => ~Met({"snapshot"})
    BY DEF Met
  <2>7. Points(logged, Gone, k, p, eng, peer, disk, net) => Points(logged', Gone', k, p, eng', peer', disk', net')
    BY <2>1, <2>2 DEF Points, linkVars, peerVars
  <2> QED BY <2>1, <2>4, <2>5, <2>6, <2>7, FollowerAfter
<1> QED BY <1>2, <1>3, <1>4, <1>5

\* Frames added or lost at the far end do not matter to the follower's points.
LEMMA FollowerNet ==
  ASSUME TypeInv, TypeInv', FollowerInv, role = "follower", ~Met({"truncate", "crash", "marker"})',
         UNCHANGED <<mishaps, primVars, eng, peer, disk>>,
         peer.pc \in {"hello", "restore"} /\ net' # <<>> => net # <<>> /\ net'[1] = net[1],
         peer.pc = "hello" /\ net # <<>> /\ net[1].kind = "snapshot" /\ Len(net') > 1 =>
            Len(net) > 1 /\ net'[2] = net[2]
  PROVE  FollowerInv'
<1>1. Gone' = Gone /\ logged' = logged /\ log' = log
  BY DEF primVars, Gone
<1>2. (Met({"snapshot"})' <=> Met({"snapshot"})) /\ (Met({"fallback"})' <=> Met({"fallback"}))
  BY DEF Met
<1>3. CASE Met({"fallback"}) /\ Stuck(log, peer, disk)
  BY <1>1, <1>2, <1>3, FollowerAfter
<1>4. CASE \E k, p \in Nat :
             /\ k <= Len(logged) /\ p <= Len(logged)
             /\ Settled(log, Gone, k, p, peer, disk) \/ Fresh(peer, disk)
             /\ ~Met({"snapshot"}) => Points(logged, Gone, k, p, eng, peer, disk, net)
  <2>1. PICK k \in Nat, p \in Nat :
             /\ k <= Len(logged) /\ p <= Len(logged)
             /\ Settled(log, Gone, k, p, peer, disk) \/ Fresh(peer, disk)
             /\ ~Met({"snapshot"}) => Points(logged, Gone, k, p, eng, peer, disk, net)
    BY <1>4
  <2>2. ASSUME Points(logged, Gone, k, p, eng, peer, disk, net)
        PROVE  Points(logged, Gone, k, p, eng, peer, disk, net')
    <3>1. ASSUME peer.pc = "hello", FirstIs(net', "snapshot")
          PROVE  \E q \in Gone .. Len(logged) :
                    /\ k <= q /\ Snapshot(logged, net'[1].db, q)
                    /\ Len(net') > 1 => net'[2].n = 2 * (q - Gone)
      <4>1. net # <<>> /\ net'[1] = net[1] /\ net[1].kind = "snapshot"
        BY <3>1 DEF FirstIs
      <4>2. PICK q \in Gone .. Len(logged) :
                    /\ k <= q /\ Snapshot(logged, net[1].db, q)
                    /\ Len(net) > 1 => net[2].n = 2 * (q - Gone)
        BY <2>2, <3>1, <4>1 DEF Points, FirstIs
      <4>3. Len(net') > 1 => net'[2].n = 2 * (q - Gone)
        BY <3>1, <4>1, <4>2
      <4> QED BY <4>1, <4>2, <4>3, Zenon
    <3>2. peer.pc = "restore" /\ net' # <<>> => net'[1].n = 2 * (p - Gone)
      BY <2>2 DEF Points
    <3> QED BY <2>2, <3>1, <3>2 DEF Points
  <2> QED BY <1>1, <1>2, <2>1, <2>2, FollowerAfter
<1> QED BY <1>3, <1>4, FollowerBefore

\* The follower is not touched by bytes sent to it.
LEMMA FollowerSend ==
  ASSUME TypeInv, TypeInv', NetInv, FollowerInv, role = "follower", SendBytes,
         ~Met({"truncate", "crash", "marker"})'
  PROVE  FollowerInv'
<1>1. link = "up" /\ UNCHANGED <<role, mishaps, primVars, link, peerVars, count>>
  BY DEF SendBytes
<1>2. PICK fr : net' = Append(net, fr)
  BY DEF SendBytes
<1>3. net \in Seq(FrameSet) /\ peer \in Peers
  BY Basics
<1>4. Incoming(log, peer, net, sent, link, role)
  BY DEF NetInv
<1>5. ASSUME peer.pc \in {"hello", "restore"} PROVE net # <<>> /\ net'[1] = net[1]
  <2>1. net # <<>>
    BY <1>1, <1>4, <1>5 DEF Incoming, Hello, Awaits
  <2>2. Len(net) \in Nat /\ Len(net) # 0
    BY <1>3, <2>1
  <2>3. 1 \in 1 .. Len(net)
    BY <2>2
  <2> QED BY <1>2, <1>3, <2>1, <2>3
<1>6. ASSUME peer.pc = "hello", net # <<>>, net[1].kind = "snapshot" PROVE Len(net) > 1 /\ net'[2] = net[2]
  <2>1. Awaits(log, Tail(net), sent, link, role)
    BY <1>4, <1>6 DEF Incoming, Hello
  <2>2. Tail(net) # <<>>
    BY <1>1, <2>1 DEF Awaits
  <2>3. Len(net) \in Nat /\ Len(net) > 1
    <3>1. Tail(net) \in Seq(FrameSet) /\ Len(Tail(net)) = Len(net) - 1 /\ Len(net) \in Nat
      BY <1>3, <1>6
    <3>2. Len(Tail(net)) # 0
      BY <2>2, <3>1
    <3>3. Len(Tail(net)) \in Nat
      BY <3>1
    <3> QED BY <3>1, <3>2, <3>3
  <2>4. 2 \in 1 .. Len(net)
    BY <2>3
  <2> QED BY <1>2, <1>3, <2>3, <2>4
<1> QED BY <1>1, <1>5, <1>6, FollowerNet DEF peerVars

\* The follower is not touched by a cut.
LEMMA FollowerCut ==
  ASSUME TypeInv, TypeInv', FollowerInv, role = "follower", Cut, ~Met({"truncate", "crash", "marker"})'
  PROVE  FollowerInv'
<1>1. UNCHANGED <<role, mishaps, primVars, peerVars>>
  BY DEF Cut
<1>2. PICK n \in 0 .. Len(net) : net' = SubSeq(net, 1, n)
  BY DEF Cut
<1>3. net \in Seq(FrameSet) /\ Len(net) \in Nat
  BY Basics
<1>4. Len(net') = n /\ n \in Nat /\ \A i \in 1 .. n : net'[i] = net[i]
  BY <1>2, <1>3, FramesCut DEF TypeInv, LinkType
<1>5. ASSUME net' # <<>> PROVE net # <<>> /\ net'[1] = net[1]
  <2>1. n # 0
    BY <1>2, <1>3, <1>5
  <2>2. 1 \in 1 .. n /\ Len(net) # 0
    BY <1>3, <1>4, <2>1
  <2> QED BY <1>3, <1>4, <2>2
<1>6. ASSUME Len(net') > 1 PROVE Len(net) > 1 /\ net'[2] = net[2]
  <2>1. 2 \in 1 .. n /\ Len(net) > 1
    BY <1>3, <1>4, <1>6
  <2> QED BY <1>4, <2>1
<1> QED BY <1>1, <1>5, <1>6, FollowerNet DEF peerVars

\* The end of the stream.
LEMMA FollowerHangUp ==
  ASSUME TypeInv, TypeInv', LogInv, NetInv, FileInv, FollowerInv, role = "follower", HangUp,
         ~Met({"truncate", "crash", "marker"})', mishaps \subseteq mishaps'
  PROVE  FollowerInv'
<1>1. /\ Len(log) \in Nat /\ Len(logged) \in Nat /\ peer.pos \in Nat /\ Len(peer.pend) \in Nat
      /\ Len(disk.wal) \in Nat /\ disk.side \in Nat
  BY Basics
<1>2. /\ net = <<>> /\ peer.pc \in {"hello", "restore", "stream"} /\ peer' = Down
      /\ UNCHANGED <<role, primVars, net, eng, atom, disk, start, drift, count>>
  BY DEF HangUp
<1>3. peer'.pc = "down" /\ peer'.pend = <<>> /\ peer'.vol = 0 /\ ~Moving(peer')
  BY <1>2, DownType DEF Moving
<1>4. Gone' = Gone /\ logged' = logged /\ log' = log
  BY <1>2 DEF primVars, Gone
<1>5. CASE Met({"fallback"}) /\ Stuck(log, peer, disk)
  <2>1. Stuck(log', peer', disk')
    BY <1>2, <1>3, <1>4, <1>5 DEF Stuck
  <2>2. Met({"fallback"})'
    BY <1>5 DEF Met
  <2> QED BY <2>1, <2>2, FollowerAfter
<1>6. CASE \E k, p \in Nat :
             /\ k <= Len(logged) /\ p <= Len(logged)
             /\ Settled(log, Gone, k, p, peer, disk) \/ Fresh(peer, disk)
             /\ ~Met({"snapshot"}) => Points(logged, Gone, k, p, eng, peer, disk, net)
  <2>1. PICK k \in Nat, p \in Nat :
             /\ k <= Len(logged) /\ p <= Len(logged)
             /\ Settled(log, Gone, k, p, peer, disk) \/ Fresh(peer, disk)
             /\ ~Met({"snapshot"}) => Points(logged, Gone, k, p, eng, peer, disk, net)
    BY <1>6
  <2>2. Fresh(peer, disk) => Fresh(peer', disk')
    BY <1>2, <1>3 DEF Fresh
  <2>3. Moving(peer) => peer.pos = disk.side /\ Len(peer.pend) < 2
    BY <1>2 DEF FileInv, Moving
  <2>3a. Gone \in Nat
    BY <1>1 DEF LogInv, Gone
  <2>4. ASSUME Settled(log, Gone, k, p, peer, disk)
        PROVE  Settled(log, Gone, k, p, peer', disk) /\ disk.side = 2 * (k - Gone) /\ Gone <= p
    <3>1. disk.side = 2 * (k - Gone)
      BY <2>3, <2>4 DEF Settled
    <3>2. LocalLog(log, 2 * (p - Gone), peer, disk)
      BY <2>4 DEF Settled
    <3>3. LocalLog(log, 2 * (p - Gone), peer', disk)
      <4>1. CASE Moving(peer)
        <5> DEFINE a == 2 * (p - Gone)
        <5>1. a \in Nat
          BY <2>3a, <2>4 DEF Settled
        <5> HIDE DEF a
        <5>2. a + Len(disk.wal) = peer.pos + Len(peer.pend) \/ a + Len(disk.wal) = peer.pos + 1
                => a + Len(disk.wal) = disk.side \/ a + Len(disk.wal) = disk.side + 1
          <6>0. Len(peer.pend) < 2 /\ Len(peer.pend) \in Nat
            BY <1>1, <2>3, <4>1
          <6>1. \A x, l, q, b \in Nat : l < 2 /\ (x + b = q + l \/ x + b = q + 1) => x + b = q \/ x + b = q + 1
            OBVIOUS
          <6>2. peer.pos = disk.side
            BY <2>3, <4>1
          <6>3. peer.pos \in Nat /\ Len(disk.wal) \in Nat
            BY <1>1
          <6>4. \A l, q, b \in Nat : l < 2 /\ (a + b = q + l \/ a + b = q + 1) => a + b = q \/ a + b = q + 1
            BY <5>1, <6>1, Zenon
          <6>5. \A q, b \in Nat : (a + b = q + Len(peer.pend) \/ a + b = q + 1) => a + b = q \/ a + b = q + 1
            BY <6>0, <6>4, Zenon
          <6> QED BY <6>2, <6>3, <6>5, Zenon
        <5>3. LocalLog(log, a, peer, disk)
          BY <3>2 DEF a
        <5>4. LocalLog(log, a, peer', disk)
          BY <1>3, <4>1, <5>2, <5>3 DEF LocalLog
        <5> QED BY <5>4 DEF a
      <4>2. CASE ~Moving(peer)
        BY <1>3, <3>2, <4>2 DEF LocalLog
      <4> QED BY <4>1, <4>2
    <3> QED BY <1>3, <2>4, <3>1, <3>3 DEF Settled
  <2>5. Settled(log', Gone', k, p, peer', disk') \/ Fresh(peer', disk')
    BY <1>2, <1>4, <2>1, <2>2, <2>4
  <2>6. ASSUME Fresh(peer', disk'), disk.db # {}, Points(logged, Gone, k, p, eng, peer, disk, net) PROVE k <= p
    <3>1. CASE Fresh(peer, disk)
      BY <2>6, <3>1 DEF Points
    <3>2. CASE Settled(log, Gone, k, p, peer, disk)
      <4>1. disk.side = 0
        BY <1>2, <2>6 DEF Fresh
      <4> QED BY <2>3a, <2>4, <3>2, <4>1
    <3> QED BY <2>1, <3>1, <3>2
  <2>7. Points(logged, Gone, k, p, eng, peer, disk, net) => Points(logged', Gone', k, p, eng', peer', disk', net')
    BY <1>2, <1>3, <1>4, <2>6 DEF Points
  <2>8. ~Met({"snapshot"})' => ~Met({"snapshot"})
    BY DEF Met
  <2> QED BY <1>4, <2>1, <2>5, <2>7, <2>8, FollowerAfter
<1> QED BY <1>5, <1>6, FollowerBefore

\* A log that has been replayed to its end.
LEMMA AtEnd ==
  ASSUME NEW lgd \in Seq(LinesT)
  PROVE  AtOf(lgd, Len(lgd)) = Replayed(Engine(Nothing), lgd \o <<>>)
<1>1. SubSeq(lgd, 1, Len(lgd)) = lgd /\ lgd \o <<>> = lgd
  OBVIOUS
<1> QED BY <1>1 DEF AtOf

\* The handshake takes the state after all of the log.
LEMMA FollowerConnect ==
  ASSUME TypeInv, TypeInv', LogInv, PrimInv, NetInv, FileInv, FollowerInv, role = "follower", Connect,
         ~Met({"truncate", "crash", "marker"})', mishaps \subseteq mishaps'
  PROVE  FollowerInv'
<1>1. /\ Len(log) \in Nat /\ Len(logged) \in Nat /\ Size = 2 * Len(log) /\ disk.side \in Nat /\ atom \in Nat
      /\ logged \in Seq(LinesT) /\ mem \in Databases /\ Len(disk.wal) \in Nat
  BY Basics DEF TypeInv, PrimType
<1>2. /\ peer.pc = "down" /\ peer' = [Down EXCEPT !.pc = "hello", !.pos = StartOffset]
      /\ UNCHANGED <<role, primVars, eng, disk, start, drift, count>>
  BY DEF Connect
<1>3. /\ peer'.pc = "hello" /\ peer'.pos = StartOffset /\ peer'.pend = <<>> /\ peer'.vol = 0
      /\ ~Moving(peer') /\ ~Moving(peer)
  BY <1>2 DEF Moving, Down
<1>4. Gone' = Gone /\ logged' = logged /\ log' = log
  BY <1>2 DEF primVars, Gone
<1>5. CASE Met({"fallback"}) /\ Stuck(log, peer, disk)
  <2>1. StartOffset = 1
    <3>1. disk.side = 1 /\ disk.db # {}
      BY <1>5 DEF Stuck
    <3>2. atom = 0 \/ atom = 1
      BY <3>1 DEF FileInv
    <3> QED BY <3>1, <3>2 DEF StartOffset, Seeded
  <2>2. Stuck(log', peer', disk')
    BY <1>2, <1>3, <1>4, <1>5, <2>1 DEF Stuck
  <2>3. Met({"fallback"})'
    BY <1>5 DEF Met
  <2> QED BY <2>2, <2>3, FollowerAfter
<1>6. CASE \E k, p \in Nat :
             /\ k <= Len(logged) /\ p <= Len(logged)
             /\ Settled(log, Gone, k, p, peer, disk) \/ Fresh(peer, disk)
             /\ ~Met({"snapshot"}) => Points(logged, Gone, k, p, eng, peer, disk, net)
  <2>1. PICK k \in Nat, p \in Nat :
             /\ k <= Len(logged) /\ p <= Len(logged)
             /\ Settled(log, Gone, k, p, peer, disk) \/ Fresh(peer, disk)
             /\ ~Met({"snapshot"}) => Points(logged, Gone, k, p, eng, peer, disk, net)
    BY <1>6
  <2>2. (Fresh(peer, disk) <=> Fresh(peer', disk')) /\ (LocalLog(log, 2 * (p - Gone), peer, disk) => LocalLog(log, 2 * (p - Gone), peer', disk'))
    BY <1>2, <1>3 DEF Fresh, LocalLog
  <2>3. Settled(log', Gone', k, p, peer', disk') \/ Fresh(peer', disk')
    BY <1>2, <1>3, <1>4, <2>1, <2>2 DEF Settled
  <2>4. ASSUME ~Met({"snapshot"})', FirstIs(net', "snapshot")
        PROVE  \E q \in Gone .. Len(logged) :
                  /\ k <= q /\ Snapshot(logged, net'[1].db, q)
                  /\ Len(net') > 1 => net'[2].n = 2 * (q - Gone)
    <3>1. StartOffset = 0
      <4> SUFFICES ASSUME StartOffset # 0 PROVE FALSE
        OBVIOUS
      <4>1. net' = <<Frame("resume")>>
        BY DEF Connect
      <4> QED BY <2>4, <4>1, FrameType DEF FirstIs
    <3> DEFINE a == [Frame("snapshot") EXCEPT !.db = {mem}]
               b == [Frame("position") EXCEPT !.n = Size]
    <3>2. net' = <<a, b>>
      BY <3>1 DEF Connect
    <3>3. a \in FrameSet /\ a.db = {mem} /\ b \in FrameSet /\ b.n = Size
      BY <1>1, FrameType
    <3> HIDE DEF a, b
    <3>4. net'[1].db = {mem} /\ net'[2].n = Size
      BY <3>2, <3>3
    <3>5. Quiet
      BY <2>4, <3>1 DEF Connect, Meets, When, Met
    <3>6. Same(Replayed(Engine(Nothing), logged \o prim.recs), Primary)
      BY FollowerBefore DEF PrimInv
    <3>7. Same(AtOf(logged, Len(logged)), Primary)
      BY <1>1, <3>5, <3>6, AtEnd DEF Quiet, Idle
    <3>8. Snapshot(logged, net'[1].db, Len(logged))
      BY <3>4, <3>5, <3>7 DEF Snapshot, Same, Primary, Quiet
    <3>9. Len(logged) \in Gone .. Len(logged) /\ Size = 2 * (Len(logged) - Gone)
      BY <1>1 DEF Gone, LogInv
    <3> QED BY <2>1, <3>4, <3>8, <3>9
  <2>5. ~Met({"snapshot"})' => ~Met({"snapshot"})
    BY DEF Met
  <2>6. ~Met({"snapshot"})' => Points(logged', Gone', k, p, eng', peer', disk', net')
    BY <1>2, <1>3, <1>4, <2>1, <2>2, <2>4, <2>5 DEF Points
  <2> QED BY <1>4, <2>1, <2>3, <2>6, FollowerAfter
<1> QED BY <1>5, <1>6, FollowerBefore

\* The follower resumes.
LEMMA FollowerResume ==
  ASSUME TypeInv, TypeInv', LogInv, NetInv, FileInv, FollowerInv, role = "follower", Resume,
         ~Met({"truncate", "crash", "marker"})', mishaps \subseteq mishaps'
  PROVE  FollowerInv'
<1>1. /\ Len(log) \in Nat /\ Len(logged) \in Nat /\ Size = 2 * Len(log) /\ disk.side \in Nat
      /\ log \in Seq(LinesT) /\ Len(disk.wal) \in Nat /\ peer.pos \in Nat /\ disk.wal \in Seq(Halves)
  BY Basics
<1>1a. peer \in Peers /\ disk \in Disks /\ net \in Seq(FrameSet)
  BY Basics
<1>2. /\ peer.pc = "hello" /\ net # <<>> /\ Head(net).kind = "resume" /\ peer' = [peer EXCEPT !.pc = "stream"]
      /\ disk' = [disk EXCEPT !.side = peer.pos]
      /\ UNCHANGED <<role, mishaps, primVars, eng>>
  BY DEF Resume, Arrives, StorePosition
<1>3. net[1].kind = "resume" /\ FirstIs(net, "resume")
  <2>1. Head(net) = net[1]
    BY <1>1a, <1>2
  <2> QED BY <1>2, <2>1 DEF FirstIs
<1>4. Gone' = Gone /\ logged' = logged /\ log' = log
  BY <1>2 DEF primVars, Gone
<1>5. /\ peer'.pc = "stream" /\ peer'.pos = peer.pos /\ peer'.pend = peer.pend /\ peer'.vol = peer.vol
      /\ Moving(peer') /\ ~Moving(peer)
  BY <1>1a, <1>2 DEF Moving, Peers
<1>6. disk'.side = peer.pos /\ disk'.wal = disk.wal /\ disk'.db = disk.db
  BY <1>1a, <1>2 DEF Disks
<1>7. peer.pend = <<>> /\ peer.vol = 0 /\ peer.pos > 0
  BY <1>2, <1>3 DEF NetInv, Incoming, Hello
<1>8. disk.db # {} /\ (disk.side > 0 => peer.pos = disk.side)
      /\ (~(disk.side > 0) => peer.pos = Len(disk.wal) /\ Met({"fallback"}))
  BY <1>2, <1>3 DEF FileInv
<1>9. (Met({"fallback"})' <=> Met({"fallback"})) /\ (Met({"snapshot"})' <=> Met({"snapshot"}))
  BY <1>2 DEF Met
<1>10. Len(peer'.pend) = 0
  BY <1>5, <1>7
<1>11. CASE Met({"fallback"}) /\ Stuck(log, peer, disk)
  <2>1. Stuck(log', peer', disk')
    BY <1>2, <1>4, <1>5, <1>6, <1>7, <1>11 DEF Stuck
  <2> QED BY <1>9, <1>11, <2>1, FollowerAfter
<1>12. CASE \E k, p \in Nat :
             /\ k <= Len(logged) /\ p <= Len(logged)
             /\ Settled(log, Gone, k, p, peer, disk) \/ Fresh(peer, disk)
             /\ ~Met({"snapshot"}) => Points(logged, Gone, k, p, eng, peer, disk, net)
  <2>1. PICK k \in Nat, p \in Nat :
             /\ k <= Len(logged) /\ p <= Len(logged)
             /\ Settled(log, Gone, k, p, peer, disk) \/ Fresh(peer, disk)
             /\ ~Met({"snapshot"}) => Points(logged, Gone, k, p, eng, peer, disk, net)
    BY <1>12
  <2>2. ~Fresh(peer, disk)
    BY <1>7, <1>8 DEF Fresh
  <2>3. Settled(log, Gone, k, p, peer, disk)
    BY <2>1, <2>2
  <2>4. Gone \in Nat /\ Gone <= p /\ disk.side = 2 * (k - Gone) /\ LocalLog(log, 2 * (p - Gone), peer, disk)
    BY <1>1, <1>5, <2>3 DEF Settled, LogInv, Gone
  <2> DEFINE a == 2 * (p - Gone)
  <2>5. a \in Nat
    BY <2>4
  <2>6. LocalLog(log, a, peer, disk)
    BY <2>4
  <2>7. CASE disk.side > 0
    <3> HIDE DEF a
    <3>1. LocalLog(log, a, peer', disk')
      <4>1. CASE Damaged(disk.wal)
        BY <1>6, <1>8, <2>7, <4>1 DEF LocalLog
      <4>2. CASE Contig(log, disk.wal, a) /\ a + Len(disk.wal) = disk.side
        <5>1. a + Len(disk.wal) = peer'.pos + Len(peer'.pend)
          <6>1. peer'.pos + Len(peer'.pend) = peer.pos
            BY <1>1, <1>5, <1>10
          <6> QED BY <1>8, <2>7, <4>2, <6>1
        <5> QED BY <1>5, <1>6, <4>2, <5>1 DEF LocalLog
      <4>3. CASE Contig(log, disk.wal, a) /\ a + Len(disk.wal) = disk.side + 1
        <5>1. a + Len(disk.wal) = peer'.pos + 1 /\ disk'.side > 0
          BY <1>5, <1>6, <1>7, <1>8, <2>7, <4>3
        <5> QED BY <1>5, <1>6, <1>7, <4>3, <5>1 DEF LocalLog
      <4> QED BY <1>5, <2>6, <4>1, <4>2, <4>3 DEF LocalLog
    <3>2. LocalLog(log, 2 * (p - Gone), peer', disk')
      BY <3>1 DEF a
    <3>3. Settled(log', Gone', k, p, peer', disk')
      BY <1>4, <1>5, <1>6, <1>8, <2>3, <2>4, <2>7, <3>2 DEF Settled
    <3>4. Points(logged, Gone, k, p, eng, peer, disk, net) => Points(logged', Gone', k, p, eng', peer', disk', net')
      BY <1>2, <1>4, <1>5, <1>6, <1>8 DEF Points, Fresh
    <3> QED BY <1>4, <1>9, <2>1, <3>3, <3>4, FollowerAfter
  <2>8. CASE ~(disk.side > 0)
    <3>1. disk.side = 0 /\ peer.pos = Len(disk.wal) /\ Met({"fallback"})
      BY <1>1, <1>8, <2>8
    <3>2. Contig(log, disk.wal, a) /\ (a + Len(disk.wal) = 0 \/ a + Len(disk.wal) = 1)
      BY <1>5, <2>6, <3>1 DEF LocalLog
    <3>3. peer.pos = 1 /\ a = 0
      <4>1. a + peer.pos = 0 \/ a + peer.pos = 1
        BY <3>1, <3>2
      <4> HIDE DEF a
      <4> QED BY <1>1, <1>7, <2>5, <4>1
    <3>4. Len(disk.wal) = 1 /\ disk.wal[1] = UnitAt(log, 0 + 1) /\ 1 <= 2 * Len(log) /\ disk.wal # <<>>
      <4>1. Len(disk.wal) = 1
        BY <3>1, <3>3
      <4>2. Contig(log, disk.wal, 0)
        BY <3>2, <3>3
      <4> QED BY <1>1, <4>1, <4>2 DEF Contig
    <3>5. UnitAt(log, 2 * 0 + 1) = Unit(log[0 + 1], 1)
      BY HalvesOf
    <3>6. disk.wal[1].rec = log[1] /\ 1 \in 1 .. Len(log)
      <4>1. disk.wal[1] = Unit(log[1], 1)
        BY <3>4, <3>5
      <4> QED BY <1>1, <3>4, <4>1 DEF Unit
    <3>7. ~(log[1].kind = "SQL" /\ log[1].w \in Volatile)
      BY <3>6 DEF LogInv, Paired
    <3>8. Linked(log, disk.wal)
      BY <3>4, <3>6, <3>7 DEF Linked
    <3>9. Stuck(log', peer', disk')
      BY <1>4, <1>5, <1>6, <1>7, <1>8, <3>3, <3>8 DEF Stuck
    <3> QED BY <1>9, <3>1, <3>9, FollowerAfter
  <2> QED BY <2>7, <2>8
<1> QED BY <1>11, <1>12, FollowerBefore

\* The snapshot arrives.
LEMMA FollowerSnapshot ==
  ASSUME TypeInv, TypeInv', LogInv, NetInv, FileInv, FollowerInv, role = "follower", WriteSnapshot,
         ~Met({"truncate", "crash", "marker"})', mishaps \subseteq mishaps'
  PROVE  FollowerInv'
<1>1. /\ Len(log) \in Nat /\ Len(logged) \in Nat /\ logged \in Seq(LinesT)
  BY Basics
<1>1a. peer \in Peers /\ disk \in Disks /\ net \in Seq(FrameSet) /\ Len(net) \in Nat
  BY Basics
<1>2. /\ peer.pc = "hello" /\ net # <<>> /\ Head(net).kind = "snapshot" /\ peer' = [peer EXCEPT !.pc = "restore"]
      /\ disk' = [disk EXCEPT !.db = Head(net).db] /\ net' = Tail(net)
      /\ UNCHANGED <<role, mishaps, primVars, eng>>
  BY DEF WriteSnapshot, Arrives
<1>3. Head(net) = net[1]
  BY <1>1a, <1>2
<1>4. Gone' = Gone /\ logged' = logged /\ log' = log
  BY <1>2 DEF primVars, Gone
<1>5. peer'.pc = "restore" /\ ~Moving(peer') /\ ~Moving(peer)
  BY <1>1a, <1>2 DEF Moving, Peers
<1>6. disk'.side = disk.side /\ disk'.wal = disk.wal /\ disk'.db = net[1].db
  BY <1>1a, <1>2, <1>3 DEF Disks
<1>7. disk.wal = <<>> /\ disk.side = 0 /\ FirstIs(net, "snapshot")
  BY <1>2, <1>3 DEF FileInv, FirstIs
<1>8. Fresh(peer, disk) /\ Fresh(peer', disk') /\ ~Stuck(log, peer, disk)
  BY <1>5, <1>6, <1>7 DEF Fresh, Stuck
<1>9. net[1].db # {}
  <2>1. FrameOK(net[1], role)
    BY <1>1a, <1>2, FramesTail DEF TypeInv, LinkType
  <2> QED BY <1>2, <1>3, <2>1 DEF FrameOK
<1>10. Met({"snapshot"})' <=> Met({"snapshot"})
  BY <1>2 DEF Met
<1>11. PICK k \in Nat, p \in Nat :
             /\ k <= Len(logged) /\ p <= Len(logged)
             /\ ~Met({"snapshot"}) => Points(logged, Gone, k, p, eng, peer, disk, net)
  BY <1>8, FollowerBefore
<1>12. CASE Met({"snapshot"})
  BY <1>4, <1>8, <1>10, <1>11, <1>12, FollowerAfter
<1>13. CASE ~Met({"snapshot"})
  <2>1. PICK q \in Gone .. Len(logged) :
               /\ k <= q /\ Snapshot(logged, net[1].db, q)
               /\ Len(net) > 1 => net[2].n = 2 * (q - Gone)
    BY <1>2, <1>7, <1>11, <1>13 DEF Points
  <2>2. Gone \in Nat /\ q \in Nat /\ q <= Len(logged)
    <3>1. Gone \in Nat
      BY <1>1 DEF LogInv, Gone
    <3> QED BY <1>1, <3>1
  <2>3. net' # <<>> => net'[1] = net[2] /\ Len(net) > 1
    <3>1. Tail(net) \in Seq(FrameSet) /\ Len(Tail(net)) = Len(net) - 1
      BY <1>1a, <1>2
    <3>2. net' # <<>> => Len(net) > 1
      BY <1>1a, <1>2, <3>1
    <3>3. Len(net) > 1 => 1 \in 1 .. Len(Tail(net))
      BY <1>1a, <3>1
    <3>4. Len(net) > 1 => Tail(net)[1] = net[2]
      BY <1>1a, <1>2, <3>1, <3>3
    <3> QED BY <1>2, <3>2, <3>4
  <2>4. net' # <<>> => net'[1].n = 2 * (q - Gone)
    BY <2>1, <2>3
  <2>5. Points(logged', Gone', k, q, eng', peer', disk', net')
    <3>1. Same(eng', AtOf(logged', k))
      BY <1>2, <1>4, <1>11, <1>13 DEF Points
    <3> QED BY <1>4, <1>5, <1>6, <1>9, <2>1, <2>4, <3>1 DEF Points
  <2> QED BY <1>4, <1>8, <1>11, <2>2, <2>5, FollowerAfter
<1> QED BY <1>12, <1>13

\* The position that goes with the snapshot arrives.
LEMMA FollowerRestore ==
  ASSUME TypeInv, TypeInv', LogInv, NetInv, FileInv, FollowerInv, role = "follower", Restore,
         ~Met({"truncate", "crash", "marker"})', mishaps \subseteq mishaps'
  PROVE  FollowerInv'
<1>1. /\ Len(log) \in Nat /\ Len(logged) \in Nat /\ logged \in Seq(LinesT) /\ log \in Seq(LinesT)
  BY Basics
<1>1a. peer \in Peers /\ disk \in Disks /\ net \in Seq(FrameSet) /\ disk.db \in SUBSET Databases
  BY Basics
<1>2. /\ peer.pc = "restore" /\ net # <<>> /\ Head(net).kind = "position"
      /\ peer' = [peer EXCEPT !.pc = "stream", !.pos = Head(net).n]
      /\ disk' = [disk EXCEPT !.wal = <<>>, !.side = Head(net).n] /\ net' = Tail(net)
      /\ UNCHANGED <<role, mishaps, primVars>>
  BY DEF Restore, Arrives
<1>3. Head(net) = net[1] /\ net[1] \in FrameSet
  BY <1>1a, <1>2
<1>4. Gone' = Gone /\ logged' = logged /\ log' = log
  BY <1>2 DEF primVars, Gone
<1>5. peer.pend = <<>>
  BY <1>2 DEF NetInv, Incoming
<1>6. PICK h \in Nat : net[1].n = 2 * h /\ h <= Len(log) /\ Clear(log, 2 * h)
  <2>1. net[1].n <= 2 * Len(log) /\ IsEven(net[1].n) /\ Clear(log, net[1].n)
    BY <1>2 DEF NetInv, Incoming, Awaits
  <2>2. PICK h \in Nat : net[1].n = 2 * h
    BY <2>1 DEF IsEven
  <2>3. h <= Len(log)
    BY <1>1, <2>1, <2>2
  <2> QED BY <2>1, <2>2, <2>3
<1>7. peer'.pc = "stream" /\ Moving(peer') /\ peer'.pos = 2 * h /\ peer'.pend = <<>>
  BY <1>1a, <1>2, <1>3, <1>5, <1>6 DEF Moving, Peers
<1>8. disk'.side = 2 * h /\ disk'.wal = <<>> /\ disk'.db = disk.db
  BY <1>1a, <1>2, <1>3, <1>6 DEF Disks
<1>9. Gone \in Nat /\ Gone + Len(log) = Len(logged)
  BY <1>1 DEF LogInv, Gone
<1> DEFINE k == Gone + h
<1>10. k \in Nat /\ k <= Len(logged) /\ 2 * (k - Gone) = 2 * h /\ Gone <= k
  BY <1>1, <1>6, <1>9
<1> HIDE DEF k
<1>11. Settled(log, Gone, k, k, peer', disk')
  <2>1. Contig(log, <<>>, 2 * h)
    BY <1>1, <1>6, ContigEmpty
  <2>2. 2 * h + Len(<<>>) = 2 * h
    OBVIOUS
  <2>3. LocalLog(log, 2 * h, peer', disk')
    BY <1>7, <1>8, <2>1, <2>2 DEF LocalLog
  <2>4. disk.db # {}
    BY <1>2 DEF FileInv
  <2>5. k <= k
    BY <1>10
  <2> QED BY <1>6, <1>7, <1>8, <1>10, <2>3, <2>4, <2>5 DEF Settled
<1>12. Met({"snapshot"})' <=> Met({"snapshot"})
  BY <1>2 DEF Met
<1>13. ASSUME ~Met({"snapshot"}) PROVE Points(logged, Gone, k, k, eng', peer', disk', net')
  <2>1. ~Stuck(log, peer, disk)
    BY <1>2 DEF Stuck
  <2>2. PICK i \in Nat, p \in Nat :
             /\ i <= Len(logged) /\ p <= Len(logged)
             /\ Points(logged, Gone, i, p, eng, peer, disk, net)
    BY <1>13, <2>1, FollowerBefore
  <2>3. p = k
    <3>1. 2 * h = 2 * (p - Gone)
      BY <1>2, <1>6, <2>2 DEF Points
    <3> QED BY <1>9, <3>1 DEF k
  <2>4. disk.db # {}
    BY <1>2 DEF FileInv
  <2>5. Snapshot(logged, disk.db, k)
    BY <2>2, <2>3, <2>4 DEF Points
  <2>6. PICK d \in disk.db : eng' = Engine(d)
    BY DEF Restore
  <2>7. Engine(d).base = d /\ ~Engine(d).open
    BY <1>1a, <2>6, EngineType
  <2>8. Same(eng', AtOf(logged, k))
    BY <2>5, <2>6, <2>7 DEF Same, Snapshot
  <2>9. ~Fresh(peer', disk')
    BY <1>7 DEF Fresh
  <2> QED BY <1>7, <1>8, <2>4, <2>5, <2>8, <2>9 DEF Points
<1> QED BY <1>4, <1>10, <1>11, <1>12, <1>13, FollowerAfter

\* A frame of the file arrives.
LEMMA LinkedFile ==
  ASSUME NEW lg \in Seq(LinesT), NEW us \in Seq(Halves), NEW c \in Nat, c >= 1, Contig(lg, us, c)
  PROVE  \A j \in 1 .. (Len(us) - 1) : us[j + 1].half = 1 =>
           \E m \in 1 .. (Len(lg) - 1) : us[j] = Unit(lg[m], 2) /\ us[j + 1] = Unit(lg[m + 1], 1)
<1> SUFFICES ASSUME NEW j \in 1 .. (Len(us) - 1), us[j + 1].half = 1
             PROVE  \E m \in 1 .. (Len(lg) - 1) : us[j] = Unit(lg[m], 2) /\ us[j + 1] = Unit(lg[m + 1], 1)
  OBVIOUS
<1>1. Len(us) \in Nat /\ Len(lg) \in Nat /\ c + Len(us) <= 2 * Len(lg)
  BY DEF Contig
<1>2. j \in 1 .. Len(us) /\ j + 1 \in 1 .. Len(us) /\ j \in Nat
  BY <1>1
<1>3. us[j] = UnitAt(lg, c + j) /\ us[j + 1] = UnitAt(lg, c + (j + 1))
  BY <1>2 DEF Contig
<1>4. PICK m \in Nat : c + j = 2 * m \/ c + j = 2 * m + 1
  <2>1. c + j \in Nat
    BY <1>2
  <2> QED BY <2>1, Parity
<1>5. CASE c + j = 2 * m + 1
  <2>1. c + (j + 1) = 2 * m + 2
    BY <1>2, <1>5
  <2>2. us[j + 1] = Unit(lg[m + 1], 2)
    BY <1>3, <2>1, HalvesOf
  <2> QED BY <2>2 DEF Unit
<1>6. CASE c + j = 2 * m
  <2>1. PICK i \in Nat : m = i + 1
    <3>1. m # 0
      BY <1>2, <1>6
    <3>2. m - 1 \in Nat /\ m = (m - 1) + 1
      BY <3>1
    <3> QED BY <3>2
  <2>2. c + j = 2 * i + 2 /\ c + (j + 1) = 2 * (i + 1) + 1
    BY <1>2, <1>6, <2>1
  <2>3. UnitAt(lg, 2 * i + 2) = Unit(lg[i + 1], 2)
    BY HalvesOf
  <2>4. i + 1 \in Nat
    BY <2>1
  <2>5. UnitAt(lg, 2 * (i + 1) + 1) = Unit(lg[(i + 1) + 1], 1)
    BY <2>4, HalvesOf
  <2>6. us[j] = Unit(lg[m], 2)
    BY <1>3, <2>1, <2>2, <2>3
  <2>7. us[j + 1] = Unit(lg[m + 1], 1)
    BY <1>3, <2>1, <2>2, <2>5
  <2>8. m \in 1 .. (Len(lg) - 1)
    BY <1>1, <1>2, <1>6, <2>1
  <2> QED BY <2>6, <2>7, <2>8
<1> QED BY <1>4, <1>5, <1>6

\* The bytes that arrive continue the local log of the follower.
LEMMA LinkedAppend ==
  ASSUME NEW lg \in Seq(LinesT), Paired(lg), NEW wal \in Seq(Halves), NEW pend \in Seq(Halves), NEW us \in Seq(Halves),
         Linked(lg, wal), Len(pend) < 2, Contig(lg, pend, 1), Contig(lg, us, 1 + Len(pend)), us # <<>>,
         pend # <<>> => wal # <<>> /\ wal[Len(wal)] = pend[Len(pend)]
  PROVE  Linked(lg, wal \o us)
<1> DEFINE big == wal \o us
<1>1. /\ big \in Seq(Halves) /\ Len(big) = Len(wal) + Len(us)
      /\ \A i \in 1 .. Len(wal) : big[i] = wal[i]
      /\ \A i \in 1 .. Len(us) : big[Len(wal) + i] = us[i]
  BY ConcatIs
<1>2. Len(wal) \in Nat /\ Len(us) \in Nat /\ Len(lg) \in Nat /\ Len(pend) \in Nat
  OBVIOUS
<1>2a. 1 + Len(pend) \in Nat /\ 1 + Len(pend) >= 1 /\ 1 \in 1 .. Len(us) /\ (1 + Len(pend)) + Len(us) <= 2 * Len(lg)
  BY <1>2 DEF Contig
<1>3. us[1] = UnitAt(lg, (1 + Len(pend)) + 1)
  BY <1>2a DEF Contig
<1>4. pend = <<>> => us[1] = Unit(lg[1], 2)
  <2>1. UnitAt(lg, 2 * 0 + 2) = Unit(lg[0 + 1], 2)
    BY HalvesOf
  <2>2. pend = <<>> => (1 + Len(pend)) + 1 = 2 * 0 + 2
    OBVIOUS
  <2>3. 0 + 1 = 1
    OBVIOUS
  <2> QED BY <1>3, <2>1, <2>2, <2>3
<1>5. ASSUME pend # <<>> PROVE us[1] = Unit(lg[2], 1) /\ wal[Len(wal)] = Unit(lg[1], 2) /\ 2 <= Len(lg)
  <2>0. Len(pend) > 0
    BY <1>5
  <2>0a. \A l \in Nat : l < 2 /\ l > 0 => l = 1
    OBVIOUS
  <2>1. Len(pend) = 1
    BY <1>2, <2>0, <2>0a, Zenon
  <2>2. pend[1] = UnitAt(lg, 1 + 1)
    BY <2>1 DEF Contig
  <2>3. UnitAt(lg, 2 * 0 + 2) = Unit(lg[0 + 1], 2) /\ UnitAt(lg, 2 * 1 + 1) = Unit(lg[1 + 1], 1)
    BY HalvesOf
  <2>4. wal[Len(wal)] = pend[1]
    BY <1>5, <2>1
  <2>5. (1 + Len(pend)) + 1 = 2 * 1 + 1
    BY <2>1
  <2>6. us[1] = UnitAt(lg, 2 * 1 + 1)
    BY <1>3, <2>5
  <2>7. 1 + 1 = 2 * 0 + 2 /\ 0 + 1 = 1 /\ 1 + 1 = 2
    OBVIOUS
  <2>8. 2 <= Len(lg)
    BY <1>2, <1>2a, <2>1
  <2> QED BY <2>2, <2>3, <2>4, <2>6, <2>7, <2>8
<1> HIDE DEF big
<1>6. ~(big[1].rec.kind = "SQL" /\ big[1].rec.w \in Volatile)
  <2>1. CASE wal = <<>>
    <3>1. pend = <<>>
      BY <2>1
    <3>2. Len(wal) = 0 /\ Len(wal) + 1 = 1
      BY <2>1
    <3>3. big[1] = us[1]
      BY <1>1, <1>2a, <3>2
    <3>4. big[1].rec = lg[1]
      BY <1>4, <3>1, <3>3 DEF Unit
    <3>5. 1 \in 1 .. Len(lg)
      BY <1>2, <1>2a
    <3> QED BY <3>4, <3>5 DEF Paired
  <2>2. CASE wal # <<>>
    <3>1. 1 \in 1 .. Len(wal)
      BY <1>2, <2>2
    <3> QED BY <1>1, <2>2, <3>1 DEF Linked
  <2> QED BY <2>1, <2>2
<1>7. ASSUME NEW j \in 1 .. (Len(big) - 1), big[j + 1].half = 1
      PROVE  \E m \in 1 .. (Len(lg) - 1) : big[j] = Unit(lg[m], 2) /\ big[j + 1] = Unit(lg[m + 1], 1)
  <2>0. Len(big) \in Nat /\ j \in Nat /\ j >= 1 /\ j <= Len(wal) + Len(us) - 1
    BY <1>1, <1>2
  <2>1. CASE j + 1 <= Len(wal)
    <3>1. j \in 1 .. (Len(wal) - 1) /\ j \in 1 .. Len(wal) /\ j + 1 \in 1 .. Len(wal)
      BY <1>2, <2>0, <2>1
    <3>2. big[j] = wal[j] /\ big[j + 1] = wal[j + 1]
      BY <1>1, <3>1
    <3> QED BY <1>7, <3>1, <3>2 DEF Linked
  <2>2. CASE j = Len(wal)
    <3>1. big[j + 1] = us[1] /\ big[j] = wal[Len(wal)]
      <4>1. j \in 1 .. Len(wal)
        BY <1>2, <2>0, <2>2
      <4> QED BY <1>1, <1>2a, <2>2, <4>1
    <3>2. pend # <<>>
      BY <1>4, <1>7, <3>1 DEF Unit
    <3>3. 1 \in 1 .. (Len(lg) - 1) /\ 1 + 1 = 2
      BY <1>2, <1>5, <3>2
    <3> QED BY <1>5, <3>1, <3>2, <3>3
  <2>3. CASE j > Len(wal)
    <3>1. PICK i \in Nat : j = Len(wal) + i
      <4>1. j - Len(wal) \in Nat /\ j = Len(wal) + (j - Len(wal))
        BY <1>2, <2>0, <2>3
      <4> QED BY <4>1
    <3>2. i \in 1 .. (Len(us) - 1) /\ i \in 1 .. Len(us) /\ i + 1 \in 1 .. Len(us) /\ Len(wal) + (i + 1) = j + 1
      BY <1>2, <2>0, <2>3, <3>1
    <3>3. big[j] = us[i] /\ big[j + 1] = us[i + 1]
      <4>1. big[Len(wal) + i] = us[i] /\ big[Len(wal) + (i + 1)] = us[i + 1]
        BY <1>1, <3>2
      <4> QED BY <3>1, <3>2, <4>1
    <3>4. \A l \in 1 .. (Len(us) - 1) : us[l + 1].half = 1 =>
           \E m \in 1 .. (Len(lg) - 1) : us[l] = Unit(lg[m], 2) /\ us[l + 1] = Unit(lg[m + 1], 1)
      BY <1>2a, LinkedFile
    <3> QED BY <1>7, <3>2, <3>3, <3>4
  <2> QED BY <1>2, <2>0, <2>1, <2>2, <2>3
<1> QED BY <1>6, <1>7 DEF Linked, big

\* Half a record that was received before is never completed.
LEMMA HalfDamages ==
  ASSUME NEW lg \in Seq(LinesT), NEW wal \in Seq(Halves), NEW us \in Seq(Halves), NEW a \in Nat, NEW h \in Nat, IsEven(a),
         Contig(lg, wal, a), a + Len(wal) = 2 * h + 1, Contig(lg, us, 2 * h), us # <<>>
  PROVE  Damaged(wal \o us)
<1> DEFINE big == wal \o us
<1>1. /\ big \in Seq(Halves) /\ Len(big) = Len(wal) + Len(us)
      /\ \A i \in 1 .. Len(wal) : big[i] = wal[i]
      /\ \A i \in 1 .. Len(us) : big[Len(wal) + i] = us[i]
  BY ConcatIs
<1>2. Len(wal) \in Nat /\ Len(us) \in Nat /\ Len(us) > 0
  OBVIOUS
<1> HIDE DEF big
<1>3. PICK b \in Nat : a = 2 * b
  BY DEF IsEven
<1>4. PICK i \in Nat : Len(wal) = 2 * i + 1
  <2>1. h - b \in Nat /\ Len(wal) = 2 * (h - b) + 1
    BY <1>2, <1>3
  <2> QED BY <2>1
<1>5. 1 \in 1 .. Len(us) /\ Len(wal) + 1 = 2 * i + 2
  BY <1>2, <1>4
<1>6. us[1] = UnitAt(lg, 2 * h + 1)
  BY <1>5 DEF Contig
<1>7. UnitAt(lg, 2 * h + 1) = Unit(lg[h + 1], 1)
  BY HalvesOf
<1>8. big[2 * i + 2] = us[1]
  BY <1>1, <1>5
<1>9. big[2 * i + 2].half = 1
  BY <1>6, <1>7, <1>8 DEF Unit
<1>10. ~Good(big, i)
  BY <1>9 DEF Good
<1>11. i \in 0 .. Len(big) /\ 2 * i + 2 <= Len(big)
  BY <1>1, <1>2, <1>4
<1>12. Damaged(big)
  BY <1>10, <1>11 DEF Damaged
<1> QED BY <1>12 DEF big

\* The last unit of a sequence that units were added to.
LEMMA LastOf ==
  ASSUME NEW s \in Seq(Halves), NEW us \in Seq(Halves), us # <<>>
  PROVE  (s \o us)[Len(s \o us)] = us[Len(us)] /\ s \o us # <<>>
<1> DEFINE big == s \o us
<1>1. Len(big) = Len(s) + Len(us) /\ (\A i \in 1 .. Len(us) : big[Len(s) + i] = us[i]) /\ big \in Seq(Halves)
  BY ConcatIs
<1>2. Len(us) \in Nat /\ Len(us) > 0 /\ Len(s) \in Nat
  OBVIOUS
<1>3. Len(us) \in 1 .. Len(us)
  BY <1>2
<1> HIDE DEF big
<1>4. big[Len(big)] = us[Len(us)] /\ Len(big) > 0
  BY <1>1, <1>2, <1>3
<1>5. big # <<>>
  BY <1>4
<1> QED BY <1>4, <1>5 DEF big

\* The follower receives bytes.
LEMMA FollowerReceive ==
  ASSUME TypeInv, TypeInv', LogInv, NetInv, FileInv, FollowerInv, role = "follower", ReceiveBytes,
         ~Met({"truncate", "crash", "marker"})', mishaps \subseteq mishaps'
  PROVE  FollowerInv'
<1>1. /\ Len(log) \in Nat /\ Len(logged) \in Nat /\ log \in Seq(LinesT) /\ peer.pos \in Nat
      /\ disk.wal \in Seq(Halves) /\ peer.pend \in Seq(Halves) /\ disk.side \in Nat /\ sent \in Nat
  BY Basics
<1>1a. peer \in Peers /\ disk \in Disks /\ net \in Seq(FrameSet)
  BY Basics
<1>2. /\ peer.pc = "stream" /\ net # <<>> /\ Head(net).kind = "wal"
      /\ peer' = [peer EXCEPT !.pc = "drain", !.pend = @ \o Head(net).units]
      /\ disk' = [disk EXCEPT !.wal = @ \o Head(net).units]
      /\ UNCHANGED <<role, mishaps, primVars, eng>>
  BY DEF ReceiveBytes, Arrives
<1>3. Head(net) = net[1] /\ net[1] \in FrameSet /\ FrameOK(net[1], role)
  BY <1>1a, <1>2, FramesTail DEF TypeInv, LinkType
<1>4. Gone' = Gone /\ logged' = logged /\ log' = log
  BY <1>2 DEF primVars, Gone
<1>5. PICK us \in Seq(Halves) : us = net[1].units
  BY <1>3 DEF FrameSet
<1>6. us # <<>>
  <2>1. Len(us) > 0
    BY <1>2, <1>3, <1>5 DEF FrameOK
  <2> QED BY <2>1
<1> DEFINE pend == peer.pend
           wal == disk.wal
           pos == peer.pos
<1>7. /\ peer'.pc = "drain" /\ peer'.pos = pos /\ peer'.pend = pend \o us /\ peer'.vol = peer.vol
      /\ Moving(peer') /\ Moving(peer)
  BY <1>1a, <1>2, <1>3, <1>5 DEF Moving, Peers
<1>8. disk'.side = disk.side /\ disk'.wal = wal \o us /\ disk'.db = disk.db
  BY <1>1a, <1>2, <1>3, <1>5 DEF Disks
<1>9. Contig(log, pend, pos) /\ Contig(log, us, pos + Len(pend))
  <2>1. Contig(log, peer.pend, peer.pos) /\ Chain(log, net, peer.pos + Len(peer.pend), sent, link, role)
    BY <1>2 DEF NetInv, Incoming
  <2>2. peer.pos + Len(peer.pend) \in Nat
    BY <1>1
  <2>3. \E b : Piece(log, net[1], peer.pos + Len(peer.pend), b, role)
    BY <1>1, <1>1a, <1>2, <2>1, <2>2, ChainTail
  <2>4. Contig(log, net[1].units, peer.pos + Len(peer.pend))
    BY <1>2, <1>3, <2>3 DEF Piece
  <2> QED BY <1>5, <2>1, <2>4
<1>10. Len(pend) < 2 /\ disk.side = pos /\ disk.db # {}
  BY <1>2, <1>7 DEF FileInv
<1>11. pend \in Seq(Halves) /\ wal \in Seq(Halves) /\ pos \in Nat /\ Len(pend) \in Nat /\ Len(wal) \in Nat /\ Len(us) \in Nat
  BY <1>1
<1>12. (Met({"fallback"})' <=> Met({"fallback"})) /\ (Met({"snapshot"})' <=> Met({"snapshot"}))
  BY <1>2 DEF Met
<1>13. CASE Met({"fallback"}) /\ Stuck(log, peer, disk)
  <2>1. pos = 1 /\ (Damaged(wal) \/ Linked(log, wal)) /\ (pend # <<>> => wal # <<>> /\ wal[Len(wal)] = pend[Len(pend)])
    BY <1>2, <1>13 DEF Stuck
  <2> HIDE DEF pend, wal, pos
  <2>2. Damaged(wal \o us) \/ Linked(log, wal \o us)
    <3>1. Damaged(wal) => Damaged(wal \o us)
      BY <1>11, DamagedAppend
    <3>2. Contig(log, pend, 1) /\ Contig(log, us, 1 + Len(pend)) /\ Paired(log)
      BY <1>9, <2>1 DEF LogInv
    <3>3. Linked(log, wal) => Linked(log, wal \o us)
      BY <1>1, <1>6, <1>10, <1>11, <2>1, <3>2, LinkedAppend
    <3> QED BY <2>1, <3>1, <3>3
  <2>3. wal \o us # <<>> /\ (wal \o us)[Len(wal \o us)] = us[Len(us)] /\ (pend \o us)[Len(pend \o us)] = us[Len(us)]
    BY <1>6, <1>11, LastOf
  <2>4. disk.side = 1 /\ peer.vol = 0
    BY <1>13 DEF Stuck
  <2>5. Stuck(log', peer', disk')
    BY <1>4, <1>7, <1>8, <1>10, <2>1, <2>2, <2>3, <2>4 DEF Stuck
  <2> QED BY <1>12, <1>13, <2>5, FollowerAfter
<1>14. CASE \E k, p \in Nat :
             /\ k <= Len(logged) /\ p <= Len(logged)
             /\ Settled(log, Gone, k, p, peer, disk) \/ Fresh(peer, disk)
             /\ ~Met({"snapshot"}) => Points(logged, Gone, k, p, eng, peer, disk, net)
  <2>1. PICK k \in Nat, p \in Nat :
             /\ k <= Len(logged) /\ p <= Len(logged)
             /\ Settled(log, Gone, k, p, peer, disk) \/ Fresh(peer, disk)
             /\ ~Met({"snapshot"}) => Points(logged, Gone, k, p, eng, peer, disk, net)
    BY <1>14
  <2>2. ~Fresh(peer, disk) /\ ~Fresh(peer', disk')
    BY <1>7 DEF Fresh
  <2>3. Settled(log, Gone, k, p, peer, disk)
    BY <2>1, <2>2
  <2> DEFINE a == 2 * (p - Gone)
             h == k - Gone
  <2>4. a \in Nat /\ h \in Nat /\ pos = 2 * h /\ LocalLog(log, a, peer, disk) /\ IsEven(a)
    <3>1. Gone \in Nat /\ Gone <= p /\ p <= k
      BY <1>1, <2>3 DEF Settled, LogInv, Gone
    <3>2. p - Gone \in Nat
      BY <3>1
    <3>3. IsEven(a)
      BY <3>2 DEF IsEven
    <3>4. pos = 2 * h /\ LocalLog(log, a, peer, disk)
      BY <1>7, <2>3 DEF Settled
    <3> QED BY <3>1, <3>2, <3>3, <3>4
  <2> HIDE DEF a, h
  <2>5. LocalLog(log, a, peer', disk')
    <3>1. \/ Damaged(wal) /\ disk.side > 0
          \/ Contig(log, wal, a) /\ a + Len(wal) = pos + Len(pend)
          \/ Contig(log, wal, a) /\ a + Len(wal) = pos + 1 /\ pend = <<>> /\ disk.side > 0
      BY <1>7, <2>4 DEF LocalLog
    <3> HIDE DEF pend, wal, pos
    <3>2. CASE Damaged(wal) /\ disk.side > 0
      <4>1. Damaged(wal \o us)
        BY <1>11, <3>2, DamagedAppend
      <4> QED BY <1>8, <3>2, <4>1 DEF LocalLog
    <3>3. CASE Contig(log, wal, a) /\ a + Len(wal) = pos + Len(pend)
      <4>1. Contig(log, us, a + Len(wal))
        BY <1>9, <3>3
      <4>2. Contig(log, wal \o us, a)
        BY <1>1, <1>11, <2>4, <3>3, <4>1, ContigAppend
      <4>3. Len(wal \o us) = Len(wal) + Len(us) /\ Len(pend \o us) = Len(pend) + Len(us)
        BY <1>11, ConcatIs
      <4>4. a + Len(wal \o us) = pos + Len(pend \o us)
        BY <1>11, <2>4, <3>3, <4>3
      <4> QED BY <1>7, <1>8, <4>2, <4>4 DEF LocalLog
    <3>4. CASE Contig(log, wal, a) /\ a + Len(wal) = pos + 1 /\ pend = <<>> /\ disk.side > 0
      <4>1. pos + Len(pend) = 2 * h /\ a + Len(wal) = 2 * h + 1
        BY <1>11, <2>4, <3>4
      <4>2. Contig(log, us, 2 * h)
        BY <1>9, <4>1
      <4>3. Damaged(wal \o us)
        BY <1>1, <1>6, <1>11, <2>4, <3>4, <4>1, <4>2, HalfDamages
      <4> QED BY <1>8, <3>4, <4>3 DEF LocalLog
    <3> QED BY <3>1, <3>2, <3>3, <3>4
  <2>6. Settled(log', Gone', k, p, peer', disk')
    BY <1>4, <1>7, <1>8, <2>3, <2>5 DEF Settled, a
  <2>7. Points(logged, Gone, k, p, eng, peer, disk, net) => Points(logged', Gone', k, p, eng', peer', disk', net')
    BY <1>2, <1>4, <1>7, <1>8, <2>2 DEF Points
  <2> QED BY <1>4, <1>12, <2>1, <2>6, <2>7, FollowerAfter
<1> QED BY <1>13, <1>14, FollowerBefore

\* A record is applied, or refused.
LEMMA FollowerDrain ==
  ASSUME TypeInv, TypeInv', LogInv, NetInv, FileInv, FollowerInv, role = "follower", DrainRecord,
         ~Met({"truncate", "crash", "marker"})', mishaps \subseteq mishaps'
  PROVE  FollowerInv'
<1>1. /\ Len(log) \in Nat /\ Len(logged) \in Nat /\ log \in Seq(LinesT) /\ peer.pos \in Nat /\ logged \in Seq(LinesT)
      /\ peer.pend \in Seq(Halves) /\ eng \in Engines
  BY Basics
<1>1a. peer \in Peers /\ disk \in Disks
  BY Basics
<1>2. peer.pc = "drain" /\ Whole(peer.pend) /\ UNCHANGED <<role, primVars, atom, disk, start, count>>
  BY DEF DrainRecord
<1>3. Moving(peer) /\ Contig(log, peer.pend, peer.pos)
  BY <1>2 DEF NetInv, Incoming, Moving
<1>4. Gone' = Gone /\ logged' = logged /\ log' = log
  BY <1>2 DEF primVars, Gone
<1>5. /\ Sound(peer.pend) => \E m \in 0 .. Len(log) : peer.pos = 2 * m /\ m + 1 \in 1 .. Len(log) /\ peer.pend[1].rec = log[m + 1]
      /\ ~Sound(peer.pend) => \E m \in Nat : peer.pos = 2 * m + 1
  BY <1>1, <1>2, <1>3, ContigSound
<1>6. CASE Met({"fallback"}) /\ Stuck(log, peer, disk)
  <2>1. peer.pos = 1 /\ disk.side = 1
    BY <1>2, <1>6 DEF Stuck
  <2>2. ~Sound(peer.pend)
    BY <1>5, <2>1
  <2>3. peer' = Down
    BY <2>2 DEF DrainRecord
  <2>4. Stuck(log', peer', disk')
    BY <1>2, <1>4, <1>6, <2>3, DownType DEF Stuck
  <2>5. Met({"fallback"})'
    BY <1>6 DEF Met
  <2> QED BY <2>4, <2>5, FollowerAfter
<1>7. CASE \E k, p \in Nat :
             /\ k <= Len(logged) /\ p <= Len(logged)
             /\ Settled(log, Gone, k, p, peer, disk) \/ Fresh(peer, disk)
             /\ ~Met({"snapshot"}) => Points(logged, Gone, k, p, eng, peer, disk, net)
  <2>1. PICK k \in Nat, p \in Nat :
             /\ k <= Len(logged) /\ p <= Len(logged)
             /\ Settled(log, Gone, k, p, peer, disk) \/ Fresh(peer, disk)
             /\ ~Met({"snapshot"}) => Points(logged, Gone, k, p, eng, peer, disk, net)
    BY <1>7
  <2>2. Settled(log, Gone, k, p, peer, disk)
    BY <1>3, <2>1 DEF Fresh
  <2>3. Gone \in Nat /\ Gone <= p /\ p <= k /\ Gone + Len(log) = Len(logged)
    BY <1>1, <2>2 DEF Settled, LogInv, Gone
  <2>4. peer.pos = 2 * (k - Gone)
    BY <1>3, <2>2 DEF Settled
  <2>5. Sound(peer.pend)
    <3> SUFFICES ASSUME ~Sound(peer.pend) PROVE FALSE
      OBVIOUS
    <3>1. PICK m \in Nat : peer.pos = 2 * m + 1
      BY <1>5
    <3> QED BY <2>3, <2>4, <3>1
  <2>6. /\ peer.pend[1].rec = log[(k - Gone) + 1] /\ k - Gone \in Nat /\ (k - Gone) + 1 \in 1 .. Len(log)
    <3>1. PICK m \in 0 .. Len(log) : peer.pos = 2 * m /\ m + 1 \in 1 .. Len(log) /\ peer.pend[1].rec = log[m + 1]
      BY <1>5, <2>5
    <3>2. m = k - Gone /\ k - Gone \in Nat
      BY <1>1, <2>3, <2>4, <3>1
    <3> QED BY <3>1, <3>2
  <2> DEFINE r == log[(k - Gone) + 1]
  <2>7. r = logged[k + 1] /\ k + 1 \in 1 .. Len(logged) /\ k \in 0 .. (Len(logged) - 1) /\ r \in LinesT
    <3>1. Gone + ((k - Gone) + 1) = k + 1
      BY <2>3
    <3>2. r = logged[Gone + ((k - Gone) + 1)]
      BY <2>6 DEF LogInv
    <3>3. k + 1 <= Len(logged)
      BY <1>1, <2>3, <2>6
    <3>4. k + 1 \in 1 .. Len(logged) /\ k \in 0 .. (Len(logged) - 1)
      BY <1>1, <3>3
    <3>5. r \in LinesT
      BY <1>1, <2>6
    <3> QED BY <3>1, <3>2, <3>4, <3>5
  <2>8. r.kind \in Accepted
    <3>1. r.kind # "MARK"
      <4>1. Unmarked(log)
        BY FollowerBefore DEF LogInv
      <4> QED BY <2>6, <4>1 DEF Unmarked
    <3> QED BY <2>7, <3>1 DEF Accepted, LinesT
  <2> HIDE DEF r
  <2>9. /\ eng' = ReplayRecord(eng, r) /\ UNCHANGED mishaps
        /\ \E v : peer' = [peer EXCEPT !.pend = Rest(@, 2), !.pos = @ + 2, !.vol = v]
    <3>1. peer.pend[1].rec = r
      BY <2>6 DEF r
    <3> QED BY <2>5, <2>8, <3>1 DEF DrainRecord
  <2>10. PICK v : peer' = [peer EXCEPT !.pend = Rest(@, 2), !.pos = @ + 2, !.vol = v]
    BY <2>9
  <2>11. peer'.pc = "drain" /\ Moving(peer') /\ peer'.pos = peer.pos + 2 /\ peer'.pend = Rest(peer.pend, 2)
    BY <1>1a, <1>2, <2>10 DEF Peers, Moving
  <2>12. Len(peer.pend) >= 2 /\ Len(Rest(peer.pend, 2)) = Len(peer.pend) - 2
    BY <1>1, <1>2, RestIs DEF Whole
  <2>13. peer'.pos + Len(peer'.pend) = peer.pos + Len(peer.pend)
    <3>1. Len(peer.pend) \in Nat
      BY <1>1
    <3>2. peer.pos \in Nat
      BY <1>1
    <3> QED BY <2>11, <2>12, <3>1, <3>2
  <2>14. peer.pend # <<>>
    BY <1>1, <2>12
  <2>15. LocalLog(log, 2 * (p - Gone), peer', disk)
    <3>1. LocalLog(log, 2 * (p - Gone), peer, disk)
      BY <2>2 DEF Settled
    <3> QED BY <1>3, <2>11, <2>13, <2>14, <3>1 DEF LocalLog
  <2>16. peer'.pos = 2 * ((k + 1) - Gone) /\ p <= k + 1 /\ k + 1 \in Nat /\ k + 1 <= Len(logged)
    BY <1>1, <2>3, <2>4, <2>7, <2>11
  <2>17. Settled(log', Gone', k + 1, p, peer', disk')
    BY <1>2, <1>4, <2>2, <2>11, <2>15, <2>16 DEF Settled
  <2>18. Met({"snapshot"})' <=> Met({"snapshot"})
    BY <2>9 DEF Met
  <2>19. ASSUME ~Met({"snapshot"}) PROVE Points(logged', Gone', k + 1, p, eng', peer', disk', net')
    <3>1. Points(logged, Gone, k, p, eng, peer, disk, net)
      BY <2>1, <2>19
    <3>2. AtOf(logged, k) \in Engines /\ AtOf(logged, k + 1) = ReplayRecord(AtOf(logged, k), r)
      <4>1. k \in 0 .. Len(logged)
        BY <1>1, <2>1
      <4> QED BY <1>1, <2>7, <4>1, AtStep
    <3>3. Same(eng', AtOf(logged, k + 1))
      BY <1>1, <2>7, <2>9, <3>1, <3>2, SameStep DEF Points
    <3>4. disk.db # {}
      BY <2>2 DEF Settled
    <3>5. ~Fresh(peer', disk')
      BY <2>11 DEF Fresh
    <3> QED BY <1>2, <1>4, <2>11, <3>1, <3>3, <3>4, <3>5 DEF Points
  <2> QED BY <1>4, <2>1, <2>16, <2>17, <2>18, <2>19, FollowerAfter
<1> QED BY <1>6, <1>7, FollowerBefore

\* The end of a frame.
LEMMA FollowerDrained ==
  ASSUME TypeInv, TypeInv', LogInv, NetInv, FileInv, FollowerInv, role = "follower", Drained,
         ~Met({"truncate", "crash", "marker"})', mishaps \subseteq mishaps'
  PROVE  FollowerInv'
<1>1. peer.pos \in Nat /\ disk.side \in Nat /\ peer \in Peers /\ disk \in Disks
  BY Basics
<1>2. /\ peer.pc = "drain" /\ disk' = [disk EXCEPT !.side = peer.pos] /\ peer' = [peer EXCEPT !.pc = "stream"]
      /\ UNCHANGED <<role, mishaps, primVars, linkVars, eng, start, drift, count>>
  BY DEF Drained, StorePosition
<1>3. /\ peer'.pc = "stream" /\ peer'.pos = peer.pos /\ peer'.pend = peer.pend /\ peer'.vol = peer.vol
      /\ Moving(peer') /\ Moving(peer)
  BY <1>1, <1>2 DEF Moving, Peers
<1>4. disk'.side = peer.pos /\ disk'.wal = disk.wal /\ disk'.db = disk.db
  BY <1>1, <1>2 DEF Disks
<1>5. Gone' = Gone /\ logged' = logged /\ log' = log
  BY <1>2 DEF primVars, Gone
<1>6. disk.side <= peer.pos
  BY <1>3 DEF FileInv
<1>7. (Met({"fallback"})' <=> Met({"fallback"})) /\ (Met({"snapshot"})' <=> Met({"snapshot"}))
  BY <1>2 DEF Met
<1>8. CASE Met({"fallback"}) /\ Stuck(log, peer, disk)
  <2>1. peer.pos = 1
    BY <1>2, <1>8 DEF Stuck
  <2>2. Stuck(log', peer', disk')
    BY <1>3, <1>4, <1>5, <1>8, <2>1 DEF Stuck
  <2> QED BY <1>7, <1>8, <2>2, FollowerAfter
<1>9. CASE \E k, p \in Nat :
             /\ k <= Len(logged) /\ p <= Len(logged)
             /\ Settled(log, Gone, k, p, peer, disk) \/ Fresh(peer, disk)
             /\ ~Met({"snapshot"}) => Points(logged, Gone, k, p, eng, peer, disk, net)
  <2>1. PICK k \in Nat, p \in Nat :
             /\ k <= Len(logged) /\ p <= Len(logged)
             /\ Settled(log, Gone, k, p, peer, disk) \/ Fresh(peer, disk)
             /\ ~Met({"snapshot"}) => Points(logged, Gone, k, p, eng, peer, disk, net)
    BY <1>9
  <2>2. Settled(log, Gone, k, p, peer, disk) /\ ~Fresh(peer', disk')
    BY <1>3, <2>1 DEF Fresh
  <2>3. disk.side > 0 => disk'.side > 0
    BY <1>1, <1>4, <1>6
  <2>4. LocalLog(log, 2 * (p - Gone), peer', disk')
    BY <1>3, <1>4, <2>2, <2>3 DEF Settled, LocalLog
  <2>5. Settled(log', Gone', k, p, peer', disk')
    BY <1>3, <1>4, <1>5, <2>2, <2>4 DEF Settled
  <2>6. Points(logged, Gone, k, p, eng, peer, disk, net) => Points(logged', Gone', k, p, eng', peer', disk', net')
    BY <1>2, <1>3, <1>4, <1>5, <2>2 DEF Points
  <2> QED BY <1>5, <1>7, <2>1, <2>5, <2>6, FollowerAfter
<1> QED BY <1>8, <1>9, FollowerBefore

\* What a boot keeps of the local log is a prefix of it.
LEMMA KeptPrefix ==
  ASSUME NEW us \in Seq(Halves)
  PROVE  LET vs == UnitsOf(RecordsIn(us))
         IN  /\ vs \in Seq(Halves) /\ Len(vs) = 2 * Readable(us) /\ Len(vs) <= Len(us)
             /\ \A j \in 1 .. Len(vs) : vs[j] = us[j]
<1> DEFINE ks == RecordsIn(us)
           n == Readable(us)
           vs == UnitsOf(ks)
<1>1. n \in Nat /\ 2 * n <= Len(us) /\ \A i \in 0 .. (n - 1) : Good(us, i)
  BY ReadableIs
<1>2. ks \in Seq(LinesT) /\ Len(ks) = n /\ \A i \in 1 .. n : ks[i] = us[2 * i].rec
  BY RecordsInIs
<1> HIDE DEF ks, n
<1>3. vs \in Seq(Halves) /\ Len(vs) = 2 * Len(ks) /\ \A j \in 1 .. (2 * Len(ks)) : vs[j] = UnitAt(ks, j)
  BY <1>2, UnitsOfIs
<1>4. ASSUME NEW i \in Nat, i < n PROVE vs[2 * i + 1] = us[2 * i + 1] /\ vs[2 * i + 2] = us[2 * i + 2]
  <2>1. i \in 0 .. (n - 1) /\ i + 1 \in 1 .. n /\ 2 * i + 1 \in 1 .. (2 * Len(ks)) /\ 2 * i + 2 \in 1 .. (2 * Len(ks))
    BY <1>1, <1>2, <1>4
  <2>2. vs[2 * i + 1] = Unit(ks[i + 1], 1) /\ vs[2 * i + 2] = Unit(ks[i + 1], 2)
    BY <1>3, <2>1, HalvesOf
  <2>3. ks[i + 1] = us[2 * (i + 1)].rec /\ 2 * (i + 1) = 2 * i + 2
    BY <1>2, <2>1
  <2>4. us[2 * i + 1].half = 1 /\ us[2 * i + 2].half = 2 /\ us[2 * i + 1].rec = us[2 * i + 2].rec
    BY <1>1, <2>1 DEF Good
  <2>5. us[2 * i + 1] \in Halves /\ us[2 * i + 2] \in Halves
    <3>1. Len(us) \in Nat
      OBVIOUS
    <3>2. 2 * i + 1 \in 1 .. Len(us) /\ 2 * i + 2 \in 1 .. Len(us)
      BY <1>1, <1>4, <3>1
    <3> QED BY <3>2
  <2>6. \A u \in Halves : u = Unit(u.rec, u.half)
    BY DEF Halves, Unit
  <2>7. us[2 * i + 1] = Unit(us[2 * i + 1].rec, us[2 * i + 1].half) /\ us[2 * i + 2] = Unit(us[2 * i + 2].rec, us[2 * i + 2].half)
    BY <2>5, <2>6
  <2>8. ks[i + 1] = us[2 * i + 2].rec
    BY <2>3
  <2> QED BY <2>2, <2>4, <2>7, <2>8
<1>5. ASSUME NEW j \in 1 .. (2 * n) PROVE vs[j] = us[j]
  <2>1. j \in Nat
    BY <1>1
  <2>2. PICK m \in Nat : j = 2 * m \/ j = 2 * m + 1
    BY <2>1, Parity
  <2>3. CASE j = 2 * m + 1
    <3>1. m < n
      BY <1>1, <2>3
    <3> QED BY <1>4, <2>3, <3>1
  <2>4. CASE j = 2 * m
    <3>1. PICK i \in Nat : m = i + 1
      <4>1. m - 1 \in Nat /\ m = (m - 1) + 1
        BY <1>1, <2>4
      <4> QED BY <4>1
    <3>2. i < n /\ j = 2 * i + 2
      BY <1>1, <2>4, <3>1
    <3> QED BY <1>4, <3>2
  <2> QED BY <2>2, <2>3, <2>4
<1>6. vs \in Seq(Halves) /\ Len(vs) = 2 * n /\ Len(vs) <= Len(us) /\ \A j \in 1 .. Len(vs) : vs[j] = us[j]
  BY <1>1, <1>2, <1>3, <1>5
<1> QED BY <1>6 DEF ks, n

\* Prefixes of linked and of contiguous units.
LEMMA LinkedPrefix ==
  ASSUME NEW lg, NEW us \in Seq(Halves), NEW vs \in Seq(Halves), Len(vs) <= Len(us),
         \A j \in 1 .. Len(vs) : vs[j] = us[j], Linked(lg, us)
  PROVE  Linked(lg, vs)
<1>1. Len(us) \in Nat /\ Len(vs) \in Nat
  OBVIOUS
<1>2. ASSUME vs # <<>> PROVE ~(vs[1].rec.kind = "SQL" /\ vs[1].rec.w \in Volatile)
  <2>1. Len(vs) > 0
    BY <1>2
  <2>2. 1 \in 1 .. Len(vs) /\ Len(us) > 0
    BY <1>1, <2>1
  <2>3. us # <<>> /\ vs[1] = us[1]
    BY <2>2
  <2> QED BY <2>3 DEF Linked
<1>3. ASSUME NEW j \in 1 .. (Len(vs) - 1), vs[j + 1].half = 1
      PROVE  \E m \in 1 .. (Len(lg) - 1) : vs[j] = Unit(lg[m], 2) /\ vs[j + 1] = Unit(lg[m + 1], 1)
  <2>1. j \in 1 .. (Len(us) - 1) /\ j \in 1 .. Len(vs) /\ j + 1 \in 1 .. Len(vs)
    BY <1>1
  <2>2. vs[j] = us[j] /\ vs[j + 1] = us[j + 1]
    BY <2>1
  <2> QED BY <1>3, <2>1, <2>2 DEF Linked
<1> QED BY <1>2, <1>3 DEF Linked

\* The beginning of a run is a run.
LEMMA ContigPrefix ==
  ASSUME NEW lg \in Seq(LinesT), NEW us \in Seq(Halves), NEW vs \in Seq(Halves), Len(vs) <= Len(us),
         NEW a \in Nat, \A j \in 1 .. Len(vs) : vs[j] = us[j], Contig(lg, us, a)
  PROVE  Contig(lg, vs, a)
<1>1. Len(us) \in Nat /\ Len(vs) \in Nat /\ Len(lg) \in Nat /\ a + Len(us) <= 2 * Len(lg)
  BY DEF Contig
<1>2. a + Len(vs) <= 2 * Len(lg) /\ \A j \in 1 .. Len(vs) : j \in 1 .. Len(us)
  BY <1>1
<1> QED BY <1>2 DEF Contig

\* A boot of the follower gets where the follower was.
LEMMA BootGets ==
  ASSUME NEW lgd \in Seq(LinesT), NEW p \in 0 .. Len(lgd), NEW k \in 0 .. Len(lgd), p <= k,
         NEW d \in Databases, ~AtOf(lgd, p).open, d = AtOf(lgd, p).base, ~AtOf(lgd, k).open,
         NEW kept \in Seq(LinesT), Len(kept) = k - p, \A i \in 1 .. Len(kept) : kept[i] = lgd[p + i]
  PROVE  Same(Engine(Recovered(d, kept)), AtOf(lgd, k))
<1>1. Engine(d) \in Engines /\ Engine(d).base = d /\ ~Engine(d).open
  BY EngineType
<1>2. Same(Engine(d), AtOf(lgd, p))
  BY <1>1 DEF Same
<1>3. p + Len(kept) = k /\ p + Len(kept) <= Len(lgd)
  OBVIOUS
<1>4. Same(Replayed(Engine(d), kept), AtOf(lgd, k))
  BY <1>1, <1>2, <1>3, ReplayFrom
<1>5. Recovered(d, kept) = AtOf(lgd, k).base
  BY <1>4 DEF Same, Recovered
<1> QED BY <1>5 DEF Same, Engine

\* A crash that a restart copes with.
LEMMA FollowerCrash ==
  ASSUME TypeInv, TypeInv', LogInv, NetInv, FileInv, FollowerInv, role = "follower", CrashFollower,
         ~Met({"truncate", "crash", "marker"})', mishaps \subseteq mishaps'
  PROVE  FollowerInv'
<1>1. /\ Len(log) \in Nat /\ Len(logged) \in Nat /\ log \in Seq(LinesT) /\ logged \in Seq(LinesT)
      /\ disk.wal \in Seq(Halves) /\ Len(disk.wal) \in Nat /\ disk.side \in Nat /\ peer.pos \in Nat /\ Len(peer.pend) \in Nat
  BY Basics
<1>1a. disk \in Disks /\ disk.db \in SUBSET Databases
  BY Basics
<1> DEFINE kept == RecordsIn(disk.wal)
           vs == UnitsOf(kept)
           n == Readable(disk.wal)
<1>2. /\ eng' = Engine(Recovered(BootBase(disk.db), kept)) /\ disk' = [disk EXCEPT !.wal = vs]
      /\ peer' = Down /\ net' = <<>> /\ UNCHANGED <<role, primVars>>
  BY DEF CrashFollower, BootBase
<1>3. Restartable
  <2>1. mishaps' = mishaps \cup (When(~Restartable, {"crash"}) \cup Forgets)
    BY DEF CrashFollower, Meets
  <2> QED BY <2>1 DEF Met, When
<1>4. peer.pc # "drain" /\ ~eng.open /\ Len(disk.wal) < 2 * n + 2
  BY <1>3 DEF Restartable
<1>5. vs \in Seq(Halves) /\ Len(vs) = 2 * n /\ Len(vs) <= Len(disk.wal) /\ \A j \in 1 .. Len(vs) : vs[j] = disk.wal[j]
  BY <1>1, KeptPrefix
<1>6. kept \in Seq(LinesT) /\ Len(kept) = n /\ n \in Nat
  BY <1>1, RecordsInIs, ReadableIs
<1>7. ~Damaged(disk.wal)
  <2> SUFFICES ASSUME Damaged(disk.wal) PROVE FALSE
    OBVIOUS
  <2>1. 2 * n + 2 <= Len(disk.wal)
    BY <1>1, DamagedRead
  <2> QED BY <1>1, <1>4, <1>6, <2>1
<1>8. /\ disk'.side = disk.side /\ disk'.wal = vs /\ disk'.db = disk.db
  BY <1>1a, <1>2 DEF Disks
<1>9. peer'.pc = "down" /\ peer'.pend = <<>> /\ peer'.vol = 0 /\ ~Moving(peer')
  BY <1>2, DownType DEF Moving
<1>10. Gone' = Gone /\ logged' = logged /\ log' = log
  BY <1>2 DEF primVars, Gone
<1>11. ~Met({"snapshot"})' => ~Met({"snapshot"})
  BY DEF Met
<1>12. CASE Met({"fallback"}) /\ Stuck(log, peer, disk)
  <2>1. Linked(log, disk.wal)
    BY <1>7, <1>12 DEF Stuck
  <2>2. Linked(log, vs)
    BY <1>1, <1>5, <2>1, LinkedPrefix
  <2> HIDE DEF vs
  <2>3. Stuck(log', peer', disk')
    BY <1>8, <1>9, <1>10, <1>12, <2>2 DEF Stuck
  <2>4. Met({"fallback"})'
    BY <1>12 DEF Met
  <2> QED BY <2>3, <2>4, FollowerAfter
<1>13. CASE \E k, p \in Nat :
             /\ k <= Len(logged) /\ p <= Len(logged)
             /\ Settled(log, Gone, k, p, peer, disk) \/ Fresh(peer, disk)
             /\ ~Met({"snapshot"}) => Points(logged, Gone, k, p, eng, peer, disk, net)
  <2>1. PICK k \in Nat, p \in Nat :
             /\ k <= Len(logged) /\ p <= Len(logged)
             /\ Settled(log, Gone, k, p, peer, disk) \/ Fresh(peer, disk)
             /\ ~Met({"snapshot"}) => Points(logged, Gone, k, p, eng, peer, disk, net)
    BY <1>13
  <2>2. CASE Settled(log, Gone, k, p, peer, disk)
    <3>1. Gone \in Nat /\ Gone <= p /\ p <= k /\ Gone + Len(log) = Len(logged) /\ disk.db # {}
      BY <1>1, <2>2 DEF Settled, LogInv, Gone
    <3>2. Moving(peer) => peer.pos = disk.side /\ Len(peer.pend) < 2
      BY <1>4 DEF FileInv, Moving
    <3>3. disk.side = 2 * (k - Gone)
      BY <2>2, <3>2 DEF Settled
    <3> DEFINE a == 2 * (p - Gone)
    <3>4. a \in Nat /\ p - Gone \in Nat /\ k - p \in Nat
      BY <3>1
    <3>5. Contig(log, disk.wal, a) /\ (a + Len(disk.wal) = disk.side \/ a + Len(disk.wal) = disk.side + 1)
      <4>1. LocalLog(log, a, peer, disk)
        BY <2>2 DEF Settled
      <4> HIDE DEF a
      <4>2. CASE Moving(peer)
        <5>1. Contig(log, disk.wal, a) /\ (a + Len(disk.wal) = peer.pos + Len(peer.pend) \/ a + Len(disk.wal) = peer.pos + 1)
          BY <1>7, <4>1, <4>2 DEF LocalLog
        <5>2. peer.pos = disk.side /\ Len(peer.pend) < 2
          BY <3>2, <4>2
        <5>3. \A q, l, b \in Nat : l < 2 /\ (a + b = q + l \/ a + b = q + 1) => a + b = q \/ a + b = q + 1
          BY <3>4
        <5>4. \A q, b \in Nat : a + b = q + Len(peer.pend) \/ a + b = q + 1 => a + b = q \/ a + b = q + 1
          BY <1>1, <5>2, <5>3, Zenon
        <5> QED BY <1>1, <5>1, <5>2, <5>4, Zenon
      <4>3. CASE ~Moving(peer)
        BY <1>7, <4>1, <4>3 DEF LocalLog
      <4> QED BY <4>2, <4>3
    <3>6. Len(disk.wal) = 2 * (k - p) \/ Len(disk.wal) = 2 * (k - p) + 1
      <4>1. \A l, g \in Nat : g <= p /\ p <= k /\ (2 * (p - g) + l = 2 * (k - g) \/ 2 * (p - g) + l = 2 * (k - g) + 1)
                             => l = 2 * (k - p) \/ l = 2 * (k - p) + 1
        OBVIOUS
      <4>2. \A l \in Nat : 2 * (p - Gone) + l = 2 * (k - Gone) \/ 2 * (p - Gone) + l = 2 * (k - Gone) + 1
                             => l = 2 * (k - p) \/ l = 2 * (k - p) + 1
        BY <3>1, <4>1, Zenon
      <4>3. 2 * (p - Gone) + Len(disk.wal) = 2 * (k - Gone) \/ 2 * (p - Gone) + Len(disk.wal) = 2 * (k - Gone) + 1
        BY <3>3, <3>5, Zenon
      <4>4. Len(disk.wal) \in Nat
        BY <1>1
      <4> QED BY <4>2, <4>3, <4>4, Zenon
    <3>7. n = k - p /\ (p - Gone) + (k - p) <= Len(log) /\ \A i \in 1 .. (k - p) : kept[i] = log[(p - Gone) + i]
      <4> DEFINE m == p - Gone
                 c == k - p
      <4>1. m \in Nat /\ c \in Nat
        BY <3>4
      <4>2. Contig(log, disk.wal, 2 * m) /\ (Len(disk.wal) = 2 * c \/ Len(disk.wal) = 2 * c + 1)
        BY <3>5, <3>6
      <4> HIDE DEF m, c
      <4>3. Readable(disk.wal) = c /\ m + c <= Len(log) /\ \A i \in 1 .. c : RecordsIn(disk.wal)[i] = log[m + i]
        <5>1. log \in Seq(LinesT) /\ disk.wal \in Seq(Halves)
          BY <1>1
        <5> QED BY <4>1, <4>2, <5>1, ReadContig, ZenonT(30)
      <4> QED BY <4>3 DEF m, c
    <3>8. Contig(log, vs, a)
      BY <1>1, <1>5, <3>4, <3>5, ContigPrefix
    <3>9. a + Len(vs) = disk.side
      BY <1>5, <3>1, <3>3, <3>7
    <3> HIDE DEF vs, kept, n, a
    <3>10. LocalLog(log, a, peer', disk')
      BY <1>8, <1>9, <3>8, <3>9 DEF LocalLog
    <3>11. Settled(log', Gone', k, p, peer', disk')
      BY <1>8, <1>9, <1>10, <2>2, <3>3, <3>10 DEF Settled, a
    <3>12. ASSUME ~Met({"snapshot"}) PROVE Points(logged', Gone', k, p, eng', peer', disk', net')
      <4>1. Points(logged, Gone, k, p, eng, peer, disk, net)
        BY <2>1, <3>12
      <4>2. Snapshot(logged, disk.db, p) /\ ~AtOf(logged, k).open
        BY <1>4, <3>1, <4>1 DEF Points, Same
      <4>3. BootBase(disk.db) \in disk.db /\ BootBase(disk.db) \in Databases
        BY <1>1a, <3>1, BootBaseType
      <4>4. ~AtOf(logged, p).open /\ BootBase(disk.db) = AtOf(logged, p).base
        BY <4>2, <4>3 DEF Snapshot
      <4>5. \A i \in 1 .. Len(kept) : kept[i] = logged[p + i]
        <5> SUFFICES ASSUME NEW i \in 1 .. Len(kept) PROVE kept[i] = logged[p + i]
          OBVIOUS
        <5>1. i \in 1 .. (k - p) /\ (p - Gone) + i \in 1 .. Len(log) /\ Gone + ((p - Gone) + i) = p + i
          BY <1>1, <1>6, <3>1, <3>4, <3>7
        <5>2. log[(p - Gone) + i] = logged[Gone + ((p - Gone) + i)]
          BY <5>1 DEF LogInv
        <5> QED BY <3>7, <5>1, <5>2
      <4>6. p \in 0 .. Len(logged) /\ k \in 0 .. Len(logged) /\ Len(kept) = k - p
        BY <1>1, <1>6, <2>1, <3>7
      <4>7. Same(eng', AtOf(logged, k))
        BY <1>1, <1>2, <1>6, <3>1, <4>2, <4>3, <4>4, <4>5, <4>6, BootGets
      <4>8. Fresh(peer', disk') => k <= p
        <5>1. Fresh(peer', disk') => disk.side = 0
          BY <1>8 DEF Fresh
        <5> QED BY <3>1, <3>3, <5>1
      <4> QED BY <1>8, <1>9, <1>10, <3>1, <4>2, <4>7, <4>8 DEF Points
    <3> QED BY <1>10, <1>11, <2>1, <3>11, <3>12, FollowerAfter
  <2>3. CASE Fresh(peer, disk)
    <3>1. disk.wal = <<>> /\ disk.side = 0
      BY <2>3 DEF Fresh
    <3>2. Len(vs) = 0 /\ n = 0
      BY <1>1, <1>5, <1>6, <3>1
    <3>3. vs = <<>> /\ kept = <<>>
      BY <1>5, <1>6, <3>2
    <3> HIDE DEF vs, kept, n
    <3>4. Fresh(peer', disk')
      BY <1>8, <1>9, <3>1, <3>3 DEF Fresh
    <3>5. BootBase(disk.db) \in Databases /\ (disk.db # {} => BootBase(disk.db) \in disk.db) /\ (disk.db = {} => BootBase(disk.db) = Nothing)
      BY <1>1a, BootBaseType
    <3>6. eng' = Engine(BootBase(disk.db))
      <4>1. Engine(BootBase(disk.db)) \in Engines /\ Engine(BootBase(disk.db)).base = BootBase(disk.db)
        BY <3>5, EngineType
      <4>2. Replayed(Engine(BootBase(disk.db)), <<>>) = Engine(BootBase(disk.db))
        BY <4>1, ReplayedEmpty
      <4> QED BY <1>2, <3>3, <4>1, <4>2 DEF Recovered
    <3>7. eng'.base = BootBase(disk.db) /\ ~eng'.open
      BY <3>5, <3>6, EngineType
    <3>8. CASE Met({"snapshot"})'
      BY <1>10, <2>1, <3>4, <3>8, FollowerAfter
    <3>9. CASE ~Met({"snapshot"})' /\ disk.db = {}
      <4>1. Same(eng', AtOf(logged, 0))
        BY <1>1, <3>5, <3>6, <3>9, AtStep DEF Same
      <4>2. Points(logged', Gone', 0, 0, eng', peer', disk', net')
        BY <1>8, <1>9, <1>10, <3>9, <4>1 DEF Points
      <4>3. 0 \in Nat /\ 0 <= Len(logged)
        BY <1>1
      <4> QED BY <1>10, <3>4, <4>2, <4>3, FollowerAfter
    <3>10. CASE ~Met({"snapshot"})' /\ disk.db # {}
      <4>1. Snapshot(logged, disk.db, p)
        BY <1>11, <2>1, <3>10 DEF Points
      <4>2. Same(eng', AtOf(logged, p))
        BY <3>5, <3>7, <3>10, <4>1 DEF Same, Snapshot
      <4>3. p <= p
        OBVIOUS
      <4>4. Points(logged', Gone', p, p, eng', peer', disk', net')
        BY <1>8, <1>9, <1>10, <3>10, <4>1, <4>2, <4>3 DEF Points
      <4> QED BY <1>10, <2>1, <3>4, <4>4, FollowerAfter
    <3> QED BY <3>8, <3>9, <3>10
  <2> QED BY <2>1, <2>2, <2>3
<1> QED BY <1>12, <1>13, FollowerBefore

\* The whole of a follower.
LEMMA InitFollower == ReplInit /\ TypeInv => FollowerInv
<1> SUFFICES ASSUME ReplInit, TypeInv, role = "follower" PROVE FollowerInv
  BY DEF FollowerInv
<1>1. logged = <<>> /\ net = <<>> /\ peer = Down /\ disk.db = {} /\ disk.wal = <<>> /\ disk.side = 0 /\ eng = Engine(Nothing)
  BY DEF ReplInit
<1>2. peer.pc = "down" /\ ~Moving(peer) /\ Fresh(peer, disk)
  BY <1>1, DownType DEF Moving, Fresh
<1>3. AtOf(logged, 0) = Engine(Nothing) /\ 0 \in 0 .. Len(logged)
  <2>1. logged \in Seq(LinesT) /\ Len(logged) \in Nat
    BY Basics
  <2> QED BY <2>1, AtStep
<1>4. Same(eng, AtOf(logged, 0))
  BY <1>1, <1>3 DEF Same
<1>5. Points(logged, Gone, 0, 0, eng, peer, disk, net)
  BY <1>1, <1>2, <1>4 DEF Points
<1> QED BY <1>2, <1>3, <1>5 DEF FollowerInv

\* The positions of the follower are right after every step.
LEMMA StepFollower ==
  ASSUME TypeInv, TypeInv', LogInv, PrimInv, ~Met({"truncate"}) => NetInv /\ FileInv, FollowerInv, [ReplNext]_vars
  PROVE  FollowerInv'
<1>1. CASE UNCHANGED vars
  BY <1>1 DEF vars, primVars, linkVars, peerVars, FollowerInv, Gone, Met
<1>2. CASE ReplNext
  <2>1. mishaps \subseteq mishaps'
    BY MishapsStay
  <2>2. role' = role
    BY <1>2 DEF ReplNext, Client, Execute, Begin, Statement, End, Log, Mark, Truncate, Sender, SendBytes, SendRecord,
                Receiver, Connect, Resume, WriteSnapshot, Restore, ReceiveBytes, DrainRecord, Drained, Subscribe,
                ReceiveRecord, ReceiveSkip, HangUp, Poll, SaveSubscriber, Cut, CrashFollower, CrashSubscriber, vars
  <2>3. CASE role # "follower" \/ Met({"truncate", "crash", "marker"})'
    BY <2>2, <2>3 DEF FollowerInv
  <2>4. CASE role = "follower" /\ ~Met({"truncate", "crash", "marker"})'
    <3>1. NetInv /\ FileInv
      BY <2>1, <2>4, FollowerBefore
    <3>2. CASE Client \/ Log \/ Mark \/ Truncate \/ Poll
      BY <2>1, <2>4, <3>2, FollowerPrim
    <3>3. CASE Sender \/ Cut
      <4>1. ~SendRecord
        BY <2>4 DEF SendRecord
      <4> QED BY <2>4, <3>1, <3>3, <4>1, FollowerSend, FollowerCut DEF Sender
    <3>4. CASE Receiver
      <4>1. ~Subscribe /\ ~ReceiveRecord /\ ~ReceiveSkip
        BY <2>4 DEF Subscribe, ReceiveRecord, ReceiveSkip
      <4> QED BY <2>1, <2>4, <3>1, <3>4, <4>1, FollowerConnect, FollowerResume, FollowerSnapshot, FollowerRestore,
                 FollowerReceive, FollowerDrain, FollowerDrained, FollowerHangUp DEF Receiver
    <3>5. CASE CrashFollower
      BY <2>1, <2>4, <3>1, <3>5, FollowerCrash
    <3>6. ~SaveSubscriber /\ ~CrashSubscriber
      BY <2>4 DEF SaveSubscriber, CrashSubscriber
    <3> QED BY <1>2, <3>2, <3>3, <3>4, <3>5, <3>6 DEF ReplNext
  <2> QED BY <2>3, <2>4
<1> QED BY <1>1, <1>2

---------------------------------------------------------------------------
(* A subscriber's steps.                                                   *)

\* The records that count for a write.
Counted(lgd, st, n, w) ==
  {i \in 1 .. n : /\ \A s \in st : i > s
                  /\ st # {}
                  /\ Forwarded(lgd[i])
                  /\ lgd[i].kind = "SQL" /\ lgd[i].w = w}

\* CountOf counts finite sets.
LEMMA CountIs ==
  ASSUME NEW lgd, NEW st, NEW n \in Nat
  PROVE  /\ CountOf(lgd, st, n) \in Databases
         /\ \A w \in Writes : /\ CountOf(lgd, st, n)[w] = Cardinality(Counted(lgd, st, n, w))
                              /\ IsFiniteSet(Counted(lgd, st, n, w))
<1>1. ASSUME NEW w \in Writes PROVE IsFiniteSet(Counted(lgd, st, n, w)) /\ Cardinality(Counted(lgd, st, n, w)) \in Nat
  <2>1. IsFiniteSet(1 .. n)
    BY FS_Interval
  <2>2. Counted(lgd, st, n, w) \subseteq 1 .. n
    BY DEF Counted
  <2>3. IsFiniteSet(Counted(lgd, st, n, w))
    BY <2>1, <2>2, FS_Subset
  <2> QED BY <2>3, FS_CardinalityType
<1>2. CountOf(lgd, st, n) = [w \in Writes |-> Cardinality(Counted(lgd, st, n, w))]
  BY DEF CountOf, Counted
<1> QED BY <1>1, <1>2 DEF Databases

\* The same records count, the same databases.
LEMMA CountSame ==
  ASSUME NEW l1, NEW l2, NEW s1, NEW s2, NEW n1 \in Nat, NEW n2 \in Nat,
         \A w \in Writes : Counted(l1, s1, n1, w) = Counted(l2, s2, n2, w)
  PROVE  CountOf(l1, s1, n1) = CountOf(l2, s2, n2)
<1>1. CountOf(l1, s1, n1) \in Databases /\ CountOf(l2, s2, n2) \in Databases
  BY CountIs
<1>2. \A w \in Writes : CountOf(l1, s1, n1)[w] = CountOf(l2, s2, n2)[w]
  BY CountIs
<1> QED BY <1>1, <1>2 DEF Databases

\* CountOf looks at a beginning of the log only.
LEMMA CountGrow ==
  ASSUME NEW lgd \in Seq(LinesT), NEW more \in Seq(LinesT), NEW st, NEW n \in Nat, n <= Len(lgd)
  PROVE  CountOf(lgd \o more, st, n) = CountOf(lgd, st, n)
<1>1. \A i \in 1 .. Len(lgd) : (lgd \o more)[i] = lgd[i]
  BY ConcatIs
<1>2. \A i \in 1 .. n : (lgd \o more)[i] = lgd[i]
  <2>1. Len(lgd) \in Nat
    OBVIOUS
  <2>2. \A i \in 1 .. n : i \in 1 .. Len(lgd)
    BY <2>1
  <2> QED BY <1>1, <2>2
<1>3. \A w \in Writes : Counted(lgd \o more, st, n, w) = Counted(lgd, st, n, w)
  BY <1>2 DEF Counted
<1> QED BY <1>3, CountSame

\* Records that are not for the subscriber do not count.
LEMMA CountSkip ==
  ASSUME NEW lgd, NEW st, NEW n \in Nat, NEW m \in Nat, n <= m,
         \A i \in (n + 1) .. m : ~(Forwarded(lgd[i]) /\ lgd[i].kind = "SQL")
  PROVE  CountOf(lgd, st, m) = CountOf(lgd, st, n)
<1>1. \A i \in 1 .. m : i \in 1 .. n \/ i \in (n + 1) .. m
  OBVIOUS
<1>2. \A i \in 1 .. n : i \in 1 .. m
  OBVIOUS
<1>3. \A w \in Writes : Counted(lgd, st, m, w) = Counted(lgd, st, n, w)
  BY <1>1, <1>2 DEF Counted
<1> QED BY <1>3, CountSame

\* A record that is for the subscriber counts once.
LEMMA CountNext ==
  ASSUME NEW lgd, NEW st, NEW n \in Nat, st # {}, st \in SUBSET Nat, \A s \in st : s <= n,
         Forwarded(lgd[n + 1]), lgd[n + 1].kind = "SQL"
  PROVE  CountOf(lgd, st, n + 1) = Plus(CountOf(lgd, st, n), {lgd[n + 1].w})
<1> DEFINE v == lgd[n + 1].w
<1>1. CountOf(lgd, st, n) \in Databases /\ CountOf(lgd, st, n + 1) \in Databases
  BY CountIs
<1>2. Plus(CountOf(lgd, st, n), {v}) \in Databases
  BY <1>1 DEF Databases, Plus
<1>3. \A i \in 1 .. (n + 1) : i \in 1 .. n \/ i = n + 1
  OBVIOUS
<1>4. (\A i \in 1 .. n : i \in 1 .. (n + 1)) /\ n + 1 \in 1 .. (n + 1) /\ n + 1 \notin 1 .. n
  OBVIOUS
<1>4a. \A s \in st : n + 1 > s
  OBVIOUS
<1>5. ASSUME NEW w \in Writes PROVE CountOf(lgd, st, n + 1)[w] = Plus(CountOf(lgd, st, n), {v})[w]
  <2>1. CountOf(lgd, st, n)[w] = Cardinality(Counted(lgd, st, n, w)) /\ IsFiniteSet(Counted(lgd, st, n, w))
    BY CountIs
  <2>2. CountOf(lgd, st, n + 1)[w] = Cardinality(Counted(lgd, st, n + 1, w))
    BY CountIs
  <2>3. CASE w = v
    <3>1. Counted(lgd, st, n + 1, w) = Counted(lgd, st, n, w) \cup {n + 1} /\ n + 1 \notin Counted(lgd, st, n, w)
      BY <1>3, <1>4, <1>4a, <2>3 DEF Counted
    <3>2. Cardinality(Counted(lgd, st, n + 1, w)) = Cardinality(Counted(lgd, st, n, w)) + 1
      BY <2>1, <3>1, FS_AddElement
    <3> QED BY <2>1, <2>2, <2>3, <3>2 DEF Plus
  <2>4. CASE w # v
    <3>1. Counted(lgd, st, n + 1, w) = Counted(lgd, st, n, w)
      BY <1>3, <1>4, <2>4 DEF Counted
    <3> QED BY <2>1, <2>2, <2>4, <3>1 DEF Plus
  <2> QED BY <2>3, <2>4
<1> QED BY <1>1, <1>2, <1>5 DEF Databases

\* Nothing counts before the start.
LEMMA CountNone ==
  ASSUME NEW lgd, NEW st, NEW n \in Nat, st \in SUBSET Nat, st = {} \/ \E s \in st : n <= s
  PROVE  CountOf(lgd, st, n) = Nothing
<1>1. ASSUME NEW w \in Writes PROVE CountOf(lgd, st, n)[w] = 0
  <2>1. Counted(lgd, st, n, w) = {}
    <3>1. ASSUME NEW i \in Counted(lgd, st, n, w) PROVE FALSE
      <4>1. i \in 1 .. n /\ st # {} /\ \A s \in st : i > s
        BY DEF Counted
      <4>2. PICK s \in st : n <= s
        BY <4>1
      <4>3. i > s /\ s \in Nat /\ i \in Nat /\ i <= n
        BY <4>1
      <4> QED BY <4>2, <4>3
    <3> QED BY <3>1
  <2>2. CountOf(lgd, st, n)[w] = Cardinality({})
    BY <2>1, CountIs
  <2> QED BY <2>2, FS_EmptySet
<1>2. CountOf(lgd, st, n) \in Databases
  BY CountIs
<1>3. CountOf(lgd, st, n) = [w \in Writes |-> 0]
  BY <1>1, <1>2 DEF Databases
<1> QED BY <1>3 DEF Nothing

\* The database of the subscriber survives a longer log.
LEMMA HoldsGrow ==
  ASSUME NEW lgd \in Seq(LinesT), NEW more \in Seq(LinesT), NEW g \in Nat, NEW st, NEW q, NEW db,
         Holds(lgd, g, st, q, db)
  PROVE  Holds(lgd \o more, g, st, q, db)
<1>1. Len(lgd) \in Nat /\ Len(lgd \o more) \in Nat /\ Len(lgd) <= Len(lgd \o more)
  BY ConcatIs
<1>2. PICK n \in g .. Len(lgd) : /\ q = 2 * (n - g) /\ db = CountOf(lgd, st, n)
                                /\ \A s \in st : g <= s /\ s <= n
  BY DEF Holds
<1>3. n \in Nat /\ n <= Len(lgd) /\ n \in g .. Len(lgd \o more)
  BY <1>1
<1>4. CountOf(lgd \o more, st, n) = CountOf(lgd, st, n)
  BY <1>3, CountGrow
<1> QED BY <1>2, <1>3, <1>4 DEF Holds

\* The steps that leave the subscriber alone.
LEMMA SubscriberIdle ==
  ASSUME SubscriberInv, UNCHANGED <<role, logged, log, eng, atom, disk, start>>,
         peer' = peer \/ peer'.pc = "down", mishaps \subseteq mishaps'
  PROVE  SubscriberInv'
<1>1. Gone' = Gone
  BY DEF Gone
<1>2. (Met({"truncate"}) => Met({"truncate"})') /\ (Met({"baseline"}) => Met({"baseline"})')
  BY DEF Met
<1> QED BY <1>1, <1>2 DEF SubscriberInv

\* The subscriber is not touched by what the primary and the wire do.
LEMMA SubscriberPrim ==
  ASSUME TypeInv, LogInv, SubscriberInv, Client \/ Log \/ Mark \/ Truncate \/ Poll \/ Sender \/ Cut \/ HangUp,
         mishaps \subseteq mishaps'
  PROVE  SubscriberInv'
<1>1. CASE Client \/ Poll \/ Sender \/ Cut
  <2>1. UNCHANGED <<role, logged, log, eng, atom, disk, start, peer>>
    BY <1>1 DEF Client, Execute, Begin, Statement, End, Poll, Sender, SendBytes, SendRecord, Cut, linkVars, peerVars, primVars, vars
  <2> QED BY <2>1, SubscriberIdle
<1>2. CASE HangUp
  <2>1. UNCHANGED <<role, logged, log, eng, atom, disk, start>> /\ peer'.pc = "down"
    BY <1>2, DownType DEF HangUp, primVars
  <2> QED BY <2>1, SubscriberIdle
<1>3. ASSUME NEW more \in Seq(LinesT), log' = log \o more, logged' = logged \o more,
             UNCHANGED <<role, eng, atom, disk, start, peer>>
      PROVE  SubscriberInv'
  <2>1. Gone' = Gone /\ Gone \in Nat
    BY <1>3, LogGrows DEF LogInv
  <2>2. logged \in Seq(LinesT) /\ Len(logged) \in Nat
    BY Basics
  <2>3. Len(logged') = Len(logged) + Len(more) /\ Len(more) \in Nat
    BY <1>3, <2>2, ConcatIs
  <2>4. \A q, db : Holds(logged, Gone, start, q, db) => Holds(logged', Gone', start, q, db)
    BY <1>3, <2>1, <2>2, HoldsGrow
  <2>5. (Met({"truncate"}) => Met({"truncate"})') /\ (Met({"baseline"}) => Met({"baseline"})')
    BY DEF Met
  <2>6. ASSUME NEW s \in start, s <= Len(logged) PROVE s <= Len(logged')
    <3>1. s \in Nat
      BY DEF TypeInv, PeerType
    <3> QED BY <2>2, <2>3, <2>6, <3>1
  <2> QED BY <1>3, <2>4, <2>5, <2>6 DEF SubscriberInv
<1>4. CASE Log
  <2>1. prim.recs \in Seq(LinesT)
    BY DEF TypeInv, PrimType, Prims
  <2>2. log' = log \o prim.recs /\ logged' = logged \o prim.recs /\ UNCHANGED <<role, eng, atom, disk, start, peer>>
    BY <1>4 DEF Log, peerVars
  <2> QED BY <1>3, <2>1, <2>2
<1>5. CASE Mark
  <2>1. <<Record("MARK", 0, 0)>> \in Seq(LinesT) /\ Record("MARK", 0, 0) \in LinesT
    BY OneRecord
  <2>2. log \in Seq(LinesT) /\ logged \in Seq(LinesT)
    BY Basics
  <2>3. log' = log \o <<Record("MARK", 0, 0)>> /\ logged' = logged \o <<Record("MARK", 0, 0)>>
    BY <1>5, <2>1, <2>2, AppendIsConcat DEF Mark
  <2>4. UNCHANGED <<role, eng, atom, disk, start, peer>>
    BY <1>5 DEF Mark, peerVars
  <2> QED BY <1>3, <2>1, <2>3, <2>4
<1>6. CASE Truncate
  <2>1. CASE Met({"truncate"})'
    BY <2>1 DEF SubscriberInv
  <2>2. CASE ~Met({"truncate"})'
    <3>1. Unread /\ UNCHANGED <<role, logged, linkVars, peerVars>>
      BY <1>6, <2>2 DEF Truncate, Meets, When, Met
    <3>2. peer = Down /\ peer.pc = "down"
      BY <3>1, DownType DEF Unread, TypeInv, LinkType
    <3>3. (Met({"truncate"}) => Met({"truncate"})') /\ (Met({"baseline"}) => Met({"baseline"})')
      BY DEF Met
    <3> QED BY <2>2, <3>1, <3>2, <3>3 DEF SubscriberInv, Unread, peerVars
  <2> QED BY <2>1, <2>2
<1> QED BY <1>1, <1>2, <1>4, <1>5, <1>6

\* The facts a subscriber's step uses.
LEMMA SubscriberFacts ==
  ASSUME TypeInv, LogInv
  PROVE  /\ Len(log) \in Nat /\ Len(logged) \in Nat /\ Size = 2 * Len(log) /\ Gone \in Nat /\ Gone + Len(log) = Len(logged)
         /\ atom \in Nat /\ disk.side \in Nat /\ peer.pos \in Nat /\ peer \in Peers /\ disk \in Disks /\ eng \in Engines
         /\ start \in SUBSET Nat /\ disk.db \in SUBSET Databases
<1>1. Len(log) \in Nat /\ Len(logged) \in Nat /\ Len(log) <= Len(logged)
  BY Basics DEF LogInv
<1> QED BY <1>1, Basics DEF Gone, TypeInv, PeerType

\* A subscription begins at the end of the log.
LEMMA HoldsAtEnd ==
  ASSUME TypeInv, LogInv
  PROVE  Holds(logged, Gone, {Len(logged)}, Size, Nothing)
<1>1. /\ Len(log) \in Nat /\ Len(logged) \in Nat /\ Size = 2 * Len(log) /\ Gone \in Nat /\ Gone + Len(log) = Len(logged)
  BY SubscriberFacts
<1>2. CountOf(logged, {Len(logged)}, Len(logged)) = Nothing
  <2> DEFINE st == {Len(logged)}
  <2>1. st \in SUBSET Nat /\ \E s \in st : Len(logged) <= s
    BY <1>1
  <2> HIDE DEF st
  <2>2. CountOf(logged, st, Len(logged)) = Nothing
    BY <1>1, <2>1, CountNone
  <2> QED BY <2>2 DEF st
<1>3. Len(logged) \in Gone .. Len(logged) /\ Size = 2 * (Len(logged) - Gone) /\ Gone <= Len(logged) /\ Len(logged) <= Len(logged)
  BY <1>1
<1> QED BY <1>2, <1>3 DEF Holds

\* The subscriber connects at its position.
LEMMA SubscriberSubscribe ==
  ASSUME TypeInv, LogInv, SubscriberInv, Subscribe, mishaps \subseteq mishaps'
  PROVE  SubscriberInv'
<1>1. /\ Len(log) \in Nat /\ Len(logged) \in Nat /\ Size = 2 * Len(log) /\ Gone \in Nat /\ Gone + Len(log) = Len(logged)
      /\ atom \in Nat /\ disk.side \in Nat
  BY SubscriberFacts
<1> DEFINE from == IF atom = 0 THEN Size ELSE atom
<1>2. /\ role = "subscriber" /\ peer' = [Down EXCEPT !.pc = "stream", !.pos = from]
      /\ UNCHANGED <<role, primVars, eng, atom, disk>>
      /\ start' = IF start = {} THEN {Len(logged) - Len(log) + from \div 2} ELSE start
      /\ mishaps' = mishaps \cup When(atom = 0 /\ start # {}, {"baseline"})
  BY DEF Subscribe, Meets
<1>3. peer'.pc = "stream" /\ peer'.pos = from
  BY <1>2 DEF Down
<1>4. Gone' = Gone /\ logged' = logged
  BY <1>2 DEF primVars, Gone
<1>5. atom <= from
  BY <1>1
<1> HIDE DEF from
<1>6. (Met({"truncate"}) => Met({"truncate"})') /\ (Met({"baseline"}) => Met({"baseline"})')
  BY DEF Met
<1>7. CASE Met({"truncate"})'
  BY <1>7 DEF SubscriberInv
<1>8. CASE ~Met({"truncate"})' /\ Met({"baseline"})'
  BY <1>2, <1>3, <1>5, <1>6, <1>8 DEF SubscriberInv
<1>9. CASE ~Met({"truncate"})' /\ ~Met({"baseline"})'
  <2>1. /\ disk.side <= atom /\ ~eng.open
        /\ start = {} => atom = 0
        /\ \A s \in start : s <= Len(logged)
        /\ atom > 0 => Holds(logged, Gone, start, atom, eng.base)
        /\ atom = 0 => eng.base = Nothing
        /\ \A d \in disk.db : IF disk.side > 0 THEN Holds(logged, Gone, start, disk.side, d)
                              ELSE d = Nothing
    BY <1>2, <1>6, <1>9 DEF SubscriberInv
  <2>2. CASE start = {}
    <3>1. atom = 0 /\ from = Size /\ disk.side = 0 /\ eng.base = Nothing
      BY <1>1, <2>1, <2>2 DEF from
    <3>2. Len(logged) - Len(log) + from \div 2 = Len(logged)
      <4>1. from = 2 * Len(log)
        BY <1>1, <3>1
      <4>2. from \div 2 = Len(log)
        BY <1>1, <4>1
      <4> QED BY <1>1, <4>2
    <3>3. start' = {Len(logged)}
      BY <1>2, <2>2, <3>2
    <3>4. Holds(logged, Gone, start', from, eng.base)
      BY <3>1, <3>3, HoldsAtEnd
    <3>5. \A s \in start' : s <= Len(logged')
      BY <1>1, <1>4, <3>3
    <3>6. start' # {}
      BY <3>3
    <3>7. ~(atom > 0) /\ ~(disk.side > 0)
      BY <3>1
    <3> QED BY <1>2, <1>3, <1>4, <1>5, <2>1, <3>1, <3>4, <3>5, <3>6, <3>7 DEF SubscriberInv
  <2>3. CASE start # {}
    <3>1. atom # 0
      BY <1>2, <1>9, <2>3 DEF Met, When
    <3>2. atom > 0 /\ from = atom /\ start' = start
      BY <1>1, <1>2, <2>3, <3>1 DEF from
    <3> QED BY <1>2, <1>3, <1>4, <1>5, <2>1, <2>3, <3>2 DEF SubscriberInv
  <2> QED BY <2>2, <2>3
<1> QED BY <1>7, <1>8, <1>9

\* The frame at the head of the stream.
LEMMA SubscriberFrame ==
  ASSUME TypeInv, NetInv, role = "subscriber", peer.pc = "stream", net # <<>>
  PROVE  /\ Head(net) = net[1] /\ net[1] \in FrameSet
         /\ \E b \in Nat : Piece(log, net[1], peer.pos, b, role)
<1>1. net \in Seq(FrameSet) /\ peer.pos \in Nat /\ sent \in Nat
  BY Basics
<1>2. peer.pend = <<>> /\ Chain(log, net, peer.pos + Len(peer.pend), sent, link, role)
  BY DEF NetInv, Incoming
<1>3. peer.pos + Len(peer.pend) = peer.pos
  BY <1>1, <1>2
<1>4. \E b \in 0 .. sent : Piece(log, net[1], peer.pos, b, role)
  BY <1>1, <1>2, <1>3, ChainTail
<1>5. \A b \in 0 .. sent : b \in Nat
  BY <1>1
<1> QED BY <1>1, <1>4, <1>5

\* The record at the head of the stream.
LEMMA SubscriberRecord ==
  ASSUME TypeInv, LogInv, NetInv, ReceiveRecord
  PROVE  \E m \in Nat : /\ peer.pos = 2 * m /\ m + 1 \in 1 .. Len(log) /\ Forwarded(log[m + 1])
                        /\ Head(net).units[1].rec = log[m + 1] /\ log[m + 1] = logged[(Gone + m) + 1]
                        /\ log[m + 1] \in LinesT
<1>1. /\ Len(log) \in Nat /\ Gone \in Nat /\ Gone + Len(log) = Len(logged) /\ peer.pos \in Nat
  BY SubscriberFacts
<1>1a. log \in Seq(LinesT)
  BY Basics
<1>2. role = "subscriber" /\ peer.pc = "stream" /\ net # <<>> /\ Head(net).kind = "wal"
  BY DEF ReceiveRecord, Arrives
<1>3. Head(net) = net[1] /\ net[1] \in FrameSet /\ \E b \in Nat : Piece(log, net[1], peer.pos, b, role)
  BY <1>2, SubscriberFrame
<1>4. PICK b \in Nat : Piece(log, net[1], peer.pos, b, role)
  BY <1>3
<1>5. /\ b = peer.pos + Len(net[1].units) /\ Contig(log, net[1].units, peer.pos)
      /\ \E m \in 0 .. Len(log) : peer.pos = 2 * m /\ b = 2 * m + 2 /\ Forwarded(log[m + 1])
  BY <1>2, <1>3, <1>4 DEF Piece
<1>6. PICK m \in Nat : peer.pos = 2 * m /\ b = 2 * m + 2 /\ Forwarded(log[m + 1])
  BY <1>1, <1>5
<1>7. PICK us \in Seq(Halves) : us = net[1].units
  BY <1>3 DEF FrameSet
<1>8. Len(us) \in Nat /\ b = peer.pos + Len(us) /\ Contig(log, us, 2 * m)
  <2>1. Len(us) \in Nat
    OBVIOUS
  <2>2. b = peer.pos + Len(us) /\ Contig(log, us, peer.pos)
    BY <1>5, <1>7, Zenon
  <2>3. peer.pos = 2 * m
    BY <1>6
  <2> QED BY <2>1, <2>2, <2>3, Zenon
<1>9. Len(us) = 2
  <2>1. 2 * m + 2 = 2 * m + Len(us)
    BY <1>6, <1>8, Zenon
  <2>2. \A l \in Nat : 2 * m + 2 = 2 * m + l => l = 2
    OBVIOUS
  <2> QED BY <1>8, <2>1, <2>2, Zenon
<1>10. m + 1 \in 1 .. Len(log)
  <2>1. 2 * m + Len(us) <= 2 * Len(log)
    BY <1>8 DEF Contig
  <2> QED BY <1>1, <1>9, <2>1
<1>11. us[1] = UnitAt(log, 2 * m + 1)
  BY <1>8, <1>9 DEF Contig
<1>12. us[1].rec = log[m + 1]
  <2>1. us[1] = Unit(log[m + 1], 1)
    BY <1>11, HalvesOf
  <2> QED BY <2>1 DEF Unit
<1>13. log[m + 1] = logged[(Gone + m) + 1]
  <2>1. Gone + (m + 1) = (Gone + m) + 1
    BY <1>1
  <2> QED BY <1>10, <2>1 DEF LogInv
<1>14. Head(net).units[1].rec = log[m + 1]
  BY <1>3, <1>7, <1>12
<1> QED BY <1>1a, <1>6, <1>10, <1>13, <1>14

\* The subscriber receives a record.
LEMMA SubscriberReceive ==
  ASSUME TypeInv, LogInv, ~Met({"truncate"}) => NetInv, SubscriberInv, ReceiveRecord, mishaps \subseteq mishaps'
  PROVE  SubscriberInv'
<1>1. /\ Len(log) \in Nat /\ Len(logged) \in Nat /\ Gone \in Nat /\ Gone + Len(log) = Len(logged)
      /\ atom \in Nat /\ disk.side \in Nat /\ peer.pos \in Nat
  BY SubscriberFacts
<1>1a. peer \in Peers /\ eng \in Engines /\ start \in SUBSET Nat
  BY SubscriberFacts
<1>2. /\ role = "subscriber" /\ peer.pc = "stream" /\ UNCHANGED <<role, mishaps, primVars, disk, start>>
  BY DEF ReceiveRecord, Arrives
<1>3. Gone' = Gone /\ logged' = logged
  BY <1>2 DEF primVars, Gone
<1>4. (Met({"truncate"})' <=> Met({"truncate"})) /\ (Met({"baseline"})' <=> Met({"baseline"}))
  BY <1>2 DEF Met
<1>5. CASE Met({"truncate"})
  BY <1>4, <1>5 DEF SubscriberInv
<1>6. CASE ~Met({"truncate"})
  <2>1. PICK m \in Nat : /\ peer.pos = 2 * m /\ m + 1 \in 1 .. Len(log) /\ Forwarded(log[m + 1])
                         /\ Head(net).units[1].rec = log[m + 1] /\ log[m + 1] = logged[(Gone + m) + 1]
                         /\ log[m + 1] \in LinesT
    BY <1>6, SubscriberRecord
  <2> DEFINE r == log[m + 1]
  <2>2. /\ eng' = ReplayRecord(eng, r)
        /\ \E v : peer' = [peer EXCEPT !.pos = @ + 2, !.vol = v]
        /\ r.kind = "INPUTS" => atom' = atom
        /\ r.kind # "INPUTS" => atom' = IF peer.pos + 2 > atom THEN peer.pos + 2 ELSE atom
    BY <2>1 DEF ReceiveRecord, Advance
  <2>3. r \in LinesT /\ r = logged[(Gone + m) + 1] /\ Forwarded(r)
    BY <2>1
  <2> HIDE DEF r
  <2>4. peer'.pc = "stream" /\ peer'.pos = peer.pos + 2
    BY <1>1a, <1>2, <2>2 DEF Peers
  <2>5. atom <= peer.pos /\ disk.side <= atom /\ ~eng.open
    BY <1>2, <1>6 DEF SubscriberInv
  <2>6. r.kind # "INPUTS" => atom' = peer.pos + 2
    BY <1>1, <2>2, <2>5
  <2>7. disk.side <= atom' /\ atom' <= peer'.pos
    <3>1. CASE r.kind = "INPUTS"
      BY <1>1, <2>2, <2>4, <2>5, <3>1
    <3>2. CASE r.kind # "INPUTS"
      BY <1>1, <2>4, <2>5, <2>6, <3>2
    <3> QED BY <3>1, <3>2
  <2>8. r.kind = "INPUTS" \/ (r.kind = "SQL" /\ r.kind # "INPUTS")
    BY <2>3 DEF Forwarded
  <2>9. /\ r.kind = "INPUTS" => eng' = eng
        /\ r.kind = "SQL" => ~eng'.open /\ eng'.base = Plus(eng.base, {r.w})
    BY <1>1a, <2>2, <2>3, <2>5 DEF ReplayRecord, Engines
  <2>10. ~eng'.open
    BY <2>5, <2>8, <2>9
  <2>11. CASE Met({"baseline"})
    BY <1>2, <1>4, <2>4, <2>7, <2>10, <2>11 DEF SubscriberInv
  <2>12. CASE ~Met({"baseline"})
    <3>1. /\ start # {} /\ (\A s \in start : s <= Len(logged))
          /\ Holds(logged, Gone, start, peer.pos, eng.base)
          /\ atom > 0 => Holds(logged, Gone, start, atom, eng.base)
          /\ atom = 0 => eng.base = Nothing
          /\ \A d \in disk.db : IF disk.side > 0 THEN Holds(logged, Gone, start, disk.side, d) ELSE d = Nothing
      BY <1>2, <1>6, <2>12 DEF SubscriberInv
    <3>2. PICK n \in Nat :
             /\ Gone <= n /\ n <= Len(logged) /\ peer.pos = 2 * (n - Gone) /\ eng.base = CountOf(logged, start, n)
             /\ \A s \in start : Gone <= s /\ s <= n
      <4>1. logged \in Seq(LinesT)
        BY Basics
      <4>2. Gone \in Nat /\ Holds(logged, Gone, start, peer.pos, eng.base)
        BY <1>1, <3>1
      <4>3. \A n \in Gone .. Len(logged) : n \in Nat /\ Gone <= n /\ n <= Len(logged)
        BY <1>1
      <4> QED BY <4>2, <4>3 DEF Holds
    <3>3. n \in Nat /\ n = Gone + m /\ n + 1 \in Gone .. Len(logged) /\ peer.pos + 2 = 2 * ((n + 1) - Gone)
      <4>1. \A g, l, k, q \in Nat : /\ g <= n /\ q = 2 * (n - g) /\ q = 2 * m /\ m + 1 \in 1 .. k /\ g + k = l
                                  => n = g + m /\ n + 1 \in g .. l /\ q + 2 = 2 * ((n + 1) - g)
        OBVIOUS
      <4>2. Gone <= n /\ peer.pos = 2 * (n - Gone) /\ peer.pos = 2 * m /\ m + 1 \in 1 .. Len(log)
        BY <2>1, <3>2
      <4>3. n = Gone + m /\ n + 1 \in Gone .. Len(logged) /\ peer.pos + 2 = 2 * ((n + 1) - Gone)
        BY <1>1, <4>1, <4>2
      <4> QED BY <4>3
    <3>4. r = logged[n + 1]
      BY <2>3, <3>3
    <3>5. eng'.base = CountOf(logged, start, n + 1)
      <4>1. CASE r.kind = "INPUTS"
        <5>1. \A i \in (n + 1) .. (n + 1) : ~(Forwarded(logged[i]) /\ logged[i].kind = "SQL")
          <6>1. \A i \in (n + 1) .. (n + 1) : i = n + 1
            BY <3>3
          <6> QED BY <3>4, <4>1, <6>1
        <5>2. n + 1 \in Nat /\ n <= n + 1
          BY <3>3
        <5>3. CountOf(logged, start, n + 1) = CountOf(logged, start, n)
          BY <3>3, <5>1, <5>2, CountSkip
        <5> QED BY <2>9, <3>2, <4>1, <5>3
      <4>2. CASE r.kind = "SQL"
        <5>1. CountOf(logged, start, n + 1) = Plus(CountOf(logged, start, n), {r.w})
          <6>1. Forwarded(logged[n + 1]) /\ logged[n + 1].kind = "SQL" /\ logged[n + 1].w = r.w
            BY <2>3, <3>4, <4>2
          <6>2. \A s \in start : s <= n
            BY <3>2
          <6>3. CountOf(logged, start, n + 1) = Plus(CountOf(logged, start, n), {logged[n + 1].w})
            BY <1>1a, <3>1, <6>1, <6>2, CountNext, ZenonT(30)
          <6> QED BY <6>1, <6>3
        <5> QED BY <2>9, <3>2, <4>2, <5>1
      <4> QED BY <2>8, <4>1, <4>2
    <3>6. \A s \in start : Gone <= s /\ s <= n + 1
      <4>1. \A s \in start : s \in Nat
        BY <1>1a
      <4> QED BY <3>2, <3>3, <4>1
    <3>7. Holds(logged, Gone, start, peer'.pos, eng'.base)
      BY <2>4, <3>3, <3>5, <3>6 DEF Holds
    <3>8. atom' > 0 => Holds(logged, Gone, start, atom', eng'.base)
      <4>1. CASE r.kind = "INPUTS"
        BY <2>2, <2>9, <3>1, <4>1
      <4>2. CASE r.kind # "INPUTS"
        BY <2>4, <2>6, <3>7, <4>2
      <4> QED BY <4>1, <4>2
    <3>9. atom' = 0 => eng'.base = Nothing
      <4>1. CASE r.kind = "INPUTS"
        BY <2>2, <2>9, <3>1, <4>1
      <4>2. CASE r.kind # "INPUTS"
        BY <1>1, <2>6, <4>2
      <4> QED BY <4>1, <4>2
    <3> QED BY <1>2, <1>3, <2>4, <2>7, <2>10, <3>1, <3>7, <3>8, <3>9 DEF SubscriberInv
  <2> QED BY <2>11, <2>12
<1> QED BY <1>5, <1>6

\* The run of skipped records at the head of the stream.
LEMMA SubscriberSkipped ==
  ASSUME TypeInv, LogInv, NetInv, ReceiveSkip
  PROVE  \E m, l \in Nat : /\ peer.pos = 2 * m /\ peer.pos + Head(net).n = 2 * l /\ m < l /\ l <= Len(log)
                           /\ \A i \in (m + 1) .. l : ~Forwarded(log[i]) /\ log[i] = logged[Gone + i]
<1>1. /\ Len(log) \in Nat /\ Gone \in Nat /\ Gone + Len(log) = Len(logged) /\ peer.pos \in Nat
  BY SubscriberFacts
<1>2. role = "subscriber" /\ peer.pc = "stream" /\ net # <<>> /\ Head(net).kind = "skip"
  BY DEF ReceiveSkip, Arrives
<1>3. Head(net) = net[1] /\ net[1] \in FrameSet /\ \E b \in Nat : Piece(log, net[1], peer.pos, b, role)
  BY <1>2, SubscriberFrame
<1>4. PICK b \in Nat : Piece(log, net[1], peer.pos, b, role)
  BY <1>3
<1>5. /\ peer.pos < b /\ b = peer.pos + Head(net).n
      /\ \E m, l \in 0 .. Len(log) : peer.pos = 2 * m /\ b = 2 * l /\ \A i \in (m + 1) .. l : ~Forwarded(log[i])
  BY <1>2, <1>3, <1>4 DEF Piece
<1>6. PICK m \in Nat, l \in Nat :
         l <= Len(log) /\ peer.pos = 2 * m /\ b = 2 * l /\ \A i \in (m + 1) .. l : ~Forwarded(log[i])
  <2>1. \A x \in 0 .. Len(log) : x \in Nat /\ x <= Len(log)
    BY <1>1
  <2> QED BY <1>5, <2>1, Zenon
<1>7. m < l
  BY <1>5, <1>6
<1>8. \A i \in (m + 1) .. l : i \in 1 .. Len(log)
  BY <1>1, <1>6
<1>9. \A i \in (m + 1) .. l : log[i] = logged[Gone + i]
  BY <1>8 DEF LogInv
<1> QED BY <1>5, <1>6, <1>7, <1>9

\* Skipped records move the position and nothing else.
LEMMA SubscriberSkip ==
  ASSUME TypeInv, LogInv, ~Met({"truncate"}) => NetInv, SubscriberInv, ReceiveSkip
  PROVE  SubscriberInv'
<1>1. /\ Len(log) \in Nat /\ Len(logged) \in Nat /\ Gone \in Nat /\ Gone + Len(log) = Len(logged)
      /\ atom \in Nat /\ disk.side \in Nat /\ peer.pos \in Nat
  BY SubscriberFacts
<1>1a. peer \in Peers /\ eng \in Engines /\ start \in SUBSET Nat
  BY SubscriberFacts
<1>2. /\ role = "subscriber" /\ peer.pc = "stream" /\ UNCHANGED <<role, mishaps, primVars, eng, disk, start>>
      /\ peer' = [peer EXCEPT !.pos = @ + Head(net).n]
      /\ atom' = IF peer.pos + Head(net).n > atom THEN peer.pos + Head(net).n ELSE atom
  BY DEF ReceiveSkip, Arrives, Advance
<1>3. Gone' = Gone /\ logged' = logged
  BY <1>2 DEF primVars, Gone
<1>4. (Met({"truncate"})' <=> Met({"truncate"})) /\ (Met({"baseline"})' <=> Met({"baseline"}))
  BY <1>2 DEF Met
<1>5. CASE Met({"truncate"})
  BY <1>4, <1>5 DEF SubscriberInv
<1>6. CASE ~Met({"truncate"})
  <2>1. PICK m \in Nat, l \in Nat :
           /\ peer.pos = 2 * m /\ peer.pos + Head(net).n = 2 * l /\ m < l /\ l <= Len(log)
           /\ \A i \in (m + 1) .. l : ~Forwarded(log[i]) /\ log[i] = logged[Gone + i]
    BY <1>6, SubscriberSkipped
  <2>2. peer'.pc = "stream" /\ peer'.pos = 2 * l
    BY <1>1a, <1>2, <2>1 DEF Peers
  <2>3. atom <= peer.pos /\ disk.side <= atom /\ ~eng.open
    BY <1>2, <1>6 DEF SubscriberInv
  <2>4. atom' = 2 * l /\ disk.side <= atom' /\ atom' <= peer'.pos /\ atom' > 0
    <3>1. atom <= 2 * m
      BY <2>1, <2>3
    <3>2. 2 * l > atom
      BY <1>1, <2>1, <3>1
    <3>3. atom' = 2 * l
      BY <1>2, <2>1, <3>2
    <3> QED BY <1>1, <2>2, <2>3, <3>2, <3>3
  <2>5. CASE Met({"baseline"})
    BY <1>2, <1>4, <2>2, <2>3, <2>4, <2>5 DEF SubscriberInv
  <2>6. CASE ~Met({"baseline"})
    <3>1. /\ start # {} /\ (\A s \in start : s <= Len(logged))
          /\ Holds(logged, Gone, start, peer.pos, eng.base)
          /\ \A d \in disk.db : IF disk.side > 0 THEN Holds(logged, Gone, start, disk.side, d) ELSE d = Nothing
      BY <1>2, <1>6, <2>6 DEF SubscriberInv
    <3>2. PICK n \in Nat :
             /\ Gone <= n /\ n <= Len(logged) /\ peer.pos = 2 * (n - Gone) /\ eng.base = CountOf(logged, start, n)
             /\ \A s \in start : Gone <= s /\ s <= n
      <4>1. \A n \in Gone .. Len(logged) : n \in Nat /\ Gone <= n /\ n <= Len(logged)
        BY <1>1
      <4> QED BY <3>1, <4>1 DEF Holds
    <3> DEFINE t == Gone + l
    <3>3. n = Gone + m
      <4>1. \A g, q \in Nat : g <= n /\ q = 2 * (n - g) /\ q = 2 * m => n = g + m
        OBVIOUS
      <4> QED BY <1>1, <2>1, <3>2, <4>1
    <3>4. t \in Nat /\ n <= t /\ t \in Gone .. Len(logged) /\ 2 * l = 2 * (t - Gone)
      BY <1>1, <2>1, <3>3
    <3>5. \A i \in (n + 1) .. t : ~(Forwarded(logged[i]) /\ logged[i].kind = "SQL")
      <4> SUFFICES ASSUME NEW i \in (n + 1) .. t PROVE ~Forwarded(logged[i])
        OBVIOUS
      <4>1. i - Gone \in (m + 1) .. l /\ Gone + (i - Gone) = i
        BY <1>1, <3>3
      <4> QED BY <2>1, <4>1
    <3> HIDE DEF t
    <3>6. CountOf(logged, start, t) = eng.base
      BY <3>2, <3>4, <3>5, CountSkip
    <3>7. \A s \in start : Gone <= s /\ s <= t
      <4>1. \A s \in start : s \in Nat
        BY <1>1a
      <4> QED BY <3>2, <3>4, <4>1
    <3>8. Holds(logged, Gone, start, 2 * l, eng.base)
      BY <3>4, <3>6, <3>7 DEF Holds
    <3>9. atom' # 0
      BY <1>1, <2>1, <2>4
    <3> QED BY <1>2, <1>3, <2>2, <2>3, <2>4, <3>1, <3>8, <3>9 DEF SubscriberInv
  <2> QED BY <2>5, <2>6
<1> QED BY <1>5, <1>6

\* CHECKPOINT and restart on the subscriber: rows and position go together.
LEMMA SubscriberDisk ==
  ASSUME TypeInv, LogInv, SubscriberInv, SaveSubscriber \/ CrashSubscriber
  PROVE  SubscriberInv'
<1>1. /\ atom \in Nat /\ disk.side \in Nat /\ disk \in Disks /\ eng \in Engines
  BY SubscriberFacts
<1>2. role = "subscriber" /\ UNCHANGED <<role, mishaps, primVars, start>>
  BY DEF SaveSubscriber, CrashSubscriber
<1>3. Gone' = Gone /\ logged' = logged
  BY <1>2 DEF primVars, Gone
<1>4. (Met({"truncate"})' <=> Met({"truncate"})) /\ (Met({"baseline"})' <=> Met({"baseline"}))
  BY <1>2 DEF Met
<1>5. CASE SaveSubscriber
  <2>1. disk' = [disk EXCEPT !.db = {eng.base}, !.side = atom] /\ UNCHANGED <<eng, peer, atom>>
    BY <1>5 DEF SaveSubscriber
  <2>2. disk'.db = {eng.base} /\ disk'.side = atom
    BY <1>1, <2>1 DEF Disks
  <2>3. atom > 0 \/ atom = 0
    BY <1>1
  <2>4. ~(0 > 0) /\ atom <= atom
    BY <1>1
  <2> QED BY <1>2, <1>3, <1>4, <2>1, <2>2, <2>3, <2>4 DEF SubscriberInv
<1>6. CASE CrashSubscriber
  <2>1. PICK d \in disk.db : eng' = Engine(d)
    BY <1>6 DEF CrashSubscriber
  <2>2. atom' = disk.side /\ peer' = Down /\ disk' = disk
    BY <1>6 DEF CrashSubscriber
  <2>3. peer'.pc = "down" /\ eng'.base = d /\ ~eng'.open
    BY <2>1, <2>2, DownType DEF Engine
  <2>4. disk.side > 0 \/ disk.side = 0
    BY <1>1
  <2>5. ~(0 > 0) /\ disk.side <= disk.side
    BY <1>1
  <2>6. disk.side <= atom /\ atom = 0 => disk.side = 0
    BY <1>1
  <2> QED BY <1>2, <1>3, <1>4, <2>1, <2>2, <2>3, <2>4, <2>5, <2>6 DEF SubscriberInv
<1> QED BY <1>5, <1>6

\* Nothing is subscribed at first.
LEMMA InitSubscriber == ReplInit => SubscriberInv
<1> SUFFICES ASSUME ReplInit, role = "subscriber" PROVE SubscriberInv
  BY DEF SubscriberInv
<1>1. /\ start = {} /\ atom = 0 /\ peer = Down /\ disk.side = 0 /\ disk.db = {Nothing} /\ eng = Engine(Nothing)
  BY DEF ReplInit
<1>2. peer.pc = "down" /\ eng.base = Nothing /\ ~eng.open
  BY <1>1, DownType DEF Engine
<1>3. 0 <= 0 /\ ~(0 > 0)
  OBVIOUS
<1> QED BY <1>1, <1>2, <1>3 DEF SubscriberInv

\* Every step keeps what a subscriber has.
LEMMA StepSubscriber ==
  ASSUME TypeInv, LogInv, ~Met({"truncate"}) => NetInv, SubscriberInv, [ReplNext]_vars
  PROVE  SubscriberInv'
<1>1. CASE UNCHANGED vars
  BY <1>1 DEF vars, primVars, linkVars, peerVars, SubscriberInv, Gone, Met
<1>2. CASE ReplNext
  <2>1. mishaps \subseteq mishaps'
    BY MishapsStay
  <2>2. role' = role
    BY <1>2 DEF ReplNext, Client, Execute, Begin, Statement, End, Log, Mark, Truncate, Sender, SendBytes, SendRecord,
                Receiver, Connect, Resume, WriteSnapshot, Restore, ReceiveBytes, DrainRecord, Drained, Subscribe,
                ReceiveRecord, ReceiveSkip, HangUp, Poll, SaveSubscriber, Cut, CrashFollower, CrashSubscriber, vars
  <2>3. CASE role # "subscriber"
    BY <2>2, <2>3 DEF SubscriberInv
  <2>4. CASE role = "subscriber"
    <3>1. peer.pc # "drain"
      BY <2>4 DEF TypeInv, PeerType
    <3>2. ~Connect /\ ~Resume /\ ~WriteSnapshot /\ ~Restore /\ ~ReceiveBytes /\ ~DrainRecord /\ ~Drained /\ ~CrashFollower
      BY <2>4, <3>1 DEF Connect, Resume, WriteSnapshot, Restore, ReceiveBytes, DrainRecord, Drained, CrashFollower
    <3>3. CASE Client \/ Log \/ Mark \/ Truncate \/ Poll \/ Sender \/ Cut \/ HangUp
      BY <2>1, <3>3, SubscriberPrim
    <3>4. CASE Subscribe \/ ReceiveRecord \/ ReceiveSkip
      BY <2>1, <3>4, SubscriberSubscribe, SubscriberReceive, SubscriberSkip
    <3>5. CASE SaveSubscriber \/ CrashSubscriber
      BY <3>5, SubscriberDisk
    <3> QED BY <1>2, <3>2, <3>3, <3>4, <3>5 DEF ReplNext, Receiver
  <2> QED BY <2>3, <2>4
<1> QED BY <1>1, <1>2

---------------------------------------------------------------------------
(* Readings.                                                               *)

\* Readings that nobody kept were not there.
LEMMA KeepsNothing ==
  ASSUME NEW lg \in Seq(LinesT), Paired(lg), NEW q, Keeps(lg, q, 0)
  PROVE  Clear(lg, q)
<1> SUFFICES ASSUME NEW m \in 1 .. Len(lg), q = 2 * m, lg[m].kind = "INPUTS" PROVE FALSE
  BY DEF Clear
<1>1. lg[m].w \in Writes /\ lg[m].w = 0
  BY DEF Paired, Keeps
<1> QED BY <1>1 DEF Writes

\* Where no statement waits for readings, any will do.
LEMMA ClearKeeps ==
  ASSUME NEW lg, NEW q, NEW v, Clear(lg, q)
  PROVE  Keeps(lg, q, v)
BY DEF Clear, Keeps

\* There are no readings in the middle of a record.
LEMMA ClearOdd ==
  ASSUME NEW lg \in Seq(LinesT)
  PROVE  Clear(lg, 1)
<1>1. \A m \in 1 .. Len(lg) : 1 # 2 * m
  OBVIOUS
<1> QED BY <1>1 DEF Clear

\* The end of a record that holds no readings.
LEMMA ClearAfter ==
  ASSUME NEW lg, NEW m \in Nat, lg[m].kind # "INPUTS"
  PROVE  Clear(lg, 2 * m)
<1>1. \A i \in 1 .. Len(lg) : 2 * m = 2 * i => i = m
  OBVIOUS
<1> QED BY <1>1 DEF Clear

\* The end of the file.
LEMMA ClearEnd ==
  ASSUME NEW lg \in Seq(LinesT), Paired(lg)
  PROVE  Clear(lg, 2 * Len(lg))
<1>1. \A m \in 1 .. Len(lg) : 2 * Len(lg) = 2 * m => m = Len(lg) /\ lg # <<>>
  OBVIOUS
<1> QED BY <1>1 DEF Clear, Paired

\* Appending does not put readings before a position.
LEMMA KeepsGrow ==
  ASSUME NEW lg \in Seq(LinesT), NEW more \in Seq(LinesT), NEW q \in Nat, q <= 2 * Len(lg), NEW v, Keeps(lg, q, v)
  PROVE  Keeps(lg \o more, q, v)
<1>1. Len(lg) \in Nat /\ \A i \in 1 .. Len(lg) : (lg \o more)[i] = lg[i]
  BY ConcatIs
<1> SUFFICES ASSUME NEW m \in 1 .. Len(lg \o more), q = 2 * m, (lg \o more)[m].kind = "INPUTS"
             PROVE  v = (lg \o more)[m].w
  BY DEF Keeps
<1>2. m \in Nat /\ m >= 1
  OBVIOUS
<1>3. m \in 1 .. Len(lg)
  BY <1>1, <1>2
<1> QED BY <1>1, <1>3 DEF Keeps

\* The record after a position is executed with the readings before it, and
\* leaves the right ones for the next.
LEMMA RecordReads ==
  ASSUME TypeInv, LogInv, drift = {}, NEW m \in Nat, m + 1 \in 1 .. Len(log), peer.pos = 2 * m,
         Keeps(log, peer.pos, peer.vol), Executed(log[m + 1])
  PROVE  /\ drift' = {}
         /\ Keeps(log, peer.pos + 2, IF log[m + 1].kind = "INPUTS" THEN log[m + 1].w ELSE 0)
<1> DEFINE r == log[m + 1]
           v == IF r.kind = "INPUTS" THEN r.w ELSE 0
<1>1. log \in Seq(LinesT) /\ Len(log) \in Nat /\ Paired(log)
  BY Basics DEF LogInv
<1>2. ASSUME r.kind = "SQL", r.w \in Volatile PROVE peer.vol = r.w
  <2>1. m + 1 > 1 /\ log[(m + 1) - 1] = Record("INPUTS", 0, r.w)
    BY <1>1, <1>2 DEF Paired
  <2>2. m \in 1 .. Len(log) /\ (m + 1) - 1 = m
    BY <1>1, <2>1
  <2>3. log[m].kind = "INPUTS" /\ log[m].w = r.w
    BY <2>1, <2>2 DEF Record
  <2> QED BY <2>2, <2>3 DEF Keeps
<1>3. drift' = {}
  BY <1>2 DEF Executed
<1>4. \A i \in 1 .. Len(log) : peer.pos + 2 = 2 * i => i = m + 1
  BY <1>1
<1>5. Keeps(log, peer.pos + 2, v)
  BY <1>4 DEF Keeps
<1> QED BY <1>3, <1>5

\* What the steps that leave the receiver alone do to the readings.
LEMMA ReadPrim ==
  ASSUME TypeInv, LogInv, NetInv, Readings, Client \/ Log \/ Mark \/ Truncate \/ Poll \/ Sender \/ Cut
  PROVE  Readings'
<1>1. log \in Seq(LinesT) /\ Len(log) \in Nat /\ peer.pos \in Nat /\ disk.side \in Nat /\ atom \in Nat /\ Size = 2 * Len(log)
  BY Basics
<1>2. UNCHANGED <<role, eng, peer, atom, disk, start, drift>>
  BY DEF Client, Execute, Begin, Statement, End, Log, Mark, Truncate, Poll, Sender, SendBytes, SendRecord, Cut, peerVars, vars
<1>3. CASE log' = log
  BY <1>2, <1>3 DEF Readings
<1>4. CASE log' = <<>>
  <2>1. \A q, v : Keeps(<<>>, q, v) /\ Clear(<<>>, q)
    BY DEF Keeps, Clear
  <2> QED BY <1>2, <1>4, <2>1 DEF Readings
<1>5. ASSUME NEW more \in Seq(LinesT), log' = log \o more PROVE Readings'
  <2>1. atom <= 2 * Len(log) /\ disk.side <= 2 * Len(log)
    BY <1>1 DEF NetInv
  <2>2. Moving(peer) => peer.pos <= 2 * Len(log)
    <3> SUFFICES ASSUME Moving(peer) PROVE peer.pos <= 2 * Len(log)
      OBVIOUS
    <3>1. peer.pos + Len(peer.pend) <= 2 * Len(log)
      BY DEF NetInv, Incoming, Moving, Contig
    <3>2. Len(peer.pend) \in Nat
      BY Basics
    <3> QED BY <1>1, <3>1, <3>2
  <2>3. Moving(peer) => Keeps(log', peer.pos, peer.vol)
    BY <1>1, <1>5, <2>2, KeepsGrow DEF Readings
  <2>4. (Clear(log, disk.side) => Clear(log', disk.side)) /\ (Clear(log, atom) => Clear(log', atom))
    BY <1>1, <1>5, <2>1, ClearGrow
  <2> QED BY <1>2, <2>3, <2>4 DEF Readings
<1>6. CASE Log
  <2>1. prim.recs \in Seq(LinesT)
    BY DEF TypeInv, PrimType, Prims
  <2> QED BY <1>5, <1>6, <2>1 DEF Log
<1>7. CASE Mark
  <2>1. <<Record("MARK", 0, 0)>> \in Seq(LinesT) /\ Record("MARK", 0, 0) \in LinesT
    BY OneRecord
  <2>2. log' = log \o <<Record("MARK", 0, 0)>>
    BY <1>1, <1>7, <2>1, AppendIsConcat DEF Mark
  <2> QED BY <1>5, <2>1, <2>2
<1>8. CASE Client \/ Poll \/ Sender \/ Cut
  BY <1>3, <1>8 DEF Client, Execute, Begin, Statement, End, Poll, Sender, SendBytes, SendRecord, Cut, primVars, vars
<1>9. CASE Truncate
  BY <1>4, <1>9 DEF Truncate
<1> QED BY <1>6, <1>7, <1>8, <1>9

\* A follower resumes at its stored position, or in the middle of the first record.
LEMMA ResumePoint ==
  ASSUME TypeInv, LogInv, NetInv, FileInv, FollowerInv, role = "follower",
         ~Met({"truncate", "crash", "marker"}), peer.pc = "hello", FirstIs(net, "resume")
  PROVE  peer.pos = disk.side \/ peer.pos = 1
<1>1. /\ Len(log) \in Nat /\ Len(logged) \in Nat /\ disk.side \in Nat /\ peer.pos \in Nat
      /\ disk.wal \in Seq(Halves) /\ Len(disk.wal) \in Nat
  BY Basics
<1>2. ~Moving(peer)
  BY DEF Moving
<1>3. CASE disk.side > 0
  BY <1>3 DEF FileInv
<1>4. CASE disk.side = 0
  <2>1. peer.pos = Len(disk.wal) /\ ~Stuck(log, peer, disk)
    BY <1>1, <1>4 DEF FileInv, Stuck
  <2>2. PICK k \in 0 .. Len(logged), p \in 0 .. Len(logged) : Settled(log, Gone, k, p, peer, disk) \/ Fresh(peer, disk)
    BY <2>1 DEF FollowerInv
  <2>3. CASE Fresh(peer, disk)
    BY <1>4, <2>1, <2>3 DEF Fresh
  <2>4. CASE Settled(log, Gone, k, p, peer, disk)
    <3>1. Gone \in Nat /\ Gone <= p /\ p <= k /\ k \in Nat /\ p \in Nat
      BY <1>1, <2>2, <2>4 DEF Settled, LogInv, Gone
    <3>2. 2 * (k - Gone) = 0
      BY <1>2, <1>4, <2>4 DEF Settled
    <3>3. 2 * (p - Gone) = 0
      BY <3>1, <3>2
    <3>4. ~(disk.side > 0)
      BY <1>4
    <3>5. LocalLog(log, 0, peer, disk)
      BY <2>4, <3>3 DEF Settled
    <3>6. 0 + Len(disk.wal) = disk.side \/ 0 + Len(disk.wal) = disk.side + 1
      BY <1>2, <3>4, <3>5 DEF LocalLog
    <3>7. \A l \in Nat : 0 + l = 0 \/ 0 + l = 0 + 1 => l = 0 \/ l = 1
      OBVIOUS
    <3>8. Len(disk.wal) = 0 \/ Len(disk.wal) = 1
      BY <1>1, <1>4, <3>6, <3>7, Zenon
    <3> QED BY <1>4, <2>1, <3>8
  <2> QED BY <2>2, <2>3, <2>4
<1> QED BY <1>1, <1>3, <1>4

\* The handshake.
LEMMA ReadHello ==
  ASSUME TypeInv, LogInv, NetInv, FileInv, FollowerInv, Readings, ~Met({"truncate", "crash", "marker"}),
         Connect \/ Resume \/ WriteSnapshot \/ Restore
  PROVE  Readings'
<1>1. log \in Seq(LinesT) /\ peer \in Peers /\ disk \in Disks /\ peer.pos \in Nat
  BY Basics
<1>2. role = "follower" /\ UNCHANGED <<role, primVars>>
  BY DEF Connect, Resume, WriteSnapshot, Restore
<1>3. log' = log
  BY <1>2 DEF primVars
<1>4. CASE Connect
  <2>1. peer.pc = "down" /\ peer' = [Down EXCEPT !.pc = "hello", !.pos = StartOffset] /\ UNCHANGED <<disk, drift>>
    BY <1>4 DEF Connect
  <2>2. peer'.pc = "hello"
    BY <2>1 DEF Down
  <2>3. ~Moving(peer) /\ ~Moving(peer')
    BY <2>1, <2>2 DEF Moving
  <2> QED BY <1>2, <1>3, <2>1, <2>3 DEF Readings
<1>5. CASE WriteSnapshot
  <2>1. peer.pc = "hello" /\ peer' = [peer EXCEPT !.pc = "restore"] /\ drift' = drift
        /\ disk' = [disk EXCEPT !.db = Head(net).db]
    BY <1>5 DEF WriteSnapshot, Arrives
  <2>2. peer'.pc = "restore" /\ disk'.side = disk.side
    BY <1>1, <2>1 DEF Peers, Disks
  <2>3. ~Moving(peer) /\ ~Moving(peer')
    BY <2>1, <2>2 DEF Moving
  <2> QED BY <1>2, <1>3, <2>1, <2>2, <2>3 DEF Readings
<1>6. CASE Resume
  <2>1. peer.pc = "hello" /\ net # <<>> /\ Head(net).kind = "resume" /\ peer' = [peer EXCEPT !.pc = "stream"] /\ drift' = drift
    BY <1>6 DEF Resume, Arrives
  <2>2. peer'.pc = "stream" /\ peer'.pos = peer.pos /\ peer'.vol = peer.vol
    BY <1>1, <2>1 DEF Peers
  <2>3. ~Moving(peer) /\ Moving(peer')
    BY <2>1, <2>2 DEF Moving
  <2>4. FirstIs(net, "resume")
    <3>1. Head(net) = net[1]
      BY <2>1, FramesTail DEF TypeInv, LinkType
    <3> QED BY <2>1, <3>1 DEF FirstIs
  <2>5. peer.pos = disk.side \/ peer.pos = 1
    BY <1>2, <2>1, <2>4, ResumePoint
  <2>6. Clear(log, peer.pos)
    BY <1>1, <1>2, <2>3, <2>5, ClearOdd DEF Readings
  <2>7. Keeps(log, peer.pos, peer.vol)
    BY <2>6, ClearKeeps
  <2> QED BY <1>2, <1>3, <2>1, <2>2, <2>3, <2>7 DEF Readings
<1>7. CASE Restore
  <2>1. peer.pc = "restore" /\ net # <<>> /\ Head(net).kind = "position" /\ drift' = {}
        /\ peer' = [peer EXCEPT !.pc = "stream", !.pos = Head(net).n]
    BY <1>7 DEF Restore, Arrives
  <2>2. Awaits(log, net, sent, link, role)
    BY <2>1 DEF NetInv, Incoming
  <2>3. Head(net) = net[1]
    BY <2>1, FramesTail DEF TypeInv, LinkType
  <2>4. Clear(log, Head(net).n)
    BY <2>1, <2>2, <2>3 DEF Awaits
  <2>5. peer'.pc = "stream" /\ peer'.pos = Head(net).n /\ peer'.vol = peer.vol
    BY <1>1, <2>1 DEF Peers
  <2>6. Keeps(log, Head(net).n, peer.vol)
    BY <2>4, ClearKeeps
  <2>7. Moving(peer')
    BY <2>5 DEF Moving
  <2> QED BY <1>2, <1>3, <2>1, <2>5, <2>6, <2>7 DEF Readings
<1> QED BY <1>4, <1>5, <1>6, <1>7

\* The stream.
LEMMA ReadDrain ==
  ASSUME TypeInv, LogInv, NetInv, FileInv, FollowerInv, Readings, ~Met({"truncate", "crash", "marker"}),
         role = "follower", ReceiveBytes \/ DrainRecord \/ Drained
  PROVE  Readings'
<1>1. log \in Seq(LinesT) /\ peer \in Peers /\ disk \in Disks /\ peer.pos \in Nat /\ peer.pend \in Seq(Halves)
      /\ Len(log) \in Nat /\ Len(logged) \in Nat
  BY Basics
<1>2. UNCHANGED <<role, primVars>> /\ Moving(peer)
  BY DEF ReceiveBytes, DrainRecord, Drained, Moving, Arrives
<1>3. log' = log
  BY <1>2 DEF primVars
<1>4. CASE ReceiveBytes \/ Drained
  <2>1. UNCHANGED drift
    BY <1>4 DEF ReceiveBytes, Drained
  <2>2. peer'.pc \in {"stream", "drain"} /\ peer'.pos = peer.pos /\ peer'.vol = peer.vol
    BY <1>1, <1>4 DEF ReceiveBytes, Drained, Peers
  <2>3. Moving(peer')
    BY <2>2 DEF Moving
  <2> QED BY <1>2, <1>3, <2>1, <2>2, <2>3 DEF Readings
<1>5. CASE DrainRecord
  <2>1. peer.pc = "drain" /\ Whole(peer.pend) /\ UNCHANGED disk
    BY <1>5 DEF DrainRecord
  <2>2. Contig(log, peer.pend, peer.pos)
    BY <2>1 DEF NetInv, Incoming
  <2>3. /\ Sound(peer.pend) => \E m \in 0 .. Len(log) : peer.pos = 2 * m /\ m + 1 \in 1 .. Len(log) /\ peer.pend[1].rec = log[m + 1]
        /\ ~Sound(peer.pend) => \E m \in Nat : peer.pos = 2 * m + 1
    BY <1>1, <2>1, <2>2, ContigSound
  <2>4. CASE Sound(peer.pend)
    <3>1. PICK m \in Nat : peer.pos = 2 * m /\ m + 1 \in 1 .. Len(log) /\ peer.pend[1].rec = log[m + 1]
      <4>1. \A x \in 0 .. Len(log) : x \in Nat
        OBVIOUS
      <4> QED BY <2>3, <2>4, <4>1, Zenon
    <3>2. log[m + 1].kind \in Accepted
      <4>1. Unmarked(log) /\ log[m + 1] \in LinesT
        BY <1>1, <3>1 DEF LogInv, Met
      <4> QED BY <3>1, <4>1 DEF Unmarked, Accepted, LinesT
    <3>3. /\ Executed(log[m + 1])
          /\ peer' = [peer EXCEPT !.pend = Rest(@, 2), !.pos = @ + 2,
                                  !.vol = IF log[m + 1].kind = "INPUTS" THEN log[m + 1].w ELSE 0]
      BY <1>5, <2>4, <3>1, <3>2 DEF DrainRecord
    <3>4. /\ peer'.pc = "drain" /\ peer'.pos = peer.pos + 2
          /\ peer'.vol = IF log[m + 1].kind = "INPUTS" THEN log[m + 1].w ELSE 0
      BY <1>1, <2>1, <3>3 DEF Peers
    <3>5. /\ drift' = {}
          /\ Keeps(log, peer.pos + 2, IF log[m + 1].kind = "INPUTS" THEN log[m + 1].w ELSE 0)
      BY <1>2, <3>1, <3>3, RecordReads DEF Readings
    <3>6. Moving(peer')
      BY <3>4 DEF Moving
    <3> QED BY <1>2, <1>3, <3>4, <3>5, <3>6 DEF Readings
  <2>5. CASE ~Sound(peer.pend)
    <3>1. peer' = Down /\ drift' = drift
      BY <1>5, <2>5 DEF DrainRecord
    <3>2. PICK m \in Nat : peer.pos = 2 * m + 1
      BY <2>3, <2>5
    <3>3. \A k, p \in Nat : ~Settled(log, Gone, k, p, peer, disk)
      <4> SUFFICES ASSUME NEW k \in Nat, NEW p \in Nat, Settled(log, Gone, k, p, peer, disk) PROVE FALSE
        OBVIOUS
      <4>1. Gone \in Nat /\ peer.pos = 2 * (k - Gone)
        BY <1>1, <1>2 DEF Settled, LogInv, Gone
      <4> QED BY <3>2, <4>1
    <3>4. Stuck(log, peer, disk)
      <4>1. \A x \in 0 .. Len(logged) : x \in Nat
        OBVIOUS
      <4>2. ~Fresh(peer, disk)
        BY <1>2 DEF Fresh
      <4> QED BY <3>3, <4>1, <4>2 DEF FollowerInv
    <3>5. disk'.side = 1
      BY <2>1, <3>4 DEF Stuck
    <3>6. Clear(log, 1)
      BY <1>1, ClearOdd
    <3>7. ~Moving(peer')
      BY <3>1, DownType DEF Moving
    <3> QED BY <1>2, <1>3, <3>1, <3>5, <3>6, <3>7 DEF Readings
  <2> QED BY <2>4, <2>5
<1> QED BY <1>4, <1>5

\* A follower that stops without readings in hand stops at the end of a statement.
LEMMA StopsClear ==
  ASSUME TypeInv, LogInv, FileInv, Readings, role = "follower", peer.pc # "drain", peer.vol = 0
  PROVE  Clear(log, disk.side)
<1>1. log \in Seq(LinesT) /\ Paired(log) /\ peer \in Peers
  BY Basics DEF LogInv
<1>2. CASE ~Moving(peer)
  BY <1>2 DEF Readings
<1>3. CASE Moving(peer)
  <2>1. peer.pc = "stream"
    BY <1>3 DEF Moving
  <2>2. peer.pos = disk.side
    BY <2>1 DEF FileInv
  <2>3. Keeps(log, disk.side, 0)
    BY <1>3, <2>2 DEF Readings
  <2> QED BY <1>1, <2>3, KeepsNothing
<1> QED BY <1>2, <1>3

\* The end of a connection.
LEMMA ReadHangUp ==
  ASSUME TypeInv, LogInv, NetInv, FileInv, Readings, HangUp, ~Met({"volatile"})'
  PROVE  Readings'
<1>1. /\ peer.pc \in {"hello", "restore", "stream"} /\ peer' = Down /\ UNCHANGED <<role, primVars, atom, disk, drift>>
      /\ mishaps' = mishaps \cup Forgets
  BY DEF HangUp, Meets
<1>2. log' = log /\ ~Moving(peer')
  BY <1>1, DownType DEF primVars, Moving
<1>3. role = "follower" => peer.vol = 0
  BY <1>1 DEF Forgets, When, Met
<1>4. role = "follower" => Clear(log, disk.side)
  BY <1>1, <1>3, StopsClear
<1> QED BY <1>1, <1>2, <1>4 DEF Readings

\* The records of the local log, when it can be read to its end.
LEMMA SettledKept ==
  ASSUME TypeInv, LogInv, FileInv, role = "follower", peer.pc # "drain", ~Damaged(disk.wal),
         NEW k \in Nat, NEW p \in Nat, Settled(log, Gone, k, p, peer, disk)
  PROVE  /\ p - Gone \in Nat /\ k - p \in Nat /\ Len(RecordsIn(disk.wal)) = k - p /\ (p - Gone) + (k - p) <= Len(log)
         /\ \A i \in 1 .. (k - p) : RecordsIn(disk.wal)[i] = log[(p - Gone) + i]
<1>1. /\ Len(log) \in Nat /\ Len(logged) \in Nat /\ log \in Seq(LinesT)
      /\ disk.wal \in Seq(Halves) /\ Len(disk.wal) \in Nat /\ disk.side \in Nat /\ peer.pos \in Nat /\ Len(peer.pend) \in Nat
  BY Basics
<1>2. Gone \in Nat /\ Gone <= p /\ p <= k
  BY <1>1 DEF Settled, LogInv, Gone
<1>3. Moving(peer) => peer.pos = disk.side /\ Len(peer.pend) < 2
  BY DEF FileInv, Moving
<1>4. disk.side = 2 * (k - Gone)
  BY <1>3 DEF Settled
<1> DEFINE a == 2 * (p - Gone)
<1>5. a \in Nat /\ p - Gone \in Nat /\ k - p \in Nat
  BY <1>2
<1>6. Contig(log, disk.wal, a) /\ (a + Len(disk.wal) = disk.side \/ a + Len(disk.wal) = disk.side + 1)
  <2>1. LocalLog(log, a, peer, disk)
    BY DEF Settled
  <2> HIDE DEF a
  <2>2. CASE Moving(peer)
    <3>1. Contig(log, disk.wal, a) /\ (a + Len(disk.wal) = peer.pos + Len(peer.pend) \/ a + Len(disk.wal) = peer.pos + 1)
      BY <2>1, <2>2 DEF LocalLog
    <3>2. peer.pos = disk.side /\ Len(peer.pend) < 2
      BY <1>3, <2>2
    <3>3. \A q, l, b \in Nat : l < 2 /\ (a + b = q + l \/ a + b = q + 1) => a + b = q \/ a + b = q + 1
      BY <1>5
    <3>4. \A q, b \in Nat : a + b = q + Len(peer.pend) \/ a + b = q + 1 => a + b = q \/ a + b = q + 1
      BY <1>1, <3>2, <3>3, Zenon
    <3> QED BY <1>1, <3>1, <3>2, <3>4, Zenon
  <2>3. CASE ~Moving(peer)
    BY <2>1, <2>3 DEF LocalLog
  <2> QED BY <2>2, <2>3
<1>7. Len(disk.wal) = 2 * (k - p) \/ Len(disk.wal) = 2 * (k - p) + 1
  <2>1. \A l, g \in Nat : g <= p /\ p <= k /\ (2 * (p - g) + l = 2 * (k - g) \/ 2 * (p - g) + l = 2 * (k - g) + 1)
                         => l = 2 * (k - p) \/ l = 2 * (k - p) + 1
    OBVIOUS
  <2>2. \A l \in Nat : 2 * (p - Gone) + l = 2 * (k - Gone) \/ 2 * (p - Gone) + l = 2 * (k - Gone) + 1
                         => l = 2 * (k - p) \/ l = 2 * (k - p) + 1
    BY <1>2, <2>1, Zenon
  <2>3. 2 * (p - Gone) + Len(disk.wal) = 2 * (k - Gone) \/ 2 * (p - Gone) + Len(disk.wal) = 2 * (k - Gone) + 1
    BY <1>4, <1>6, Zenon
  <2>4. Len(disk.wal) \in Nat
    BY <1>1
  <2> QED BY <2>2, <2>3, <2>4, Zenon
<1> DEFINE m == p - Gone
           c == k - p
<1>8. m \in Nat /\ c \in Nat
  BY <1>5
<1>9. Contig(log, disk.wal, 2 * m) /\ (Len(disk.wal) = 2 * c \/ Len(disk.wal) = 2 * c + 1)
  BY <1>6, <1>7
<1> HIDE DEF m, c
<1>10. Readable(disk.wal) = c /\ m + c <= Len(log) /\ \A i \in 1 .. c : RecordsIn(disk.wal)[i] = log[m + i]
  <2>1. log \in Seq(LinesT) /\ disk.wal \in Seq(Halves)
    BY <1>1
  <2> QED BY <1>8, <1>9, <2>1, ReadContig, ZenonT(30)
<1>11. Len(RecordsIn(disk.wal)) = c
  BY <1>1, <1>10, RecordsInIs
<1> QED BY <1>8, <1>10, <1>11 DEF m, c

\* Replaying records of a paired log from behind a statement is not blind.
LEMMA KeptReads ==
  ASSUME NEW lg \in Seq(LinesT), Paired(lg), NEW m \in Nat, NEW c \in Nat, m + c <= Len(lg), Clear(lg, 2 * m),
         NEW kept \in Seq(LinesT), Len(kept) = c, \A i \in 1 .. c : kept[i] = lg[m + i]
  PROVE  Blind(kept) = {}
<1> SUFFICES ASSUME NEW w \in Writes, w \in Volatile, NEW i \in 1 .. c, kept[i] = Record("SQL", 0, w),
                    i = 1 \/ kept[i - 1] # Record("INPUTS", 0, w)
             PROVE  FALSE
  BY DEF Blind
<1>1. m + i \in 1 .. Len(lg) /\ Len(lg) \in Nat /\ i \in Nat /\ i >= 1
  OBVIOUS
<1>2. lg[m + i].kind = "SQL" /\ lg[m + i].w = w
  BY DEF Record
<1>3. m + i > 1 /\ lg[(m + i) - 1] = Record("INPUTS", 0, w)
  BY <1>1, <1>2 DEF Paired
<1>4. CASE i = 1
  <2>1. (m + i) - 1 = m /\ m \in 1 .. Len(lg)
    BY <1>1, <1>3, <1>4
  <2>2. lg[m].kind = "INPUTS"
    BY <1>3, <2>1 DEF Record
  <2> QED BY <2>1, <2>2 DEF Clear
<1>5. CASE i # 1
  <2>1. i - 1 \in 1 .. c /\ m + (i - 1) = (m + i) - 1
    BY <1>1, <1>5
  <2>2. kept[i - 1] = lg[(m + i) - 1]
    BY <2>1
  <2> QED BY <1>3, <1>5, <2>2
<1> QED BY <1>4, <1>5

\* Nor is replaying a local log in which every record stands behind the one before it.
LEMMA LinkedReads ==
  ASSUME NEW lg \in Seq(LinesT), Paired(lg), NEW us \in Seq(Halves), Linked(lg, us)
  PROVE  Blind(RecordsIn(us)) = {}
<1> DEFINE n == Readable(us)
           kept == RecordsIn(us)
<1>1. /\ n \in Nat /\ 2 * n <= Len(us) /\ (\A i \in 0 .. (n - 1) : Good(us, i)) /\ Len(us) \in Nat
  BY ReadableIs
<1>2. kept \in Seq(LinesT) /\ Len(kept) = n /\ \A i \in 1 .. n : kept[i] = us[2 * i].rec
  BY RecordsInIs
<1> HIDE DEF n, kept
<1>3. ASSUME NEW w \in Writes, w \in Volatile, NEW i \in 1 .. n, kept[i] = Record("SQL", 0, w),
             i = 1 \/ kept[i - 1] # Record("INPUTS", 0, w)
      PROVE  FALSE
  <2>1. i \in Nat /\ i >= 1 /\ i <= n /\ i - 1 \in 0 .. (n - 1)
    BY <1>1
  <2>2. Good(us, i - 1)
    BY <1>1, <2>1
  <2>3. 2 * (i - 1) + 1 = 2 * i - 1 /\ 2 * (i - 1) + 2 = 2 * i
    BY <2>1
  <2>4. us[2 * i - 1].half = 1 /\ us[2 * i - 1].rec = us[2 * i].rec
    BY <2>2, <2>3 DEF Good
  <2>5. us[2 * i - 1].rec = Record("SQL", 0, w)
    BY <1>2, <1>3, <2>4
  <2>6. us[2 * i - 1].rec.kind = "SQL" /\ us[2 * i - 1].rec.w = w
    BY <2>5 DEF Record
  <2>7. CASE i = 1
    <3>1. 2 * i - 1 = 1 /\ us # <<>>
      BY <1>1, <2>1, <2>7
    <3> QED BY <1>3, <2>6, <3>1 DEF Linked
  <2>8. CASE i # 1
    <3>1. 2 * (i - 1) \in 1 .. (Len(us) - 1) /\ 2 * (i - 1) + 1 = 2 * i - 1 /\ i - 1 \in 1 .. n
      BY <1>1, <2>1, <2>8
    <3> DEFINE j == 2 * (i - 1)
    <3>2. j \in 1 .. (Len(us) - 1) /\ us[j + 1].half = 1
      BY <2>4, <3>1
    <3> HIDE DEF j
    <3>3. PICK x \in 1 .. (Len(lg) - 1) : us[j] = Unit(lg[x], 2) /\ us[j + 1] = Unit(lg[x + 1], 1)
      BY <3>2 DEF Linked
    <3>4. lg[x + 1] = Record("SQL", 0, w)
      BY <2>5, <3>1, <3>3 DEF Unit, j
    <3>5. lg[x + 1].kind = "SQL" /\ lg[x + 1].w = w /\ x + 1 \in 1 .. Len(lg) /\ (x + 1) - 1 = x
      BY <3>4 DEF Record
    <3>6. lg[(x + 1) - 1] = Record("INPUTS", 0, w)
      BY <1>3, <3>5 DEF Paired
    <3>7. kept[i - 1] = lg[x]
      BY <1>2, <3>1, <3>3 DEF Unit, j
    <3> QED BY <1>3, <2>8, <3>5, <3>6, <3>7
  <2> QED BY <2>7, <2>8
<1>4. Blind(kept) = {}
  BY <1>2, <1>3 DEF Blind
<1> QED BY <1>4 DEF kept

\* A restart re-executes nothing without its readings.
LEMMA ReadCrash ==
  ASSUME TypeInv, LogInv, NetInv, FileInv, FollowerInv, Readings, CrashFollower,
         ~Met({"truncate", "crash", "marker", "volatile"})', mishaps \subseteq mishaps'
  PROVE  Readings'
<1>1. log \in Seq(LinesT) /\ Paired(log) /\ disk.wal \in Seq(Halves) /\ Len(disk.wal) \in Nat /\ disk \in Disks /\ Len(logged) \in Nat
  BY Basics DEF LogInv
<1>2. /\ role = "follower" /\ peer' = Down /\ UNCHANGED <<role, primVars>> /\ drift' = Blind(RecordsIn(disk.wal))
      /\ disk' = [disk EXCEPT !.wal = UnitsOf(RecordsIn(disk.wal))]
      /\ mishaps' = mishaps \cup (When(~Restartable, {"crash"}) \cup Forgets)
  BY DEF CrashFollower, Meets
<1>3. log' = log /\ ~Moving(peer') /\ disk'.side = disk.side
  BY <1>1, <1>2, DownType DEF primVars, Moving, Disks
<1>4. Restartable /\ peer.vol = 0 /\ ~Met({"truncate", "crash", "marker"})
  BY <1>2 DEF Forgets, When, Met
<1>5. peer.pc # "drain" /\ Len(disk.wal) < 2 * Readable(disk.wal) + 2
  BY <1>4 DEF Restartable
<1>6. Clear(log, disk.side)
  BY <1>2, <1>4, <1>5, StopsClear
<1>7. ~Damaged(disk.wal)
  <2> SUFFICES ASSUME Damaged(disk.wal) PROVE FALSE
    OBVIOUS
  <2>1. 2 * Readable(disk.wal) + 2 <= Len(disk.wal) /\ Readable(disk.wal) \in Nat
    BY <1>1, DamagedRead, ReadableIs
  <2> QED BY <1>1, <1>5, <2>1
<1>8. Blind(RecordsIn(disk.wal)) = {}
  <2>1. CASE Stuck(log, peer, disk)
    <3>1. Linked(log, disk.wal)
      BY <1>7, <2>1 DEF Stuck
    <3> QED BY <1>1, <3>1, LinkedReads
  <2>2. CASE Fresh(peer, disk)
    <3>1. disk.wal = <<>>
      BY <2>2 DEF Fresh
    <3>2. Len(RecordsIn(disk.wal)) = Readable(disk.wal) /\ Readable(disk.wal) \in Nat /\ 2 * Readable(disk.wal) <= Len(disk.wal)
      BY <1>1, RecordsInIs, ReadableIs
    <3>3. Len(disk.wal) = 0
      BY <3>1
    <3>4. Len(RecordsIn(disk.wal)) = 0
      BY <3>2, <3>3
    <3> QED BY <3>4 DEF Blind
  <2>3. ASSUME NEW k \in Nat, NEW p \in Nat, Settled(log, Gone, k, p, peer, disk) PROVE Blind(RecordsIn(disk.wal)) = {}
    <3>1. /\ p - Gone \in Nat /\ k - p \in Nat /\ Len(RecordsIn(disk.wal)) = k - p /\ (p - Gone) + (k - p) <= Len(log)
          /\ \A i \in 1 .. (k - p) : RecordsIn(disk.wal)[i] = log[(p - Gone) + i]
      BY <1>2, <1>5, <1>7, <2>3, SettledKept
    <3>2. Clear(log, 2 * (p - Gone))
      BY <2>3 DEF Settled
    <3>3. RecordsIn(disk.wal) \in Seq(LinesT)
      BY <1>1, RecordsInIs
    <3> DEFINE m == p - Gone
               c == k - p
               kept == RecordsIn(disk.wal)
    <3>4. /\ m \in Nat /\ c \in Nat /\ m + c <= Len(log) /\ Clear(log, 2 * m) /\ kept \in Seq(LinesT) /\ Len(kept) = c
          /\ \A i \in 1 .. c : kept[i] = log[m + i]
      BY <3>1, <3>2, <3>3
    <3> HIDE DEF m, c, kept
    <3>5. Blind(kept) = {}
      BY <1>1, <3>4, KeptReads
    <3> QED BY <3>5 DEF kept
  <2>4. \A x \in 0 .. Len(logged) : x \in Nat
    OBVIOUS
  <2> QED BY <1>2, <1>4, <2>1, <2>2, <2>3, <2>4 DEF FollowerInv
<1> QED BY <1>2, <1>3, <1>6, <1>8 DEF Readings

\* A subscriber's position is never between readings and their statement.
LEMMA ReadSubscriber ==
  ASSUME TypeInv, LogInv, NetInv, SubscriberInv, Readings, ~Met({"truncate"}),
         Subscribe \/ ReceiveRecord \/ ReceiveSkip \/ SaveSubscriber \/ CrashSubscriber
  PROVE  Readings'
<1>1. /\ log \in Seq(LinesT) /\ Len(log) \in Nat /\ Paired(log) /\ peer \in Peers /\ disk \in Disks
      /\ peer.pos \in Nat /\ atom \in Nat /\ Size = 2 * Len(log)
  BY Basics DEF LogInv
<1>2. role = "subscriber" /\ UNCHANGED <<role, primVars>>
  BY DEF Subscribe, ReceiveRecord, ReceiveSkip, SaveSubscriber, CrashSubscriber
<1>3. log' = log
  BY <1>2 DEF primVars
<1>4. drift = {} /\ Clear(log, atom) /\ Clear(log, disk.side)
  BY <1>2 DEF Readings
<1>5. CASE Subscribe
  <2>1. /\ peer' = [Down EXCEPT !.pc = "stream", !.pos = IF atom = 0 THEN Size ELSE atom]
        /\ UNCHANGED <<atom, disk, drift>>
    BY <1>5 DEF Subscribe
  <2>2. peer'.pc = "stream" /\ peer'.pos = (IF atom = 0 THEN Size ELSE atom)
    BY <2>1 DEF Down
  <2>3. Clear(log, Size)
    BY <1>1, ClearEnd
  <2>4. Keeps(log, peer'.pos, peer'.vol)
    BY <1>4, <2>2, <2>3, ClearKeeps
  <2> QED BY <1>2, <1>3, <1>4, <2>1, <2>4 DEF Readings
<1>6. CASE ReceiveRecord
  <2>1. PICK m \in Nat : /\ peer.pos = 2 * m /\ m + 1 \in 1 .. Len(log) /\ Forwarded(log[m + 1])
                         /\ Head(net).units[1].rec = log[m + 1] /\ log[m + 1] = logged[(Gone + m) + 1]
                         /\ log[m + 1] \in LinesT
    BY <1>6, SubscriberRecord
  <2> DEFINE r == log[m + 1]
             v == IF r.kind = "INPUTS" THEN r.w ELSE 0
  <2>2. /\ Executed(r) /\ peer' = [peer EXCEPT !.pos = @ + 2, !.vol = v] /\ disk' = disk
        /\ r.kind = "INPUTS" => atom' = atom
        /\ r.kind # "INPUTS" => atom' = peer.pos + 2 \/ atom' = atom
        /\ peer.pc = "stream"
    BY <1>6, <2>1 DEF ReceiveRecord, Advance, Arrives
  <2>3. Moving(peer)
    BY <2>2 DEF Moving
  <2>4. drift' = {} /\ Keeps(log, peer.pos + 2, v)
    BY <2>1, <2>2, <2>3, RecordReads DEF Readings
  <2> HIDE DEF v
  <2>5. peer'.pos = peer.pos + 2 /\ peer'.vol = v
    BY <1>1, <2>2 DEF Peers
  <2>6. Clear(log, atom')
    <3>1. CASE atom' = atom
      BY <1>4, <3>1
    <3>2. CASE r.kind # "INPUTS" /\ atom' = peer.pos + 2
      <4>1. atom' = 2 * (m + 1) /\ m + 1 \in Nat
        BY <2>1, <3>2
      <4>2. Clear(log, 2 * (m + 1))
        BY <3>2, <4>1, ClearAfter
      <4> QED BY <4>1, <4>2
    <3> QED BY <2>2, <3>1, <3>2
  <2> QED BY <1>2, <1>3, <1>4, <2>2, <2>4, <2>5, <2>6 DEF Readings
<1>7. CASE ReceiveSkip
  <2>1. PICK m \in Nat, l \in Nat :
           /\ peer.pos = 2 * m /\ peer.pos + Head(net).n = 2 * l /\ m < l /\ l <= Len(log)
           /\ \A i \in (m + 1) .. l : ~Forwarded(log[i]) /\ log[i] = logged[Gone + i]
    BY <1>7, SubscriberSkipped
  <2>2. /\ peer' = [peer EXCEPT !.pos = @ + Head(net).n] /\ UNCHANGED <<disk, drift>>
        /\ atom' = 2 * l \/ atom' = atom
    BY <1>7, <2>1 DEF ReceiveSkip, Advance
  <2>3. peer'.pos = 2 * l
    BY <1>1, <2>1, <2>2 DEF Peers
  <2>4. l \in (m + 1) .. l
    BY <2>1
  <2>5. log[l].kind # "INPUTS"
    BY <2>1, <2>4 DEF Forwarded
  <2>6. Clear(log, 2 * l)
    BY <2>5, ClearAfter
  <2>7. Keeps(log, 2 * l, peer'.vol)
    BY <2>6, ClearKeeps
  <2> QED BY <1>2, <1>3, <1>4, <2>2, <2>3, <2>6, <2>7 DEF Readings
<1>8. CASE SaveSubscriber
  <2>1. disk' = [disk EXCEPT !.db = {eng.base}, !.side = atom] /\ UNCHANGED <<peer, atom, drift>>
    BY <1>8 DEF SaveSubscriber
  <2>2. disk'.side = atom
    BY <1>1, <2>1 DEF Disks
  <2> QED BY <1>2, <1>3, <1>4, <2>1, <2>2 DEF Readings
<1>9. CASE CrashSubscriber
  <2>1. atom' = disk.side /\ peer' = Down /\ UNCHANGED <<disk, drift>>
    BY <1>9 DEF CrashSubscriber
  <2>2. ~Moving(peer')
    BY <2>1, DownType DEF Moving
  <2> QED BY <1>2, <1>3, <1>4, <2>1, <2>2 DEF Readings
<1> QED BY <1>5, <1>6, <1>7, <1>8, <1>9

\* Every step keeps the readings.
LEMMA StepRead ==
  ASSUME TypeInv, LogInv, ~Met({"truncate"}) => NetInv /\ FileInv, FollowerInv, SubscriberInv, ReadInv, [ReplNext]_vars
  PROVE  ReadInv'
<1> SUFFICES ASSUME ~Met({"truncate", "crash", "marker", "volatile"})' PROVE Readings'
  BY DEF ReadInv
<1>1. mishaps \subseteq mishaps'
  BY MishapsStay
<1>2. /\ ~Met({"truncate", "crash", "marker", "volatile"}) /\ ~Met({"truncate", "crash", "marker"})
      /\ ~Met({"truncate"}) /\ ~Met({"volatile"})'
  BY <1>1 DEF Met
<1>3. Readings /\ NetInv /\ FileInv
  BY <1>2 DEF ReadInv
<1>4. CASE UNCHANGED vars
  BY <1>3, <1>4 DEF vars, primVars, linkVars, peerVars, Readings
<1>5. CASE Client \/ Log \/ Mark \/ Truncate \/ Poll \/ Sender \/ Cut
  BY <1>3, <1>5, ReadPrim
<1>6. CASE Connect \/ Resume \/ WriteSnapshot \/ Restore
  BY <1>2, <1>3, <1>6, ReadHello
<1>7. CASE ReceiveBytes \/ DrainRecord \/ Drained
  <2>1. role = "follower"
    <3>1. CASE ReceiveBytes
      BY <3>1 DEF ReceiveBytes
    <3>2. CASE DrainRecord \/ Drained
      <4>1. peer.pc = "drain"
        BY <3>2 DEF DrainRecord, Drained
      <4> QED BY <4>1, Basics DEF TypeInv, PeerType
    <3> QED BY <1>7, <3>1, <3>2
  <2> QED BY <1>2, <1>3, <1>7, <2>1, ReadDrain
<1>8. CASE HangUp
  BY <1>2, <1>3, <1>8, ReadHangUp
<1>9. CASE CrashFollower
  BY <1>1, <1>3, <1>9, ReadCrash
<1>10. CASE Subscribe \/ ReceiveRecord \/ ReceiveSkip \/ SaveSubscriber \/ CrashSubscriber
  BY <1>2, <1>3, <1>10, ReadSubscriber
<1> QED BY <1>4, <1>5, <1>6, <1>7, <1>8, <1>9, <1>10 DEF ReplNext, Receiver

---------------------------------------------------------------------------
(* The theorems.                                                           *)

\* A new primary has logged nothing and nobody has connected to it.
LEMMA InitRepl == ReplInit => ReplInv
<1> SUFFICES ASSUME ReplInit PROVE ReplInv
  OBVIOUS
<1>1. TypeInv /\ NetInv /\ FileInv /\ FollowerInv /\ SubscriberInv
  BY InitTypes, InitWire, InitFollower, InitSubscriber
<1>2. /\ log = <<>> /\ logged = <<>> /\ prim = NoStmt /\ mem = Nothing /\ drift = {} /\ peer = Down
  BY DEF ReplInit
<1>3. prim.recs = <<>> /\ ~prim.begun /\ prim.shadow = {}
  BY <1>2 DEF NoStmt
<1>4. LogInv
  BY <1>2, <1>3, NoRecord DEF LogInv, Gone
<1>5. PrimInv
  <2>1. Engine(Nothing) \in Engines /\ Engine(Nothing).base = Nothing /\ ~Engine(Nothing).open
    BY NothingType, EngineType
  <2>2. logged \o prim.recs = <<>>
    BY <1>2, <1>3
  <2>3. Replayed(Engine(Nothing), logged \o prim.recs) = Engine(Nothing)
    BY <2>1, <2>2, ReplayedEmpty
  <2>4. Same(Engine(Nothing), Primary)
    BY <1>2, <1>3, <2>1 DEF Same, Primary
  <2> QED BY <1>3, <2>3, <2>4 DEF PrimInv
<1>6. ReadInv
  <2>1. \A q : Clear(<<>>, q)
    BY DEF Clear
  <2>2. ~Moving(peer)
    BY <1>2, DownType DEF Moving
  <2> QED BY <1>2, <2>1, <2>2 DEF ReadInv, Readings
<1> QED BY <1>1, <1>4, <1>5, <1>6 DEF ReplInv

\* Every step preserves the invariant.
LEMMA StepRepl == ReplInv /\ [ReplNext]_vars => ReplInv'
<1> SUFFICES ASSUME ReplInv, [ReplNext]_vars PROVE ReplInv'
  OBVIOUS
<1>1. TypeInv /\ LogInv /\ PrimInv /\ FollowerInv /\ SubscriberInv /\ ReadInv /\ (~Met({"truncate"}) => NetInv /\ FileInv)
  BY DEF ReplInv
<1>2. TypeInv'
  BY <1>1, StepTypes DEF LogInv
<1>3. LogInv' /\ PrimInv'
  BY <1>1, StepLog, StepPrim
<1>4. ~Met({"truncate"})' => ~Met({"truncate"})
  BY MishapsStay DEF Met
<1>5. ~Met({"truncate"})' => NetInv' /\ FileInv'
  BY <1>1, <1>2, <1>4, StepWire
<1>6. FollowerInv'
  BY <1>1, <1>2, StepFollower
<1>7. SubscriberInv'
  BY <1>1, StepSubscriber
<1>8. ReadInv'
  BY <1>1, StepRead
<1> QED BY <1>2, <1>3, <1>5, <1>6, <1>7, <1>8 DEF ReplInv

\* The invariant holds in every reachable state.
LEMMA ReplInvariant == ReplSpec => []ReplInv
<1>1. ReplInit => ReplInv
  BY InitRepl
<1>2. ReplInv /\ [ReplNext]_vars => ReplInv'
  BY StepRepl
<1> QED BY <1>1, <1>2, PTL DEF ReplSpec

\* The invariant says what the types are.
LEMMA InvTypes == ReplInv => ReplTypeOK
<1> SUFFICES ASSUME ReplInv PROVE ReplTypeOK
  OBVIOUS
<1>1. TypeInv /\ (~Met({"truncate"}) => NetInv)
  BY DEF ReplInv
<1>2. /\ mem \in Databases /\ eng.base \in Databases /\ link \in {"none", "up", "cut"}
      /\ peer.pc \in {"down", "hello", "restore", "stream", "drain"} /\ Len(net) <= NetMax + 1
      /\ (peer.pc = "down" <=> link = "none")
  BY <1>1 DEF TypeInv, PrimType, PeerType, LinkType, Peers, Engines
<1>3. Cardinality(disk.db) <= 1
  <2>1. AtMostOne(disk.db)
    BY <1>1 DEF TypeInv, PeerType
  <2>2. CASE disk.db = {}
    <3>1. Cardinality(disk.db) = 0
      BY <2>2, FS_EmptySet
    <3> QED BY <3>1
  <2>3. CASE disk.db # {}
    <3>1. PICK d : d \in disk.db
      BY <2>3
    <3>2. disk.db = {d}
      BY <2>1, <3>1 DEF AtMostOne
    <3>3. Cardinality(disk.db) = 1
      BY <3>2, FS_Singleton
    <3> QED BY <3>3
  <2> QED BY <2>2, <2>3
<1>4. ASSUME ~Met({"truncate"}) PROVE {sent, peer.pos, atom, disk.side} \subseteq 0 .. Size
  <2>1. /\ sent \in Nat /\ peer.pos \in Nat /\ atom \in Nat /\ disk.side \in Nat /\ Size \in Nat /\ Size = 2 * Len(log)
        /\ Len(peer.pend) \in Nat /\ peer \in Peers
    BY <1>1, Basics
  <2>2. sent <= Size /\ atom <= Size /\ disk.side <= Size
    BY <1>1, <1>4 DEF NetInv
  <2>3. peer.pos <= Size
    <3>1. CASE peer.pc = "down"
      <4>1. peer = Down
        BY <1>1, <3>1 DEF TypeInv, LinkType
      <4> QED BY <2>1, <4>1, DownType
    <3>2. CASE peer.pc \in {"hello", "restore"}
      BY <1>1, <1>4, <2>1, <3>2 DEF NetInv, Incoming
    <3>3. CASE peer.pc \in {"stream", "drain"}
      <4>1. peer.pos + Len(peer.pend) <= 2 * Len(log)
        BY <1>1, <1>4, <3>3 DEF NetInv, Incoming, Contig
      <4> QED BY <2>1, <4>1
    <3> QED BY <1>2, <3>1, <3>2, <3>3
  <2>4. sent \in 0 .. Size /\ atom \in 0 .. Size /\ disk.side \in 0 .. Size /\ peer.pos \in 0 .. Size
    BY <2>1, <2>2, <2>3
  <2> QED BY <2>4
<1> QED BY <1>2, <1>3, <1>4 DEF ReplTypeOK

\* replication.rs keeps a follower's or a subscriber's position inside the
\* primary's WAL file, and its link and its peer in step.
THEOREM ReplTypes == ReplSpec => []ReplTypeOK
<1>1. ReplSpec => []ReplInv
  BY ReplInvariant
<1>2. ReplInv => ReplTypeOK
  BY InvTypes
<1> QED BY <1>1, <1>2, PTL

\* What a follower's engine shows.
LEMMA FollowerShows ==
  ASSUME ReplInv, role = "follower", ~Met({"truncate", "snapshot", "crash", "marker"})
  PROVE  \/ Met({"fallback"}) /\ atom <= 1
         \/ \E k \in Nat : /\ k <= Len(logged) /\ Same(eng, AtOf(logged, k)) /\ Gone \in Nat
                           /\ atom = 0 \/ (Gone <= k /\ atom <= 2 * (k - Gone))
<1>1. TypeInv /\ LogInv /\ FollowerInv /\ NetInv /\ FileInv
  BY DEF ReplInv, Met
<1>2. ~Met({"truncate", "crash", "marker"}) /\ ~Met({"snapshot"})
  BY DEF Met
<1>3. /\ atom \in Nat /\ disk.side \in Nat /\ peer.pos \in Nat /\ Len(logged) \in Nat /\ Len(log) \in Nat
      /\ Gone \in Nat /\ Len(log) <= Len(logged)
  BY <1>1, SubscriberFacts DEF LogInv
<1>4. atom = 0 \/ atom = disk.side
  BY <1>1 DEF FileInv
<1>5. CASE Met({"fallback"}) /\ Stuck(log, peer, disk)
  <2>1. disk.side = 1
    BY <1>5 DEF Stuck
  <2>2. atom <= 1
    BY <1>4, <2>1
  <2> QED BY <1>5, <2>2
<1>6. CASE \E k, p \in 0 .. Len(logged) :
             /\ Settled(log, Gone, k, p, peer, disk) \/ Fresh(peer, disk)
             /\ ~Met({"snapshot"}) => Points(logged, Gone, k, p, eng, peer, disk, net)
  <2>1. \A x \in 0 .. Len(logged) : x \in Nat /\ x <= Len(logged)
    BY <1>3
  <2>2. PICK k \in Nat, p \in Nat :
             /\ k <= Len(logged)
             /\ Settled(log, Gone, k, p, peer, disk) \/ Fresh(peer, disk)
             /\ ~Met({"snapshot"}) => Points(logged, Gone, k, p, eng, peer, disk, net)
    BY <1>6, <2>1, Zenon
  <2>3. Same(eng, AtOf(logged, k))
    BY <1>2, <2>2 DEF Points
  <2>4. CASE Fresh(peer, disk)
    <3>1. atom = 0
      BY <1>4, <2>4 DEF Fresh
    <3> QED BY <1>3, <2>2, <2>3, <3>1
  <2>5. CASE Settled(log, Gone, k, p, peer, disk)
    <3>1. Gone <= p /\ p <= k
      BY <2>5 DEF Settled
    <3>2. Gone <= k
      BY <1>3, <3>1
    <3>3. CASE Moving(peer)
      <4>1. peer.pos = 2 * (k - Gone) /\ disk.side <= peer.pos
        BY <1>1, <2>5, <3>3 DEF Settled, FileInv
      <4>2. \A x, y \in Nat : x <= y => x <= 2 * (k - Gone) \/ y # 2 * (k - Gone)
        OBVIOUS
      <4>3. disk.side <= 2 * (k - Gone)
        BY <4>1
      <4> QED BY <1>3, <1>4, <2>2, <2>3, <3>2, <4>3
    <3>4. CASE ~Moving(peer)
      <4>1. disk.side = 2 * (k - Gone)
        BY <2>5, <3>4 DEF Settled
      <4>2. disk.side <= disk.side
        BY <1>3
      <4>3. disk.side <= 2 * (k - Gone)
        BY <4>1, <4>2
      <4> QED BY <1>3, <1>4, <2>2, <2>3, <3>2, <4>3
    <3> QED BY <3>3, <3>4
  <2> QED BY <2>2, <2>4, <2>5
<1> QED BY <1>1, <1>2, <1>5, <1>6 DEF FollowerInv

\* The invariant is enough for the barrier.
LEMMA InvBarrier == ReplInv => BarrierHolds
<1> SUFFICES ASSUME ReplInv, role = "follower", ~Met({"truncate", "snapshot", "crash", "marker"}),
                    NEW n \in 1 .. Len(log), 2 * n <= atom, NEW w \in Writes
             PROVE  eng.base[w] >= After(Len(logged) - Len(log) + n)[w]
  BY DEF BarrierHolds
<1>1. TypeInv /\ LogInv
  BY DEF ReplInv
<1>2. atom \in Nat /\ Len(log) \in Nat /\ Len(logged) \in Nat /\ Gone \in Nat /\ Gone + Len(log) = Len(logged)
      /\ logged \in Seq(LinesT) /\ eng \in Engines
  BY <1>1, SubscriberFacts, Basics
<1>3. n \in Nat /\ n >= 1 /\ n <= Len(log)
  BY <1>2
<1>4. PICK k \in Nat : /\ k <= Len(logged) /\ Same(eng, AtOf(logged, k))
                       /\ atom = 0 \/ (Gone <= k /\ atom <= 2 * (k - Gone))
  <2>1. ~(atom <= 1)
    BY <1>2, <1>3
  <2> QED BY <2>1, FollowerShows
<1>5. Gone + n <= k /\ Gone + n \in Nat
  BY <1>2, <1>3, <1>4
<1>6. AtOf(logged, Gone + n).base[w] <= AtOf(logged, k).base[w]
  <2>1. Gone + n \in 0 .. Len(logged) /\ k \in (Gone + n) .. Len(logged)
    BY <1>2, <1>4, <1>5
  <2> QED BY <1>2, <2>1, AtMonotone
<1>7. After(Gone + n) = AtOf(logged, Gone + n).base
  BY DEF After, AtOf, Recovered
<1>8. eng.base = AtOf(logged, k).base
  BY <1>4 DEF Same
<1>9. AtOf(logged, Gone + n) \in Engines /\ AtOf(logged, k) \in Engines
  <2>1. Gone + n \in 0 .. Len(logged) /\ k \in 0 .. Len(logged)
    BY <1>2, <1>4, <1>5
  <2> QED BY <1>2, <2>1, AtStep
<1>10. AtOf(logged, Gone + n).base[w] \in Nat /\ eng.base[w] \in Nat
  BY <1>2, <1>9 DEF Engines, Databases
<1> QED BY <1>6, <1>7, <1>8, <1>10 DEF Gone

\* WAIT FOR WAL POSITION on a follower: once the applied position has reached
\* the end of a record, a read shows all that the log had committed by then.
THEOREM BarrierIsSound == ReplSpec => []BarrierHolds
<1>1. ReplSpec => []ReplInv
  BY ReplInvariant
<1>2. ReplInv => BarrierHolds
  BY InvBarrier
<1> QED BY <1>1, <1>2, PTL

\* A statement that drew from the clock or the PRNG is re-executed with the
\* primary's readings, through lost connections and restarts.
THEOREM ReadingsTravel == ReplSpec => []SameReadings
<1>1. ReplSpec => []ReplInv
  BY ReplInvariant
<1>2. ReplInv => SameReadings
  BY DEF ReplInv, ReadInv, Readings, SameReadings
<1> QED BY <1>1, <1>2, PTL

---------------------------------------------------------------------------
(* The replica is a prefix: refinement of PrefixCopy.                      *)

Breaks == {"truncate", "snapshot", "crash", "marker", "fallback", "baseline"}

\* The state after n records, for either kind of receiver.
AfterOf(lgd, st, rl, n) == IF rl = "follower" THEN AtOf(lgd, n).base ELSE CountOf(lgd, st, n)

FeedOf(lgd, st, rl) == [n \in 1 .. (Len(lgd) + 1) |-> AfterOf(lgd, st, rl, n - 1)]

\* The feed is a sequence of databases.
LEMMA FeedIs ==
  ASSUME NEW lgd \in Seq(LinesT), NEW st, NEW rl
  PROVE  /\ FeedOf(lgd, st, rl) \in Seq(Databases) /\ Len(FeedOf(lgd, st, rl)) = Len(lgd) + 1
         /\ \A n \in 0 .. Len(lgd) : /\ n + 1 \in 1 .. (Len(lgd) + 1)
                                     /\ FeedOf(lgd, st, rl)[n + 1] = AfterOf(lgd, st, rl, n)
<1>1. Len(lgd) \in Nat
  OBVIOUS
<1>2. \A n \in 0 .. Len(lgd) : AfterOf(lgd, st, rl, n) \in Databases
  <2> SUFFICES ASSUME NEW n \in 0 .. Len(lgd) PROVE AfterOf(lgd, st, rl, n) \in Databases
    OBVIOUS
  <2>1. AtOf(lgd, n).base \in Databases
    BY AtStep DEF Engines
  <2>2. n \in Nat
    BY <1>1
  <2>3. CountOf(lgd, st, n) \in Databases
    BY <2>2, CountIs
  <2> QED BY <2>1, <2>3 DEF AfterOf
<1>3. \A n \in 1 .. (Len(lgd) + 1) : n - 1 \in 0 .. Len(lgd)
  BY <1>1
<1>4. \A n \in 0 .. Len(lgd) : n + 1 \in 1 .. (Len(lgd) + 1) /\ (n + 1) - 1 = n
  BY <1>1
<1>5. FeedOf(lgd, st, rl) \in [1 .. (Len(lgd) + 1) -> Databases]
  BY <1>2, <1>3 DEF FeedOf
<1>6. FeedOf(lgd, st, rl) \in Seq(Databases) /\ Len(FeedOf(lgd, st, rl)) = Len(lgd) + 1
  <2>1. Len(lgd) + 1 \in Nat
    BY <1>1
  <2> QED BY <1>5, <2>1
<1> QED BY <1>4, <1>6 DEF FeedOf

\* The module's feed is this one.
LEMMA FeedState ==
  /\ [n \in 1 .. (Len(logged) + 1) |-> After(n - 1)] = FeedOf(logged, start, role)
  /\ [n \in 1 .. (Len(logged') + 1) |-> After(n - 1)'] = FeedOf(logged', start', role')
BY DEF FeedOf, AfterOf, After, AtOf, Recovered, CountOf

\* Appending keeps the states so far.
LEMMA FeedGrows ==
  ASSUME NEW lgd \in Seq(LinesT), NEW more \in Seq(LinesT), more # <<>>, NEW st, NEW rl
  PROVE  /\ Len(FeedOf(lgd \o more, st, rl)) > Len(FeedOf(lgd, st, rl))
         /\ SubSeq(FeedOf(lgd \o more, st, rl), 1, Len(FeedOf(lgd, st, rl))) = FeedOf(lgd, st, rl)
<1> DEFINE f == FeedOf(lgd, st, rl)
           g == FeedOf(lgd \o more, st, rl)
<1>1. Len(lgd) \in Nat /\ Len(more) \in Nat /\ Len(more) > 0 /\ lgd \o more \in Seq(LinesT) /\ Len(lgd \o more) = Len(lgd) + Len(more)
  BY ConcatIs
<1>2. /\ f \in Seq(Databases) /\ Len(f) = Len(lgd) + 1
      /\ \A n \in 0 .. Len(lgd) : f[n + 1] = AfterOf(lgd, st, rl, n)
  BY FeedIs
<1>3. /\ g \in Seq(Databases) /\ Len(g) = Len(lgd) + Len(more) + 1
      /\ \A n \in 0 .. Len(lgd \o more) : g[n + 1] = AfterOf(lgd \o more, st, rl, n)
  BY <1>1, FeedIs
<1>4. ASSUME NEW i \in 1 .. Len(f) PROVE g[i] = f[i]
  <2>1. i - 1 \in 0 .. Len(lgd) /\ i - 1 \in 0 .. Len(lgd \o more) /\ (i - 1) + 1 = i /\ i - 1 \in Nat /\ i - 1 <= Len(lgd)
    BY <1>1, <1>2
  <2>2. AtOf(lgd \o more, i - 1) = AtOf(lgd, i - 1)
    BY <2>1, AtGrow
  <2>3. CountOf(lgd \o more, st, i - 1) = CountOf(lgd, st, i - 1)
    BY <2>1, CountGrow
  <2>4. g[i] = AfterOf(lgd \o more, st, rl, i - 1) /\ f[i] = AfterOf(lgd, st, rl, i - 1)
    BY <1>2, <1>3, <2>1
  <2> QED BY <2>2, <2>3, <2>4 DEF AfterOf
<1> HIDE DEF f, g
<1>5. Len(f) \in Nat /\ Len(g) \in Nat /\ Len(g) > Len(f)
  BY <1>1, <1>2, <1>3
<1>6. SubSeq(g, 1, Len(f)) = SubSeq(f, 1, Len(f))
  <2>1. Len(f) <= Len(f) /\ Len(f) <= Len(g)
    BY <1>5
  <2> QED BY <1>2, <1>3, <1>4, <1>5, <2>1, PrefixOf
<1>7. SubSeq(f, 1, Len(f)) = f
  BY <1>2
<1> QED BY <1>5, <1>6, <1>7 DEF f, g

\* A subscription that begins at the end of the log changes no state before it.
LEMMA FeedBegins ==
  ASSUME NEW lgd \in Seq(LinesT), NEW rl
  PROVE  FeedOf(lgd, {Len(lgd)}, rl) = FeedOf(lgd, {}, rl)
<1>1. Len(lgd) \in Nat
  OBVIOUS
<1> DEFINE st == {Len(lgd)}
<1>2. ASSUME NEW n \in 1 .. (Len(lgd) + 1) PROVE CountOf(lgd, st, n - 1) = CountOf(lgd, {}, n - 1)
  <2>1. n - 1 \in Nat /\ n - 1 <= Len(lgd)
    BY <1>1
  <2>2. st \in SUBSET Nat /\ {} \in SUBSET Nat /\ \E s \in st : n - 1 <= s
    BY <1>1, <2>1
  <2> HIDE DEF st
  <2>3. CountOf(lgd, st, n - 1) = Nothing
    BY <2>1, <2>2, CountNone
  <2>4. CountOf(lgd, {}, n - 1) = Nothing
    BY <2>1, <2>2, CountNone
  <2> QED BY <2>3, <2>4
<1> QED BY <1>2 DEF FeedOf, AfterOf

\* A receiver that goes from the state after n records to the one after m.
Forward(lgd, st, rl, d, e) ==
  \E n, m \in 0 .. Len(lgd) : n <= m /\ d = AfterOf(lgd, st, rl, n) /\ e = AfterOf(lgd, st, rl, m)

\* A follower's engine and snapshot file, while nothing went wrong.
LEMMA FollowerAt ==
  ASSUME TypeInv, LogInv, FollowerInv, role = "follower", ~Met(Breaks)
  PROVE  \E k, p \in Nat :
           /\ k <= Len(logged) /\ p <= Len(logged)
           /\ Settled(log, Gone, k, p, peer, disk) \/ Fresh(peer, disk)
           /\ Points(logged, Gone, k, p, eng, peer, disk, net)
<1>1. ~Met({"truncate", "crash", "marker"}) /\ ~Met({"snapshot"}) /\ ~Met({"fallback"})
  BY DEF Met, Breaks
<1>2. \A x \in 0 .. Len(logged) : x \in Nat /\ x <= Len(logged)
  BY Basics
<1>3. PICK k \in 0 .. Len(logged), p \in 0 .. Len(logged) :
         /\ Settled(log, Gone, k, p, peer, disk) \/ Fresh(peer, disk)
         /\ Points(logged, Gone, k, p, eng, peer, disk, net)
  BY <1>1 DEF FollowerInv
<1> QED BY <1>2, <1>3

\* One record further.
LEMMA DrainForward ==
  ASSUME ReplInv, ReplInv', DrainRecord, eng' # eng, ~Met(Breaks), ~Met(Breaks)'
  PROVE  Forward(logged, start, role, eng.base, eng'.base)
<1>1. TypeInv /\ LogInv /\ FollowerInv /\ TypeInv' /\ LogInv' /\ FollowerInv'
  BY DEF ReplInv
<1>2. peer.pc = "drain" /\ UNCHANGED <<role, primVars, disk>>
  BY DEF DrainRecord
<1>3. role = "follower"
  BY <1>1, <1>2, Basics DEF TypeInv, PeerType
<1>4. /\ peer' = [peer EXCEPT !.pend = Rest(@, 2), !.pos = @ + 2,
                              !.vol = IF peer.pend[1].rec.kind = "INPUTS" THEN peer.pend[1].rec.w ELSE 0]
  BY DEF DrainRecord
<1>5. peer \in Peers /\ peer.pos \in Nat /\ Len(logged) \in Nat
  BY <1>1, Basics
<1>6. peer'.pos = peer.pos + 2 /\ peer'.pc = "drain"
  BY <1>2, <1>4, <1>5 DEF Peers
<1>7. Gone' = Gone /\ logged' = logged /\ Gone \in Nat
  BY <1>1, <1>2, SubscriberFacts DEF primVars, Gone
<1>8. Moving(peer) /\ Moving(peer')
  BY <1>2, <1>6 DEF Moving
<1>9. PICK k \in Nat, p \in Nat :
           /\ k <= Len(logged) /\ p <= Len(logged)
           /\ Settled(log, Gone, k, p, peer, disk) \/ Fresh(peer, disk)
           /\ Points(logged, Gone, k, p, eng, peer, disk, net)
  BY <1>1, <1>3, FollowerAt
<1>10. peer.pos = 2 * (k - Gone) /\ Same(eng, AtOf(logged, k))
  BY <1>8, <1>9 DEF Settled, Fresh, Points
<1>11. \E j, q \in 0 .. Len(logged) :
           /\ Settled(log', Gone', j, q, peer', disk') \/ Fresh(peer', disk')
           /\ Points(logged', Gone', j, q, eng', peer', disk', net')
  <2>1. ~Met({"truncate", "crash", "marker"})' /\ ~Met({"snapshot"})' /\ ~Met({"fallback"})'
    BY DEF Met, Breaks
  <2> QED BY <1>1, <1>2, <1>3, <1>7, <2>1 DEF FollowerInv
<1>12. \A x \in 0 .. Len(logged) : x \in Nat /\ x <= Len(logged)
  BY <1>5
<1>13. PICK j \in Nat : /\ j <= Len(logged) /\ peer'.pos = 2 * (j - Gone) /\ Same(eng', AtOf(logged, j))
  BY <1>7, <1>8, <1>11, <1>12 DEF Settled, Fresh, Points
<1>14. k <= j
  BY <1>5, <1>6, <1>7, <1>10, <1>13
<1>15. k \in 0 .. Len(logged) /\ j \in 0 .. Len(logged)
  BY <1>5, <1>9, <1>13
<1>16. eng.base = AfterOf(logged, start, role, k) /\ eng'.base = AfterOf(logged, start, role, j)
  BY <1>3, <1>10, <1>13 DEF Same, AfterOf
<1> QED BY <1>14, <1>15, <1>16 DEF Forward

\* A snapshot is not older than what the follower had.
LEMMA RestoreForward ==
  ASSUME ReplInv, ReplInv', Restore, ~Met(Breaks), ~Met(Breaks)'
  PROVE  Forward(logged, start, role, eng.base, eng'.base)
<1>1. TypeInv /\ LogInv /\ FollowerInv /\ TypeInv' /\ LogInv' /\ FollowerInv' /\ NetInv /\ FileInv
  BY DEF ReplInv, Met, Breaks
<1>2. /\ role = "follower" /\ peer.pc = "restore" /\ net # <<>> /\ UNCHANGED <<role, primVars>>
      /\ peer' = [peer EXCEPT !.pc = "stream", !.pos = Head(net).n]
  BY DEF Restore, Arrives
<1>3. Head(net) = net[1] /\ net[1].n \in Nat
  BY <1>1, <1>2, FramesTail DEF TypeInv, LinkType, FrameSet
<1>4. peer \in Peers /\ Len(logged) \in Nat
  BY <1>1, Basics
<1>5. peer'.pos = net[1].n /\ peer'.pc = "stream"
  BY <1>2, <1>3, <1>4 DEF Peers
<1>6. Gone' = Gone /\ logged' = logged /\ Gone \in Nat
  BY <1>1, <1>2, SubscriberFacts DEF primVars, Gone
<1>7. ~Moving(peer) /\ Moving(peer')
  BY <1>2, <1>5 DEF Moving
<1>8. Fresh(peer, disk) /\ disk.db # {}
  BY <1>1, <1>2, <1>7 DEF Fresh, FileInv
<1>9. PICK k \in Nat, p \in Nat :
           /\ k <= Len(logged) /\ p <= Len(logged)
           /\ Settled(log, Gone, k, p, peer, disk) \/ Fresh(peer, disk)
           /\ Points(logged, Gone, k, p, eng, peer, disk, net)
  BY <1>1, <1>2, FollowerAt
<1>10. k <= p /\ net[1].n = 2 * (p - Gone) /\ Same(eng, AtOf(logged, k))
  BY <1>2, <1>8, <1>9 DEF Points
<1>11. \E j, q \in 0 .. Len(logged) :
           /\ Settled(log', Gone', j, q, peer', disk') \/ Fresh(peer', disk')
           /\ Points(logged', Gone', j, q, eng', peer', disk', net')
  <2>1. ~Met({"truncate", "crash", "marker"})' /\ ~Met({"snapshot"})' /\ ~Met({"fallback"})'
    BY DEF Met, Breaks
  <2> QED BY <1>1, <1>2, <1>6, <2>1 DEF FollowerInv
<1>12. \A x \in 0 .. Len(logged) : x \in Nat /\ x <= Len(logged)
  BY <1>4
<1>13. PICK j \in Nat : /\ j <= Len(logged) /\ peer'.pos = 2 * (j - Gone) /\ Same(eng', AtOf(logged, j))
  BY <1>6, <1>7, <1>11, <1>12 DEF Settled, Fresh, Points
<1>14. k <= j
  <2>1. 2 * (j - Gone) = 2 * (p - Gone)
    BY <1>5, <1>10, <1>13
  <2>2. j = p
    BY <1>6, <1>9, <1>13, <2>1
  <2> QED BY <1>10, <2>2
<1>15. k \in 0 .. Len(logged) /\ j \in 0 .. Len(logged)
  BY <1>4, <1>9, <1>13
<1>16. eng.base = AfterOf(logged, start, role, k) /\ eng'.base = AfterOf(logged, start, role, j)
  BY <1>2, <1>10, <1>13 DEF Same, AfterOf
<1> QED BY <1>14, <1>15, <1>16 DEF Forward

\* A restart brings back what was there, or a snapshot that is not older.
LEMMA CrashForward ==
  ASSUME ReplInv, CrashFollower, ~Met(Breaks), ~Met(Breaks)'
  PROVE  Forward(logged, start, role, eng.base, eng'.base)
<1>1. TypeInv /\ LogInv /\ FollowerInv /\ NetInv /\ FileInv
  BY DEF ReplInv, Met, Breaks
<1>2. /\ role = "follower" /\ eng' = Engine(Recovered(BootBase(disk.db), RecordsIn(disk.wal)))
      /\ mishaps' = mishaps \cup (When(~Restartable, {"crash"}) \cup Forgets)
  BY DEF CrashFollower, BootBase, Meets
<1>3. /\ Len(logged) \in Nat /\ logged \in Seq(LinesT) /\ disk.wal \in Seq(Halves) /\ Len(disk.wal) \in Nat
      /\ disk.db \in SUBSET Databases /\ disk.side \in Nat /\ Gone \in Nat /\ Len(log) \in Nat /\ Gone + Len(log) = Len(logged)
  BY <1>1, Basics, SubscriberFacts
<1>4. Restartable
  BY <1>2 DEF Met, When, Breaks
<1>5. peer.pc # "drain" /\ ~eng.open /\ Len(disk.wal) < 2 * Readable(disk.wal) + 2
  BY <1>4 DEF Restartable
<1>6. ~Damaged(disk.wal)
  <2> SUFFICES ASSUME Damaged(disk.wal) PROVE FALSE
    OBVIOUS
  <2>1. 2 * Readable(disk.wal) + 2 <= Len(disk.wal) /\ Readable(disk.wal) \in Nat
    BY <1>3, DamagedRead, ReadableIs
  <2> QED BY <1>3, <1>5, <2>1
<1>7. PICK k \in Nat, p \in Nat :
           /\ k <= Len(logged) /\ p <= Len(logged)
           /\ Settled(log, Gone, k, p, peer, disk) \/ Fresh(peer, disk)
           /\ Points(logged, Gone, k, p, eng, peer, disk, net)
  BY <1>1, <1>2, FollowerAt
<1>8. k \in 0 .. Len(logged) /\ p \in 0 .. Len(logged) /\ k <= k
  BY <1>3, <1>7
<1>9. Same(eng, AtOf(logged, k)) /\ eng.base = AfterOf(logged, start, role, k)
  BY <1>2, <1>7 DEF Points, Same, AfterOf
<1>10. /\ BootBase(disk.db) \in Databases /\ (disk.db # {} => BootBase(disk.db) \in disk.db)
       /\ (disk.db = {} => BootBase(disk.db) = Nothing)
  BY <1>3, BootBaseType
<1>11. RecordsIn(disk.wal) \in Seq(LinesT)
  BY <1>3, RecordsInIs
<1>12. CASE Settled(log, Gone, k, p, peer, disk)
  <2>1. /\ p - Gone \in Nat /\ k - p \in Nat /\ Len(RecordsIn(disk.wal)) = k - p /\ (p - Gone) + (k - p) <= Len(log)
        /\ \A i \in 1 .. (k - p) : RecordsIn(disk.wal)[i] = log[(p - Gone) + i]
    BY <1>1, <1>2, <1>5, <1>6, <1>12, SettledKept
  <2>2. disk.db # {} /\ p <= k
    BY <1>12 DEF Settled
  <2>3. Snapshot(logged, disk.db, p)
    BY <1>7, <2>2 DEF Points
  <2>4. ~AtOf(logged, p).open /\ BootBase(disk.db) = AtOf(logged, p).base /\ ~AtOf(logged, k).open
    BY <1>5, <1>9, <1>10, <2>2, <2>3 DEF Snapshot, Same
  <2> DEFINE kept == RecordsIn(disk.wal)
             d == BootBase(disk.db)
  <2>5. \A i \in 1 .. Len(kept) : kept[i] = logged[p + i]
    <3> SUFFICES ASSUME NEW i \in 1 .. Len(kept) PROVE kept[i] = logged[p + i]
      OBVIOUS
    <3>1. i \in 1 .. (k - p) /\ (p - Gone) + i \in 1 .. Len(log) /\ Gone + ((p - Gone) + i) = p + i
      <4>1. i \in 1 .. (k - p)
        BY <2>1
      <4>2. \A a, b, g, l \in Nat : a + b <= l /\ a = p - g /\ b = k - p /\ i \in 1 .. b
                                   => a + i \in 1 .. l /\ g + (a + i) = p + i
        OBVIOUS
      <4>3. p - Gone \in Nat /\ k - p \in Nat /\ (p - Gone) + (k - p) <= Len(log)
        BY <2>1
      <4> QED BY <1>3, <4>1, <4>2, <4>3
    <3>2. log[(p - Gone) + i] = logged[Gone + ((p - Gone) + i)]
      BY <1>1, <3>1 DEF LogInv
    <3> QED BY <2>1, <3>1, <3>2
  <2>6. d \in Databases /\ d = AtOf(logged, p).base /\ kept \in Seq(LinesT) /\ Len(kept) = k - p
    BY <1>10, <1>11, <2>1, <2>4
  <2>7. eng' = Engine(Recovered(d, kept))
    BY <1>2
  <2> HIDE DEF kept, d
  <2>8. Same(Engine(Recovered(d, kept)), AtOf(logged, k))
    BY <1>3, <1>8, <2>2, <2>4, <2>5, <2>6, BootGets
  <2>9. eng'.base = AfterOf(logged, start, role, k)
    BY <1>2, <2>7, <2>8 DEF Same, AfterOf
  <2> QED BY <1>8, <1>9, <2>9 DEF Forward
<1>13. CASE Fresh(peer, disk)
  <2>1. disk.wal = <<>>
    BY <1>13 DEF Fresh
  <2>2. RecordsIn(disk.wal) = <<>>
    <3>1. Len(RecordsIn(disk.wal)) = Readable(disk.wal) /\ Readable(disk.wal) \in Nat /\ 2 * Readable(disk.wal) <= Len(disk.wal)
      BY <1>3, RecordsInIs, ReadableIs
    <3>2. Len(disk.wal) = 0
      BY <2>1
    <3>3. Len(RecordsIn(disk.wal)) = 0
      BY <3>1, <3>2
    <3> QED BY <1>11, <3>3
  <2>3. Engine(BootBase(disk.db)) \in Engines /\ Engine(BootBase(disk.db)).base = BootBase(disk.db)
    BY <1>10, EngineType
  <2>4. Replayed(Engine(BootBase(disk.db)), <<>>) = Engine(BootBase(disk.db))
    BY <2>3, ReplayedEmpty
  <2>5. eng'.base = BootBase(disk.db)
    BY <1>2, <2>2, <2>3, <2>4 DEF Recovered
  <2>6. CASE disk.db = {}
    <3>1. k = 0
      BY <1>7, <2>6 DEF Points
    <3>2. AtOf(logged, 0) = Engine(Nothing) /\ Engine(Nothing).base = Nothing
      BY <1>3, AtStep, NothingType, EngineType
    <3>3. eng'.base = AfterOf(logged, start, role, k)
      BY <1>2, <1>10, <2>5, <2>6, <3>1, <3>2 DEF AfterOf
    <3> QED BY <1>8, <1>9, <3>3 DEF Forward
  <2>7. CASE disk.db # {}
    <3>1. k <= p /\ Snapshot(logged, disk.db, p)
      BY <1>7, <1>13, <2>7 DEF Points
    <3>2. eng'.base = AfterOf(logged, start, role, p)
      BY <1>2, <1>10, <2>5, <2>7, <3>1 DEF Snapshot, AfterOf
    <3> QED BY <1>8, <1>9, <3>1, <3>2 DEF Forward
  <2> QED BY <2>6, <2>7
<1> QED BY <1>7, <1>12, <1>13

\* A subscriber goes on by one record.
LEMMA RecordForward ==
  ASSUME ReplInv, ReplInv', ReceiveRecord, ~Met(Breaks), ~Met(Breaks)'
  PROVE  Forward(logged, start, role, eng.base, eng'.base)
<1>1. TypeInv /\ LogInv /\ SubscriberInv /\ SubscriberInv'
  BY DEF ReplInv
<1>2. role = "subscriber" /\ peer.pc = "stream" /\ UNCHANGED <<role, primVars, start>>
  BY DEF ReceiveRecord, Arrives
<1>3. peer \in Peers /\ peer.pos \in Nat /\ Len(logged) \in Nat /\ logged \in Seq(LinesT) /\ Gone \in Nat
  BY <1>1, Basics, SubscriberFacts
<1>4. peer'.pos = peer.pos + 2 /\ peer'.pc = "stream"
  BY <1>2, <1>3 DEF ReceiveRecord, Peers
<1>5. Gone' = Gone /\ logged' = logged
  BY <1>2 DEF primVars, Gone
<1>6. ~Met({"truncate"}) /\ ~Met({"baseline"}) /\ ~Met({"truncate"})' /\ ~Met({"baseline"})'
  BY DEF Met, Breaks
<1>7. Holds(logged, Gone, start, peer.pos, eng.base)
  BY <1>1, <1>2, <1>6 DEF SubscriberInv
<1>8. Holds(logged, Gone, start, peer'.pos, eng'.base)
  BY <1>1, <1>2, <1>4, <1>5, <1>6 DEF SubscriberInv
<1>9. role # "follower"
  BY <1>2
<1>9a. \A x \in Gone .. Len(logged) : x \in 0 .. Len(logged)
  BY <1>3
<1>10. PICK n \in 0 .. Len(logged) : peer.pos = 2 * (n - Gone) /\ eng.base = AfterOf(logged, start, role, n)
  BY <1>7, <1>9, <1>9a DEF Holds, AfterOf
<1>11. PICK m \in 0 .. Len(logged) : peer'.pos = 2 * (m - Gone) /\ eng'.base = AfterOf(logged, start, role, m)
  BY <1>8, <1>9, <1>9a DEF Holds, AfterOf
<1>12. n <= m
  <2>1. n \in Nat /\ m \in Nat
    BY <1>3
  <2> QED BY <1>3, <1>4, <1>10, <1>11, <2>1
<1> QED BY <1>10, <1>11, <1>12 DEF Forward

\* A subscriber restarts in one of the states.
LEMMA CrashState ==
  ASSUME ReplInv, CrashSubscriber, ~Met(Breaks)
  PROVE  \E n \in 0 .. Len(logged) : eng'.base = AfterOf(logged, start, role, n)
<1>1. TypeInv /\ LogInv /\ SubscriberInv
  BY DEF ReplInv
<1>2. role = "subscriber" /\ \E d \in disk.db : eng' = Engine(d)
  BY DEF CrashSubscriber
<1>3. PICK d \in disk.db : eng' = Engine(d)
  BY <1>2
<1>4. eng'.base = d
  BY <1>3 DEF Engine
<1>5. /\ Len(logged) \in Nat /\ logged \in Seq(LinesT) /\ Gone \in Nat /\ disk.side \in Nat /\ role # "follower"
      /\ start \in SUBSET Nat
  BY <1>1, <1>2, Basics, SubscriberFacts
<1>6. IF disk.side > 0 THEN Holds(logged, Gone, start, disk.side, d) ELSE d = Nothing
  <2>1. ~Met({"truncate"}) /\ ~Met({"baseline"})
    BY DEF Met, Breaks
  <2> QED BY <1>1, <1>2, <2>1 DEF SubscriberInv
<1>7. CASE disk.side > 0
  <2>1. Holds(logged, Gone, start, disk.side, d)
    BY <1>6, <1>7
  <2>2. \A x \in Gone .. Len(logged) : x \in 0 .. Len(logged)
    BY <1>5
  <2> QED BY <1>4, <1>5, <2>1, <2>2 DEF Holds, AfterOf
<1>8. CASE ~(disk.side > 0)
  <2>1. d = Nothing
    BY <1>6, <1>8
  <2>2. start = {} \/ \E s \in start : 0 <= s
    BY <1>5
  <2>3. CountOf(logged, start, 0) = Nothing
    BY <1>5, <2>2, CountNone
  <2>4. 0 \in 0 .. Len(logged) /\ AfterOf(logged, start, role, 0) = CountOf(logged, start, 0)
    BY <1>5 DEF AfterOf
  <2> QED BY <1>4, <2>1, <2>3, <2>4
<1> QED BY <1>7, <1>8

\* A new subscription.
LEMMA SubscribeFeed ==
  ASSUME ReplInv, Subscribe, ~Met(Breaks)
  PROVE  FeedOf(logged, start', role) = FeedOf(logged, start, role)
<1>1. TypeInv /\ LogInv /\ SubscriberInv
  BY DEF ReplInv
<1>2. /\ role = "subscriber"
      /\ start' = IF start = {} THEN {Len(logged) - Len(log) + (IF atom = 0 THEN Size ELSE atom) \div 2} ELSE start
  BY DEF Subscribe
<1>3. CASE start # {}
  BY <1>2, <1>3
<1>4. CASE start = {}
  <2>1. ~Met({"truncate"}) /\ ~Met({"baseline"})
    BY DEF Met, Breaks
  <2>2. atom = 0
    BY <1>1, <1>2, <1>4, <2>1 DEF SubscriberInv
  <2>3. Len(log) \in Nat /\ Len(logged) \in Nat /\ Size = 2 * Len(log) /\ Len(log) <= Len(logged) /\ logged \in Seq(LinesT)
    BY <1>1, Basics DEF LogInv
  <2>4. Size \div 2 = Len(log)
    BY <2>3
  <2>5. start' = {Len(logged) - Len(log) + Size \div 2}
    BY <1>2, <1>4, <2>2
  <2>6. start' = {Len(logged)}
    BY <2>3, <2>4, <2>5
  <2> QED BY <1>4, <2>3, <2>6, FeedBegins
<1> QED BY <1>3, <1>4

\* What a step does to the feed and to the engine.
LEMMA CopyStep ==
  ASSUME ReplInv, ReplInv', [ReplNext]_vars, ~Met(Breaks)'
  PROVE  /\ ~Met(Breaks) /\ role' = role
         /\ \/ \E more \in Seq(LinesT) : more # <<>> /\ logged' = logged \o more /\ UNCHANGED <<eng, start>>
            \/ FeedOf(logged', start', role) = FeedOf(logged, start, role) /\ eng' = eng
            \/ UNCHANGED <<logged, start>> /\ Forward(logged, start, role, eng.base, eng'.base)
            \/ /\ UNCHANGED <<logged, start>> /\ role # "follower"
               /\ \E n \in 0 .. Len(logged) : eng'.base = AfterOf(logged, start, role, n)
<1>1. ~Met(Breaks)
  BY MishapsStay DEF Met
<1>2. role' = role
  BY DEF ReplNext, Client, Execute, Begin, Statement, End, Log, Mark, Truncate, Sender, SendBytes, SendRecord,
         Receiver, Connect, Resume, WriteSnapshot, Restore, ReceiveBytes, DrainRecord, Drained, Subscribe,
         ReceiveRecord, ReceiveSkip, HangUp, Poll, SaveSubscriber, Cut, CrashFollower, CrashSubscriber, vars
<1>3. TypeInv
  BY DEF ReplInv
<1>4. CASE Log
  <2>1. prim.recs \in Seq(LinesT)
    BY <1>3 DEF TypeInv, PrimType, Prims
  <2>2. prim.recs # <<>> /\ logged' = logged \o prim.recs /\ UNCHANGED <<eng, start>>
    BY <1>4 DEF Log, Idle, peerVars
  <2> QED BY <1>1, <1>2, <2>1, <2>2
<1>5. CASE Mark
  <2>1. <<Record("MARK", 0, 0)>> \in Seq(LinesT) /\ Record("MARK", 0, 0) \in LinesT
    BY OneRecord
  <2>2. logged \in Seq(LinesT)
    BY <1>3, Basics
  <2>3. logged' = logged \o <<Record("MARK", 0, 0)>> /\ UNCHANGED <<eng, start>>
    BY <1>5, <2>1, <2>2, AppendIsConcat DEF Mark, peerVars
  <2>4. <<Record("MARK", 0, 0)>> # <<>>
    OBVIOUS
  <2> QED BY <1>1, <1>2, <2>1, <2>3, <2>4
<1>6. CASE UNCHANGED <<logged, start, eng>>
  BY <1>1, <1>2, <1>6
<1>7. CASE \/ UNCHANGED vars \/ Client \/ Truncate \/ Sender \/ Connect \/ Resume \/ WriteSnapshot \/ ReceiveBytes \/ Drained
           \/ ReceiveSkip \/ HangUp \/ Poll \/ SaveSubscriber \/ Cut
  BY <1>6, <1>7 DEF Client, Execute, Begin, Statement, End, Truncate, Sender, SendBytes, SendRecord, Connect, Resume,
                    WriteSnapshot, ReceiveBytes, Drained, ReceiveSkip, HangUp, Poll, SaveSubscriber, Cut,
                    vars, primVars, peerVars
<1>8. CASE Subscribe
  <2>1. logged' = logged /\ eng' = eng
    BY <1>8 DEF Subscribe, primVars
  <2> QED BY <1>1, <1>2, <1>8, <2>1, SubscribeFeed
<1>9. CASE DrainRecord
  <2>1. UNCHANGED <<logged, start>>
    BY <1>9 DEF DrainRecord, primVars
  <2>2. CASE eng' = eng
    BY <1>6, <2>1, <2>2
  <2>3. CASE eng' # eng
    BY <1>1, <1>2, <1>9, <2>1, <2>3, DrainForward
  <2> QED BY <2>2, <2>3
<1>10. CASE Restore
  <2>1. UNCHANGED <<logged, start>>
    BY <1>10 DEF Restore, primVars
  <2> QED BY <1>1, <1>2, <1>10, <2>1, RestoreForward
<1>11. CASE CrashFollower
  <2>1. UNCHANGED <<logged, start>>
    BY <1>11 DEF CrashFollower, primVars
  <2> QED BY <1>1, <1>2, <1>11, <2>1, CrashForward
<1>12. CASE ReceiveRecord
  <2>1. UNCHANGED <<logged, start>>
    BY <1>12 DEF ReceiveRecord, primVars
  <2> QED BY <1>1, <1>2, <1>12, <2>1, RecordForward
<1>13. CASE CrashSubscriber
  <2>1. UNCHANGED <<logged, start>> /\ role # "follower"
    BY <1>13 DEF CrashSubscriber, primVars
  <2> QED BY <1>1, <1>2, <1>13, <2>1, CrashState
<1> QED BY <1>4, <1>5, <1>7, <1>8, <1>9, <1>10, <1>11, <1>12, <1>13 DEF ReplNext, Receiver

\* The initial states map to initial states of PrefixCopy.
LEMMA CopyStart == ReplInit => Copy!CopyInit
<1> SUFFICES ASSUME ReplInit PROVE Copy!CopyInit
  OBVIOUS
<1>1. logged = <<>> /\ start = {} /\ mishaps = {} /\ eng = Engine(Nothing)
  BY DEF ReplInit
<1>2. logged \in Seq(LinesT)
  BY <1>1
<1> DEFINE f == FeedOf(logged, start, role)
<1>3. /\ f \in Seq(Databases) /\ Len(f) = Len(logged) + 1
      /\ \A n \in 0 .. Len(logged) : f[n + 1] = AfterOf(logged, start, role, n)
  BY <1>2, FeedIs
<1>4. Len(logged) = 0
  BY <1>1
<1>5. f # <<>> /\ f[1] = AfterOf(logged, start, role, 0)
  BY <1>3, <1>4
<1>6. eng.base = Nothing
  BY <1>1, NothingType, EngineType
<1>7. AfterOf(logged, start, role, 0) = Nothing
  <2>1. AtOf(logged, 0).base = Nothing
    BY <1>2, AtStep, NothingType, EngineType
  <2>2. CountOf(logged, start, 0) = Nothing
    BY <1>1, CountNone
  <2> QED BY <2>1, <2>2 DEF AfterOf
<1>8. ~Met(Breaks)
  BY <1>1 DEF Met
<1> HIDE DEF f
<1>9. [n \in 1 .. (Len(logged) + 1) |-> After(n - 1)] = f
  BY FeedState DEF f
<1> QED BY <1>5, <1>6, <1>7, <1>8, <1>9 DEF Copy!CopyInit, Breaks

\* Every step maps to a step of PrefixCopy, or to a stutter.
LEMMA CopyNext ==
  ASSUME ReplInv, ReplInv', [ReplNext]_vars
  PROVE  [Copy!Grow \/ Copy!CatchUp \/ Copy!FallBack \/ Met({"truncate", "snapshot", "crash", "marker", "fallback", "baseline"})']_(Copy!copyVars)
<1> DEFINE f == FeedOf(logged, start, role)
           g == FeedOf(logged', start', role')
<1>1. CASE Met(Breaks)'
  BY <1>1 DEF Breaks
<1>2. CASE ~Met(Breaks)'
  <2>1. /\ ~Met(Breaks) /\ role' = role
        /\ \/ \E more \in Seq(LinesT) : more # <<>> /\ logged' = logged \o more /\ UNCHANGED <<eng, start>>
           \/ FeedOf(logged', start', role) = FeedOf(logged, start, role) /\ eng' = eng
           \/ UNCHANGED <<logged, start>> /\ Forward(logged, start, role, eng.base, eng'.base)
           \/ /\ UNCHANGED <<logged, start>> /\ role # "follower"
              /\ \E n \in 0 .. Len(logged) : eng'.base = AfterOf(logged, start, role, n)
    BY <1>2, CopyStep
  <2>2. logged \in Seq(LinesT) /\ Len(logged) \in Nat
    BY Basics DEF ReplInv
  <2>3. [n \in 1 .. (Len(logged) + 1) |-> After(n - 1)] = f
    BY FeedState
  <2>4. [n \in 1 .. (Len(logged') + 1) |-> After(n - 1)'] = g
    BY FeedState
  <2>5. /\ Len(f) = Len(logged) + 1
        /\ \A n \in 0 .. Len(logged) : n + 1 \in 1 .. (Len(logged) + 1) /\ f[n + 1] = AfterOf(logged, start, role, n)
    BY <2>2, FeedIs
  <2>6. /\ Met({"truncate", "snapshot", "crash", "marker", "fallback", "baseline"})' =
             Met({"truncate", "snapshot", "crash", "marker", "fallback", "baseline"})
        /\ (role = "follower")' = (role = "follower")
    BY <1>2, <2>1 DEF Breaks, Met
  <2>7. CASE \E more \in Seq(LinesT) : more # <<>> /\ logged' = logged \o more /\ UNCHANGED <<eng, start>>
    <3>1. PICK more \in Seq(LinesT) : more # <<>> /\ logged' = logged \o more /\ UNCHANGED <<eng, start>>
      BY <2>7
    <3>2. Len(g) > Len(f) /\ SubSeq(g, 1, Len(f)) = f
      BY <2>1, <2>2, <3>1, FeedGrows
    <3> HIDE DEF f, g
    <3>3. Copy!Grow
      BY <2>1, <2>3, <2>4, <2>6, <3>1, <3>2 DEF Copy!Grow
    <3> QED BY <3>3
  <2>8. CASE FeedOf(logged', start', role) = FeedOf(logged, start, role) /\ eng' = eng
    <3>1. g = f
      BY <2>1, <2>8
    <3> HIDE DEF f, g
    <3>2. UNCHANGED Copy!copyVars
      BY <2>1, <2>3, <2>4, <2>6, <2>8, <3>1 DEF Copy!copyVars
    <3> QED BY <3>2
  <2>9. CASE UNCHANGED <<logged, start>> /\ Forward(logged, start, role, eng.base, eng'.base)
    <3>1. g = f
      BY <2>1, <2>9
    <3>2. PICK n \in 0 .. Len(logged), m \in 0 .. Len(logged) :
             n <= m /\ eng.base = AfterOf(logged, start, role, n) /\ eng'.base = AfterOf(logged, start, role, m)
      BY <2>9 DEF Forward
    <3>3. n + 1 \in 1 .. Len(f) /\ m + 1 \in (n + 1) .. Len(f)
      BY <2>2, <2>5, <3>2
    <3>4. eng.base = f[n + 1] /\ eng'.base = f[m + 1]
      BY <2>5, <3>2
    <3> HIDE DEF f, g
    <3>5. Copy!CatchUp
      BY <2>1, <2>3, <2>4, <2>6, <3>1, <3>3, <3>4 DEF Copy!CatchUp
    <3> QED BY <3>5
  <2>10. CASE /\ UNCHANGED <<logged, start>> /\ role # "follower"
              /\ \E n \in 0 .. Len(logged) : eng'.base = AfterOf(logged, start, role, n)
    <3>1. g = f
      BY <2>1, <2>10
    <3>2. PICK n \in 0 .. Len(logged) : eng'.base = AfterOf(logged, start, role, n)
      BY <2>10
    <3>3. n + 1 \in 1 .. Len(f) /\ eng'.base = f[n + 1]
      BY <2>5, <3>2
    <3> HIDE DEF f, g
    <3>4. Copy!FallBack
      BY <2>1, <2>3, <2>4, <2>6, <2>10, <3>1, <3>3 DEF Copy!FallBack
    <3> QED BY <3>4
  <2> QED BY <2>1, <2>7, <2>8, <2>9, <2>10
<1> QED BY <1>1, <1>2

\* follow_once and subscribe_once implement PrefixCopy: readers of the receiver
\* see the states of the primary's log, each of them as the log made it, and in
\* order; only a subscriber, which logs nothing, falls back when it crashes.
THEOREM ReplicaFollowsTheLog == ReplSpec => ReplicaIsAPrefix
<1>1. ReplSpec => []ReplInv
  BY ReplInvariant
<1>2. ReplInit => Copy!CopyInit
  BY CopyStart
<1>3. ReplInv /\ ReplInv' /\ [ReplNext]_vars =>
        [Copy!Grow \/ Copy!CatchUp \/ Copy!FallBack \/ Met({"truncate", "snapshot", "crash", "marker", "fallback", "baseline"})']_(Copy!copyVars)
  BY CopyNext
<1> QED BY <1>1, <1>2, <1>3, PTL DEF ReplSpec, ReplicaIsAPrefix, Copy!CopySpec
=============================================================================
