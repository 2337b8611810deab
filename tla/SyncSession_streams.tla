------------------------- MODULE SyncSession_streams -------------------------
(***************************************************************************)
(* What a stream of SyncSession carries: a file in chunks, a message       *)
(* behind it or before it.  Lemmas on what delivering, writing and reading *)
(* do to such a stream, for files of any length and chunks of any size.    *)
(***************************************************************************)
EXTENDS SyncSession, SequenceTheorems, TLAPS

\* What files are made of.
Edits == 0 .. MaxEdits

\* Where the chunk after the first k begins.
At(k) == k * CHUNKSIZE

\* The units of the chunks of a file after the first a, up to the b-th: as one
\* piece, and as one segment per chunk.
Bytes(d, a, b) == Contents(SubSeq(d, At(a) + 1, Smaller(At(b), Len(d))))
Pieces(d, a, b) == [i \in 1 .. b - a |-> Bytes(d, a + i - 1, a + i)]

\* The first j chunks of a file are not empty; they are all of it.
Within(d, j) == j = 0 \/ At(j - 1) < Len(d)
Whole(d, j) == Within(d, j) /\ Len(d) <= At(j)

\* Of the first j chunks of a file all were written and the first m read, and
\* rest was written after them: no segment or one message.  The rest is still
\* on the wire, or has arrived with everything before it.
FileThen(net, s, d, m, j, rest) ==
  \/ \E h \in Nat :
       /\ m <= h /\ h <= j
       /\ net = "prompt" => h <= m + 1
       /\ s = [wire |-> Pieces(d, h, j) \o rest, buf |-> Bytes(d, m, h)]
  \/ /\ rest # <<>>
     /\ net = "prompt" => m = j
     /\ s = [wire |-> <<>>, buf |-> Bytes(d, m, j) \o rest[1]]

\* A message was written, then the first n chunks of a file.
MessageThen(net, s, r, d, n) ==
  \/ s = [wire |-> <<Encode(r)>> \o Pieces(d, 0, n), buf |-> <<>>]
  \/ \E h \in Nat :
       /\ h <= n
       /\ net = "prompt" => h = 0
       /\ s = [wire |-> Pieces(d, h, n), buf |-> Encode(r) \o Bytes(d, 0, h)]

\* One message was written.
OneMessage(s, q) ==
  \/ s = [wire |-> <<Encode(q)>>, buf |-> <<>>]
  \/ s = [wire |-> <<>>, buf |-> Encode(q)]

\* A reader of the file finds its next chunk ...
NextChunk(net, s, d, m, j, rest, got) ==
  /\ m < j
  /\ got = Bytes(d, m, m + 1)
  /\ FileThen(net, Take(s, Len(got)), d, m + 1, j, rest)

\* ... or, when segments have merged, the end of its last one and at least the
\* beginning of the message behind it.
Overrun(net, s, d, m, j, rest, got) ==
  /\ net # "prompt" /\ rest # <<>> /\ j = m + 1
  /\ Len(d) - At(m) < CHUNKSIZE
  /\ Len(got) = Smaller(CHUNKSIZE, Len(d) - At(m) + SyncLen)
  /\ Take(s, Len(got)).wire = <<>>
  /\ Len(Take(s, Len(got)).buf) = Len(d) - At(m) + SyncLen - Len(got)

\* What may follow the chunks.
Rests == {<<>>} \cup {<<Encode(q)>> : q \in Messages}

-----------------------------------------------------------------------------
(* Chunks                                                                  *)

\* CHUNKSIZE is a positive number.
LEMMA Sized == /\ CHUNKSIZE \in Nat /\ 0 < CHUNKSIZE /\ SizeMod \in Nat
               /\ SyncLen <= CHUNKSIZE /\ CHUNKSIZE < SizeMod /\ MaxEdits \in Nat
BY SessionAssumption DEF SyncLen

\* Each chunk begins where the one before it ends.
LEMMA AtNext == At(0) = 0 /\ \A a \in Nat : At(a) \in Nat /\ At(a + 1) = At(a) + CHUNKSIZE
BY Sized DEF At

\* Chunks begin in their order.
LEMMA AtOrder ==
  ASSUME NEW a \in Nat, NEW b \in Nat, a <= b
  PROVE  At(a) <= At(b) /\ (a < b => At(a) + CHUNKSIZE <= At(b))
<1>1. PICK k \in Nat : b = a + k
  <2>1. b - a \in Nat /\ b = a + (b - a)
    OBVIOUS
  <2> QED
    BY <2>1
<1>2. a * CHUNKSIZE \in Nat /\ k * CHUNKSIZE \in Nat
  BY Sized
<1>3. b * CHUNKSIZE = a * CHUNKSIZE + k * CHUNKSIZE
  BY <1>1, Sized
<1>4. k >= 1 => k * CHUNKSIZE >= CHUNKSIZE
  <2> SUFFICES ASSUME k >= 1 PROVE k * CHUNKSIZE >= CHUNKSIZE
    OBVIOUS
  <2>1. k - 1 \in Nat /\ k = (k - 1) + 1
    OBVIOUS
  <2>2. (k - 1) * CHUNKSIZE \in Nat
    BY <2>1, Sized
  <2>3. k * CHUNKSIZE = (k - 1) * CHUNKSIZE + CHUNKSIZE
    BY <2>1, Sized
  <2> QED
    BY <2>2, <2>3, Sized
<1> QED
  BY <1>1, <1>2, <1>3, <1>4, Sized DEF At

\* How many chunks a file of n units has.
LEMMA ChunkCount ==
  ASSUME NEW n \in Nat
  PROVE  LET k == (n + CHUNKSIZE - 1) \div CHUNKSIZE
         IN  k \in Nat /\ n <= At(k) /\ (k = 0 \/ At(k - 1) < n)
<1> DEFINE a == n + CHUNKSIZE - 1
           k == a \div CHUNKSIZE
<1>1. a \in Nat
  BY Sized
<1>2. k \in Nat /\ k * CHUNKSIZE <= a /\ a < k * CHUNKSIZE + CHUNKSIZE
  BY <1>1, Sized
<1>3. k # 0 => k - 1 \in Nat /\ (k - 1) * CHUNKSIZE = k * CHUNKSIZE - CHUNKSIZE
  BY <1>2, Sized
<1> QED
  BY <1>2, <1>3, Sized DEF At

-----------------------------------------------------------------------------
(* Units                                                                   *)

\* The units of messages and of files.
LEMMA UnitTypes ==
  /\ \A e \in Edits : [is |-> 0, of |-> e] \in Units
  /\ \A q \in Messages, k \in 1 .. SyncLen : [is |-> k, of |-> q] \in Units
BY DEF Units, Edits

\* A message, and what its units tell.
LEMMA EncodeFacts ==
  ASSUME NEW q \in Messages
  PROVE  /\ Encode(q) \in Seq(Units)
         /\ Len(Encode(q)) = SyncLen
         /\ \A k \in 1 .. SyncLen : Encode(q)[k] = [is |-> k, of |-> q]
<1>1. SyncLen \in Nat
  BY DEF SyncLen
<1>2. \A k \in 1 .. SyncLen : [is |-> k, of |-> q] \in Units
  BY UnitTypes
<1> DEFINE e(k) == [is |-> k, of |-> q]
<1>3. [k \in 1 .. SyncLen |-> e(k)] \in Seq(Units)
  <2> HIDE DEF e
  <2>1. \A k \in 1 .. SyncLen : e(k) \in Units
    BY <1>2 DEF e
  <2> QED
    BY <1>1, <2>1, IsASeq
<1> QED
  BY <1>1, <1>3 DEF Encode

\* Part of a file, and what a reader makes of it.
LEMMA ContentsFacts ==
  ASSUME NEW d \in Seq(Edits)
  PROVE  /\ Contents(d) \in Seq(Units)
         /\ Len(Contents(d)) = Len(d)
         /\ \A k \in 1 .. Len(d) : Contents(d)[k] = [is |-> 0, of |-> d[k]]
         /\ Data(Contents(d)) = d
<1>1. Len(d) \in Nat /\ d \in [1 .. Len(d) -> Edits]
  BY LenProperties
<1>2. \A k \in 1 .. Len(d) : [is |-> 0, of |-> d[k]] \in Units
  BY <1>1, UnitTypes
<1> DEFINE e(k) == [is |-> 0, of |-> d[k]]
<1>3. [k \in 1 .. Len(d) |-> e(k)] \in Seq(Units)
  <2> HIDE DEF e
  <2>1. \A k \in 1 .. Len(d) : e(k) \in Units
    BY <1>2 DEF e
  <2> QED
    BY <1>1, <2>1, IsASeq
<1>4. Len(Contents(d)) = Len(d)
  BY <1>1, <1>3 DEF Contents
<1>5. Data(Contents(d)) = [k \in 1 .. Len(d) |-> d[k]]
  BY <1>1, <1>4 DEF Data, Contents
<1> QED
  BY <1>1, <1>3, <1>4, <1>5 DEF Contents

\* What a receiver makes of any units is a file's contents.
LEMMA DataFacts ==
  ASSUME NEW u \in Seq(Units)
  PROVE  /\ Data(u) \in Seq(Edits)
         /\ Len(Data(u)) = Len(u)
         /\ \A k \in 1 .. Len(u) : Data(u)[k] = IF u[k].is = 0 THEN u[k].of ELSE 0
<1>1. Len(u) \in Nat /\ u \in [1 .. Len(u) -> Units]
  BY LenProperties
<1> DEFINE e(k) == IF u[k].is = 0 THEN u[k].of ELSE 0
<1>2. \A k \in 1 .. Len(u) : e(k) \in Edits
  <2> TAKE k \in 1 .. Len(u)
  <2>1. u[k] \in Units
    BY <1>1
  <2>2. u[k].is = 0 => u[k].of \in Edits
    BY <2>1 DEF Units, Edits
  <2>3. 0 \in Edits
    BY Sized DEF Edits
  <2> QED
    BY <2>2, <2>3
<1>3. [k \in 1 .. Len(u) |-> e(k)] \in Seq(Edits)
  <2> HIDE DEF e
  <2> QED
    BY <1>1, <1>2, IsASeq
<1> QED
  BY <1>1, <1>3 DEF Data

\* Part of a sequence.
LEMMA PartFacts ==
  ASSUME NEW S, NEW s \in Seq(S), NEW m \in Nat, NEW n \in Nat, 1 <= m, n <= Len(s)
  PROVE  /\ SubSeq(s, m, n) \in Seq(S)
         /\ Len(SubSeq(s, m, n)) = IF m <= n THEN n - m + 1 ELSE 0
         /\ \A i \in 1 .. n - m + 1 : SubSeq(s, m, n)[i] = s[m + i - 1]
<1>1. Len(s) \in Nat
  BY LenProperties
<1>2. \A i \in m .. n : i \in 1 .. Len(s)
  BY <1>1
<1>3. \A i \in m .. n : s[i] \in S
  BY <1>2, ElementOfSeq
<1>4. m \in Int /\ n \in Int
  OBVIOUS
<1> QED
  BY <1>3, <1>4, SubSeqProperties

\* Reading the front of what has arrived.
LEMMA SplitConcat ==
  ASSUME NEW S, NEW x \in Seq(S), NEW y \in Seq(S)
  PROVE  /\ SubSeq(x \o y, 1, Len(x)) = x
         /\ SubSeq(x \o y, Len(x) + 1, Len(x \o y)) = y
<1>1. Len(x) \in Nat /\ Len(y) \in Nat /\ x \o y \in Seq(S) /\ Len(x \o y) = Len(x) + Len(y)
  BY LenProperties, ConcatProperties
<1>2. \A i \in 1 .. Len(x) + Len(y) :
         (x \o y)[i] = IF i <= Len(x) THEN x[i] ELSE y[i - Len(x)]
  BY ConcatProperties
<1>3. /\ SubSeq(x \o y, 1, Len(x)) \in Seq(S)
      /\ Len(SubSeq(x \o y, 1, Len(x))) = Len(x)
      /\ \A i \in 1 .. Len(x) : SubSeq(x \o y, 1, Len(x))[i] = (x \o y)[i]
  <2>1. 1 \in Nat /\ 1 <= 1 /\ Len(x) <= Len(x \o y)
    BY <1>1
  <2>2. /\ SubSeq(x \o y, 1, Len(x)) \in Seq(S)
        /\ Len(SubSeq(x \o y, 1, Len(x))) = IF 1 <= Len(x) THEN Len(x) - 1 + 1 ELSE 0
        /\ \A i \in 1 .. Len(x) - 1 + 1 : SubSeq(x \o y, 1, Len(x))[i] = (x \o y)[1 + i - 1]
    BY <1>1, <2>1, PartFacts
  <2> QED
    BY <1>1, <2>2
<1>4. ASSUME NEW m, NEW n, m = Len(x) + 1, n = Len(x \o y)
      PROVE  /\ SubSeq(x \o y, m, n) \in Seq(S)
             /\ Len(SubSeq(x \o y, m, n)) = Len(y)
             /\ \A i \in 1 .. Len(y) : SubSeq(x \o y, m, n)[i] = y[i]
  <2>1. m \in Nat /\ n \in Nat /\ 1 <= m /\ n <= Len(x \o y) /\ n = Len(x) + Len(y)
    BY <1>1, <1>4
  <2>2. /\ SubSeq(x \o y, m, n) \in Seq(S)
        /\ Len(SubSeq(x \o y, m, n)) = IF m <= n THEN n - m + 1 ELSE 0
        /\ \A i \in 1 .. n - m + 1 : SubSeq(x \o y, m, n)[i] = (x \o y)[m + i - 1]
    BY <1>1, <2>1, PartFacts
  <2>3. \A i \in 1 .. Len(y) : (x \o y)[m + i - 1] = y[i]
    BY <1>1, <1>2, <1>4, SMTT(30)
  <2>4. n - m + 1 = Len(y) /\ (m > n => Len(y) = 0)
    BY <1>1, <1>4, <2>1
  <2> QED
    BY <1>1, <2>1, <2>2, <2>3, <2>4, SMTT(30)
<1>5. SubSeq(x \o y, 1, Len(x)) = x
  BY <1>1, <1>2, <1>3, SeqEqual
<1>6. SubSeq(x \o y, Len(x) + 1, Len(x \o y)) = y
  BY <1>4, SeqEqual
<1> QED
  BY <1>5, <1>6

-----------------------------------------------------------------------------
(* Chunks of a file                                                        *)

\* How many units the chunks have, and which.
LEMMA BytesFacts ==
  ASSUME NEW d \in Seq(Edits), NEW a \in Nat, NEW b \in Nat, a <= b
  PROVE  LET p == SubSeq(d, At(a) + 1, Smaller(At(b), Len(d)))
         IN  /\ p \in Seq(Edits)
             /\ Bytes(d, a, b) \in Seq(Units)
             /\ Len(Bytes(d, a, b)) =
                  IF Len(d) <= At(a) THEN 0 ELSE Smaller(At(b), Len(d)) - At(a)
             /\ \A i \in 1 .. Len(Bytes(d, a, b)) :
                  Bytes(d, a, b)[i] = [is |-> 0, of |-> d[At(a) + i]]
             /\ Data(Bytes(d, a, b)) = p
<1> DEFINE n == Smaller(At(b), Len(d))
           p == SubSeq(d, At(a) + 1, n)
<1>1. Len(d) \in Nat /\ At(a) \in Nat /\ At(b) \in Nat /\ At(a) <= At(b)
  BY LenProperties, AtNext, AtOrder
<1>2. n \in Nat /\ n <= Len(d) /\ At(a) + 1 \in Nat /\ 1 <= At(a) + 1
  BY <1>1 DEF Smaller
<1>3. /\ p \in Seq(Edits)
      /\ Len(p) = IF At(a) + 1 <= n THEN n - (At(a) + 1) + 1 ELSE 0
      /\ \A i \in 1 .. n - (At(a) + 1) + 1 : p[i] = d[At(a) + 1 + i - 1]
  <2> HIDE DEF n
  <2> QED
    BY <1>2, PartFacts, SMTT(30)
<1>4. Len(p) = IF Len(d) <= At(a) THEN 0 ELSE n - At(a)
  <2> HIDE DEF p
  <2> QED
    BY <1>1, <1>3, SMTT(30) DEF Smaller
<1>5. \A i \in 1 .. Len(p) : p[i] = d[At(a) + i]
  <2> HIDE DEF n, p
  <2>1. PICK from \in Nat, last \in Nat : from = At(a) /\ last = n
    BY <1>1, <1>2
  <2>2. Len(p) = IF from + 1 <= last THEN last - (from + 1) + 1 ELSE 0
    BY <1>3, <2>1
  <2>3. \A i \in 1 .. last - (from + 1) + 1 : p[i] = d[from + 1 + i - 1]
    BY <1>3, <2>1
  <2>4. ASSUME NEW i \in 1 .. Len(p) PROVE p[i] = d[from + i]
    <3>1. i \in 1 .. last - (from + 1) + 1 /\ from + 1 + i - 1 = from + i
      BY <2>2
    <3>2. p[i] = d[from + 1 + i - 1]
      BY <2>3, <3>1
    <3> QED
      BY <3>1, <3>2
  <2> QED
    BY <2>1, <2>4
<1> HIDE DEF p
<1>6. /\ Contents(p) \in Seq(Units)
      /\ Len(Contents(p)) = Len(p)
      /\ \A k \in 1 .. Len(p) : Contents(p)[k] = [is |-> 0, of |-> p[k]]
      /\ Data(Contents(p)) = p
  BY <1>3, ContentsFacts
<1>7. Bytes(d, a, b) = Contents(p)
  BY DEF Bytes, p
<1>8. p = SubSeq(d, At(a) + 1, Smaller(At(b), Len(d)))
  BY DEF p
<1> HIDE DEF n
<1>9. /\ Bytes(d, a, b) \in Seq(Units)
      /\ Data(Bytes(d, a, b)) = p
      /\ Len(Bytes(d, a, b)) = IF Len(d) <= At(a) THEN 0 ELSE n - At(a)
  BY <1>4, <1>6, <1>7
<1>10. \A i \in 1 .. Len(Bytes(d, a, b)) : Bytes(d, a, b)[i] = [is |-> 0, of |-> d[At(a) + i]]
  BY <1>5, <1>6, <1>7
<1> QED
  BY <1>3, <1>8, <1>9, <1>10 DEF n

\* No chunks.
LEMMA NoBytes ==
  ASSUME NEW d \in Seq(Edits), NEW a \in Nat
  PROVE  Bytes(d, a, a) = <<>>
<1>1. Len(d) \in Nat /\ At(a) \in Nat
  BY LenProperties, AtNext
<1>2. Bytes(d, a, a) \in Seq(Units) /\ Len(Bytes(d, a, a)) = 0
  BY <1>1, BytesFacts DEF Smaller
<1> QED
  BY <1>2, EmptySeq

\* Chunks follow one another without a gap.
LEMMA BytesJoin ==
  ASSUME NEW d \in Seq(Edits), NEW a \in Nat, NEW b \in Nat, NEW c \in Nat, a <= b, b <= c
  PROVE  Bytes(d, a, c) = Bytes(d, a, b) \o Bytes(d, b, c)
<1> DEFINE x == Bytes(d, a, b)
           y == Bytes(d, b, c)
           z == Bytes(d, a, c)
<1>0. Len(d) \in Nat /\ At(a) \in Nat /\ At(b) \in Nat /\ At(c) \in Nat
  BY LenProperties, AtNext
<1>1. a <= c /\ At(a) <= At(b) /\ At(b) <= At(c)
  BY AtOrder
<1>2. /\ x \in Seq(Units)
      /\ Len(x) = IF Len(d) <= At(a) THEN 0 ELSE Smaller(At(b), Len(d)) - At(a)
      /\ \A i \in 1 .. Len(x) : x[i] = [is |-> 0, of |-> d[At(a) + i]]
  BY BytesFacts
<1>3. /\ y \in Seq(Units)
      /\ Len(y) = IF Len(d) <= At(b) THEN 0 ELSE Smaller(At(c), Len(d)) - At(b)
      /\ \A i \in 1 .. Len(y) : y[i] = [is |-> 0, of |-> d[At(b) + i]]
  BY BytesFacts
<1>4. /\ z \in Seq(Units)
      /\ Len(z) = IF Len(d) <= At(a) THEN 0 ELSE Smaller(At(c), Len(d)) - At(a)
      /\ \A i \in 1 .. Len(z) : z[i] = [is |-> 0, of |-> d[At(a) + i]]
  BY <1>1, BytesFacts
<1> HIDE DEF x, y, z
<1>5. /\ x \o y \in Seq(Units)
      /\ Len(x \o y) = Len(x) + Len(y)
      /\ \A i \in 1 .. Len(x) + Len(y) : (x \o y)[i] = IF i <= Len(x) THEN x[i] ELSE y[i - Len(x)]
  BY <1>2, <1>3, ConcatProperties
<1>6. Len(x) \in Nat /\ Len(y) \in Nat /\ Len(z) \in Nat
  BY <1>2, <1>3, <1>4, LenProperties
<1>7. Len(z) = Len(x) + Len(y)
  BY <1>0, <1>1, <1>2, <1>3, <1>4, <1>6, SMTT(30) DEF Smaller
<1>8. ASSUME NEW i \in 1 .. Len(z)
      PROVE  z[i] = (x \o y)[i]
  <2>1. i \in Nat /\ i \in 1 .. Len(x) + Len(y)
    BY <1>6, <1>7
  <2>2. CASE i <= Len(x)
    <3>1. i \in 1 .. Len(x)
      BY <1>6, <2>1, <2>2
    <3> QED
      BY <1>2, <1>4, <1>5, <2>1, <2>2, <3>1
  <2>3. CASE ~(i <= Len(x))
    <3>1. i - Len(x) \in 1 .. Len(y)
      BY <1>6, <2>1, <2>3
    <3>2. At(b) + (i - Len(x)) = At(a) + i
      BY <1>0, <1>1, <1>2, <1>3, <1>6, <2>1, <2>3, <3>1, SMTT(30) DEF Smaller
    <3> QED
      BY <1>3, <1>4, <1>5, <2>1, <2>3, <3>1, <3>2
  <2> QED
    BY <2>2, <2>3
<1>9. z = x \o y
  BY <1>4, <1>5, <1>7, <1>8, SeqEqual
<1> QED
  BY <1>9 DEF x, y, z

\* A chunk is what read() of the file returns.
LEMMA ChunkRead ==
  ASSUME NEW d \in Seq(Edits), NEW a \in Nat
  PROVE  Bytes(d, a, a + 1) = Contents(ReadFile(d, At(a)))
BY AtNext DEF Bytes, ReadFile

\* A chunk that is not empty is a full one unless it is the last; the next one
\* begins behind it.
LEMMA ChunkFacts ==
  ASSUME NEW d \in Seq(Edits), NEW a \in Nat, At(a) < Len(d)
  PROVE  LET n == Len(Bytes(d, a, a + 1))
         IN  /\ n \in 1 .. CHUNKSIZE
             /\ n = CHUNKSIZE \/ n = Len(d) - At(a)
             /\ n <= Len(d) - At(a)
             /\ n < Len(d) - At(a) => n = CHUNKSIZE /\ At(a + 1) < Len(d)
             /\ n = Len(d) - At(a) => Len(d) <= At(a + 1)
             /\ Len(d) - At(a) - n = IF At(a + 1) < Len(d) THEN Len(d) - At(a + 1) ELSE 0
<1>1. Len(d) \in Nat /\ At(a) \in Nat /\ At(a + 1) = At(a) + CHUNKSIZE /\ a + 1 \in Nat /\ a <= a + 1
  BY LenProperties, AtNext
<1>2. Len(Bytes(d, a, a + 1)) =
        IF Len(d) <= At(a) THEN 0 ELSE Smaller(At(a + 1), Len(d)) - At(a)
  BY <1>1, BytesFacts
<1> QED
  BY <1>1, <1>2, Sized DEF Smaller

\* The segments of chunks.
LEMMA PiecesFacts ==
  ASSUME NEW d \in Seq(Edits), NEW a \in Nat, NEW b \in Nat, a <= b
  PROVE  /\ Pieces(d, a, b) \in Seq(Seq(Units))
         /\ Len(Pieces(d, a, b)) = b - a
         /\ \A i \in 1 .. b - a : Pieces(d, a, b)[i] = Bytes(d, a + i - 1, a + i)
<1>1. b - a \in Nat
  OBVIOUS
<1>2. \A i \in 1 .. b - a : Bytes(d, a + i - 1, a + i) \in Seq(Units)
  <2> TAKE i \in 1 .. b - a
  <2>1. a + i - 1 \in Nat /\ a + i \in Nat /\ a + i - 1 <= a + i
    OBVIOUS
  <2> QED
    BY <2>1, BytesFacts
<1> DEFINE e(i) == Bytes(d, a + i - 1, a + i)
<1>3. [i \in 1 .. b - a |-> e(i)] \in Seq(Seq(Units))
  <2>1. \A i \in 1 .. b - a : e(i) \in Seq(Units)
    BY <1>2
  <2> HIDE DEF e
  <2> QED
    BY <1>1, <2>1, IsASeq
<1>4. Pieces(d, a, b) = [i \in 1 .. b - a |-> Bytes(d, a + i - 1, a + i)]
  BY DEF Pieces
<1>5. DOMAIN Pieces(d, a, b) = 1 .. Len(Pieces(d, a, b)) /\ Len(Pieces(d, a, b)) \in Nat
  BY <1>3, <1>4, LenProperties
<1>6. DOMAIN Pieces(d, a, b) = 1 .. b - a
  BY <1>4
<1>7. Len(Pieces(d, a, b)) = b - a
  BY <1>1, <1>5, <1>6
<1> QED
  BY <1>3, <1>4, <1>7

\* No segments.
LEMMA NoPieces ==
  ASSUME NEW d \in Seq(Edits), NEW a \in Nat
  PROVE  Pieces(d, a, a) = <<>>
<1>1. a <= a /\ a - a = 0
  OBVIOUS
<1>2. Pieces(d, a, a) \in Seq(Seq(Units)) /\ Len(Pieces(d, a, a)) = a - a
  BY <1>1, PiecesFacts
<1> QED
  BY <1>1, <1>2, EmptySeq

\* The first segment is delivered.
LEMMA FirstPiece ==
  ASSUME NEW d \in Seq(Edits), NEW a \in Nat, NEW b \in Nat, a < b
  PROVE  Pieces(d, a, b) = <<Bytes(d, a, a + 1)>> \o Pieces(d, a + 1, b)
<1> DEFINE x == <<Bytes(d, a, a + 1)>>
           y == Pieces(d, a + 1, b)
           z == Pieces(d, a, b)
<1>1. a + 1 \in Nat /\ a <= b /\ a + 1 <= b /\ a <= a + 1 /\ b - a \in Nat /\ b - (a + 1) \in Nat
  OBVIOUS
<1>2. x \in Seq(Seq(Units)) /\ Len(x) = 1 /\ x[1] = Bytes(d, a, a + 1)
  BY <1>1, BytesFacts
<1>3. /\ y \in Seq(Seq(Units)) /\ Len(y) = b - (a + 1)
      /\ \A i \in 1 .. b - (a + 1) : y[i] = Bytes(d, a + 1 + i - 1, a + 1 + i)
  BY <1>1, PiecesFacts
<1>4. /\ z \in Seq(Seq(Units)) /\ Len(z) = b - a
      /\ \A i \in 1 .. b - a : z[i] = Bytes(d, a + i - 1, a + i)
  BY <1>1, PiecesFacts
<1> HIDE DEF x, y, z
<1>5. /\ x \o y \in Seq(Seq(Units)) /\ Len(x \o y) = Len(x) + Len(y)
      /\ \A i \in 1 .. Len(x) + Len(y) : (x \o y)[i] = IF i <= Len(x) THEN x[i] ELSE y[i - Len(x)]
  BY <1>2, <1>3, ConcatProperties
<1>6. ASSUME NEW i \in 1 .. Len(z)
      PROVE  z[i] = (x \o y)[i]
  <2>1. i \in 1 .. b - a /\ i \in Nat /\ Len(x) + Len(y) = b - a
    BY <1>1, <1>2, <1>3, <1>4
  <2>2. CASE i = 1
    <3>1. a + 1 - 1 = a /\ a + i = a + 1
      BY <2>2
    <3>2. (x \o y)[i] = x[1]
      BY <1>2, <1>5, <2>1, <2>2
    <3>3. z[i] = Bytes(d, a + 1 - 1, a + 1)
      BY <1>4, <2>1, <2>2
    <3> QED
      BY <1>2, <3>1, <3>2, <3>3
  <2>3. CASE i # 1
    <3>1. /\ i - 1 \in 1 .. b - (a + 1)
          /\ a + 1 + (i - 1) - 1 = a + i - 1 /\ a + 1 + (i - 1) = a + i
      BY <2>1, <2>3
    <3>2. (x \o y)[i] = y[i - 1]
      BY <1>2, <1>5, <2>1, <2>3, SMTT(30)
    <3>3. y[i - 1] = Bytes(d, a + 1 + (i - 1) - 1, a + 1 + (i - 1))
      BY <1>3, <3>1
    <3> QED
      BY <1>4, <2>1, <3>1, <3>2, <3>3
  <2> QED
    BY <2>2, <2>3
<1>7. Len(z) = Len(x \o y)
  BY <1>1, <1>2, <1>3, <1>4, <1>5
<1>8. z = x \o y
  BY <1>4, <1>5, <1>6, <1>7, SeqEqual
<1> QED
  BY <1>8 DEF x, y, z

\* One more segment is written.
LEMMA LastPiece ==
  ASSUME NEW d \in Seq(Edits), NEW a \in Nat, NEW b \in Nat, a <= b
  PROVE  Append(Pieces(d, a, b), Bytes(d, b, b + 1)) = Pieces(d, a, b + 1)
<1> SUFFICES ASSUME NEW c \in Nat, c = b + 1
             PROVE  Append(Pieces(d, a, b), Bytes(d, b, c)) = Pieces(d, a, c)
  <2>1. b + 1 \in Nat
    OBVIOUS
  <2> QED
    BY <2>1, Zenon
<1> DEFINE x == Pieces(d, a, b)
           y == Bytes(d, b, c)
           z == Pieces(d, a, c)
<1>1. a <= c /\ b <= c /\ b - a \in Nat /\ c - a \in Nat /\ c - a = (b - a) + 1
  OBVIOUS
<1>2. /\ x \in Seq(Seq(Units)) /\ Len(x) = b - a
      /\ \A i \in 1 .. b - a : x[i] = Bytes(d, a + i - 1, a + i)
  BY PiecesFacts
<1>3. y \in Seq(Units)
  BY <1>1, BytesFacts
<1>4. /\ z \in Seq(Seq(Units)) /\ Len(z) = c - a
      /\ \A i \in 1 .. c - a : z[i] = Bytes(d, a + i - 1, a + i)
  BY <1>1, PiecesFacts, ZenonT(60)
<1>5. a + (c - a) - 1 = b /\ a + (c - a) = c
  OBVIOUS
<1>6. z[c - a] = y
  <2>1. c - a \in 1 .. c - a
    BY <1>1
  <2>2. z[c - a] = Bytes(d, a + (c - a) - 1, a + (c - a))
    BY <1>4, <2>1
  <2> QED
    BY <1>5, <2>2
<1> HIDE DEF x, y, z
<1>7. /\ Append(x, y) \in Seq(Seq(Units)) /\ Len(Append(x, y)) = Len(x) + 1
      /\ \A i \in 1 .. Len(x) : Append(x, y)[i] = x[i]
      /\ Append(x, y)[Len(x) + 1] = y
  BY <1>2, <1>3, AppendProperties
<1>8. ASSUME NEW i \in 1 .. Len(z)
      PROVE  z[i] = Append(x, y)[i]
  <2>1. i \in 1 .. c - a /\ i \in Nat /\ Len(x) + 1 = c - a
    BY <1>1, <1>2, <1>4
  <2>2. CASE i = c - a
    BY <1>6, <1>7, <2>1, <2>2
  <2>3. CASE i # c - a
    <3>1. i \in 1 .. b - a
      BY <1>1, <2>1, <2>3
    <3> QED
      BY <1>2, <1>4, <1>7, <2>1, <3>1
  <2> QED
    BY <2>2, <2>3
<1>9. Len(z) = Len(Append(x, y))
  BY <1>1, <1>2, <1>4, <1>7
<1>10. z = Append(x, y)
  BY <1>4, <1>7, <1>8, <1>9, SeqEqual
<1> QED
  BY <1>10 DEF x, y, z

\* send_file's segments are the chunks, all of them and none empty.
LEMMA ChunksFacts ==
  ASSUME NEW d \in Seq(Edits)
  PROVE  \E n \in Nat : Whole(d, n) /\ Chunks(d) = Pieces(d, 0, n)
<1> DEFINE n == (Len(d) + CHUNKSIZE - 1) \div CHUNKSIZE
<1>1. Len(d) \in Nat
  BY LenProperties
<1>2. n \in Nat /\ Len(d) <= At(n) /\ (n = 0 \/ At(n - 1) < Len(d))
  BY <1>1, ChunkCount
<1>3. Whole(d, n)
  BY <1>2 DEF Whole, Within
<1>4. Chunks(d) = [k \in 1 .. n |-> Contents(ReadFile(d, (k - 1) * CHUNKSIZE))]
  BY DEF Chunks
<1> HIDE DEF n
<1>5. \A k \in 1 .. n : Contents(ReadFile(d, (k - 1) * CHUNKSIZE)) = Bytes(d, 0 + k - 1, 0 + k)
  <2> TAKE k \in 1 .. n
  <2>1. k - 1 \in Nat /\ k - 1 + 1 = k /\ 0 + k - 1 = k - 1 /\ 0 + k = k
    BY <1>2
  <2>2. Bytes(d, k - 1, k - 1 + 1) = Contents(ReadFile(d, At(k - 1)))
    BY <2>1, ChunkRead
  <2> QED
    BY <2>1, <2>2 DEF At
<1>6. n - 0 = n
  BY <1>2
<1>7. Pieces(d, 0, n) = [i \in 1 .. n |-> Bytes(d, 0 + i - 1, 0 + i)]
  BY <1>6 DEF Pieces
<1>8. Chunks(d) = Pieces(d, 0, n)
  BY <1>4, <1>5, <1>7
<1> QED
  BY <1>2, <1>3, <1>8

-----------------------------------------------------------------------------
(* What happens to a stream                                                *)

\* A sequence of one.
LEMMA OneElement ==
  ASSUME NEW S, NEW x \in S
  PROVE  /\ <<x>> \in Seq(S) /\ Len(<<x>>) = 1 /\ <<x>>[1] = x
         /\ Head(<<x>>) = x /\ Tail(<<x>>) = <<>>
OBVIOUS

\* Taking the head off a sequence.
LEMMA ConsFacts ==
  ASSUME NEW S, NEW x \in S, NEW t \in Seq(S)
  PROVE  <<x>> \o t # <<>> /\ Head(<<x>> \o t) = x /\ Tail(<<x>> \o t) = t
<1> DEFINE z == <<x>> \o t
<1>1. <<x>> \in Seq(S) /\ Len(<<x>>) = 1 /\ <<x>>[1] = x /\ Len(t) \in Nat
  BY LenProperties
<1>2. /\ z \in Seq(S) /\ Len(z) = 1 + Len(t)
      /\ \A i \in 1 .. 1 + Len(t) : z[i] = IF i <= 1 THEN x ELSE t[i - 1]
  <2>1. /\ z \in Seq(S) /\ Len(z) = Len(<<x>>) + Len(t)
        /\ \A i \in 1 .. Len(<<x>>) + Len(t) :
             z[i] = IF i <= Len(<<x>>) THEN <<x>>[i] ELSE t[i - Len(<<x>>)]
    BY <1>1, ConcatProperties
  <2> HIDE DEF z
  <2> QED
    BY <1>1, <2>1
<1> HIDE DEF z
<1>3. z # <<>>
  BY <1>1, <1>2
<1>4. /\ Tail(z) \in Seq(S) /\ Len(Tail(z)) = Len(z) - 1
      /\ \A i \in 1 .. Len(Tail(z)) : Tail(z)[i] = z[i + 1]
  BY <1>2, <1>3, HeadTailProperties
<1>5. Len(Tail(z)) = Len(t) /\ \A i \in 1 .. Len(t) : Tail(z)[i] = t[i]
  BY <1>1, <1>2, <1>4
<1>6. Tail(z) = t
  BY <1>4, <1>5, SeqEqual
<1>7. Head(z) = x
  BY <1>1, <1>2
<1> QED
  BY <1>3, <1>6, <1>7 DEF z

\* A chunk among those of a file has units.
LEMMA ChunkThere ==
  ASSUME NEW d \in Seq(Edits), NEW a \in Nat, NEW b \in Nat, NEW j \in Nat,
         a < b, b <= j, Within(d, j)
  PROVE  At(a) < Len(d) /\ Bytes(d, a, b) # <<>> /\ Within(d, b)
<1>1. Len(d) \in Nat /\ At(a) \in Nat /\ At(b) \in Nat /\ At(j - 1) \in Nat
  <2>1. j - 1 \in Nat
    OBVIOUS
  <2> QED
    BY <2>1, LenProperties, AtNext
<1>2. At(j - 1) < Len(d)
  BY DEF Within
<1>3. At(a) <= At(j - 1)
  <2>1. j - 1 \in Nat /\ a <= j - 1
    OBVIOUS
  <2> QED
    BY <2>1, AtOrder
<1>4. At(b - 1) <= At(j - 1) /\ At(b - 1) \in Nat
  <2>1. j - 1 \in Nat /\ b - 1 \in Nat /\ b - 1 <= j - 1
    OBVIOUS
  <2> QED
    BY <2>1, AtOrder, AtNext
<1>5. At(a) + CHUNKSIZE <= At(b)
  BY AtOrder
<1>6. Len(Bytes(d, a, b)) = IF Len(d) <= At(a) THEN 0 ELSE Smaller(At(b), Len(d)) - At(a)
  <2>1. a <= b
    OBVIOUS
  <2> QED
    BY <2>1, BytesFacts
<1>7. Len(Bytes(d, a, b)) # 0
  BY <1>1, <1>2, <1>3, <1>5, <1>6, Sized DEF Smaller
<1>8. At(b - 1) < Len(d)
  BY <1>1, <1>2, <1>4
<1> QED
  BY <1>1, <1>2, <1>3, <1>7, <1>8, EmptySeq DEF Within

\* A message has units, and reading it finds it.
LEMMA RestFacts ==
  ASSUME NEW rest \in Rests, rest # <<>>
  PROVE  /\ rest[1] \in Seq(Units) /\ Len(rest[1]) = SyncLen /\ rest = <<rest[1]>>
         /\ rest[1] # <<>>
         /\ \E q \in Messages : rest[1] = Encode(q)
<1>1. PICK q \in Messages : rest = <<Encode(q)>>
  BY DEF Rests
<1>2. rest[1] = Encode(q)
  BY <1>1
<1>3. Encode(q) \in Seq(Units) /\ Len(Encode(q)) = SyncLen
  BY EncodeFacts
<1>4. Encode(q) # <<>>
  <2>1. Len(<<>>) = 0
    BY EmptySeq, Zenon
  <2>2. Len(Encode(q)) # 0
    BY <1>3 DEF SyncLen
  <2> QED
    BY <2>1, <2>2, Zenon
<1> QED
  BY <1>1, <1>2, <1>3, <1>4

\* What may follow the chunks is a sequence of segments.
LEMMA RestTypes ==
  ASSUME NEW rest \in Rests
  PROVE  rest \in Seq(Seq(Units))
<1>1. CASE rest = <<>>
  BY <1>1, EmptySeq
<1>2. CASE rest # <<>>
  <2>1. rest[1] \in Seq(Units) /\ rest = <<rest[1]>>
    BY <1>2, RestFacts
  <2>2. <<rest[1]>> \in Seq(Seq(Units))
    BY <2>1, OneElement, Zenon
  <2> QED
    BY <2>1, <2>2
<1> QED
  BY <1>1, <1>2

\* Delivery keeps what is carried.
LEMMA FileDelivered ==
  ASSUME NEW net, NEW s, NEW d \in Seq(Edits), NEW m \in Nat, NEW j \in Nat, NEW rest \in Rests,
         m <= j, Within(d, j), FileThen(net, s, d, m, j, rest),
         s.wire # <<>>, net = "merging" \/ s.buf = <<>>
  PROVE  FileThen(net, Arrive(s), d, m, j, rest)
<1>1. PICK h \in Nat :
        /\ m <= h /\ h <= j
        /\ net = "prompt" => h <= m + 1
        /\ s = [wire |-> Pieces(d, h, j) \o rest, buf |-> Bytes(d, m, h)]
  <2>1. ~(s = [wire |-> <<>>, buf |-> Bytes(d, m, j) \o rest[1]])
    OBVIOUS
  <2> QED
    BY <2>1, Zenon DEF FileThen
<1>2. rest \in Seq(Seq(Units))
  BY RestTypes
<1>3. CASE h < j
  <2>1. h + 1 \in Nat /\ h <= h + 1 /\ h + 1 <= j /\ m <= h + 1
    BY <1>1, <1>3
  <2>2. Bytes(d, h, h + 1) \in Seq(Units)
    BY <2>1, BytesFacts
  <2>3. Pieces(d, h + 1, j) \in Seq(Seq(Units))
    BY <2>1, PiecesFacts
  <2>4. Pieces(d, h, j) = <<Bytes(d, h, h + 1)>> \o Pieces(d, h + 1, j)
    BY <1>3, FirstPiece
  <2>5. <<Bytes(d, h, h + 1)>> \in Seq(Seq(Units))
    BY <2>2
  <2>6. s.wire = <<Bytes(d, h, h + 1)>> \o (Pieces(d, h + 1, j) \o rest)
    BY <1>1, <1>2, <2>3, <2>4, <2>5, ConcatAssociative, SMTT(30)
  <2>7. Pieces(d, h + 1, j) \o rest \in Seq(Seq(Units))
    BY <1>2, <2>3, ConcatProperties
  <2>8. Head(s.wire) = Bytes(d, h, h + 1) /\ Tail(s.wire) = Pieces(d, h + 1, j) \o rest
    <3>1. ASSUME NEW x \in Seq(Units), NEW t \in Seq(Seq(Units)), s.wire = <<x>> \o t
          PROVE  Head(s.wire) = x /\ Tail(s.wire) = t
      BY <3>1, ConsFacts, SMTT(30)
    <3> QED
      BY <2>2, <2>6, <2>7, <3>1, Zenon
  <2>9. Bytes(d, m, h) \o Bytes(d, h, h + 1) = Bytes(d, m, h + 1)
    BY <1>1, <2>1, BytesJoin, ZenonT(60)
  <2>10. Arrive(s) = [wire |-> Pieces(d, h + 1, j) \o rest, buf |-> Bytes(d, m, h + 1)]
    BY <1>1, <2>8, <2>9 DEF Arrive
  <2>11. net = "prompt" => h + 1 <= m + 1
    <3> SUFFICES ASSUME net = "prompt", m < h PROVE FALSE
      BY <1>1
    <3>1. Bytes(d, m, h) = <<>>
      BY <1>1
    <3> QED
      BY <1>1, <3>1, ChunkThere
  <2> QED
    BY <2>1, <2>10, <2>11 DEF FileThen
<1>4. CASE h = j
  <2>1. Pieces(d, h, j) = <<>>
    BY <1>4, NoPieces
  <2>2. s.wire = rest
    BY <1>1, <1>2, <2>1, ConcatEmptySeq
  <2>3. rest # <<>>
    BY <2>2
  <2>4. rest[1] \in Seq(Units) /\ rest = <<rest[1]>>
    BY <2>3, RestFacts
  <2>5. Head(rest) = rest[1] /\ Tail(rest) = <<>>
    BY <2>4, OneElement, Zenon
  <2>6. Arrive(s) = [wire |-> <<>>, buf |-> Bytes(d, m, j) \o rest[1]]
    BY <1>1, <1>4, <2>2, <2>5 DEF Arrive
  <2>7. net = "prompt" => m = j
    <3> SUFFICES ASSUME net = "prompt", m < j PROVE FALSE
      OBVIOUS
    <3>1. Bytes(d, m, j) = <<>>
      BY <1>1, <1>4
    <3> QED
      BY <3>1, ChunkThere
  <2> QED
    BY <2>3, <2>6, <2>7 DEF FileThen
<1> QED
  BY <1>1, <1>3, <1>4

\* The parts of a stream, and what a write, a read and a loss do to them.
LEMMA StreamFacts ==
  ASSUME NEW w, NEW b, NEW s, s = [wire |-> w, buf |-> b], NEW u, NEW n
  PROVE  /\ s.wire = w /\ s.buf = b
         /\ Put(s, u) = [wire |-> Append(w, u), buf |-> b]
         /\ Take(s, n) = [wire |-> w, buf |-> SubSeq(b, n + 1, Len(b))]
         /\ [s EXCEPT !.wire = u] = [wire |-> u, buf |-> b]
<1>1. s.wire = w /\ s.buf = b
  OBVIOUS
<1>2. \A x : /\ [[wire |-> w, buf |-> b] EXCEPT !.wire = x] = [wire |-> x, buf |-> b]
             /\ [[wire |-> w, buf |-> b] EXCEPT !.buf = x] = [wire |-> w, buf |-> x]
  OBVIOUS
<1> QED
  BY <1>1, <1>2, Zenon DEF Put, Take

\* A write appends a segment.
LEMMA PutFacts ==
  \A w, b, u : Put([wire |-> w, buf |-> b], u) = [wire |-> Append(w, u), buf |-> b]
<1>1. \A w, b, x : [[wire |-> w, buf |-> b] EXCEPT !.wire = x] = [wire |-> x, buf |-> b]
  OBVIOUS
<1>2. \A w, b : [wire |-> w, buf |-> b].wire = w
  OBVIOUS
<1> QED
  BY <1>1, <1>2, Zenon DEF Put

\* A read takes units off the buffer.
LEMMA TakeFacts ==
  \A w, b, n :
    Take([wire |-> w, buf |-> b], n) = [wire |-> w, buf |-> SubSeq(b, n + 1, Len(b))]
<1>1. \A w, b, x : [[wire |-> w, buf |-> b] EXCEPT !.buf = x] = [wire |-> w, buf |-> x]
  OBVIOUS
<1>2. \A w, b : [wire |-> w, buf |-> b].buf = b
  OBVIOUS
<1> QED
  BY <1>1, <1>2, Zenon DEF Take

\* A chunk is written.
LEMMA FileWritten ==
  ASSUME NEW net, NEW s, NEW d \in Seq(Edits), NEW m \in Nat, NEW j \in Nat,
         m <= j, FileThen(net, s, d, m, j, <<>>)
  PROVE  FileThen(net, Put(s, Bytes(d, j, j + 1)), d, m, j + 1, <<>>)
<1>1. PICK h \in Nat :
        /\ m <= h /\ h <= j
        /\ net = "prompt" => h <= m + 1
        /\ s = [wire |-> Pieces(d, h, j) \o <<>>, buf |-> Bytes(d, m, h)]
  BY Zenon DEF FileThen
<1>2. Pieces(d, h, j) \in Seq(Seq(Units))
  BY <1>1, PiecesFacts
<1>3. Append(Pieces(d, h, j), Bytes(d, j, j + 1)) = Pieces(d, h, j + 1)
  BY <1>1, LastPiece
<1>4. j + 1 \in Nat /\ h <= j + 1
  BY <1>1
<1>5. Pieces(d, h, j + 1) \in Seq(Seq(Units))
  BY <1>4, PiecesFacts
<1>6. Pieces(d, h, j) \o <<>> = Pieces(d, h, j) /\ Pieces(d, h, j + 1) \o <<>> = Pieces(d, h, j + 1)
  BY <1>2, <1>5, ConcatEmptySeq
<1>7. Put(s, Bytes(d, j, j + 1)) = [wire |-> Pieces(d, h, j + 1) \o <<>>, buf |-> Bytes(d, m, h)]
  <2>1. \A w, b, u : s = [wire |-> w, buf |-> b] => Put(s, u) = [wire |-> Append(w, u), buf |-> b]
    BY PutFacts, Zenon
  <2>2. Put(s, Bytes(d, j, j + 1)) =
          [wire |-> Append(Pieces(d, h, j) \o <<>>, Bytes(d, j, j + 1)), buf |-> Bytes(d, m, h)]
    BY <1>1, <2>1, Zenon
  <2> QED
    BY <1>3, <1>6, <2>2
<1> QED
  BY <1>1, <1>4, <1>7 DEF FileThen

\* A message is written behind the chunks.
LEMMA RestWritten ==
  ASSUME NEW net, NEW s, NEW d \in Seq(Edits), NEW m \in Nat, NEW j \in Nat, NEW q \in Messages,
         m <= j, FileThen(net, s, d, m, j, <<>>)
  PROVE  FileThen(net, Put(s, Encode(q)), d, m, j, <<Encode(q)>>)
<1>1. PICK h \in Nat :
        /\ m <= h /\ h <= j
        /\ net = "prompt" => h <= m + 1
        /\ s = [wire |-> Pieces(d, h, j) \o <<>>, buf |-> Bytes(d, m, h)]
  BY Zenon DEF FileThen
<1>2. Pieces(d, h, j) \in Seq(Seq(Units)) /\ Encode(q) \in Seq(Units)
  BY <1>1, PiecesFacts, EncodeFacts
<1>3. /\ Pieces(d, h, j) \o <<>> = Pieces(d, h, j)
      /\ Append(Pieces(d, h, j), Encode(q)) = Pieces(d, h, j) \o <<Encode(q)>>
  BY <1>2, ConcatEmptySeq, AppendIsConcat
<1>4. Put(s, Encode(q)) = [wire |-> Pieces(d, h, j) \o <<Encode(q)>>, buf |-> Bytes(d, m, h)]
  <2>1. \A w, b, u : s = [wire |-> w, buf |-> b] => Put(s, u) = [wire |-> Append(w, u), buf |-> b]
    BY PutFacts, Zenon
  <2>2. Put(s, Encode(q)) =
          [wire |-> Append(Pieces(d, h, j) \o <<>>, Encode(q)), buf |-> Bytes(d, m, h)]
    BY <1>1, <2>1, Zenon
  <2> QED
    BY <1>3, <2>2
<1> QED
  BY <1>1, <1>4 DEF FileThen

\* What is on the wire is lost.
LEMMA WireLost ==
  ASSUME NEW net, NEW s, NEW d \in Seq(Edits), NEW m \in Nat, NEW j \in Nat, NEW rest \in Rests,
         m <= j, Within(d, j), FileThen(net, s, d, m, j, rest)
  PROVE  \E k \in Nat, r \in {<<>>, rest} :
           /\ m <= k /\ k <= j /\ Within(d, k)
           /\ r # <<>> => k = j
           /\ FileThen(net, [s EXCEPT !.wire = <<>>], d, m, k, r)
<1>1. CASE \E h \in Nat :
             /\ m <= h /\ h <= j
             /\ net = "prompt" => h <= m + 1
             /\ s = [wire |-> Pieces(d, h, j) \o rest, buf |-> Bytes(d, m, h)]
  <2>1. PICK h \in Nat :
          /\ m <= h /\ h <= j
          /\ net = "prompt" => h <= m + 1
          /\ s = [wire |-> Pieces(d, h, j) \o rest, buf |-> Bytes(d, m, h)]
    BY <1>1
  <2>2. Pieces(d, h, h) = <<>>
    BY NoPieces
  <2>3. <<>> \o <<>> = <<>>
    BY EmptySeq, ConcatEmptySeq
  <2>4. [s EXCEPT !.wire = <<>>] = [wire |-> Pieces(d, h, h) \o <<>>, buf |-> Bytes(d, m, h)]
    BY <2>1, <2>2, <2>3
  <2>5. h <= h
    OBVIOUS
  <2>6. FileThen(net, [s EXCEPT !.wire = <<>>], d, m, h, <<>>)
    BY <2>1, <2>4, <2>5 DEF FileThen
  <2>7. Within(d, h)
    <3>1. CASE h = 0
      BY <3>1 DEF Within
    <3>2. CASE h # 0
      <4>1. h - 1 \in Nat /\ h - 1 < h
        BY <3>2
      <4> QED
        BY <2>1, <4>1, ChunkThere
    <3> QED
      BY <3>1, <3>2
  <2> QED
    BY <2>1, <2>6, <2>7
<1>2. CASE /\ rest # <<>>
           /\ net = "prompt" => m = j
           /\ s = [wire |-> <<>>, buf |-> Bytes(d, m, j) \o rest[1]]
  <2>1. [s EXCEPT !.wire = <<>>] = s
    BY <1>2, StreamFacts, ZenonT(60)
  <2>2. j <= j
    OBVIOUS
  <2> QED
    BY <2>1, <2>2
<1> QED
  BY <1>1, <1>2, Zenon DEF FileThen

\* Nothing is carried yet.
LEMMA FileStart ==
  ASSUME NEW net, NEW d \in Seq(Edits)
  PROVE  FileThen(net, NoStream, d, 0, 0, <<>>)
<1>1. Pieces(d, 0, 0) = <<>> /\ Bytes(d, 0, 0) = <<>>
  BY NoPieces, NoBytes
<1>2. <<>> \o <<>> = <<>>
  BY EmptySeq, ConcatEmptySeq
<1>3. NoStream = [wire |-> Pieces(d, 0, 0) \o <<>>, buf |-> Bytes(d, 0, 0)]
  BY <1>1, <1>2 DEF NoStream
<1>4. 0 \in Nat /\ 0 <= 0 /\ 0 <= 0 + 1
  OBVIOUS
<1> QED
  BY <1>3, <1>4 DEF FileThen

\* Everything of the file was read: the rest remains.
LEMMA FileDone ==
  ASSUME NEW net, NEW s, NEW d \in Seq(Edits), NEW m \in Nat, NEW rest \in Rests,
         FileThen(net, s, d, m, m, rest)
  PROVE  /\ rest = <<>> => s = NoStream
         /\ \A q \in Messages : rest = <<Encode(q)>> => OneMessage(s, q)
<1>1. Pieces(d, m, m) = <<>> /\ Bytes(d, m, m) = <<>>
  BY NoPieces, NoBytes
<1>2. rest \in Seq(Seq(Units)) /\ (rest # <<>> => rest[1] \in Seq(Units))
  BY RestTypes, RestFacts
<1>3. <<>> \o rest = rest /\ (rest # <<>> => <<>> \o rest[1] = rest[1])
  BY <1>2, ConcatEmptySeq
<1>4. \/ s = [wire |-> rest, buf |-> <<>>]
      \/ rest # <<>> /\ s = [wire |-> <<>>, buf |-> rest[1]]
  <2>1. \A h \in Nat : m <= h /\ h <= m => h = m
    OBVIOUS
  <2> QED
    BY <1>1, <1>3, <2>1, Zenon DEF FileThen
<1>5. ASSUME NEW q \in Messages, rest = <<Encode(q)>>
      PROVE  OneMessage(s, q)
  <2>1. rest[1] = Encode(q)
    BY <1>5
  <2> QED
    BY <1>4, <1>5, <2>1 DEF OneMessage
<1> QED
  BY <1>4, <1>5 DEF NoStream

\* A read takes the front of what has arrived.
LEMMA FrontFacts ==
  ASSUME NEW x \in Seq(Units), NEW y \in Seq(Units), NEW n \in Nat,
         Len(x) <= n, Len(x) = n \/ y = <<>>
  PROVE  \A w, s : s = [wire |-> w, buf |-> x \o y] =>
           Front(s, n) = x /\ Take(s, Len(x)) = [wire |-> w, buf |-> y]
<1> SUFFICES ASSUME NEW w, NEW s, s = [wire |-> w, buf |-> x \o y]
             PROVE  Front(s, n) = x /\ Take(s, Len(x)) = [wire |-> w, buf |-> y]
  OBVIOUS
<1>1. Len(x) \in Nat /\ Len(y) \in Nat /\ Len(x \o y) = Len(x) + Len(y)
  BY LenProperties, ConcatProperties
<1>2. y = <<>> => Len(y) = 0
  BY EmptySeq, Zenon
<1>3. Smaller(n, Len(x \o y)) = Len(x)
  BY <1>1, <1>2 DEF Smaller
<1>4. s.buf = x \o y
  OBVIOUS
<1>5. /\ SubSeq(x \o y, 1, Len(x)) = x
      /\ SubSeq(x \o y, Len(x) + 1, Len(x \o y)) = y
  BY SplitConcat
<1>6. Front(s, n) = x
  BY <1>3, <1>4, <1>5, Zenon DEF Front
<1>7. Take(s, Len(x)) = [wire |-> w, buf |-> y]
  BY <1>5, TakeFacts, Zenon
<1> QED
  BY <1>6, <1>7

\* A chunk, or more than the last one, is read.
LEMMA FileRead ==
  ASSUME NEW net, NEW s, NEW d \in Seq(Edits), NEW m \in Nat, NEW j \in Nat, NEW rest \in Rests,
         m <= j, Within(d, j), FileThen(net, s, d, m, j, rest),
         s.buf # <<>>, At(m) < Len(d), rest # <<>> => Len(d) <= At(j),
         NEW got, got = Front(s, CHUNKSIZE)
  PROVE  NextChunk(net, s, d, m, j, rest, got) \/ Overrun(net, s, d, m, j, rest, got)
<1> DEFINE c == Bytes(d, m, m + 1)
<1>1. /\ m + 1 \in Nat /\ m <= m + 1
      /\ Len(d) \in Nat /\ At(m) \in Nat /\ At(j) \in Nat /\ At(m + 1) = At(m) + CHUNKSIZE
      /\ At(m + 1) \in Nat
  BY LenProperties, AtNext
<1>2. c \in Seq(Units) /\ \A i \in 1 .. Len(c) : c[i] = [is |-> 0, of |-> d[At(m) + i]]
  BY <1>1, BytesFacts
<1>3. /\ Len(c) \in 1 .. CHUNKSIZE
      /\ Len(c) = CHUNKSIZE \/ Len(c) = Len(d) - At(m)
      /\ Len(c) = Len(d) - At(m) => Len(d) <= At(m + 1)
  BY ChunkFacts
<1> HIDE DEF c
<1>4. ASSUME NEW h \in Nat, m < h, h <= j, Len(c) # CHUNKSIZE
      PROVE  Bytes(d, m + 1, h) = <<>> /\ h = m + 1
  <2>1. m + 1 <= h /\ Len(d) <= At(m + 1)
    BY <1>1, <1>3, <1>4
  <2>2. Bytes(d, m + 1, h) \in Seq(Units) /\ Len(Bytes(d, m + 1, h)) = 0
    BY <1>1, <2>1, BytesFacts
  <2>3. ~(m + 1 < h)
    BY <1>1, <1>4, <2>1, ChunkThere
  <2> QED
    BY <2>1, <2>2, <2>3, <1>1, EmptySeq
<1>5. ASSUME NEW h \in Nat, m < h, h <= j
      PROVE  /\ Bytes(d, m, h) = c \o Bytes(d, m + 1, h)
             /\ Bytes(d, m + 1, h) \in Seq(Units)
             /\ Len(c) = CHUNKSIZE \/ Bytes(d, m + 1, h) = <<>>
  <2>1. m + 1 <= h
    BY <1>1, <1>5
  <2>2. ASSUME NEW k \in Nat, m <= k, k <= h
        PROVE  Bytes(d, m, h) = Bytes(d, m, k) \o Bytes(d, k, h)
    BY <2>2, BytesJoin, SMTT(30)
  <2>3. Bytes(d, m, h) = Bytes(d, m, m + 1) \o Bytes(d, m + 1, h)
    BY <1>1, <2>1, <2>2, Zenon
  <2> QED
    BY <1>1, <1>4, <1>5, <2>1, <2>3, BytesFacts DEF c
<1>8. ASSUME NEW w, NEW y \in Seq(Units), Len(c) = CHUNKSIZE \/ y = <<>>,
             s = [wire |-> w, buf |-> c \o y]
      PROVE  Front(s, CHUNKSIZE) = c /\ Take(s, Len(c)) = [wire |-> w, buf |-> y]
  <2>1. Len(c) <= CHUNKSIZE /\ CHUNKSIZE \in Nat
    BY <1>3, Sized
  <2>2. \A v, t : t = [wire |-> v, buf |-> c \o y] =>
                   Front(t, CHUNKSIZE) = c /\ Take(t, Len(c)) = [wire |-> v, buf |-> y]
    BY <1>2, <1>8, <2>1, FrontFacts
  <2> QED
    BY <1>8, <2>2, Zenon
<1>6. CASE \E h \in Nat :
             /\ m <= h /\ h <= j
             /\ net = "prompt" => h <= m + 1
             /\ s = [wire |-> Pieces(d, h, j) \o rest, buf |-> Bytes(d, m, h)]
  <2>1. PICK h \in Nat :
          /\ m <= h /\ h <= j
          /\ net = "prompt" => h <= m + 1
          /\ s = [wire |-> Pieces(d, h, j) \o rest, buf |-> Bytes(d, m, h)]
    BY <1>6
  <2>2. m < h
    <3>1. s.buf = Bytes(d, m, h)
      BY <2>1
    <3>2. h # m
      BY <3>1, NoBytes
    <3> QED
      BY <2>1, <3>2
  <2>3. s = [wire |-> Pieces(d, h, j) \o rest, buf |-> c \o Bytes(d, m + 1, h)]
    BY <1>5, <2>1, <2>2
  <2>4. Front(s, CHUNKSIZE) = c
        /\ Take(s, Len(c)) = [wire |-> Pieces(d, h, j) \o rest, buf |-> Bytes(d, m + 1, h)]
    <3>1. Bytes(d, m + 1, h) \in Seq(Units) /\ (Len(c) = CHUNKSIZE \/ Bytes(d, m + 1, h) = <<>>)
      BY <1>5, <2>1, <2>2
    <3> QED
      BY <1>8, <2>3, <3>1, Zenon
  <2>5. m + 1 <= h /\ (net = "prompt" => h <= m + 1 + 1)
    BY <1>1, <2>1, <2>2
  <2>6. FileThen(net, Take(s, Len(c)), d, m + 1, j, rest)
    BY <2>1, <2>4, <2>5, Zenon DEF FileThen
  <2> QED
    BY <2>1, <2>2, <2>4, <2>6 DEF NextChunk, c
<1>7. CASE /\ rest # <<>>
           /\ net = "prompt" => m = j
           /\ s = [wire |-> <<>>, buf |-> Bytes(d, m, j) \o rest[1]]
  <2>1. m < j /\ net # "prompt"
    BY <1>1, <1>7
  <2>2. rest[1] \in Seq(Units) /\ Len(rest[1]) = SyncLen /\ \E q \in Messages : rest[1] = Encode(q)
    BY <1>7, RestFacts
  <2> DEFINE y == Bytes(d, m + 1, j)
             e == rest[1]
  <2>3. y \in Seq(Units) /\ Bytes(d, m, j) = c \o y
    BY <1>5, <2>1
  <2> HIDE DEF y, e
  <2>4. (c \o y) \o e = c \o (y \o e) /\ y \o e \in Seq(Units)
    BY <1>2, <2>2, <2>3, ConcatAssociative, ConcatProperties, SMTT(30) DEF e
  <2>5. s = [wire |-> <<>>, buf |-> c \o (y \o e)]
    BY <1>7, <2>3, <2>4 DEF e
  <2>6. CASE Len(c) = CHUNKSIZE
    <3>2. Front(s, CHUNKSIZE) = c /\ Take(s, Len(c)) = [wire |-> <<>>, buf |-> y \o e]
      BY <1>8, <2>4, <2>5, <2>6, Zenon
    <3>3. FileThen(net, Take(s, Len(c)), d, m + 1, j, rest)
      BY <1>7, <2>1, <3>2, Zenon DEF FileThen, y, e
    <3> QED
      BY <2>1, <3>2, <3>3 DEF NextChunk, c
  <2>7. CASE Len(c) # CHUNKSIZE
    <3>1. j = m + 1 /\ y = <<>>
      BY <1>4, <2>1, <2>7 DEF y
    <3>2. Len(c) = Len(d) - At(m) /\ Len(c) < CHUNKSIZE /\ Len(c) \in Nat /\ 1 <= Len(c)
      BY <1>1, <1>3, <2>7, Sized
    <3>3. y \o e = e /\ e \in Seq(Units) /\ Len(e) = SyncLen
      BY <2>2, <3>1, ConcatEmptySeq DEF e
    <3> DEFINE b == c \o e
    <3>4. /\ b \in Seq(Units) /\ Len(b) = Len(c) + SyncLen
          /\ \A i \in 1 .. Len(c) + SyncLen : b[i] = IF i <= Len(c) THEN c[i] ELSE e[i - Len(c)]
      BY <1>2, <3>3, ConcatProperties
    <3>5. s = [wire |-> <<>>, buf |-> b]
      BY <2>5, <3>3
    <3> HIDE DEF b
    <3>6. ASSUME NEW n \in Nat, n = Smaller(CHUNKSIZE, Len(b))
          PROVE  /\ n <= Len(b) /\ 1 <= n
                 /\ SubSeq(b, 1, n) \in Seq(Units) /\ Len(SubSeq(b, 1, n)) = n
                 /\ \A i \in 1 .. n : SubSeq(b, 1, n)[i] = b[i]
                 /\ Len(SubSeq(b, n + 1, Len(b))) = Len(b) - n
      <4>1. n <= Len(b) /\ 1 <= n /\ Len(b) \in Nat /\ n + 1 \in Nat /\ 1 <= n + 1
        BY <3>2, <3>4, <3>6, Sized DEF Smaller, SyncLen
      <4>2. 1 \in Nat /\ 1 <= 1
        OBVIOUS
      <4>3. /\ SubSeq(b, 1, n) \in Seq(Units)
            /\ Len(SubSeq(b, 1, n)) = IF 1 <= n THEN n - 1 + 1 ELSE 0
            /\ \A i \in 1 .. n - 1 + 1 : SubSeq(b, 1, n)[i] = b[1 + i - 1]
        BY <3>4, <4>1, <4>2, PartFacts
      <4>4. ASSUME NEW k \in Nat, k = n + 1
            PROVE  Len(SubSeq(b, k, Len(b))) = IF k <= Len(b) THEN Len(b) - k + 1 ELSE 0
        <5>1. 1 <= k /\ Len(b) <= Len(b)
          BY <4>1, <4>4
        <5> QED
          BY <3>4, <4>1, <5>1, PartFacts
      <4>5. Len(SubSeq(b, n + 1, Len(b))) = IF n + 1 <= Len(b) THEN Len(b) - (n + 1) + 1 ELSE 0
        BY <4>1, <4>4, Zenon
      <4> QED
        BY <4>1, <4>3, <4>5, SMTT(30)
    <3>7. s.buf = b
      BY <3>5
    <3>8. Smaller(CHUNKSIZE, Len(b)) \in Nat
      BY <3>2, <3>4, Sized DEF Smaller, SyncLen
    <3>9. PICK n \in Nat : n = Smaller(CHUNKSIZE, Len(b))
      BY <3>8
    <3>16. n <= Len(b) /\ 1 <= n /\ Len(b) = Len(c) + SyncLen
      BY <3>4, <3>6, <3>9
    <3>10. got = SubSeq(b, 1, n) /\ got \in Seq(Units) /\ Len(got) = n /\ \A i \in 1 .. n : got[i] = b[i]
      BY <3>6, <3>7, <3>9 DEF Front
    <3>11. Take(s, n) = [wire |-> <<>>, buf |-> SubSeq(b, n + 1, Len(b))]
      BY <3>5, TakeFacts, Zenon
    <3>12. Take(s, n).wire = <<>> /\ Len(Take(s, n).buf) = Len(b) - n
      BY <3>6, <3>9, <3>11, SMTT(30)
    <3>13. Len(got) = Smaller(CHUNKSIZE, Len(d) - At(m) + SyncLen)
      BY <3>2, <3>4, <3>9, <3>10
    <3>14. Len(Take(s, Len(got)).buf) = Len(d) - At(m) + SyncLen - Len(got)
      <4>1. Take(s, Len(got)) = Take(s, n) /\ Len(got) = n
        BY <3>10
      <4>2. Len(b) = Len(d) - At(m) + SyncLen
        BY <3>2, <3>16
      <4>3. Len(Take(s, n).buf) = Len(d) - At(m) + SyncLen - n
        <5>1. Len(b) - n = Len(d) - At(m) + SyncLen - n
          BY <1>1, <4>2, SMTT(30) DEF SyncLen
        <5> QED
          BY <3>12, <5>1
      <4> QED
        BY <4>1, <4>3, Zenon
    <3>15. Len(d) - At(m) < CHUNKSIZE /\ Take(s, Len(got)).wire = <<>>
      BY <3>2, <3>10, <3>12
    <3> QED
      BY <1>7, <2>1, <3>1, <3>13, <3>14, <3>15 DEF Overrun
  <2> QED
    BY <2>6, <2>7
<1> QED
  BY <1>6, <1>7, Zenon DEF FileThen

\* A message at the front is found, and read.
LEMMA MessageAtFront ==
  ASSUME NEW r \in Messages, NEW y \in Seq(Units)
  PROVE  \A w, s : s = [wire |-> w, buf |-> Encode(r) \o y] =>
           /\ s.buf # <<>> /\ HasMessage(s) /\ s.buf[1].of = r
           /\ Take(s, SyncLen) = [wire |-> w, buf |-> y]
<1> SUFFICES ASSUME NEW w, NEW s, s = [wire |-> w, buf |-> Encode(r) \o y]
             PROVE  /\ s.buf # <<>> /\ HasMessage(s) /\ s.buf[1].of = r
                    /\ Take(s, SyncLen) = [wire |-> w, buf |-> y]
  OBVIOUS
<1> DEFINE x == Encode(r)
           b == x \o y
<1>1. x \in Seq(Units) /\ Len(x) = SyncLen /\ x[1] = [is |-> 1, of |-> r]
  <2>1. /\ x \in Seq(Units) /\ Len(x) = SyncLen
        /\ \A k \in 1 .. SyncLen : x[k] = [is |-> k, of |-> r]
    BY EncodeFacts
  <2>2. 1 \in 1 .. SyncLen
    BY DEF SyncLen
  <2> QED
    BY <2>1, <2>2, Zenon
<1> HIDE DEF x
<1>2. SyncLen \in Nat /\ Len(y) \in Nat /\ 1 <= SyncLen
  BY LenProperties DEF SyncLen
<1>3. Len(b) = SyncLen + Len(y) /\ b[1] = x[1]
  <2>1. /\ Len(b) = Len(x) + Len(y)
        /\ \A i \in 1 .. Len(x) + Len(y) : b[i] = IF i <= Len(x) THEN x[i] ELSE y[i - Len(x)]
    BY <1>1, ConcatProperties
  <2> HIDE DEF b
  <2> QED
    BY <1>1, <1>2, <2>1, SMTT(30)
<1>4. s.buf = b /\ s = [wire |-> w, buf |-> x \o y]
  BY DEF x
<1>5. Front(s, SyncLen) = x /\ Take(s, SyncLen) = [wire |-> w, buf |-> y]
  <2>1. ASSUME NEW n \in Nat, n = Len(x)
        PROVE  \A v, t : t = [wire |-> v, buf |-> x \o y] =>
                 Front(t, n) = x /\ Take(t, Len(x)) = [wire |-> v, buf |-> y]
    <3>1. Len(x) <= n
      BY <2>1
    <3> QED
      BY <1>1, <2>1, <3>1, FrontFacts
  <2> QED
    BY <1>1, <1>2, <1>4, <2>1, Zenon
<1> HIDE DEF b
<1>6. b # <<>>
  <2>1. Len(<<>>) = 0
    BY EmptySeq, Zenon
  <2>2. Len(b) # 0
    BY <1>2, <1>3
  <2> QED
    BY <2>1, <2>2, Zenon
<1>7. s.buf[1].is = 1 /\ s.buf[1].of = r
  <2>1. s.buf[1] = [is |-> 1, of |-> r]
    BY <1>1, <1>3, <1>4, Zenon
  <2>2. \A u : u = [is |-> 1, of |-> r] => u.is = 1 /\ u.of = r
    OBVIOUS
  <2> QED
    BY <2>1, <2>2, Zenon
<1>8. Len(s.buf) >= SyncLen
  BY <1>2, <1>3, <1>4
<1>9. Front(s, SyncLen) = Encode(s.buf[1].of)
  BY <1>5, <1>7 DEF x
<1> QED
  BY <1>4, <1>5, <1>6, <1>7, <1>8, <1>9, Zenon DEF HasMessage

\* A message is written, and the chunks of a file.
LEMMA MessageWritten ==
  ASSUME NEW net, NEW r \in Messages, NEW d \in Seq(Edits), NEW n \in Nat
  PROVE  MessageThen(net, [NoStream EXCEPT !.wire = @ \o (<<Encode(r)>> \o Pieces(d, 0, n))],
                     r, d, n)
<1>1. Encode(r) \in Seq(Units) /\ Pieces(d, 0, n) \in Seq(Seq(Units))
  BY EncodeFacts, PiecesFacts
<1>2. <<Encode(r)>> \o Pieces(d, 0, n) \in Seq(Seq(Units))
  BY <1>1, OneElement, ConcatProperties
<1>3. <<>> \o (<<Encode(r)>> \o Pieces(d, 0, n)) = <<Encode(r)>> \o Pieces(d, 0, n)
  BY <1>2, ConcatEmptySeq
<1>4. [NoStream EXCEPT !.wire = @ \o (<<Encode(r)>> \o Pieces(d, 0, n))] =
        [wire |-> <<Encode(r)>> \o Pieces(d, 0, n), buf |-> <<>>]
  <2>1. NoStream.wire = <<>> /\ \A w : [NoStream EXCEPT !.wire = w] = [wire |-> w, buf |-> <<>>]
    BY DEF NoStream
  <2> QED
    BY <1>3, <2>1, Zenon
<1> QED
  BY <1>4, Zenon DEF MessageThen

\* Delivery keeps what is carried.
LEMMA MessageDelivered ==
  ASSUME NEW net, NEW s, NEW r \in Messages, NEW d \in Seq(Edits), NEW n \in Nat,
         Within(d, n), MessageThen(net, s, r, d, n),
         s.wire # <<>>, net = "merging" \/ s.buf = <<>>
  PROVE  MessageThen(net, Arrive(s), r, d, n)
<1>1. Encode(r) \in Seq(Units) /\ 0 <= n /\ 0 \in Nat
  BY EncodeFacts
<1>2. CASE s = [wire |-> <<Encode(r)>> \o Pieces(d, 0, n), buf |-> <<>>]
  <2>1. Pieces(d, 0, n) \in Seq(Seq(Units))
    BY <1>1, PiecesFacts
  <2>2. Head(<<Encode(r)>> \o Pieces(d, 0, n)) = Encode(r)
        /\ Tail(<<Encode(r)>> \o Pieces(d, 0, n)) = Pieces(d, 0, n)
    BY <1>1, <2>1, ConsFacts
  <2>3. <<>> \o Encode(r) = Encode(r) /\ Encode(r) \o <<>> = Encode(r)
    BY <1>1, ConcatEmptySeq
  <2>4. Bytes(d, 0, 0) = <<>>
    BY NoBytes
  <2>5. Arrive(s) = [wire |-> Pieces(d, 0, n), buf |-> Encode(r) \o Bytes(d, 0, 0)]
    BY <1>2, <2>2, <2>3, <2>4 DEF Arrive
  <2> QED
    BY <1>1, <2>5, Zenon DEF MessageThen
<1>3. CASE \E h \in Nat :
             /\ h <= n
             /\ net = "prompt" => h = 0
             /\ s = [wire |-> Pieces(d, h, n), buf |-> Encode(r) \o Bytes(d, 0, h)]
  <2>1. PICK h \in Nat :
          /\ h <= n
          /\ net = "prompt" => h = 0
          /\ s = [wire |-> Pieces(d, h, n), buf |-> Encode(r) \o Bytes(d, 0, h)]
    BY <1>3
  <2>2. h < n
    <3>1. h # n
      BY <2>1, NoPieces
    <3> QED
      BY <2>1, <3>1
  <2>3. h + 1 \in Nat /\ h <= h + 1 /\ h + 1 <= n /\ 0 <= h
    BY <2>2
  <2>4. /\ Bytes(d, 0, h) \in Seq(Units) /\ Bytes(d, h, h + 1) \in Seq(Units)
        /\ Pieces(d, h + 1, n) \in Seq(Seq(Units))
    BY <1>1, <2>3, BytesFacts, PiecesFacts
  <2>5. net # "prompt"
    <3>1. s.buf # <<>>
      <4>1. \A w, t : t = [wire |-> w, buf |-> Encode(r) \o Bytes(d, 0, h)] => t.buf # <<>>
        BY <2>4, MessageAtFront, SMTT(30)
      <4> QED
        BY <2>1, <4>1, Zenon
    <3>2. net = "merging"
      BY <3>1
    <3> QED
      BY <3>2
  <2>6. Pieces(d, h, n) = <<Bytes(d, h, h + 1)>> \o Pieces(d, h + 1, n)
    BY <2>2, FirstPiece
  <2>7. Head(s.wire) = Bytes(d, h, h + 1) /\ Tail(s.wire) = Pieces(d, h + 1, n)
    <3>1. ASSUME NEW x \in Seq(Units), NEW t \in Seq(Seq(Units)), s.wire = <<x>> \o t
          PROVE  Head(s.wire) = x /\ Tail(s.wire) = t
      BY <3>1, ConsFacts, SMTT(30)
    <3>2. s.wire = <<Bytes(d, h, h + 1)>> \o Pieces(d, h + 1, n)
      BY <2>1, <2>6
    <3> QED
      BY <2>4, <3>1, <3>2, Zenon
  <2>8. (Encode(r) \o Bytes(d, 0, h)) \o Bytes(d, h, h + 1) = Encode(r) \o Bytes(d, 0, h + 1)
    <3>1. Bytes(d, 0, h) \o Bytes(d, h, h + 1) = Bytes(d, 0, h + 1)
      BY <1>1, <2>3, BytesJoin, ZenonT(60)
    <3>2. ASSUME NEW x \in Seq(Units), NEW y \in Seq(Units), NEW z \in Seq(Units)
          PROVE  (x \o y) \o z = x \o (y \o z)
      BY ConcatAssociative, SMTT(30)
    <3>3. (Encode(r) \o Bytes(d, 0, h)) \o Bytes(d, h, h + 1)
            = Encode(r) \o (Bytes(d, 0, h) \o Bytes(d, h, h + 1))
      BY <1>1, <2>4, <3>2
    <3> QED
      BY <3>1, <3>3
  <2>9. Arrive(s) = [wire |-> Pieces(d, h + 1, n), buf |-> Encode(r) \o Bytes(d, 0, h + 1)]
    BY <2>1, <2>7, <2>8 DEF Arrive
  <2> QED
    BY <2>3, <2>5, <2>9, Zenon DEF MessageThen
<1> QED
  BY <1>2, <1>3, Zenon DEF MessageThen

\* The message is read, the chunks remain.
LEMMA MessageRead ==
  ASSUME NEW net, NEW s, NEW r \in Messages, NEW d \in Seq(Edits), NEW n \in Nat,
         MessageThen(net, s, r, d, n), s.buf # <<>>
  PROVE  /\ HasMessage(s) /\ s.buf[1].of = r
         /\ FileThen(net, Take(s, SyncLen), d, 0, n, <<>>)
<1>1. PICK h \in Nat :
        /\ h <= n
        /\ net = "prompt" => h = 0
        /\ s = [wire |-> Pieces(d, h, n), buf |-> Encode(r) \o Bytes(d, 0, h)]
  <2>1. ~(s = [wire |-> <<Encode(r)>> \o Pieces(d, 0, n), buf |-> <<>>])
    OBVIOUS
  <2> QED
    BY <2>1, Zenon DEF MessageThen
<1>2. 0 \in Nat /\ 0 <= h /\ (net = "prompt" => h <= 0 + 1)
  BY <1>1
<1>3. Bytes(d, 0, h) \in Seq(Units) /\ Pieces(d, h, n) \in Seq(Seq(Units))
  BY <1>1, <1>2, BytesFacts, PiecesFacts
<1>4. Pieces(d, h, n) \o <<>> = Pieces(d, h, n)
  BY <1>3, ConcatEmptySeq
<1>5. /\ HasMessage(s) /\ s.buf[1].of = r
      /\ Take(s, SyncLen) = [wire |-> Pieces(d, h, n), buf |-> Bytes(d, 0, h)]
  <2>1. \A w, t : t = [wire |-> w, buf |-> Encode(r) \o Bytes(d, 0, h)] =>
           /\ t.buf # <<>> /\ HasMessage(t) /\ t.buf[1].of = r
           /\ Take(t, SyncLen) = [wire |-> w, buf |-> Bytes(d, 0, h)]
    BY <1>3, MessageAtFront
  <2> QED
    BY <1>1, <2>1, Zenon
<1>6. Take(s, SyncLen) = [wire |-> Pieces(d, h, n) \o <<>>, buf |-> Bytes(d, 0, h)]
  BY <1>4, <1>5
<1> QED
  BY <1>1, <1>2, <1>5, <1>6, Zenon DEF FileThen

\* Nothing but the chunks read was there.
LEMMA NoneRemains ==
  ASSUME NEW net, NEW s, NEW d \in Seq(Edits), NEW m \in Nat, FileThen(net, s, d, m, m, <<>>)
  PROVE  s = NoStream
<1>1. Pieces(d, m, m) = <<>> /\ Bytes(d, m, m) = <<>>
  BY NoPieces, NoBytes
<1>2. <<>> \o <<>> = <<>>
  BY EmptySeq, ConcatEmptySeq
<1>3. \A h \in Nat : m <= h /\ h <= m => h = m
  OBVIOUS
<1>4. s = [wire |-> <<>>, buf |-> <<>>]
  BY <1>1, <1>2, <1>3, Zenon DEF FileThen
<1> QED
  BY <1>4 DEF NoStream

\* One message: written, delivered, lost and read.
LEMMA OneMessageFacts ==
  ASSUME NEW q \in Messages
  PROVE  /\ OneMessage(Put(NoStream, Encode(q)), q)
         /\ \A s : OneMessage(s, q) =>
              /\ s.wire # <<>> => OneMessage(Arrive(s), q)
              /\ [s EXCEPT !.wire = <<>>] = NoStream \/ OneMessage([s EXCEPT !.wire = <<>>], q)
              /\ s.buf # <<>> => HasMessage(s) /\ s.buf[1].of = q /\ Take(s, SyncLen) = NoStream
              /\ s # NoStream
<1>1. Encode(q) \in Seq(Units) /\ <<>> \in Seq(Units)
  BY EncodeFacts, EmptySeq
<1>2. /\ <<>> \o Encode(q) = Encode(q) /\ Encode(q) \o <<>> = Encode(q)
      /\ Append(<<>>, Encode(q)) = <<Encode(q)>>
  BY <1>1, ConcatEmptySeq
<1>3. Head(<<Encode(q)>>) = Encode(q) /\ Tail(<<Encode(q)>>) = <<>> /\ <<Encode(q)>> # <<>>
  OBVIOUS
<1>4. Put(NoStream, Encode(q)) = [wire |-> <<Encode(q)>>, buf |-> <<>>]
  BY <1>2, PutFacts, ZenonT(60) DEF NoStream
<1>5. ASSUME NEW s, s = [wire |-> <<Encode(q)>>, buf |-> <<>>]
      PROVE  /\ OneMessage(Arrive(s), q) /\ s.buf = <<>> /\ s # NoStream
             /\ [s EXCEPT !.wire = <<>>] = NoStream
  <2>1. Arrive(s) = [wire |-> <<>>, buf |-> Encode(q)]
    BY <1>2, <1>3, <1>5 DEF Arrive
  <2>2. s.buf = <<>> /\ s # NoStream /\ [s EXCEPT !.wire = <<>>] = NoStream
    BY <1>3, <1>5 DEF NoStream
  <2> QED
    BY <2>1, <2>2, Zenon DEF OneMessage
<1>6. ASSUME NEW s, s = [wire |-> <<>>, buf |-> Encode(q)]
      PROVE  /\ s.wire = <<>> /\ [s EXCEPT !.wire = <<>>] = s
             /\ HasMessage(s) /\ s.buf[1].of = q /\ Take(s, SyncLen) = NoStream
             /\ s # NoStream
  <2>1. s = [wire |-> <<>>, buf |-> Encode(q) \o <<>>]
    BY <1>2, <1>6
  <2>2. \A w, t : t = [wire |-> w, buf |-> Encode(q) \o <<>>] =>
           /\ t.buf # <<>> /\ HasMessage(t) /\ t.buf[1].of = q
           /\ Take(t, SyncLen) = [wire |-> w, buf |-> <<>>]
    BY <1>1, MessageAtFront
  <2>3. /\ s.buf # <<>> /\ HasMessage(s) /\ s.buf[1].of = q
        /\ Take(s, SyncLen) = NoStream
    BY <2>1, <2>2, Zenon DEF NoStream
  <2>4. s.wire = <<>> /\ [s EXCEPT !.wire = <<>>] = s
    BY <1>6
  <2>5. NoStream.buf = <<>>
    BY DEF NoStream
  <2> QED
    BY <2>3, <2>4, <2>5, Zenon
<1>7. OneMessage(Put(NoStream, Encode(q)), q)
  BY <1>4, Zenon DEF OneMessage
<1>8. ASSUME NEW s, OneMessage(s, q)
      PROVE  /\ s.wire # <<>> => OneMessage(Arrive(s), q)
             /\ [s EXCEPT !.wire = <<>>] = NoStream \/ OneMessage([s EXCEPT !.wire = <<>>], q)
             /\ s.buf # <<>> => HasMessage(s) /\ s.buf[1].of = q /\ Take(s, SyncLen) = NoStream
             /\ s # NoStream
  <2>1. CASE s = [wire |-> <<Encode(q)>>, buf |-> <<>>]
    BY <1>5, <2>1, Zenon
  <2>2. CASE s = [wire |-> <<>>, buf |-> Encode(q)]
    <3>1. OneMessage([s EXCEPT !.wire = <<>>], q)
      BY <1>6, <1>8, <2>2
    <3> QED
      BY <1>6, <2>2, <3>1, Zenon
  <2> QED
    BY <1>8, <2>1, <2>2, Zenon DEF OneMessage
<1> QED
  BY <1>7, <1>8, Zenon

-----------------------------------------------------------------------------
(* Types                                                                   *)

\* Writing, delivering, reading and losing leave streams.
LEMMA StreamTypes ==
  ASSUME NEW s \in Streams
  PROVE  /\ s.wire \in Seq(Seq(Units)) /\ s.buf \in Seq(Units)
         /\ s.wire # <<>> => Arrive(s) \in Streams
         /\ \A u \in Seq(Units) : Put(s, u) \in Streams
         /\ \A u \in Seq(Seq(Units)) : [s EXCEPT !.wire = @ \o u] \in Streams
         /\ \A n \in Nat : Take(s, n) \in Streams
         /\ [s EXCEPT !.wire = <<>>] \in Streams
         /\ NoStream \in Streams
<1>1. s.wire \in Seq(Seq(Units)) /\ s.buf \in Seq(Units)
  BY DEF Streams
<1>2. \A w \in Seq(Seq(Units)), b \in Seq(Units) : [wire |-> w, buf |-> b] \in Streams
  BY DEF Streams
<1>3. \A w \in Seq(Seq(Units)) : [s EXCEPT !.wire = w] \in Streams
  BY DEF Streams
<1>4. \A b \in Seq(Units) : [s EXCEPT !.buf = b] \in Streams
  BY DEF Streams
<1>5. s.wire # <<>> => Arrive(s) \in Streams
  <2> SUFFICES ASSUME s.wire # <<>> PROVE Arrive(s) \in Streams
    OBVIOUS
  <2>1. Head(s.wire) \in Seq(Units) /\ Tail(s.wire) \in Seq(Seq(Units))
    BY <1>1, HeadTailProperties
  <2>2. s.buf \o Head(s.wire) \in Seq(Units)
    BY <1>1, <2>1, ConcatProperties
  <2> QED
    BY <1>2, <2>1, <2>2, Zenon DEF Arrive
<1>6. ASSUME NEW u \in Seq(Units)
      PROVE  Put(s, u) \in Streams
  <2>1. Append(s.wire, u) \in Seq(Seq(Units))
    BY <1>1, AppendProperties
  <2> QED
    BY <1>3, <2>1, Zenon DEF Put
<1>7. ASSUME NEW u \in Seq(Seq(Units))
      PROVE  [s EXCEPT !.wire = @ \o u] \in Streams
  <2>1. s.wire \o u \in Seq(Seq(Units))
    BY <1>1, ConcatProperties
  <2> QED
    BY <1>3, <2>1, Zenon
<1>8. ASSUME NEW n \in Nat
      PROVE  Take(s, n) \in Streams
  <2>1. n + 1 \in Nat /\ 1 <= n + 1 /\ Len(s.buf) \in Nat /\ Len(s.buf) <= Len(s.buf)
    BY <1>1, LenProperties
  <2>2. ASSUME NEW k \in Nat, 1 <= k PROVE SubSeq(s.buf, k, Len(s.buf)) \in Seq(Units)
    BY <1>1, <2>1, <2>2, PartFacts
  <2>3. SubSeq(s.buf, n + 1, Len(s.buf)) \in Seq(Units)
    BY <2>1, <2>2, Zenon
  <2> QED
    BY <1>4, <2>3, Zenon DEF Take
<1>9. [s EXCEPT !.wire = <<>>] \in Streams
  BY <1>3, EmptySeq
<1>10. NoStream \in Streams
  BY <1>2, EmptySeq DEF NoStream
<1> QED
  BY <1>1, <1>5, <1>6, <1>7, <1>8, <1>9, <1>10

\* What a read returns is units, at most as many as it asks for; there are
\* some when the buffer is not empty.
LEMMA FrontTypes ==
  ASSUME NEW s \in Streams, NEW n \in Nat
  PROVE  /\ Front(s, n) \in Seq(Units)
         /\ Len(Front(s, n)) = Smaller(n, Len(s.buf))
         /\ Len(s.buf) \in Nat
         /\ s.buf # <<>> => Len(s.buf) # 0
<1>1. s.buf \in Seq(Units) /\ Len(s.buf) \in Nat
  BY LenProperties DEF Streams
<1>2. Smaller(n, Len(s.buf)) \in Nat /\ Smaller(n, Len(s.buf)) <= Len(s.buf)
  BY <1>1 DEF Smaller
<1>3. ASSUME NEW k \in Nat, k <= Len(s.buf)
      PROVE  SubSeq(s.buf, 1, k) \in Seq(Units) /\ Len(SubSeq(s.buf, 1, k)) = k
  <2>1. 1 \in Nat /\ 1 <= 1
    OBVIOUS
  <2>2. SubSeq(s.buf, 1, k) \in Seq(Units)
        /\ Len(SubSeq(s.buf, 1, k)) = IF 1 <= k THEN k - 1 + 1 ELSE 0
    BY <1>1, <1>3, <2>1, PartFacts
  <2> QED
    BY <2>2
<1>4. s.buf # <<>> => Len(s.buf) # 0
  BY <1>1, EmptySeq
<1> QED
  BY <1>1, <1>2, <1>3, <1>4, Zenon DEF Front
=============================================================================
