--------------------------- MODULE BufServer_proofs ---------------------------
(***************************************************************************)
(* Proofs about BufServer, for buffers, lines and pieces of any size: the  *)
(* lines come out whole and in order as long as the server lives, the      *)
(* program's own client never makes it crash, and a connection is closed   *)
(* early only for a line that does not fit the buffer.                     *)
(***************************************************************************)
EXTENDS BufServer, SequenceTheorems, WellFoundedInduction, TLAPS

-----------------------------------------------------------------------------
(* The inductive invariant                                                 *)

\* Where each sequence of s begins in w.
Cut(off, s, w) ==
  /\ off \in [0 .. Len(s) -> Nat] /\ off[0] = 0 /\ off[Len(s)] = Len(w)
  /\ \A k \in 1 .. Len(s) :
       /\ off[k] = off[k - 1] + Len(s[k])
       /\ \A i \in 1 .. Len(s[k]) : w[off[k - 1] + i] = s[k][i]
Starts(s) == CHOOSE off : Cut(off, s, FlattenSeq(s))

\* The lines of a connection.
IsLine(line, k) ==
  /\ Len(line) >= 2
  /\ \A i \in 1 .. Len(line) :
       line[i] = IF i = Len(line) THEN LF ELSE IF i = Len(line) - 1 THEN CR ELSE k
Lined ==
  \A k \in 1 .. Len(lines) :
    k \in 1 .. TIMES /\ IsLine(lines[k], k) /\ (clients = "randclient" => Len(lines[k]) = MESSAGE)

\* What is in the buffer, on the wire and not sent yet is what the client
\* sends after the lines that are printed.
Rest(stream, start) ==
  /\ Len(stream) = start + inbuf + Len(wire) + Len(unsent)
  /\ \A i \in 1 .. inbuf : stream[start + i] = buf[i - 1]
  /\ \A i \in 1 .. Len(wire) : stream[start + inbuf + i] = wire[i]
  /\ \A i \in 1 .. Len(unsent) : stream[start + inbuf + Len(wire) + i] = unsent[i]
InStream ==
  server = "reading" /\ client # "reset" => Rest(FlattenSeq(lines), Starts(lines)[Len(printed)])

Gone == client = "reset" => wire = <<>>

\* A line that fits the buffer does not fill it.
TooLong ==
  server = "reading" /\ client = "sending" /\ inbuf = CAP =>
    \E k \in 1 .. Len(lines) : Len(lines[k]) > CAP

\* What the buffer holds beyond the received bytes.  Each line of randclient's
\* begins at the same place, so that the bytes after the received ones are a
\* NUL, a byte of a line, or nothing written yet.
Aligned ==
  Calm =>
    /\ server # "crashed"
    /\ inbuf < MESSAGE
    /\ buf[MESSAGE - 1] \notin {CR, LF}
    /\ inbuf < MESSAGE - 1 \/ server = "accepting" => buf[MESSAGE - 2] # CR
    /\ \A i \in 0 .. MESSAGE - 3 : buf[i] # CR

IInv ==
  /\ TypeOK /\ Lined /\ PrintedInOrder /\ InStream /\ Gone /\ TooLong /\ Aligned

-----------------------------------------------------------------------------
(* Numbers and sequences                                                   *)

\* A set of numbers that is not empty has a lowest one.
LEMMA Lowest ==
  ASSUME NEW S, S \subseteq Nat, S # {}
  PROVE  Min(S) \in S /\ \A y \in S : Min(S) <= y
<1>1. PICK x \in S : \A y \in S : ~(<<y, x>> \in OpToRel(<, Nat))
  BY NatLessThanWellFounded, WFMin
<1>2. \A y \in S : x <= y
  <2> TAKE y \in S
  <2>1. x \in Nat /\ y \in Nat
    OBVIOUS
  <2>2. y < x => <<y, x>> \in OpToRel(<, Nat)
    BY <2>1 DEF OpToRel
  <2>3. ~(y < x)
    BY <1>1, <2>2
  <2> QED
    BY <2>1, <2>3
<1> QED
  BY <1>2 DEF Min

\* Numbers with a property that 0 has, and the next one of each, are all.
LEMMA AllNumbers ==
  ASSUME NEW n \in Nat, NEW S, 0 \in S, \A k \in 0 .. n - 1 : k \in S => k + 1 \in S
  PROVE  0 .. n \subseteq S
<1> SUFFICES ASSUME ~(0 .. n \subseteq S) PROVE FALSE
  OBVIOUS
<1>1. (0 .. n) \ S \subseteq Nat /\ (0 .. n) \ S # {}
  OBVIOUS
<1>2. PICK x \in (0 .. n) \ S : \A y \in (0 .. n) \ S : x <= y
  BY <1>1, Lowest
<1>3. x \in Nat /\ x # 0 /\ x <= n /\ x \notin S
  BY <1>2
<1>4. x - 1 \in 0 .. n - 1 /\ ~(x <= x - 1) /\ x - 1 \in 0 .. n /\ (x - 1) + 1 = x
  BY <1>3
<1>5. x - 1 \in S
  BY <1>2, <1>4
<1> QED
  BY <1>3, <1>4, <1>5

\* One sequence after another.
LEMMA Joined ==
  ASSUME NEW B, NEW u \in Seq(B), NEW v \in Seq(B)
  PROVE  /\ u \o v \in Seq(B) /\ Len(u \o v) = Len(u) + Len(v)
         /\ \A i \in 1 .. Len(u) : (u \o v)[i] = u[i]
         /\ \A i \in 1 .. Len(v) : (u \o v)[Len(u) + i] = v[i]
OBVIOUS

\* The recursion of FlattenSeq.
Flattens(f, s) ==
  f = [i \in 1 .. Len(s) |-> IF i = 1 THEN s[i] ELSE f[i - 1] \o s[i]]
LEMMA FlattenDef ==
  ASSUME NEW s, Len(s) # 0
  PROVE  FlattenSeq(s) = (CHOOSE f : Flattens(f, s))[Len(s)]
BY DEF FlattenSeq, Flattens

\* There is such a function: it is built one place at a time.
LEMMA FlattenExists ==
  ASSUME NEW B, NEW s \in Seq(Seq(B))
  PROVE  \E f \in [1 .. Len(s) -> Seq(B)] : Flattens(f, s)
<1>1. PICK n \in Nat : n = Len(s)
  OBVIOUS
<1>2. \A i \in 1 .. n : s[i] \in Seq(B)
  BY <1>1
<1> DEFINE Upto(m) == \E f \in [1 .. m -> Seq(B)] :
                        \A i \in 1 .. m : f[i] = IF i = 1 THEN s[i] ELSE f[i - 1] \o s[i]
           T == {m \in 0 .. n : Upto(m)}
<1>3. Upto(0)
  <2>1. PICK f : f = [i \in 1 .. 0 |-> <<>>]
    OBVIOUS
  <2>2. f \in [1 .. 0 -> Seq(B)]
    BY <2>1
  <2>3. \A i \in 1 .. 0 : f[i] = IF i = 1 THEN s[i] ELSE f[i - 1] \o s[i]
    OBVIOUS
  <2> QED
    BY <2>2, <2>3
<1>4. ASSUME NEW m \in 0 .. n - 1, Upto(m) PROVE Upto(m + 1)
  <2>1. PICK f \in [1 .. m -> Seq(B)] :
          \A i \in 1 .. m : f[i] = IF i = 1 THEN s[i] ELSE f[i - 1] \o s[i]
    BY <1>4
  <2>2. PICK last : last = IF m = 0 THEN s[1] ELSE f[m] \o s[m + 1]
    OBVIOUS
  <2>3. last \in Seq(B)
    <3>1. CASE m = 0
      BY <1>2, <2>2, <3>1
    <3>2. CASE m # 0
      <4>1. f[m] \in Seq(B) /\ s[m + 1] \in Seq(B)
        BY <1>2, <2>1, <3>2
      <4> QED
        BY <2>2, <3>2, <4>1
    <3> QED
      BY <3>1, <3>2
  <2>4. PICK g : g = [i \in 1 .. m + 1 |-> IF i = m + 1 THEN last ELSE f[i]]
    OBVIOUS
  <2>5. g \in [1 .. m + 1 -> Seq(B)]
    BY <2>3, <2>4
  <2>6. ASSUME NEW i \in 1 .. m + 1
        PROVE  g[i] = IF i = 1 THEN s[i] ELSE g[i - 1] \o s[i]
    <3>1. CASE i = m + 1
      <4>1. g[i] = last
        BY <2>4, <3>1
      <4>2. i # 1 => g[i - 1] = f[m]
        BY <2>4, <3>1
      <4> QED
        BY <2>2, <3>1, <4>1, <4>2
    <3>2. CASE i # m + 1
      <4>1. i \in 1 .. m /\ g[i] = f[i]
        BY <2>4, <3>2
      <4>2. i # 1 => g[i - 1] = f[i - 1]
        BY <2>4, <4>1
      <4> QED
        BY <2>1, <4>1, <4>2
    <3> QED
      BY <3>1, <3>2
  <2> QED
    BY <2>5, <2>6
<1> HIDE DEF Upto
<1>5. 0 \in T /\ \A k \in 0 .. n - 1 : k \in T => k + 1 \in T
  BY <1>3, <1>4
<1>6. 0 .. n \subseteq T
  BY <1>5, AllNumbers
<1>7. Upto(n)
  BY <1>6
<1>8. PICK f \in [1 .. n -> Seq(B)] :
        \A i \in 1 .. n : f[i] = IF i = 1 THEN s[i] ELSE f[i - 1] \o s[i]
  BY <1>7 DEF Upto
<1>9. f = [i \in 1 .. n |-> IF i = 1 THEN s[i] ELSE f[i - 1] \o s[i]]
  BY <1>8
<1> QED
  BY <1>1, <1>8, <1>9 DEF Flattens

\* FlattenSeq puts the sequences one after another.
LEMMA Flattened ==
  ASSUME NEW B, NEW s \in Seq(Seq(B))
  PROVE  FlattenSeq(s) \in Seq(B) /\ \E off : Cut(off, s, FlattenSeq(s))
<1>1. PICK n \in Nat : n = Len(s)
  OBVIOUS
<1>2. \A i \in 1 .. n : s[i] \in Seq(B) /\ Len(s[i]) \in Nat
  BY <1>1
<1>3. CASE n = 0
  <2>1. FlattenSeq(s) = s /\ s = <<>>
    <3>1. Len(s) = 0
      BY <1>1, <1>3
    <3>2. s = <<>>
      BY <3>1, EmptySeq
    <3>3. FlattenSeq(s) = s
      BY <3>1, Zenon DEF FlattenSeq
    <3> QED
      BY <3>2, <3>3
  <2>2. PICK off : off = [k \in 0 .. 0 |-> 0]
    OBVIOUS
  <2>3. Cut(off, s, s)
    BY <2>1, <2>2 DEF Cut
  <2> QED
    BY <2>1, <2>3
<1>4. CASE n # 0
  <2>1. PICK f : f = CHOOSE g : Flattens(g, s)
    OBVIOUS
  <2>2. Flattens(f, s)
    BY <2>1, FlattenExists
  <2>3. f = [i \in 1 .. n |-> IF i = 1 THEN s[i] ELSE f[i - 1] \o s[i]]
    BY <1>1, <2>2 DEF Flattens
  <2>4. FlattenSeq(s) = f[n]
    BY <1>1, <1>4, <2>1, FlattenDef
  <2>5. f[1] = s[1] /\ \A i \in 1 .. n - 1 : f[i + 1] = f[i] \o s[i + 1]
    <3>1. \A i \in 1 .. n : f[i] = IF i = 1 THEN s[i] ELSE f[i - 1] \o s[i]
      BY <2>3, Zenon
    <3>2. 1 \in 1 .. n
      BY <1>4
    <3>3. f[1] = s[1]
      BY <3>1, <3>2, Zenon
    <3>4. ASSUME NEW i \in 1 .. n - 1 PROVE f[i + 1] = f[i] \o s[i + 1]
      <4>1. PICK j \in 1 .. n : j = i + 1
        OBVIOUS
      <4>2. j # 1 /\ j - 1 = i
        BY <4>1
      <4>3. f[j] = f[i] \o s[j]
        BY <3>1, <4>2, Zenon
      <4> QED
        BY <4>1, <4>3
    <3> QED
      BY <3>3, <3>4
  <2>6. \A k \in 1 .. n : f[k] \in Seq(B)
    <3> DEFINE T == {k \in 0 .. n : k = 0 \/ f[k] \in Seq(B)}
    <3>1. ASSUME NEW k \in 0 .. n - 1, k \in T PROVE k + 1 \in T
      <4>1. PICK next \in 1 .. n : next = k + 1
        OBVIOUS
      <4>2. f[next] \in Seq(B)
        <5>1. CASE k = 0
          <6>1. next = 1
            BY <4>1, <5>1
          <6> QED
            BY <1>2, <2>5, <6>1, Zenon
        <5>2. CASE k # 0
          <6>1. k \in 1 .. n - 1 /\ f[k] \in Seq(B)
            BY <3>1, <5>2
          <6>2. f[next] = f[k] \o s[next]
            BY <2>5, <4>1, <6>1
          <6> QED
            BY <1>2, <6>1, <6>2, Joined
        <5> QED
          BY <5>1, <5>2
      <4> QED
        BY <4>1, <4>2
    <3>2. 0 \in T
      OBVIOUS
    <3>3. 0 .. n \subseteq T
      BY <3>1, <3>2, AllNumbers
    <3> QED
      BY <3>3
  <2>7. PICK off : off = [k \in 0 .. n |-> IF k = 0 THEN 0 ELSE Len(f[k])]
    OBVIOUS
  <2>8. off \in [0 .. n -> Nat] /\ off[0] = 0 /\ \A k \in 1 .. n : off[k] = Len(f[k])
    BY <2>6, <2>7
  <2>9. \A k \in 1 .. n : off[k] = off[k - 1] + Len(s[k])
    <3> TAKE k \in 1 .. n
    <3>1. CASE k = 1
      BY <1>2, <2>5, <2>8, <3>1
    <3>2. CASE k # 1
      <4>1. PICK j \in 1 .. n - 1 : j = k - 1 /\ j + 1 = k
        BY <3>2
      <4>2. f[k] = f[j] \o s[k] /\ f[j] \in Seq(B) /\ s[k] \in Seq(B)
        <5>1. j \in 1 .. n
          OBVIOUS
        <5>2. f[j + 1] = f[j] \o s[j + 1]
          BY <2>5, Zenon
        <5>3. f[j] \in Seq(B) /\ s[k] \in Seq(B)
          BY <1>2, <2>6, <5>1, Zenon
        <5> QED
          BY <4>1, <5>2, <5>3
      <4>3. Len(f[k]) = Len(f[j]) + Len(s[k])
        BY <4>2, Joined
      <4>4. off[k] = Len(f[k]) /\ off[j] = Len(f[j])
        BY <2>8
      <4> QED
        BY <4>1, <4>3, <4>4
    <3> QED
      BY <3>1, <3>2
  <2>10. \A k \in 1 .. n : \A j \in 1 .. k : off[j] <= off[k] /\ \A i \in 1 .. Len(s[j]) : f[k][off[j - 1] + i] = s[j][i]
    <3> DEFINE Good(k) == \A j \in 1 .. k : off[j] <= off[k] /\ \A i \in 1 .. Len(s[j]) : f[k][off[j - 1] + i] = s[j][i]
               T == {k \in 0 .. n : Good(k)}
    <3> HIDE DEF Good
    <3>1. ASSUME NEW k \in 0 .. n - 1, Good(k) PROVE Good(k + 1)
      <4>1. CASE k = 0
        BY <1>2, <2>5, <2>8, <3>1, <4>1, SMTT(30) DEF Good
      <4>2. CASE k # 0
        <5>1. /\ f[k] \in Seq(B) /\ s[k + 1] \in Seq(B) /\ f[k + 1] = f[k] \o s[k + 1]
              /\ off[k] = Len(f[k]) /\ off[k + 1] = off[k] + Len(s[k + 1])
          <6>1. PICK next \in 1 .. n : next = k + 1 /\ next - 1 = k /\ k \in 1 .. n - 1 /\ k \in 1 .. n
            BY <4>2
          <6>2. f[k] \in Seq(B) /\ s[next] \in Seq(B) /\ off[k] = Len(f[k])
            BY <1>2, <2>6, <2>8, <6>1, Zenon
          <6>3. f[k + 1] = f[k] \o s[k + 1]
            BY <2>5, <6>1, Zenon
          <6>4. off[next] = off[k] + Len(s[next])
            BY <2>9, <6>1
          <6> QED
            BY <6>1, <6>2, <6>3, <6>4
        <5>2. PICK a \in Nat, b \in Nat : a = off[k] /\ b = Len(s[k + 1])
          BY <5>1
        <5>3. /\ off[k + 1] = a + b
              /\ \A i \in 1 .. a : f[k + 1][i] = f[k][i]
              /\ \A i \in 1 .. b : f[k + 1][a + i] = s[k + 1][i]
          <6>1. off[k + 1] = a + b /\ Len(f[k]) = a
            BY <5>1, <5>2
          <6>2. PICK u, v : u = f[k] /\ v = s[k + 1]
            OBVIOUS
          <6>3. u \in Seq(B) /\ v \in Seq(B) /\ Len(u) = a /\ Len(v) = b /\ f[k + 1] = u \o v
            BY <5>1, <5>2, <6>1, <6>2
          <6>4. /\ \A i \in 1 .. a : (u \o v)[i] = u[i]
                /\ \A i \in 1 .. b : (u \o v)[a + i] = v[i]
            BY <6>3, Joined, SMTT(30)
          <6> QED
            BY <6>1, <6>2, <6>3, <6>4
        <5>4. ASSUME NEW j \in 1 .. k + 1
              PROVE  off[j] <= off[k + 1] /\ \A i \in 1 .. Len(s[j]) : f[k + 1][off[j - 1] + i] = s[j][i]
          <6>1. CASE j = k + 1
            <7>1. off[j - 1] = a /\ Len(s[j]) = b
              BY <5>2, <6>1
            <7> QED
              BY <5>3, <6>1, <7>1
          <6>2. CASE j # k + 1
            <7>1. j \in 1 .. k /\ j \in 1 .. n /\ j - 1 \in 0 .. n
              BY <6>2
            <7>2. PICK c \in Nat, d \in Nat, e \in Nat : c = off[j - 1] /\ d = Len(s[j]) /\ e = off[j]
              <8>1. off[j - 1] \in Nat /\ off[j] \in Nat /\ Len(s[j]) \in Nat
                BY <1>2, <2>8, <7>1
              <8> QED
                BY <8>1, Zenon
            <7>3. e = c + d
              BY <2>9, <7>1, <7>2
            <7>4. e <= a
              BY <3>1, <5>2, <7>1, <7>2 DEF Good
            <7>5. ASSUME NEW i \in 1 .. d PROVE f[k + 1][c + i] = s[j][i]
              <8>1. c + i \in 1 .. a
                BY <7>3, <7>4
              <8>2. f[k][c + i] = s[j][i]
                BY <3>1, <7>1, <7>2 DEF Good
              <8> QED
                BY <5>3, <8>1, <8>2
            <7>6. e <= a + b
              BY <7>4
            <7> QED
              BY <5>3, <7>2, <7>5, <7>6
          <6> QED
            BY <6>1, <6>2
        <5> QED
          BY <5>4 DEF Good
      <4> QED
        BY <4>1, <4>2
    <3>2. Good(0)
      BY DEF Good
    <3>3. 0 \in T /\ \A k \in 0 .. n - 1 : k \in T => k + 1 \in T
      BY <3>1, <3>2
    <3>4. 0 .. n \subseteq T
      BY <3>3, AllNumbers
    <3> QED
      BY <3>4 DEF Good
  <2>11. Cut(off, s, f[n])
    <3>1. n \in 1 .. n
      BY <1>4
    <3>2. off[n] = Len(f[n])
      BY <2>8, <3>1
    <3>3. \A k \in 1 .. n : \A i \in 1 .. Len(s[k]) : f[n][off[k - 1] + i] = s[k][i]
      BY <2>10, <3>1
    <3> QED
      BY <1>1, <2>8, <2>9, <3>2, <3>3 DEF Cut
  <2> QED
    BY <1>4, <2>4, <2>6, <2>11
<1> QED
  BY <1>3, <1>4

\* The sequences begin where Starts says.
LEMMA Located ==
  ASSUME NEW B, NEW s \in Seq(Seq(B))
  PROVE  FlattenSeq(s) \in Seq(B) /\ Cut(Starts(s), s, FlattenSeq(s))
BY Flattened DEF Starts

-----------------------------------------------------------------------------
(* Bytes, lines and the search                                             *)

LEMMA Consts ==
  /\ CAP \in Nat /\ CAP > 0 /\ MESSAGE \in Nat /\ MESSAGE >= 2 /\ TIMES \in Nat
  /\ MESSAGE <= CAP /\ CAP < 2 * MESSAGE /\ MINCHARS \in Nat /\ MINCHARS > 0 /\ MAXCHARS \in Nat
  /\ MaxConnections \in Nat
BY BufAssumption, RandclientAssumption

LEMMA ByteKinds ==
  /\ CR \in Bytes /\ LF \in Bytes /\ NUL \in Bytes /\ JUNK \in Bytes
  /\ CR # LF /\ NUL \notin {CR, LF} /\ JUNK \notin {CR, LF}
  /\ \A k \in 1 .. TIMES : k \in Bytes /\ k \notin {CR, LF}
BY Consts DEF Bytes, CR, LF, NUL, JUNK

\* What Line makes is a line.
LEMMA LineIs ==
  ASSUME NEW k \in 1 .. TIMES, NEW length \in Nat, length >= 2
  PROVE  /\ Line(k, length) \in Seq(Bytes) /\ Len(Line(k, length)) = length
         /\ IsLine(Line(k, length), k)
<1>1. PICK l : l = Line(k, length)
  OBVIOUS
<1>2. l = [i \in 1 .. length |-> IF i = length THEN LF ELSE IF i = length - 1 THEN CR ELSE k]
  BY <1>1 DEF Line
<1>3. \A i \in 1 .. length :
        IF i = length THEN LF \in Bytes ELSE IF i = length - 1 THEN CR \in Bytes ELSE k \in Bytes
  BY ByteKinds
<1>4. l \in Seq(Bytes) /\ Len(l) = length
  BY <1>2, <1>3
<1>5. IsLine(l, k)
  BY <1>2, <1>4 DEF IsLine
<1> QED
  BY <1>1, <1>4, <1>5

\* The search returns the first newline, unless there is none in n bytes: then
\* the byte after them decides.
LEMMA Search ==
  ASSUME NEW b, NEW n \in Nat, NEW where, where = find_network_newline(b, n)
  PROVE  /\ where \in Int /\ where >= -1 /\ where <= n
         /\ where >= 0 => b[where] = CR /\ (where < n => b[where + 1] = LF)
         /\ \A i \in 0 .. n - 1 : b[i] = CR /\ b[i + 1] = LF => where >= 0 /\ where <= i
<1>1. PICK S : S = {i \in 0 .. n : (b[i] = CR /\ b[i + 1] = LF) \/ i = n}
  OBVIOUS
<1>2. PICK end : end = Min(S)
  OBVIOUS
<1>3. n \in S /\ S \subseteq Nat
  BY <1>1
<1>4. end \in S /\ \A i \in S : end <= i
  BY <1>2, <1>3, Lowest
<1>5. end \in 0 .. n /\ ((b[end] = CR /\ b[end + 1] = LF) \/ end = n)
  BY <1>1, <1>4
<1>6. where = IF b[end] = CR THEN end ELSE -1
  BY <1>1, <1>2 DEF find_network_newline
<1>7. CASE b[end] = CR
  <2>1. where = end
    BY <1>6, <1>7
  <2> QED
    BY <1>1, <1>4, <1>5, <1>7, <2>1
<1>8. CASE b[end] # CR
  <2>1. where = -1 /\ end = n
    BY <1>5, <1>6, <1>8
  <2>2. ASSUME NEW i \in 0 .. n - 1, b[i] = CR, b[i + 1] = LF PROVE FALSE
    <3>1. i \in S /\ i < n
      BY <1>1, <2>2
    <3> QED
      BY <1>4, <2>1, <3>1
  <2> QED
    BY <2>1, <2>2
<1> QED
  BY <1>7, <1>8

-----------------------------------------------------------------------------
(* The client, and the ends of a connection                                *)

LEMMA InitHolds == Init => IInv
<1> SUFFICES ASSUME Init PROVE IInv
  OBVIOUS
<1> USE DEF Init
<1>1. <<>> \in Seq(Bytes) /\ <<>> \in Seq(Seq(Bytes)) /\ Len(<<>>) = 0
  BY EmptySeq
<1>2. buf \in [Cells -> Bytes]
  <2>1. PICK junk : junk = [i \in Cells |-> JUNK]
    OBVIOUS
  <2>2. junk \in [Cells -> Bytes]
    BY <2>1, ByteKinds
  <2>3. \A i, b : b \in {CR, LF} => [junk EXCEPT ![i] = b] \in [Cells -> Bytes]
    BY <2>2, ByteKinds
  <2>4. buf = junk \/ \E i, b : b \in {CR, LF} /\ buf = [junk EXCEPT ![i] = b]
    BY <2>1
  <2> QED
    BY <2>2, <2>3, <2>4
<1>3. TypeOK
  <2>1. clean \in BOOLEAN
    BY Zenon
  <2>2. connections \in 0 .. MaxConnections /\ inbuf \in 0 .. CAP
    BY Consts
  <2>3. /\ clients \in {"randclient", "others"} /\ client \in {"sending", "closed", "reset"}
        /\ server \in {"accepting", "reading", "crashed"}
    OBVIOUS
  <2>4. /\ lines \in Seq(Seq(Bytes)) /\ printed \in Seq(Seq(Bytes))
        /\ unsent \in Seq(Bytes) /\ wire \in Seq(Bytes)
    BY <1>1, Zenon
  <2> QED
    BY <1>2, <2>1, <2>2, <2>3, <2>4, Zenon DEF TypeOK
<1>4. Lined /\ PrintedInOrder
  BY <1>1 DEF Lined, PrintedInOrder
<1>5. InStream /\ Gone /\ TooLong
  BY DEF InStream, Gone, TooLong
<1>6. Aligned
  <2> SUFFICES ASSUME clean = TRUE
               PROVE  /\ server # "crashed" /\ inbuf < MESSAGE /\ buf[MESSAGE - 1] \notin {CR, LF}
                      /\ buf[MESSAGE - 2] # CR /\ \A i \in 0 .. MESSAGE - 3 : buf[i] # CR
    BY Consts DEF Aligned, Calm
  <2>1. \A i \in Cells : buf[i] = JUNK
    OBVIOUS
  <2>2. MESSAGE - 1 \in Cells /\ MESSAGE - 2 \in Cells /\ \A i \in 0 .. MESSAGE - 3 : i \in Cells
    BY Consts DEF Cells
  <2> QED
    BY <2>1, <2>2, ByteKinds, Consts
<1> QED
  BY <1>3, <1>4, <1>5, <1>6 DEF IInv

\* A sequence without its first n elements.
LEMMA Dropped ==
  ASSUME NEW B, NEW u \in Seq(B), NEW n \in Nat, n <= Len(u)
  PROVE  /\ SubSeq(u, n + 1, Len(u)) \in Seq(B)
         /\ Len(SubSeq(u, n + 1, Len(u))) = Len(u) - n
         /\ \A i \in 1 .. Len(u) - n : SubSeq(u, n + 1, Len(u))[i] = u[n + i]
<1>1. PICK m \in Nat : m = Len(u)
  OBVIOUS
<1>2. PICK v : v = SubSeq(u, n + 1, m)
  OBVIOUS
<1>3. \A i \in n + 1 .. m : u[i] \in B
  BY <1>1
<1>4. v \in Seq(B) /\ Len(v) = m - n
  BY <1>1, <1>2, <1>3
<1>5. \A i \in 1 .. m - n : v[i] = u[n + i]
  BY <1>1, <1>2
<1> QED
  BY <1>1, <1>2, <1>4, <1>5

\* The first n elements of a sequence.
LEMMA Kept ==
  ASSUME NEW B, NEW u \in Seq(B), NEW n \in Nat, n <= Len(u)
  PROVE  /\ SubSeq(u, 1, n) \in Seq(B)
         /\ Len(SubSeq(u, 1, n)) = n
         /\ \A i \in 1 .. n : SubSeq(u, 1, n)[i] = u[i]
OBVIOUS

\* Where the lines not yet printed begin.
LEMMA Begins ==
  ASSUME IInv, server # "crashed"
  PROVE  /\ lines \in Seq(Seq(Bytes)) /\ printed \in Seq(Seq(Bytes))
         /\ Len(printed) \in 0 .. Len(lines) /\ Len(lines) \in Nat
         /\ FlattenSeq(lines) \in Seq(Bytes)
         /\ Cut(Starts(lines), lines, FlattenSeq(lines))
         /\ Starts(lines)[Len(printed)] \in Nat
<1>1. lines \in Seq(Seq(Bytes)) /\ printed \in Seq(Seq(Bytes)) /\ Len(printed) <= Len(lines)
  BY DEF IInv, TypeOK, PrintedInOrder
<1>2. Len(printed) \in 0 .. Len(lines) /\ Len(lines) \in Nat
  BY <1>1
<1>3. FlattenSeq(lines) \in Seq(Bytes) /\ Cut(Starts(lines), lines, FlattenSeq(lines))
  BY <1>1, Located
<1>4. Starts(lines)[Len(printed)] \in Nat
  BY <1>2, <1>3 DEF Cut
<1> QED
  BY <1>1, <1>2, <1>3, <1>4

\* What is written moves from the client's hands to the wire.
LEMMA WritePieceKeeps == IInv /\ WritePiece => IInv'
<1> SUFFICES ASSUME IInv, WritePiece PROVE IInv'
  OBVIOUS
<1>1. unsent \in Seq(Bytes) /\ wire \in Seq(Bytes) /\ inbuf \in Nat /\ Len(unsent) > 0
  BY EmptySeq DEF IInv, TypeOK, WritePiece
<1>2. PICK n \in 1 .. Len(unsent) :
        /\ wire' = wire \o SubSeq(unsent, 1, n)
        /\ unsent' = SubSeq(unsent, n + 1, Len(unsent))
  <2>1. PICK howmany \in MINCHARS .. MAXCHARS :
          LET n == Smaller(howmany, Len(unsent))
          IN /\ wire' = wire \o SubSeq(unsent, 1, n)
             /\ unsent' = SubSeq(unsent, n + 1, Len(unsent))
    BY DEF WritePiece
  <2>2. Smaller(howmany, Len(unsent)) \in 1 .. Len(unsent)
    BY <1>1, Consts DEF Smaller
  <2> QED
    BY <2>1, <2>2
<1>3. /\ clients' = clients /\ clean' = clean /\ connections' = connections /\ lines' = lines
      /\ client' = client /\ server' = server /\ buf' = buf /\ inbuf' = inbuf /\ printed' = printed
      /\ client = "sending" /\ server = "reading"
  BY DEF WritePiece
<1>4. PICK w \in Nat, u \in Nat : w = Len(wire) /\ u = Len(unsent)
  BY <1>1
<1>5. PICK piece : piece = SubSeq(unsent, 1, n)
  OBVIOUS
<1>6. /\ piece \in Seq(Bytes) /\ Len(piece) = n
      /\ \A i \in 1 .. n : piece[i] = unsent[i]
  BY <1>1, <1>2, <1>5, Kept
<1>7. /\ wire' \in Seq(Bytes) /\ Len(wire') = w + n
      /\ \A i \in 1 .. w : wire'[i] = wire[i]
      /\ \A i \in 1 .. n : wire'[w + i] = unsent[i]
  BY <1>1, <1>2, <1>4, <1>5, <1>6, Joined
<1>8. /\ unsent' \in Seq(Bytes) /\ Len(unsent') = u - n
      /\ \A i \in 1 .. u - n : unsent'[i] = unsent[n + i]
  BY <1>1, <1>2, <1>4, Dropped
<1>9. TypeOK'
  BY <1>3, <1>7, <1>8 DEF IInv, TypeOK
<1>10. Lined' /\ PrintedInOrder' /\ TooLong' /\ Aligned'
  BY <1>3, Zenon DEF IInv, Lined, PrintedInOrder, Text, TooLong, Aligned, Calm
<1>11. InStream' /\ Gone'
  <2>1. PICK stream, start : stream = FlattenSeq(lines) /\ start = Starts(lines)[Len(printed)]
    OBVIOUS
  <2>2. Rest(stream, start)
    BY <1>3, <2>1 DEF IInv, InStream
  <2>3. start \in Nat
    BY <1>3, <2>1, Begins
  <2>4. /\ Len(stream) = start + inbuf + w + u
        /\ \A i \in 1 .. inbuf : stream[start + i] = buf[i - 1]
        /\ \A i \in 1 .. w : stream[start + inbuf + i] = wire[i]
        /\ \A i \in 1 .. u : stream[start + inbuf + w + i] = unsent[i]
    BY <1>4, <2>2 DEF Rest
  <2>5. Len(stream) = start + inbuf' + Len(wire') + Len(unsent')
    BY <1>1, <1>3, <1>7, <1>8, <2>3, <2>4
  <2>6. \A i \in 1 .. w + n : stream[start + inbuf + i] = wire'[i]
    <3> TAKE i \in 1 .. w + n
    <3>1. CASE i <= w
      BY <1>7, <2>4, <3>1
    <3>2. CASE i > w
      <4>1. PICK j \in 1 .. n : j = i - w /\ i = w + j
        BY <3>2
      <4>2. wire'[w + j] = unsent[j] /\ stream[start + inbuf + w + j] = unsent[j]
        BY <1>4, <1>7, <2>4
      <4>3. start + inbuf + w + j = start + inbuf + i
        BY <1>1, <2>3, <4>1
      <4> QED
        BY <4>1, <4>2, <4>3
    <3> QED
      BY <3>1, <3>2
  <2>7. \A i \in 1 .. u - n : stream[start + inbuf + (w + n) + i] = unsent'[i]
    <3> TAKE i \in 1 .. u - n
    <3>1. PICK j \in 1 .. u : j = n + i
      OBVIOUS
    <3>2. unsent'[i] = unsent[j] /\ stream[start + inbuf + w + j] = unsent[j]
      BY <1>8, <2>4, <3>1
    <3>3. start + inbuf + w + j = start + inbuf + (w + n) + i
      BY <1>1, <2>3, <3>1
    <3> QED
      BY <3>2, <3>3
  <2>8. Rest(stream, start)'
    BY <1>3, <1>7, <1>8, <2>4, <2>5, <2>6, <2>7 DEF Rest
  <2> QED
    BY <1>3, <2>1, <2>8 DEF InStream, Gone
<1> QED
  BY <1>9, <1>10, <1>11 DEF IInv

LEMMA ClientClosesKeeps == IInv /\ ClientCloses => IInv'
<1> SUFFICES ASSUME IInv, ClientCloses PROVE IInv'
  OBVIOUS
<1>1. /\ UNCHANGED <<clients, clean, connections, lines, unsent, wire, server, buf, inbuf, printed>>
      /\ client = "sending" /\ client' = "closed"
  BY DEF ClientCloses
<1>2. TypeOK'
  BY <1>1 DEF IInv, TypeOK
<1>3. Lined' /\ PrintedInOrder' /\ Aligned'
  BY <1>1, Zenon DEF IInv, Lined, PrintedInOrder, Text, Aligned, Calm
<1>4. Gone' /\ TooLong'
  BY <1>1 DEF Gone, TooLong
<1>5. InStream'
  <2>1. client # "reset"
    BY <1>1
  <2> QED
    BY <1>1, <2>1, Zenon DEF IInv, InStream, Rest
<1> QED
  BY <1>2, <1>3, <1>4, <1>5 DEF IInv

LEMMA ConnectionResetKeeps == IInv /\ ConnectionReset => IInv'
<1> SUFFICES ASSUME IInv, ConnectionReset PROVE IInv'
  OBVIOUS
<1>1. /\ UNCHANGED <<clients, clean, connections, lines, unsent, server, buf, inbuf, printed>>
      /\ client' = "reset" /\ wire' = <<>>
  BY DEF ConnectionReset
<1>2. TypeOK'
  BY <1>1, EmptySeq DEF IInv, TypeOK
<1>3. Lined' /\ PrintedInOrder' /\ Aligned'
  BY <1>1, Zenon DEF IInv, Lined, PrintedInOrder, Text, Aligned, Calm
<1>4. Gone' /\ TooLong' /\ InStream'
  BY <1>1 DEF Gone, TooLong, InStream
<1> QED
  BY <1>2, <1>3, <1>4 DEF IInv

\* A connection that ends between a CR and its LF is not a clean one.
LEMMA CloseConnectionKeeps == IInv /\ CloseConnection => IInv'
<1> SUFFICES ASSUME IInv, CloseConnection PROVE IInv'
  OBVIOUS
<1>1. /\ UNCHANGED <<clients, connections, lines, unsent, buf, inbuf, printed>>
      /\ server = "reading" /\ server' = "accepting" /\ wire' = <<>>
      /\ client' = IF client = "sending" THEN "reset" ELSE client
      /\ clean' = (clean /\ ~(inbuf > 0 /\ buf[inbuf - 1] = CR))
  BY DEF CloseConnection
<1>2. TypeOK'
  <2>1. clean' \in BOOLEAN
    BY <1>1, Zenon
  <2>2. client' \in {"sending", "closed", "reset"} /\ server' \in {"accepting", "reading", "crashed"}
    BY <1>1 DEF IInv, TypeOK
  <2>3. wire' \in Seq(Bytes)
    BY <1>1, EmptySeq
  <2> QED
    BY <1>1, <2>1, <2>2, <2>3, Zenon DEF IInv, TypeOK
<1>3. Lined' /\ PrintedInOrder'
  BY <1>1 DEF IInv, Lined, PrintedInOrder, Text
<1>4. Gone' /\ TooLong' /\ InStream'
  BY <1>1 DEF Gone, TooLong, InStream
<1>5. Aligned'
  <2> SUFFICES ASSUME Calm' PROVE (/\ server # "crashed"
                                   /\ inbuf < MESSAGE
                                   /\ buf[MESSAGE - 1] \notin {CR, LF}
                                   /\ buf[MESSAGE - 2] # CR
                                   /\ \A i \in 0 .. MESSAGE - 3 : buf[i] # CR)'
    BY DEF Aligned
  <2>1. clean' /\ clients = "randclient"
    BY <1>1 DEF Calm
  <2>2. clean /\ ~(inbuf > 0 /\ buf[inbuf - 1] = CR)
    BY <1>1, <2>1, Zenon
  <2>3. /\ inbuf < MESSAGE
        /\ buf[MESSAGE - 1] \notin {CR, LF}
        /\ inbuf < MESSAGE - 1 => buf[MESSAGE - 2] # CR
        /\ \A i \in 0 .. MESSAGE - 3 : buf[i] # CR
    BY <2>1, <2>2, Zenon DEF IInv, Aligned, Calm
  <2>4. buf[MESSAGE - 2] # CR
    <3>1. inbuf \in Nat
      BY DEF IInv, TypeOK
    <3>2. CASE inbuf = MESSAGE - 1
      <4>1. inbuf > 0 /\ inbuf - 1 = MESSAGE - 2
        BY <3>1, <3>2, Consts
      <4> QED
        BY <2>2, <4>1
    <3>3. CASE inbuf # MESSAGE - 1
      BY <2>3, <3>1, <3>3, Consts
    <3> QED
      BY <3>2, <3>3
  <2> QED
    BY <1>1, <2>3, <2>4
<1> QED
  BY <1>2, <1>3, <1>4, <1>5 DEF IInv

\* A new client's lines, none of them sent yet.
LEMMA AcceptKeeps == IInv /\ Accept => IInv'
<1> SUFFICES ASSUME IInv, Accept PROVE IInv'
  OBVIOUS
<1>1. /\ UNCHANGED <<clients, clean, buf>>
      /\ server = "accepting" /\ connections < MaxConnections
      /\ connections' = connections + 1 /\ client' = "sending" /\ unsent' = FlattenSeq(lines')
      /\ wire' = <<>> /\ server' = "reading" /\ inbuf' = 0 /\ printed' = <<>>
  BY DEF Accept
<1>2. PICK text \in [1 .. TIMES -> IF clients = "randclient" THEN {MESSAGE} ELSE LineLengths] :
        lines' = [k \in 1 .. TIMES |-> Line(k, text[k])]
  BY DEF Accept
<1>3. \A k \in 1 .. TIMES :
        text[k] \in Nat /\ text[k] >= 2 /\ (clients = "randclient" => text[k] = MESSAGE)
  BY BufAssumption
<1>4. lines' \in Seq(Seq(Bytes)) /\ Len(lines') = TIMES
  <2>1. \A k \in 1 .. TIMES : Line(k, text[k]) \in Seq(Bytes)
    BY <1>3, LineIs
  <2> QED
    BY <1>2, <2>1, Consts
<1>5. Lined'
  <2>1. ASSUME NEW k \in 1 .. TIMES
        PROVE IsLine(lines'[k], k) /\ (clients = "randclient" => Len(lines'[k]) = MESSAGE)
    <3>1. lines'[k] = Line(k, text[k])
      BY <1>2
    <3> QED
      BY <1>3, <3>1, LineIs
  <2> QED
    BY <1>1, <1>4, <2>1 DEF Lined, IsLine
<1>6. /\ FlattenSeq(lines') \in Seq(Bytes)
      /\ Cut(Starts(lines'), lines', FlattenSeq(lines'))
  BY <1>4, Located
<1>7. TypeOK'
  <2>1. connections' \in 0 .. MaxConnections /\ inbuf' \in 0 .. CAP
    BY <1>1, Consts DEF IInv, TypeOK
  <2>2. unsent' \in Seq(Bytes) /\ wire' \in Seq(Bytes) /\ printed' \in Seq(Seq(Bytes))
    BY <1>1, <1>6, EmptySeq
  <2>3. client' \in {"sending", "closed", "reset"} /\ server' \in {"accepting", "reading", "crashed"}
    BY <1>1
  <2> QED
    BY <1>1, <1>4, <2>1, <2>2, <2>3, Zenon DEF IInv, TypeOK
<1>8. Len(printed') = 0 /\ Len(wire') = 0
  BY <1>1
<1>9. PrintedInOrder' /\ Gone' /\ TooLong'
  BY <1>1, <1>4, <1>8, Consts DEF PrintedInOrder, Gone, TooLong
<1>10. InStream'
  <2>1. PICK stream : stream = FlattenSeq(lines')
    OBVIOUS
  <2>2. Starts(lines')[0] = 0 /\ stream \in Seq(Bytes) /\ unsent' = stream
    BY <1>1, <1>6, <2>1 DEF Cut
  <2>3. Rest(stream, 0)'
    BY <1>1, <1>8, <2>2 DEF Rest
  <2> QED
    BY <1>8, <2>1, <2>2, <2>3 DEF InStream
<1>11. Aligned'
  BY <1>1, Consts DEF IInv, Aligned, Calm
<1> QED
  BY <1>5, <1>7, <1>9, <1>10, <1>11 DEF IInv

-----------------------------------------------------------------------------
(* Reading                                                                 *)

\* After read(), the buffer holds t bytes, got, and w is left on the wire.
Filling(t, got, w, stream, start) ==
  /\ t \in Nat /\ inbuf < t /\ t <= CAP /\ client # "reset"
  /\ got \in [Cells -> Bytes] /\ \A i \in Cells : i >= t => got[i] = buf[i]
  /\ w \in Seq(Bytes) /\ start \in Nat
  /\ Len(stream) = start + t + Len(w) + Len(unsent)
  /\ \A i \in 1 .. t : stream[start + i] = got[i - 1]
  /\ \A i \in 1 .. Len(w) : stream[start + t + i] = w[i]
  /\ \A i \in 1 .. Len(unsent) : stream[start + t + Len(w) + i] = unsent[i]

\* read() moves bytes from the wire to the buffer.
LEMMA Fills ==
  ASSUME IInv, server = "reading", NEW n \in 1 .. Smaller(room, Len(wire))
  PROVE  Filling(inbuf + n, Filled(n), SubSeq(wire, n + 1, Len(wire)),
                 FlattenSeq(lines), Starts(lines)[Len(printed)])
<1>0. PICK t, got, w, stream, start :
        /\ t = inbuf + n /\ got = Filled(n) /\ w = SubSeq(wire, n + 1, Len(wire))
        /\ stream = FlattenSeq(lines) /\ start = Starts(lines)[Len(printed)]
  OBVIOUS
<1>1. wire \in Seq(Bytes) /\ unsent \in Seq(Bytes) /\ inbuf \in Nat /\ inbuf <= CAP /\ buf \in [Cells -> Bytes]
  BY Consts DEF IInv, TypeOK
<1>2. PICK m \in Nat, u \in Nat : m = Len(wire) /\ u = Len(unsent)
  BY <1>1
<1>3. n \in Nat /\ 1 <= n /\ n <= m /\ n <= CAP - inbuf
  BY <1>1, <1>2, Consts DEF Smaller, room
<1>4. t \in Nat /\ inbuf < t /\ t <= CAP
  BY <1>0, <1>1, <1>3, Consts
<1>5. client # "reset"
  BY <1>2, <1>3 DEF IInv, Gone
<1>6. start \in Nat
  BY <1>0, Begins
<1>7. /\ Len(stream) = start + inbuf + m + u
      /\ \A i \in 1 .. inbuf : stream[start + i] = buf[i - 1]
      /\ \A i \in 1 .. m : stream[start + inbuf + i] = wire[i]
      /\ \A i \in 1 .. u : stream[start + inbuf + m + i] = unsent[i]
  BY <1>0, <1>2, <1>5 DEF IInv, InStream, Rest
<1>8. got = [i \in Cells |-> IF i >= inbuf /\ i < t THEN wire[i - inbuf + 1] ELSE buf[i]]
  <2>1. \A i \in Cells : i \in inbuf .. inbuf + n - 1 <=> i >= inbuf /\ i < t
    BY <1>0, <1>1, <1>3, Consts DEF Cells
  <2> QED
    BY <1>0, <2>1 DEF Filled
<1>9. got \in [Cells -> Bytes]
  <2>1. \A i \in Cells : i >= inbuf /\ i < t => wire[i - inbuf + 1] \in Bytes
    <3> TAKE i \in Cells
    <3> HAVE i >= inbuf /\ i < t
    <3>1. i - inbuf + 1 \in 1 .. m
      BY <1>0, <1>1, <1>3, Consts DEF Cells
    <3> QED
      BY <1>1, <1>2, <3>1
  <2> QED
    BY <1>1, <1>8, <2>1
<1>10. \A i \in Cells : i >= t => got[i] = buf[i]
  BY <1>4, <1>8, Consts DEF Cells
<1>11. /\ w \in Seq(Bytes) /\ Len(w) = m - n
       /\ \A i \in 1 .. m - n : w[i] = wire[n + i]
  BY <1>0, <1>1, <1>2, <1>3, Dropped
<1>12. ASSUME NEW i \in 1 .. t PROVE stream[start + i] = got[i - 1]
  <2>1. i - 1 \in Cells
    BY <1>4, Consts DEF Cells
  <2>2. CASE i <= inbuf
    <3>1. got[i - 1] = buf[i - 1]
      BY <1>1, <1>8, <2>1, <2>2
    <3> QED
      BY <1>7, <2>2, <3>1
  <2>3. CASE i > inbuf
    <3>1. PICK j \in 1 .. m : j = i - inbuf /\ i - 1 - inbuf + 1 = j
      BY <1>0, <1>1, <1>3, <2>3
    <3>2. got[i - 1] = wire[j]
      BY <1>1, <1>4, <1>8, <2>1, <2>3, <3>1
    <3>3. stream[start + inbuf + j] = wire[j]
      BY <1>7, <3>1
    <3>4. start + inbuf + j = start + i
      BY <1>1, <1>6, <3>1
    <3> QED
      BY <3>2, <3>3, <3>4
  <2> QED
    BY <1>1, <2>2, <2>3
<1>13. ASSUME NEW i \in 1 .. m - n PROVE stream[start + t + i] = w[i]
  <2>1. PICK j \in 1 .. m : j = n + i
    BY <1>3
  <2>2. start + inbuf + j = start + t + i
    BY <1>0, <1>1, <1>3, <1>6, <2>1
  <2> QED
    BY <1>7, <1>11, <2>1, <2>2
<1>14. start + inbuf + m + u = start + t + (m - n) + u /\ start + inbuf + m = start + t + (m - n)
  BY <1>0, <1>1, <1>3, <1>6
<1>15. \A i \in 1 .. u : stream[start + t + (m - n) + i] = unsent[i]
  BY <1>7, <1>14
<1>16. Filling(t, got, w, stream, start)
  BY <1>2, <1>4, <1>5, <1>6, <1>7, <1>9, <1>10, <1>11, <1>12, <1>13, <1>14, <1>15 DEF Filling
<1> QED
  BY <1>0, <1>16

\* A byte of the stream that is beyond the first k lines belongs to a line.
LEMMA NextLine ==
  ASSUME IInv, server # "crashed", NEW k \in 0 .. Len(lines),
         Starts(lines)[k] < Len(FlattenSeq(lines))
  PROVE  \E next \in 1 .. Len(lines) :
           /\ next = k + 1 /\ next \in 1 .. TIMES /\ Len(lines[next]) \in Nat
           /\ Len(lines[next]) >= 2 /\ (Calm => Len(lines[next]) = MESSAGE)
           /\ lines[next] \in Seq(Bytes) /\ IsLine(lines[next], next)
           /\ Starts(lines)[k] \in Nat
           /\ Starts(lines)[next] = Starts(lines)[k] + Len(lines[next])
           /\ \A i \in 1 .. Len(lines[next]) :
                FlattenSeq(lines)[Starts(lines)[k] + i] = lines[next][i]
<1>0. PICK m, off, stream : m = Len(lines) /\ off = Starts(lines) /\ stream = FlattenSeq(lines)
  OBVIOUS
<1>1. m \in Nat /\ m = Len(lines) /\ off = Starts(lines) /\ stream = FlattenSeq(lines)
  BY <1>0, Begins
<1>2. lines \in Seq(Seq(Bytes)) /\ stream \in Seq(Bytes)
  BY <1>1, Begins
<1>3. /\ off \in [0 .. m -> Nat] /\ off[m] = Len(stream)
      /\ \A j \in 1 .. m :
           /\ off[j] = off[j - 1] + Len(lines[j])
           /\ \A i \in 1 .. Len(lines[j]) : stream[off[j - 1] + i] = lines[j][i]
  BY <1>1, Begins DEF Cut
<1>4. off[k] \in Nat /\ Len(stream) \in Nat /\ off[k] < Len(stream)
  <2>1. k \in 0 .. m /\ off[k] < Len(stream)
    BY <1>1
  <2>2. off[k] \in Nat
    BY <1>3, <2>1
  <2> QED
    BY <1>2, <2>1, <2>2
<1>5. k # m
  BY <1>3, <1>4
<1>6. PICK next \in 1 .. m : next = k + 1 /\ next - 1 = k
  BY <1>1, <1>5
<1>7. lines[next] \in Seq(Bytes) /\ Len(lines[next]) \in Nat
  BY <1>1, <1>2
<1>8. next \in 1 .. TIMES /\ IsLine(lines[next], next) /\ (clients = "randclient" => Len(lines[next]) = MESSAGE)
  BY <1>1, Zenon DEF IInv, Lined
<1>9. off[next] = off[k] + Len(lines[next]) /\ \A i \in 1 .. Len(lines[next]) : stream[off[k] + i] = lines[next][i]
  BY <1>3, <1>6
<1> QED
  BY <1>1, <1>4, <1>6, <1>7, <1>8, <1>9 DEF Calm, IsLine

\* A buffer whose t bytes begin with the k-th line, of length L, or with a part
\* of it, and what the search may find there.
BeginsWith(got, t, L, k) ==
  \A i \in 1 .. L : i <= t => got[i - 1] = IF i = L THEN LF ELSE IF i = L - 1 THEN CR ELSE k
Finding(where, got, t, L) ==
  /\ where \in Int /\ where >= -1 /\ where <= t
  /\ where >= 0 /\ where + 2 <= t => where = L - 2 /\ L <= t
  /\ where < 0 => t < L
  /\ where >= 0 /\ where + 2 > t =>
       /\ t < L /\ got[where] = CR
       /\ where = t \/ (where = t - 1 /\ got[t] = LF)

\* The search finds the end of the line if it has come.
LEMMA Found ==
  ASSUME NEW t \in Nat, t > 0, NEW L \in Nat, L >= 2, NEW k \in 1 .. TIMES, NEW got,
         NEW where, where = find_network_newline(got, t), BeginsWith(got, t, L, k)
  PROVE  Finding(where, got, t, L)
<1> USE DEF BeginsWith, Finding
<1>1. /\ where \in Int /\ where >= -1 /\ where <= t
      /\ where >= 0 => got[where] = CR /\ (where < t => got[where + 1] = LF)
      /\ \A i \in 0 .. t - 1 : got[i] = CR /\ got[i + 1] = LF => where >= 0 /\ where <= i
  BY Search
<1>2. CR # LF /\ k # CR
  BY ByteKinds
<1>3. CASE L <= t
  <2>1. got[L - 2] = CR /\ got[L - 1] = LF
    <3>1. L - 1 \in 1 .. L /\ L \in 1 .. L /\ L - 1 <= t /\ (L - 1) - 1 = L - 2
      BY <1>3
    <3> QED
      BY <1>3, <3>1
  <2>2. L - 2 \in 0 .. t - 1 /\ (L - 2) + 1 = L - 1
    BY <1>3
  <2>3. where >= 0 /\ where <= L - 2
    BY <1>1, <2>1, <2>2
  <2>4. PICK i \in 1 .. L : i = where + 1 /\ i - 1 = where
    BY <1>1, <2>3
  <2>5. got[where] = IF i = L THEN LF ELSE IF i = L - 1 THEN CR ELSE k
    BY <1>3, <2>4
  <2>6. where = L - 2
    BY <1>1, <1>2, <2>3, <2>4, <2>5
  <2> QED
    BY <1>1, <1>3, <2>6
<1>4. CASE L > t
  <2>1. ASSUME where >= 0, where + 2 <= t PROVE FALSE
    <3>1. PICK i \in 1 .. L : i = where + 1 /\ i - 1 = where /\ i <= t /\ i # L /\ i # L - 1
      BY <1>1, <1>4, <2>1
    <3>2. got[where] = k
      BY <3>1
    <3> QED
      BY <1>1, <1>2, <2>1, <3>2
  <2>2. where >= 0 /\ where + 2 > t => where = t \/ (where = t - 1 /\ where < t /\ where + 1 = t)
    BY <1>1
  <2> QED
    BY <1>1, <1>4, <2>1, <2>2
<1> QED
  BY <1>3, <1>4

\* The buffer begins with the next line to print, or with the part of it that
\* has come.
Coming(k, L, t, got, where) ==
  /\ k = Len(printed) + 1 /\ k \in 1 .. Len(lines) /\ k \in 1 .. TIMES
  /\ L \in Nat /\ L = Len(lines[k]) /\ L >= 2 /\ (Calm => L = MESSAGE)
  /\ lines[k] \in Seq(Bytes) /\ IsLine(lines[k], k)
  /\ Starts(lines)[k] = Starts(lines)[Len(printed)] + L
  /\ BeginsWith(got, t, L, k) /\ Finding(where, got, t, L)
LEMMA Ahead ==
  ASSUME IInv, server = "reading", NEW n \in 1 .. Smaller(room, Len(wire))
  PROVE  \E k, L : Coming(k, L, inbuf + n, Filled(n), find_network_newline(Filled(n), inbuf + n))
<1>1. PICK t, got, where, w, stream, start :
        /\ t = inbuf + n /\ got = Filled(n) /\ where = find_network_newline(got, t)
        /\ w = SubSeq(wire, n + 1, Len(wire))
        /\ stream = FlattenSeq(lines) /\ start = Starts(lines)[Len(printed)]
  OBVIOUS
<1>2. /\ t \in Nat /\ inbuf < t
      /\ w \in Seq(Bytes) /\ start \in Nat /\ Len(stream) = start + t + Len(w) + Len(unsent)
      /\ \A i \in 1 .. t : stream[start + i] = got[i - 1]
  <2>1. Filling(t, got, w, stream, start)
    BY <1>1, Fills
  <2> QED
    BY <2>1 DEF Filling
<1>3. Len(w) \in Nat /\ Len(unsent) \in Nat /\ inbuf \in Nat
  BY <1>2 DEF IInv, TypeOK
<1>4. start < Len(stream) /\ Len(printed) \in 0 .. Len(lines)
  BY <1>2, <1>3, Begins
<1>5. PICK k \in 1 .. Len(lines) :
        /\ k = Len(printed) + 1 /\ k \in 1 .. TIMES /\ Len(lines[k]) \in Nat
        /\ Len(lines[k]) >= 2 /\ (Calm => Len(lines[k]) = MESSAGE)
        /\ lines[k] \in Seq(Bytes) /\ IsLine(lines[k], k)
        /\ Starts(lines)[k] = start + Len(lines[k])
        /\ \A i \in 1 .. Len(lines[k]) : stream[start + i] = lines[k][i]
  BY <1>1, <1>4, NextLine
<1>6. PICK L \in Nat : L = Len(lines[k])
  BY <1>5
<1>7. BeginsWith(got, t, L, k)
  <2> SUFFICES ASSUME NEW i \in 1 .. L, i <= t
               PROVE  got[i - 1] = IF i = L THEN LF ELSE IF i = L - 1 THEN CR ELSE k
    BY DEF BeginsWith
  <2>1. lines[k][i] = IF i = L THEN LF ELSE IF i = L - 1 THEN CR ELSE k
    BY <1>5, <1>6 DEF IsLine
  <2>2. i \in 1 .. t
    BY <1>2
  <2>3. stream[start + i] = got[i - 1] /\ stream[start + i] = lines[k][i]
    BY <1>2, <1>5, <1>6, <2>2
  <2> QED
    BY <2>1, <2>3
<1>8. Finding(where, got, t, L)
  <2>1. t > 0
    BY <1>2, <1>3
  <2> QED
    BY <1>1, <1>2, <1>5, <1>6, <1>7, <2>1, Found
<1>9. Coming(k, L, t, got, where)
  BY <1>1, <1>5, <1>6, <1>7, <1>8 DEF Coming
<1> QED
  BY <1>1, <1>9

\* The end of the line has not come.
LEMMA ReadNoLine ==
  ASSUME IInv, server = "reading", NEW n \in 1 .. Smaller(room, Len(wire)),
         find_network_newline(Filled(n), inbuf + n) < 0,
         wire' = SubSeq(wire, n + 1, Len(wire)), buf' = Filled(n), inbuf' = inbuf + n,
         UNCHANGED <<clientVars, server, printed>>
  PROVE  IInv'
<1>1. PICK t, got, where, stream, start :
        /\ t = inbuf + n /\ got = Filled(n) /\ where = find_network_newline(got, t)
        /\ stream = FlattenSeq(lines) /\ start = Starts(lines)[Len(printed)]
  OBVIOUS
<1>2. /\ t \in Nat /\ inbuf < t /\ t <= CAP /\ client # "reset"
      /\ got \in [Cells -> Bytes] /\ \A i \in Cells : i >= t => got[i] = buf[i]
      /\ wire' \in Seq(Bytes) /\ start \in Nat
      /\ Len(stream) = start + t + Len(wire') + Len(unsent)
      /\ \A i \in 1 .. t : stream[start + i] = got[i - 1]
      /\ \A i \in 1 .. Len(wire') : stream[start + t + i] = wire'[i]
      /\ \A i \in 1 .. Len(unsent) : stream[start + t + Len(wire') + i] = unsent[i]
  <2>1. Filling(t, got, wire', stream, start)
    BY <1>1, Fills
  <2> QED
    BY <2>1 DEF Filling
<1>3. PICK k, L : Coming(k, L, t, got, where)
  BY <1>1, Ahead
<1>4. /\ buf' = got /\ inbuf' = t
      /\ UNCHANGED <<clients, clean, connections, lines, client, unsent, server, printed>>
  BY <1>1 DEF clientVars
<1>5. /\ k \in 1 .. Len(lines) /\ k \in 1 .. TIMES /\ L = Len(lines[k])
      /\ L \in Nat /\ L >= 2 /\ (Calm => L = MESSAGE)
      /\ \A i \in 1 .. L : i <= t => got[i - 1] = IF i = L THEN LF ELSE IF i = L - 1 THEN CR ELSE k
      /\ t < L
  BY <1>1, <1>3 DEF Coming, BeginsWith, Finding
<1>6. TypeOK'
  <2>1. inbuf' \in 0 .. CAP
    BY <1>2, <1>4, Consts
  <2> QED
    BY <1>2, <1>4, <2>1, Zenon DEF IInv, TypeOK
<1>7. Lined' /\ PrintedInOrder'
  BY <1>4, Zenon DEF IInv, Lined, PrintedInOrder, Text
<1>8. InStream' /\ Gone'
  <2>1. Rest(stream, start)'
    BY <1>2, <1>4 DEF Rest
  <2> QED
    BY <1>1, <1>2, <1>4, <2>1 DEF InStream, Gone
<1>9. TooLong'
  BY <1>2, <1>4, <1>5, Consts DEF TooLong
<1>10. Aligned'
  <2> SUFFICES ASSUME Calm
               PROVE  /\ t < MESSAGE
                      /\ got[MESSAGE - 1] \notin {CR, LF}
                      /\ t < MESSAGE - 1 => got[MESSAGE - 2] # CR
                      /\ \A i \in 0 .. MESSAGE - 3 : got[i] # CR
    BY <1>4 DEF Aligned, Calm
  <2>1. L = MESSAGE /\ t < MESSAGE
    BY <1>5
  <2>2. /\ buf[MESSAGE - 1] \notin {CR, LF}
        /\ inbuf < MESSAGE - 1 => buf[MESSAGE - 2] # CR
        /\ \A i \in 0 .. MESSAGE - 3 : buf[i] # CR
    BY DEF IInv, Aligned
  <2>3. \A i \in 0 .. MESSAGE - 1 : i \in Cells
    BY Consts DEF Cells
  <2>4. got[MESSAGE - 1] = buf[MESSAGE - 1]
    BY <1>2, <2>1, <2>3, Consts
  <2>5. t < MESSAGE - 1 => got[MESSAGE - 2] = buf[MESSAGE - 2] /\ inbuf < MESSAGE - 1
    <3>1. inbuf \in Nat
      BY DEF IInv, TypeOK
    <3> QED
      BY <1>2, <2>3, <3>1, Consts
  <2>6. ASSUME NEW i \in 0 .. MESSAGE - 3 PROVE got[i] # CR
    <3>1. CASE i < t
      <4>1. PICK j \in 1 .. L : j = i + 1 /\ j - 1 = i /\ j <= t /\ j # L /\ j # L - 1
        BY <1>2, <2>1, <3>1, Consts
      <4>2. got[i] = k
        BY <1>5, <4>1
      <4> QED
        BY <1>5, <4>2, ByteKinds
    <3>2. CASE i >= t
      BY <1>2, <2>2, <2>3, <3>2, Consts
    <3> QED
      BY <1>2, <3>1, <3>2
  <2> QED
    BY <2>1, <2>2, <2>4, <2>5, <2>6
<1> QED
  BY <1>6, <1>7, <1>8, <1>9, <1>10 DEF IInv

\* What printf shows is the text of the line.
LEMMA ShownText ==
  ASSUME NEW got \in [Cells -> Bytes], NEW line \in Seq(Bytes), NEW L \in Nat,
         L = Len(line), L >= 2, L <= CAP, \A i \in 1 .. L : got[i - 1] = line[i]
  PROVE  Shown(got, L - 2) = SubSeq(line, 1, L - 2)
<1>1. PICK m \in Nat : m = L - 2
  OBVIOUS
<1>2. PICK u, v : u = Shown(got, m) /\ v = SubSeq(line, 1, m)
  OBVIOUS
<1>3. u = [i \in 1 .. m |-> got[i - 1]]
  BY <1>2 DEF Shown
<1>4. v = [i \in 1 .. m |-> line[i]]
  BY <1>1, <1>2
<1>5. \A i \in 1 .. m : got[i - 1] = line[i]
  BY <1>1
<1>6. u = v
  BY <1>3, <1>4, <1>5
<1> QED
  BY <1>1, <1>2, <1>6

\* What is printed is a sequence of bytes.
LEMMA ShownType ==
  ASSUME NEW got \in [Cells -> Bytes], NEW where \in Nat, where <= CAP
  PROVE  Shown(got, where) \in Seq(Bytes)
<1>1. \A i \in 1 .. where : i - 1 \in Cells
  BY Consts DEF Cells
<1>2. \A i \in 1 .. where : got[i - 1] \in Bytes
  BY <1>1
<1> QED
  BY <1>2 DEF Shown

\* A line is printed and removed.
LEMMA ReadLine ==
  ASSUME IInv, server = "reading", NEW n \in 1 .. Smaller(room, Len(wire)),
         find_network_newline(Filled(n), inbuf + n) >= 0,
         find_network_newline(Filled(n), inbuf + n) + 2 <= inbuf + n,
         wire' = SubSeq(wire, n + 1, Len(wire)),
         printed' = Append(printed, Shown(Filled(n), find_network_newline(Filled(n), inbuf + n))),
         inbuf' = inbuf + n - (find_network_newline(Filled(n), inbuf + n) + 2),
         buf' = Shifted(Filled(n), find_network_newline(Filled(n), inbuf + n) + 2, inbuf + n),
         server' = server, UNCHANGED clientVars
  PROVE  IInv'
<1>1. PICK t, got, where, stream, start :
        /\ t = inbuf + n /\ got = Filled(n) /\ where = find_network_newline(got, t)
        /\ stream = FlattenSeq(lines) /\ start = Starts(lines)[Len(printed)]
  OBVIOUS
<1>2. /\ t \in Nat /\ inbuf < t /\ t <= CAP /\ client # "reset"
      /\ got \in [Cells -> Bytes]
      /\ wire' \in Seq(Bytes) /\ start \in Nat
      /\ Len(stream) = start + t + Len(wire') + Len(unsent)
      /\ \A i \in 1 .. t : stream[start + i] = got[i - 1]
      /\ \A i \in 1 .. Len(wire') : stream[start + t + i] = wire'[i]
      /\ \A i \in 1 .. Len(unsent) : stream[start + t + Len(wire') + i] = unsent[i]
  <2>1. Filling(t, got, wire', stream, start)
    BY <1>1, Fills
  <2> QED
    BY <2>1 DEF Filling
<1>3. PICK k, L : Coming(k, L, t, got, where)
  BY <1>1, Ahead
<1>4. /\ k = Len(printed) + 1 /\ k \in 1 .. Len(lines) /\ k \in 1 .. TIMES
      /\ L \in Nat /\ L = Len(lines[k]) /\ L >= 2 /\ (Calm => L = MESSAGE)
      /\ lines[k] \in Seq(Bytes)
      /\ Starts(lines)[k] = start + L
      /\ \A i \in 1 .. L : got[i - 1] = IF i = L THEN LF ELSE IF i = L - 1 THEN CR ELSE k
      /\ where = L - 2 /\ L <= t
  <2>1. where >= 0 /\ where + 2 <= t
    BY <1>1
  <2>2. where = L - 2 /\ L <= t
    BY <1>3, <2>1 DEF Coming, Finding
  <2>3. \A i \in 1 .. L : got[i - 1] = IF i = L THEN LF ELSE IF i = L - 1 THEN CR ELSE k
    BY <1>2, <1>3, <2>2, SMTT(30) DEF Coming, BeginsWith
  <2> QED
    BY <1>1, <1>3, <2>2, <2>3 DEF Coming
<1>5. PICK d \in Nat : t = L + d /\ d < CAP
  <2>1. t - L \in Nat /\ t = L + (t - L) /\ t - L < CAP
    BY <1>2, <1>4, Consts
  <2> QED
    BY <2>1
<1>6. /\ inbuf' = d /\ buf' = Shifted(got, L, t) /\ server' = "reading"
      /\ printed' = Append(printed, Shown(got, L - 2))
      /\ UNCHANGED <<clients, clean, connections, lines, client, unsent>>
  <2>1. where + 2 = L
    BY <1>4
  <2>2. inbuf' = t - L
    <3>1. inbuf' = inbuf + (n - (where + 2))
      BY <1>1, Zenon
    <3>2. inbuf' = inbuf + (n - L)
      BY <2>1, <3>1, Zenon
    <3>3. inbuf \in Nat /\ n \in Nat /\ L \in Nat /\ t = inbuf + n
      BY <1>1, <1>4 DEF IInv, TypeOK
    <3> QED
      BY <3>2, <3>3, SMTT(30)
  <2>3. t - L = d
    BY <1>4, <1>5
  <2> QED
    BY <1>1, <1>4, <2>1, <2>2, <2>3 DEF clientVars
<1>7. /\ \A i \in Cells : i + L < t => buf'[i] = got[L + i]
      /\ \A i \in Cells : i + L >= t =>
           buf'[i] = IF i = L - 1 THEN NUL ELSE IF i = L - 2 THEN LF ELSE got[i]
      /\ buf' \in [Cells -> Bytes]
  <2>1. PICK ended : ended = [got EXCEPT ![L - 2] = LF, ![L - 1] = NUL]
    OBVIOUS
  <2>2. /\ ended \in [Cells -> Bytes]
        /\ \A i \in Cells : ended[i] = IF i = L - 1 THEN NUL ELSE IF i = L - 2 THEN LF ELSE got[i]
    <3>1. L - 1 \in Cells /\ L - 2 \in Cells /\ L - 1 # L - 2
      BY <1>2, <1>4, Consts, SMTT(30) DEF Cells
    <3> QED
      BY <1>2, <2>1, <3>1, ByteKinds
  <2>3. buf' = [i \in Cells |-> IF L + i < t THEN ended[L + i] ELSE ended[i]]
    BY <1>6, <2>1 DEF Shifted
  <2>4. \A i \in Cells : /\ i \in Nat /\ (L + i < t <=> ~(i + L >= t))
                         /\ (L + i < t => L + i \in Cells /\ L + i # L - 1 /\ L + i # L - 2)
    BY <1>2, <1>4, Consts, SMTT(30) DEF Cells
  <2>5. \A i \in Cells : buf'[i] = IF L + i < t THEN ended[L + i] ELSE ended[i]
    BY <2>3
  <2>6. \A i \in Cells : i + L < t => buf'[i] = got[L + i]
    <3> TAKE i \in Cells
    <3> HAVE i + L < t
    <3>1. L + i < t /\ L + i \in Cells /\ L + i # L - 1 /\ L + i # L - 2
      BY <1>2, <1>4, <2>4, SMTT(30)
    <3>2. buf'[i] = ended[L + i] /\ ended[L + i] = got[L + i]
      BY <2>2, <2>5, <3>1
    <3> QED
      BY <3>2
  <2>7. \A i \in Cells : i + L >= t =>
           buf'[i] = IF i = L - 1 THEN NUL ELSE IF i = L - 2 THEN LF ELSE got[i]
    <3> TAKE i \in Cells
    <3> HAVE i + L >= t
    <3>1. ~(L + i < t)
      BY <2>4
    <3> QED
      BY <2>2, <2>5, <3>1
  <2>8. buf' \in [Cells -> Bytes]
    BY <2>2, <2>3, <2>4
  <2> QED
    BY <2>6, <2>7, <2>8
<1>8. /\ lines \in Seq(Seq(Bytes)) /\ printed \in Seq(Seq(Bytes)) /\ Len(lines) \in Nat
      /\ \A j \in 1 .. Len(printed) : printed[j] = Text(j)
  BY Begins DEF IInv, PrintedInOrder
<1>9. Shown(got, L - 2) \in Seq(Bytes) /\ Shown(got, L - 2) = SubSeq(lines[k], 1, L - 2)
  <2>1. PICK line : line = lines[k]
    OBVIOUS
  <2>2. \A i \in 1 .. L : got[i - 1] = line[i]
    <3>1. \A i \in 1 .. L : line[i] = IF i = L THEN LF ELSE IF i = L - 1 THEN CR ELSE k
      BY <1>3, <1>4, <2>1 DEF Coming, IsLine
    <3> QED
      BY <1>4, <3>1, SMTT(30)
  <2>3. L - 2 \in Nat /\ L - 2 <= CAP /\ L <= CAP
    BY <1>2, <1>4, Consts, SMTT(30)
  <2>4. Shown(got, L - 2) \in Seq(Bytes)
    BY <1>2, <2>3, ShownType
  <2>5. Shown(got, L - 2) = SubSeq(line, 1, L - 2)
    BY <1>2, <1>4, <2>1, <2>2, <2>3, ShownText
  <2> QED
    BY <2>1, <2>4, <2>5
<1>10. /\ printed' \in Seq(Seq(Bytes)) /\ Len(printed') = k
       /\ \A j \in 1 .. Len(printed) : printed'[j] = printed[j]
       /\ printed'[k] = Shown(got, L - 2)
  <2>1. PICK p : p = Shown(got, L - 2) /\ p \in Seq(Bytes)
    BY <1>9
  <2> QED
    BY <1>4, <1>6, <1>8, <2>1
<1>11. TypeOK'
  <2>1. inbuf' \in 0 .. CAP
    BY <1>5, <1>6, Consts
  <2>2. server' \in {"accepting", "reading", "crashed"}
    BY <1>6
  <2> QED
    BY <1>2, <1>6, <1>7, <1>10, <2>1, <2>2, Zenon DEF IInv, TypeOK
<1>12. Lined'
  BY <1>6, Zenon DEF IInv, Lined
<1>13. PrintedInOrder'
  <2>1. ASSUME NEW j \in 1 .. k PROVE printed'[j] = SubSeq(lines[j], 1, Len(lines[j]) - 2)
    <3>1. CASE j = k
      BY <1>4, <1>9, <1>10, <3>1
    <3>2. CASE j # k
      <4>1. j \in 1 .. Len(printed)
        BY <1>4, <1>8, <3>2
      <4> QED
        BY <1>8, <1>10, <4>1, Zenon DEF Text
    <3> QED
      BY <3>1, <3>2
  <2>2. \A j \in 1 .. Len(printed') : printed'[j] = SubSeq(lines'[j], 1, Len(lines'[j]) - 2)
    BY <1>6, <1>10, <2>1
  <2>3. Len(printed') <= Len(lines')
    BY <1>4, <1>6, <1>8, <1>10
  <2> QED
    BY <2>2, <2>3, Zenon DEF PrintedInOrder, Text
<1>14. InStream' /\ Gone'
  <2>1. PICK after : after = start + L
    OBVIOUS
  <2>2. after \in Nat /\ start + t = after + d
    BY <1>2, <1>4, <1>5, <2>1
  <2>3. ASSUME NEW i \in 1 .. d PROVE stream[after + i] = buf'[i - 1]
    <3>1. i - 1 \in Cells /\ (i - 1) + L < t
      BY <1>2, <1>4, <1>5, Consts DEF Cells
    <3>2. buf'[i - 1] = got[L + (i - 1)]
      BY <1>7, <3>1
    <3>3. PICK j \in 1 .. t : j = L + i /\ j - 1 = L + (i - 1) /\ start + j = after + i
      <4>1. t \in Nat /\ L \in Nat /\ start \in Nat /\ t = L + d
        BY <1>2, <1>4, <1>5
      <4>2. L + i \in 1 .. t /\ (L + i) - 1 = L + (i - 1) /\ start + (L + i) = after + i
        BY <2>1, <4>1
      <4> QED
        BY <4>2
    <3>4. stream[start + j] = got[j - 1]
      BY <1>2
    <3> QED
      BY <3>2, <3>3, <3>4
  <2>4. /\ Len(stream) = after + d + Len(wire') + Len(unsent)
        /\ \A i \in 1 .. Len(wire') : stream[after + d + i] = wire'[i]
        /\ \A i \in 1 .. Len(unsent) : stream[after + d + Len(wire') + i] = unsent[i]
    BY <1>2, <2>2
  <2>5. Rest(stream, after)'
    BY <1>6, <2>3, <2>4 DEF Rest
  <2>6. FlattenSeq(lines') = stream /\ Starts(lines')[Len(printed')] = after
    BY <1>1, <1>4, <1>6, <1>10, <2>1
  <2> QED
    BY <1>2, <1>6, <2>5, <2>6 DEF InStream, Gone
<1>15. TooLong'
  BY <1>5, <1>6, Consts DEF TooLong
<1>16. Aligned'
  <2> SUFFICES ASSUME Calm
               PROVE  /\ d < MESSAGE
                      /\ buf'[MESSAGE - 1] \notin {CR, LF}
                      /\ d < MESSAGE - 1 => buf'[MESSAGE - 2] # CR
                      /\ \A i \in 0 .. MESSAGE - 3 : buf'[i] # CR
    BY <1>6 DEF Aligned, Calm
  <2>1. L = MESSAGE
    BY <1>4
  <2>2. d < MESSAGE /\ \A i \in 0 .. MESSAGE - 1 : i \in Cells
    BY <1>2, <1>5, <2>1, Consts DEF Cells
  <2>3. buf'[MESSAGE - 1] = NUL
    <3>1. MESSAGE - 1 \in Cells /\ (MESSAGE - 1) + L >= t
      BY <1>2, <2>1, <2>2, Consts
    <3> QED
      BY <1>7, <2>1, <3>1
  <2>4. ASSUME d < MESSAGE - 1 PROVE buf'[MESSAGE - 2] = LF
    <3>1. MESSAGE - 2 \in Cells /\ (MESSAGE - 2) + L >= t /\ MESSAGE - 2 # MESSAGE - 1
      BY <1>2, <1>5, <2>1, <2>2, <2>4, Consts
    <3> QED
      BY <1>7, <2>1, <3>1
  <2>5. ASSUME NEW i \in 0 .. MESSAGE - 3 PROVE buf'[i] # CR
    <3>1. i \in Cells /\ i # L - 1 /\ i # L - 2
      BY <2>1, <2>2, Consts
    <3>2. CASE i + L >= t
      <4>1. buf'[i] = got[i]
        BY <1>7, <3>1, <3>2
      <4>2. PICK j \in 1 .. L : j = i + 1 /\ j - 1 = i /\ j # L /\ j # L - 1
        BY <2>1, Consts
      <4>3. got[i] = k
        BY <1>4, <4>2
      <4> QED
        BY <1>4, <4>1, <4>3, ByteKinds
    <3>3. CASE i + L < t
      <4>1. buf'[i] = got[L + i]
        BY <1>7, <3>1, <3>3
      <4>2. PICK j \in 1 .. t : j = L + i + 1 /\ j - 1 = L + i /\ start + j = (start + L) + (i + 1)
        <5>1. t \in Nat /\ L \in Nat /\ start \in Nat /\ i \in Nat
          BY <1>2, <1>4, Consts
        <5>2. L + i + 1 \in 1 .. t /\ (L + i + 1) - 1 = L + i /\ start + (L + i + 1) = (start + L) + (i + 1)
          BY <3>3, <5>1
        <5> QED
          BY <5>2
      <4>3. stream[(start + L) + (i + 1)] = got[L + i]
        BY <1>2, <4>2
      <4>4. start + L < Len(stream) /\ k \in 0 .. Len(lines)
        <5>1. Len(wire') \in Nat /\ Len(unsent) \in Nat
          BY <1>2, SMTT(30) DEF IInv, TypeOK
        <5>2. PICK len, a, b : len = Len(stream) /\ a = Len(wire') /\ b = Len(unsent)
          OBVIOUS
        <5>3. /\ len = start + t + a + b /\ a \in Nat /\ b \in Nat
              /\ t \in Nat /\ start \in Nat /\ L \in Nat /\ i \in Nat
          BY <1>2, <1>4, <5>1, <5>2, Consts
        <5>4. start + L < len
          BY <3>3, <5>3
        <5>5. k \in 0 .. Len(lines)
          BY <1>4
        <5> QED
          BY <5>2, <5>4, <5>5
      <4>5. PICK next \in 1 .. Len(lines) :
              /\ next \in 1 .. TIMES /\ Len(lines[next]) = MESSAGE /\ IsLine(lines[next], next)
              /\ \A x \in 1 .. Len(lines[next]) : stream[start + L + x] = lines[next][x]
        <5>1. server # "crashed" /\ Starts(lines)[k] < Len(FlattenSeq(lines)) /\ Starts(lines)[k] = start + L
          BY <1>1, <1>4, <4>4
        <5> QED
          BY <1>1, <4>4, <5>1, NextLine
      <4>6. PICK x \in 1 .. MESSAGE : x = i + 1 /\ x # MESSAGE /\ x # MESSAGE - 1
        BY Consts
      <4>7. got[L + i] = lines[next][x] /\ lines[next][x] = next
        BY <4>3, <4>5, <4>6 DEF IsLine
      <4> QED
        BY <4>1, <4>5, <4>7, ByteKinds
    <3> QED
      BY <1>2, <1>4, <3>2, <3>3, SMTT(30)
  <2> QED
    BY <2>2, <2>3, <2>4, <2>5, ByteKinds
<1> QED
  BY <1>11, <1>12, <1>13, <1>14, <1>15, <1>16 DEF IInv

\* The newline found ends beyond the received bytes.
LEMMA ReadCrash ==
  ASSUME IInv, server = "reading", NEW n \in 1 .. Smaller(room, Len(wire)),
         find_network_newline(Filled(n), inbuf + n) >= 0,
         ~(find_network_newline(Filled(n), inbuf + n) + 2 <= inbuf + n),
         wire' = SubSeq(wire, n + 1, Len(wire)),
         printed' = Append(printed, Shown(Filled(n), find_network_newline(Filled(n), inbuf + n))),
         server' = "crashed", UNCHANGED <<clientVars, buf, inbuf>>
  PROVE  IInv'
<1>1. PICK t, got, where, stream, start :
        /\ t = inbuf + n /\ got = Filled(n) /\ where = find_network_newline(got, t)
        /\ stream = FlattenSeq(lines) /\ start = Starts(lines)[Len(printed)]
  OBVIOUS
<1>2. /\ t \in Nat /\ inbuf < t /\ t <= CAP /\ client # "reset"
      /\ got \in [Cells -> Bytes] /\ \A i \in Cells : i >= t => got[i] = buf[i]
      /\ wire' \in Seq(Bytes)
  <2>1. Filling(t, got, wire', stream, start)
    BY <1>1, Fills
  <2> QED
    BY <2>1 DEF Filling
<1>3. PICK k, L : Coming(k, L, t, got, where)
  BY <1>1, Ahead
<1>4. /\ k \in 1 .. TIMES /\ L \in Nat /\ L >= 2 /\ (Calm => L = MESSAGE)
      /\ \A i \in 1 .. L : i <= t => got[i - 1] = IF i = L THEN LF ELSE IF i = L - 1 THEN CR ELSE k
      /\ where \in Int /\ where >= 0 /\ where <= t
      /\ t < L /\ got[where] = CR /\ (where = t \/ (where = t - 1 /\ got[t] = LF))
  <2>1. where \in Int /\ where >= 0 /\ ~(where + 2 <= t)
    BY <1>1, <1>3 DEF Coming, Finding
  <2>2. where + 2 > t
    BY <1>2, <2>1
  <2> QED
    BY <1>3, <2>1, <2>2 DEF Coming, BeginsWith, Finding
<1>5. ~Calm
  <2> SUFFICES ASSUME Calm PROVE FALSE
    OBVIOUS
  <2>1. L = MESSAGE /\ t < MESSAGE /\ inbuf \in Nat
    BY <1>4 DEF IInv, TypeOK
  <2>2. /\ buf[MESSAGE - 1] \notin {CR, LF}
        /\ inbuf < MESSAGE - 1 => buf[MESSAGE - 2] # CR
        /\ \A i \in 0 .. MESSAGE - 3 : buf[i] # CR
    BY DEF IInv, Aligned
  <2>3. t \in Cells /\ got[t] = buf[t]
    BY <1>2, <2>1, Consts DEF Cells
  <2>4. CASE where = t
    <3>1. buf[t] = CR
      BY <1>4, <2>3, <2>4
    <3>2. t = MESSAGE - 1 \/ (t = MESSAGE - 2 /\ inbuf < MESSAGE - 1) \/ t \in 0 .. MESSAGE - 3
      BY <1>2, <2>1, Consts
    <3> QED
      BY <2>2, <3>1, <3>2
  <2>5. CASE where # t
    <3>1. where = t - 1 /\ buf[t] = LF /\ got[t - 1] = CR
      BY <1>4, <2>3, <2>5
    <3>2. t \in 1 .. L /\ t # L
      BY <1>2, <2>1, Consts
    <3>3. CR = IF t = L - 1 THEN CR ELSE k
      BY <1>2, <1>4, <3>1, <3>2
    <3>4. t = MESSAGE - 1
      BY <1>4, <2>1, <3>3, ByteKinds
    <3> QED
      BY <2>2, <3>1, <3>4
  <2> QED
    BY <2>4, <2>5
<1>6. UNCHANGED <<clients, clean, connections, lines, client, unsent, buf, inbuf>>
  BY DEF clientVars
<1>7. TypeOK'
  <2>1. where \in Nat /\ where <= CAP
    BY <1>2, <1>4, Consts
  <2>2. Shown(got, where) \in Seq(Bytes)
    BY <1>2, <2>1, ShownType
  <2>3. printed' = Append(printed, Shown(got, where))
    BY <1>1
  <2>4. printed' \in Seq(Seq(Bytes))
    <3>1. printed \in Seq(Seq(Bytes))
      BY DEF IInv, TypeOK
    <3> QED
      BY <2>2, <2>3, <3>1
  <2>5. server' \in {"accepting", "reading", "crashed"}
    OBVIOUS
  <2> QED
    BY <1>2, <1>6, <2>4, <2>5, Zenon DEF IInv, TypeOK
<1>8. Lined'
  BY <1>6, Zenon DEF IInv, Lined
<1>9. PrintedInOrder' /\ InStream' /\ TooLong'
  BY DEF PrintedInOrder, InStream, TooLong
<1>10. Gone' /\ Aligned'
  BY <1>2, <1>5, <1>6, Zenon DEF Gone, Aligned, Calm
<1> QED
  BY <1>7, <1>8, <1>9, <1>10 DEF IInv

LEMMA ReadKeeps == IInv /\ Read => IInv'
<1> SUFFICES ASSUME IInv, Read PROVE IInv'
  OBVIOUS
<1>1. PICK n \in 1 .. Smaller(room, Len(wire)) : ReadBytes(n)
  BY DEF Read
<1>2. PICK t, got, where : t = inbuf + n /\ got = Filled(n) /\ where = find_network_newline(got, t)
  OBVIOUS
<1>3. server = "reading" /\ wire' = SubSeq(wire, n + 1, Len(wire))
  BY <1>1 DEF ReadBytes
<1>4. CASE /\ where < 0 /\ buf' = got /\ inbuf' = t
           /\ UNCHANGED <<clientVars, server, printed>>
  BY <1>2, <1>3, <1>4, ReadNoLine
<1>5. CASE /\ where >= 0 /\ where + 2 <= t
           /\ printed' = Append(printed, Shown(got, where))
           /\ inbuf' = inbuf + n - (where + 2) /\ buf' = Shifted(got, where + 2, t)
           /\ server' = server /\ UNCHANGED clientVars
  BY <1>2, <1>3, <1>5, ReadLine
<1>6. CASE /\ where >= 0 /\ ~(where + 2 <= t)
           /\ printed' = Append(printed, Shown(got, where))
           /\ server' = "crashed" /\ UNCHANGED <<clientVars, buf, inbuf>>
  BY <1>2, <1>3, <1>6, ReadCrash
<1> QED
  BY <1>1, <1>2, <1>4, <1>5, <1>6, Zenon DEF ReadBytes

-----------------------------------------------------------------------------
(* Theorems                                                                *)

LEMMA NextKeeps == IInv /\ [Next]_vars => IInv'
<1> SUFFICES ASSUME IInv, [Next]_vars PROVE IInv'
  OBVIOUS
<1>1. CASE Accept
  BY <1>1, AcceptKeeps
<1>2. CASE WritePiece
  BY <1>2, WritePieceKeeps
<1>3. CASE ClientCloses
  BY <1>3, ClientClosesKeeps
<1>4. CASE ConnectionReset
  BY <1>4, ConnectionResetKeeps
<1>5. CASE Read
  BY <1>5, ReadKeeps
<1>6. CASE CloseConnection
  BY <1>6, CloseConnectionKeeps
<1>7. CASE UNCHANGED vars
  <2>1. UNCHANGED <<clients, clean, connections, lines, client, unsent, wire, server, buf, inbuf, printed>>
    BY <1>7 DEF vars, clientVars
  <2>2. TypeOK'
    BY <2>1 DEF IInv, TypeOK
  <2>3. Lined' /\ PrintedInOrder' /\ TooLong' /\ Aligned'
    BY <2>1, Zenon DEF IInv, Lined, PrintedInOrder, Text, TooLong, Aligned, Calm
  <2>4. InStream' /\ Gone'
    BY <2>1, Zenon DEF IInv, InStream, Rest, Gone
  <2> QED
    BY <2>2, <2>3, <2>4 DEF IInv
<1> QED
  BY <1>1, <1>2, <1>3, <1>4, <1>5, <1>6, <1>7 DEF Next

\* The invariant the others follow from holds in every state.
THEOREM Invariant == Spec => []IInv
<1>1. Init => IInv
  BY InitHolds
<1>2. IInv /\ [Next]_vars => IInv'
  BY NextKeeps
<1> QED
  BY <1>1, <1>2, PTL DEF Spec

\* Every variable keeps its type: inbuf stays between 0 and the size of the
\* buffer as long as the server lives, and the bytes it shifts are bytes
\* (bufserver.c:84-135).
THEOREM TypeCorrect == Spec => []TypeOK
<1>1. IInv => TypeOK
  BY DEF IInv
<1> QED
  BY <1>1, Invariant, PTL

\* Whatever the sizes of the buffer, the lines, the pieces and the reads, and
\* whatever bytes the memory held at first, what is printed is the text of the
\* first lines sent, whole, once each and in order (bufserver.c:94-135).
THEOREM LinesInOrder == Spec => []PrintedInOrder
<1>1. IInv => PrintedInOrder
  BY DEF IInv
<1> QED
  BY <1>1, Invariant, PTL

\* For the program's own client one line per read is enough: after each read
\* no whole line is left in the buffer (bufserver.c:101).
THEOREM NoLineLeft == Spec => []NoLineWaits
<1>1. IInv => NoLineWaits
  <2> SUFFICES ASSUME IInv, Calm, server = "reading", HoldsLine(Received(buf, inbuf))
               PROVE  FALSE
    BY DEF NoLineWaits
  <2>1. inbuf \in Nat /\ inbuf < MESSAGE /\ \A i \in 0 .. MESSAGE - 3 : buf[i] # CR
    BY DEF IInv, TypeOK, Aligned
  <2>2. PICK bytes : bytes = Received(buf, inbuf)
    OBVIOUS
  <2>3. bytes = [i \in 1 .. inbuf |-> buf[i - 1]]
    BY <2>2 DEF Received
  <2>4. Len(bytes) = inbuf
    BY <2>1, <2>3
  <2>5. PICK i \in 1 .. inbuf - 1 : bytes[i] = CR
    BY <2>2, <2>4 DEF HoldsLine
  <2>6. buf[i - 1] = CR /\ i - 1 \in 0 .. MESSAGE - 3
    BY <2>1, <2>3, <2>5, Consts
  <2> QED
    BY <2>1, <2>6
<1> QED
  BY <1>1, Invariant, PTL

\* With the program's own client the search, which looks one byte past the
\* received ones (bufserver.c:58), never takes a leftover byte for the end of a
\* line, so that inbuf stays non-negative.
THEOREM NoCrash == Spec => []CalmNeverCrashes
<1>1. IInv => CalmNeverCrashes
  BY DEF IInv, Aligned, CalmNeverCrashes
<1> QED
  BY <1>1, Invariant, PTL

\* The server takes a full buffer for the end of the stream
\* (bufserver.c:94,131) only when a line is longer than the buffer.
THEOREM ClosedOnlyForLong == Spec => ClosedEarlyOnlyForLongLine
<1> DEFINE Early == server = "reading" /\ server' = "accepting" /\ client = "sending"
                      => \E k \in 1 .. Len(lines) : Len(lines[k]) > CAP
<1>1. IInv /\ [Next]_vars => [Early]_vars
  <2> SUFFICES ASSUME IInv, [Next]_vars, server = "reading", server' = "accepting", client = "sending"
               PROVE  \E k \in 1 .. Len(lines) : Len(lines[k]) > CAP
    OBVIOUS
  <2>1. ~(UNCHANGED vars) /\ ~Accept /\ ~WritePiece /\ ~ClientCloses /\ ~ConnectionReset
    BY DEF vars, Accept, WritePiece, ClientCloses, ConnectionReset
  <2>2. ~Read
    BY DEF Read, ReadBytes
  <2>3. CloseConnection
    BY <2>1, <2>2 DEF Next
  <2>4. inbuf = CAP
    <3>1. room = 0
      BY <2>3 DEF CloseConnection, AtEnd
    <3> QED
      BY <3>1, Consts DEF room, IInv, TypeOK
  <2> QED
    BY <2>4 DEF IInv, TooLong
<1> QED
  BY <1>1, Invariant, PTL DEF Spec, ClosedEarlyOnlyForLongLine
=============================================================================
