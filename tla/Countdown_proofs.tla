-------------------------- MODULE Countdown_proofs --------------------------
(***************************************************************************)
(* Proofs about Countdown for every size of a byte, start, inputs and      *)
(* bounds.                                                                 *)
(***************************************************************************)
EXTENDS Countdown, SequenceTheorems, TLAPS

Shorts == 0 .. Short - 1

(***************************************************************************)
(* The numbers on the wire continue the last one shown, each with or       *)
(* without a reset in between, and the counter continues them.  What the   *)
(* client has asked for is the only source of resets.  When the server     *)
(* explodes the 0 is the last of them; a client that closes has shown them *)
(* all, for it finds its socket ready with nothing to read only when the   *)
(* server is gone.  A line is typed only while the user types more.        *)
(***************************************************************************)
Before(i) == IF i = 1 THEN shown ELSE ntohs(toClient[i - 1])
LatestSent == Before(Len(toClient) + 1)

Follow ==
  client = "up" =>
    \A i \in 1 .. Len(toClient) : ntohs(toClient[i]) + 1 \in {Before(i)} \cup asked
CounterFollows == client = "up" /\ Up => counter \in {LatestSent} \cup asked
Requested == \A i \in 1 .. Len(toServer) : ntohs(toServer[i]) \in asked
StdinSpoke == "stdin" \in ready => eof \/ typed < MaxTyped
SocketSpoke == "socket" \in ready => toClient # <<>> \/ ~Up
ClosedLater == client = "closed" => ~Up
ZeroLast ==
  server = "exploded" /\ ~broken =>
    /\ client = "up" => LatestSent = 0
    /\ client = "closed" => shown = 0

Chain == Follow /\ CounterFollows /\ Requested
Ending == SocketSpoke /\ ClosedLater /\ ZeroLast
IInv == TypeOK /\ Chain /\ Ending /\ StdinSpoke

-----------------------------------------------------------------------------
(* Lemmas about the conversions                                            *)

\* A byte has at least two values.
LEMMA ShortIsPositive == Byte \in Nat /\ Byte >= 2 /\ Short \in Nat /\ Short >= 4
<1>1. Byte \in Nat /\ Byte >= 2
  BY CountdownAssumption
<1>2. Byte * Byte >= 2 * 2
  BY <1>1, SMT
<1> QED
  BY <1>1, <1>2, SMT DEF Short

\* Two bytes make a number of 16 bits.
LEMMA TwoBytes ==
  ASSUME NEW hi \in 0 .. Byte - 1, NEW lo \in 0 .. Byte - 1
  PROVE  /\ hi * Byte + lo \in Shorts
         /\ (hi * Byte + lo) % Byte = lo
         /\ (hi * Byte + lo) \div Byte = hi
<1>1. Byte \in Nat /\ Byte >= 2
  BY ShortIsPositive
<1>2. hi * Byte <= (Byte - 1) * Byte /\ hi * Byte >= 0
  BY <1>1, SMT
<1>3. (Byte - 1) * Byte + Byte = Byte * Byte
  BY <1>1, SMT
<1>4. hi * Byte + lo \in Shorts
  BY <1>1, <1>2, <1>3, SMT DEF Shorts, Short
<1>5. (hi * Byte + lo) \div Byte = hi
  BY <1>1, SMT
<1>6. (hi * Byte + lo) % Byte = lo
  BY <1>1, SMT
<1> QED
  BY <1>4, <1>5, <1>6

\* Any number of 16 bits is two bytes.
LEMMA BytesOf ==
  ASSUME NEW s \in Shorts
  PROVE  /\ s % Byte \in 0 .. Byte - 1
         /\ s \div Byte \in 0 .. Byte - 1
         /\ (s \div Byte) * Byte + (s % Byte) = s
<1>1. Byte \in Nat /\ Byte >= 2 /\ s \in Nat /\ s < Byte * Byte
  BY ShortIsPositive DEF Shorts, Short
<1>2. s % Byte \in 0 .. Byte - 1
  BY <1>1, SMT
<1>3. (s \div Byte) * Byte + (s % Byte) = s
  BY <1>1, SMT
<1>4. s \div Byte \in Nat
  BY <1>1, SMT
<1>5. s \div Byte < Byte
  BY <1>1, <1>2, <1>3, <1>4, SMT
<1> QED
  BY <1>1, <1>2, <1>3, <1>4, <1>5

\* The low 16 bits of a number are a number of 16 bits, and themselves.
LEMMA LowBits ==
  /\ \A x \in Int : x % Short \in Shorts
  /\ \A s \in Shorts : s % Short = s
BY ShortIsPositive, SMT DEF Shorts

\* htons makes 16 bits of any number, and ntohs gets back its low ones.
LEMMA SwapTwice ==
  ASSUME NEW x \in Int
  PROVE  htons(x) \in Shorts /\ ntohs(htons(x)) = x % Short
<1> DEFINE s == x % Short
           hi == s \div Byte
           lo == s % Byte
<1>1. s \in Shorts
  BY LowBits
<1>2. lo \in 0 .. Byte - 1 /\ hi \in 0 .. Byte - 1 /\ hi * Byte + lo = s
  BY <1>1, BytesOf
<1>3. htons(x) = lo * Byte + hi
  BY DEF htons, Swap
<1> HIDE DEF s, hi, lo
<1>4. htons(x) \in Shorts /\ htons(x) % Byte = hi /\ htons(x) \div Byte = lo
  BY <1>2, <1>3, TwoBytes
<1>5. htons(x) % Short = htons(x)
  BY <1>4, LowBits
<1>6. ntohs(htons(x)) = hi * Byte + lo
  BY <1>4, <1>5 DEF ntohs, Swap
<1> QED
  BY <1>2, <1>4, <1>6 DEF s

\* ntohs makes 16 bits of any number.
LEMMA NtohsType ==
  ASSUME NEW x \in Int
  PROVE  ntohs(x) \in Shorts
BY SwapTwice DEF htons, ntohs

\* The types, with the numbers of 16 bits named.
LEMMA Types ==
  TypeOK <=>
    /\ server \in {"up", "exploded", "exited"}
    /\ counter \in Shorts
    /\ client \in {"up", "closed", "killed"}
    /\ ready \subseteq {"stdin", "socket"}
    /\ shown \in Shorts
    /\ typed \in 0 .. MaxTyped
    /\ eof \in BOOLEAN
    /\ line \in Numbers \cup {NoNumber}
    /\ asked \subseteq Shorts
    /\ toServer \in Seq(Shorts)
    /\ toClient \in Seq(Shorts)
    /\ broken \in BOOLEAN
BY Zenon DEF TypeOK, Shorts

\* Numbers of 16 bits are numbers.
LEMMA ShortsAreNumbers == Shorts \subseteq Nat /\ Shorts \subseteq Int /\ 0 \in Shorts
BY ShortIsPositive DEF Shorts

-----------------------------------------------------------------------------
(* Lemmas about the wire                                                   *)

\* The part of a sequence that is not lost: its beginning.
LEMMA Beginning ==
  ASSUME NEW s \in Seq(Shorts), NEW n \in 0 .. Len(s)
  PROVE  /\ SubSeq(s, 1, n) \in Seq(Shorts)
         /\ Len(SubSeq(s, 1, n)) = n
         /\ \A i \in 1 .. n : SubSeq(s, 1, n)[i] = s[i]
         /\ n = Len(s) => SubSeq(s, 1, n) = s
<1>1. Len(s) \in Nat /\ \A i \in 1 .. n : s[i] \in Shorts
  BY LenProperties
<1>2. /\ SubSeq(s, 1, n) \in Seq(Shorts)
      /\ Len(SubSeq(s, 1, n)) = IF 1 <= n THEN n - 1 + 1 ELSE 0
      /\ \A i \in 1 .. n - 1 + 1 : SubSeq(s, 1, n)[i] = s[1 + i - 1]
  BY <1>1, SubSeqProperties
<1>3. n = Len(s) => SubSeq(s, 1, n) = s
  BY SubSeqFull
<1>4. \A i \in 1 .. n : SubSeq(s, 1, n)[i] = s[i]
  BY <1>1, <1>2
<1> QED
  BY <1>1, <1>2, <1>3, <1>4

\* What is left of the numbers to the client when the server ends.
LEMMA ServerLeaves ==
  ASSUME TypeOK, NEW how, NEW sent \in Seq(Shorts), ServerEnds(how, sent)
  PROVE  /\ toClient' \in Seq(Shorts)
         /\ Len(toClient') <= Len(sent)
         /\ \A i \in 1 .. Len(toClient') : toClient'[i] = sent[i]
         /\ ~broken' => toClient' = sent /\ ~broken
         /\ toServer' = <<>> /\ server' = how /\ broken' \in BOOLEAN
<1>1. PICK n \in (IF broken' THEN 0 ELSE Len(sent)) .. Len(sent) :
        toClient' = SubSeq(sent, 1, n)
  BY DEF ServerEnds
<1>2. Len(sent) \in Nat
  BY LenProperties
<1>3. n \in 0 .. Len(sent) /\ (~broken' => n = Len(sent))
  BY <1>1, <1>2
<1>4. broken' \in BOOLEAN /\ (~broken' => ~broken)
  BY DEF ServerEnds, TypeOK
<1> QED
  BY <1>1, <1>2, <1>3, <1>4, Beginning DEF ServerEnds

\* What is left of the numbers to the server when the client ends.
LEMMA ClientLeaves ==
  ASSUME TypeOK, NEW how \in {"closed", "killed"}, ClientEnds(how)
  PROVE  /\ toServer' \in Seq(Shorts)
         /\ Len(toServer') <= Len(toServer)
         /\ \A i \in 1 .. Len(toServer') : toServer'[i] = toServer[i]
         /\ ~broken' => ~broken
         /\ toClient' = <<>> /\ client' = how /\ ready' = {} /\ broken' \in BOOLEAN
<1>1. PICK n \in (IF broken' THEN 0 ELSE Len(toServer)) .. Len(toServer) :
        toServer' = SubSeq(toServer, 1, n)
  BY DEF ClientEnds
<1>2. toServer \in Seq(Shorts) /\ Len(toServer) \in Nat
  BY LenProperties DEF TypeOK, Shorts
<1>3. n \in 0 .. Len(toServer)
  BY <1>1, <1>2
<1>4. broken' \in BOOLEAN /\ (~broken' => ~broken)
  BY DEF ClientEnds, TypeOK
<1> QED
  BY <1>1, <1>2, <1>3, <1>4, Beginning DEF ClientEnds

\* A number sent is one of 16 bits at the end of the sequence.
LEMMA SentOne ==
  ASSUME NEW s \in Seq(Shorts), NEW n \in Int
  PROVE  /\ Append(s, htons(n)) \in Seq(Shorts)
         /\ Len(Append(s, htons(n))) = Len(s) + 1
         /\ \A i \in 1 .. Len(s) : Append(s, htons(n))[i] = s[i]
         /\ ntohs(Append(s, htons(n))[Len(s) + 1]) = n % Short
<1>1. htons(n) \in Shorts
  BY SwapTwice
<1>2. Append(s, htons(n))[Len(s) + 1] = htons(n)
  BY <1>1, AppendProperties
<1> QED
  BY <1>1, <1>2, AppendProperties, SwapTwice

\* The first number of a sequence and the others.
LEMMA FirstAndRest ==
  ASSUME NEW s \in Seq(Shorts), s # <<>>
  PROVE  /\ Head(s) = s[1] /\ s[1] \in Int /\ Len(s) \in Nat /\ Len(s) >= 1
         /\ Tail(s) \in Seq(Shorts) /\ Len(Tail(s)) = Len(s) - 1
         /\ \A i \in 1 .. Len(Tail(s)) : Tail(s)[i] = s[i + 1]
<1>1. Len(s) \in Nat /\ Len(s) >= 1
  BY EmptySeq
<1>2. s[1] \in Int
  <2>1. s \in [1 .. Len(s) -> Shorts]
    BY LenProperties
  <2>2. 1 \in 1 .. Len(s)
    BY <1>1
  <2>3. s[1] \in Shorts
    BY <2>1, <2>2, Zenon
  <2> QED
    BY <2>3, ShortsAreNumbers, Zenon
<1>3. Head(s) = s[1]
  BY <1>1
<1> QED
  BY <1>1, <1>2, <1>3, HeadTailProperties

-----------------------------------------------------------------------------
(* The invariant                                                           *)

\* It holds at the start.
LEMMA Initially == Init => IInv
<1> SUFFICES ASSUME Init PROVE IInv
  OBVIOUS
<1>1. START \in Shorts /\ Len(<<>>) = 0 /\ <<>> \in Seq(Shorts)
  BY CountdownAssumption, ShortIsPositive DEF Shorts, Short
<1>2. TypeOK
  <2>1. typed \in 0 .. MaxTyped
    BY CountdownAssumption DEF Init
  <2>2. eof \in BOOLEAN /\ broken \in BOOLEAN
    BY DEF Init
  <2> QED
    BY <1>1, <2>1, <2>2, Types, Zenon DEF Init
<1>3. LatestSent = START
  BY <1>1 DEF Init, LatestSent, Before
<1>4. Chain
  BY <1>1, <1>3 DEF Init, Chain, Follow, CounterFollows, Requested
<1>5. Ending /\ StdinSpoke
  BY DEF Init, Ending, SocketSpoke, ClosedLater, ZeroLast, StdinSpoke
<1> QED
  BY <1>2, <1>4, <1>5 DEF IInv

\* A tick: the number sent continues the last one sent, and is the last one
\* if it is 0.
LEMMA TickPreserves == IInv /\ Tick => IInv'
<1> SUFFICES ASSUME IInv, Tick PROVE IInv'
  OBVIOUS
<1> DEFINE sent == Sent(counter - 1)
<1>1. /\ counter \in Nat /\ counter - 1 \in Shorts
      /\ toClient \in Seq(Shorts) /\ Len(toClient) \in Nat
  BY ShortIsPositive, LenProperties DEF IInv, TypeOK, Tick, Shorts
<1>2. /\ sent \in Seq(Shorts)
      /\ client = "up" => /\ Len(sent) = Len(toClient) + 1
                          /\ \A i \in 1 .. Len(toClient) : sent[i] = toClient[i]
                          /\ ntohs(sent[Len(sent)]) = counter - 1
  <2>1. CASE client = "up"
    <3>1. counter - 1 \in Int /\ (counter - 1) % Short = counter - 1
      BY <1>1, ShortsAreNumbers, LowBits
    <3>2. sent = Append(toClient, htons(counter - 1))
      BY <2>1 DEF Sent
    <3> QED
      BY <1>1, <3>1, <3>2, SentOne
  <2>2. CASE client # "up"
    BY <1>1, <2>2 DEF Sent
  <2> QED
    BY <2>1, <2>2
<1>3. /\ toClient' \in Seq(Shorts) /\ Len(toClient') \in Nat
      /\ Len(toClient') <= Len(sent)
      /\ \A i \in 1 .. Len(toClient') : toClient'[i] = sent[i]
      /\ ~broken' \/ server' = "up" => toClient' = sent
      /\ toServer' \in {toServer, <<>>} /\ server' \in {"up", "exploded"}
      /\ broken' \in BOOLEAN /\ (~broken' => ~broken)
  <2>1. CASE counter' <= 0
    BY <1>2, <2>1, ServerLeaves, LenProperties DEF IInv, Tick
  <2>2. CASE ~(counter' <= 0)
    BY <1>2, <2>2, LenProperties DEF IInv, Tick, TypeOK, Up
  <2> QED
    BY <2>1, <2>2
<1>4. /\ Up /\ counter' = counter - 1
      /\ server' = "exploded" => counter' = 0
      /\ UNCHANGED clientVars
  <2>1. Up /\ counter' = counter - 1 /\ UNCHANGED clientVars
    BY DEF Tick
  <2>2. server' = "exploded" => counter' <= 0
    BY DEF Tick, Up
  <2> QED
    BY <1>1, <2>1, <2>2, ShortIsPositive DEF Shorts
<1>5. TypeOK'
  <2>1. toServer' \in Seq(Shorts)
    BY <1>3, Types, EmptySeq DEF IInv
  <2>2. server' \in {"up", "exploded", "exited"} /\ counter' \in Shorts
    BY <1>1, <1>3, <1>4
  <2> QED
    BY <1>3, <1>4, <2>1, <2>2, Types DEF IInv, TypeOK, clientVars, Shorts
<1>6. \A i \in 1 .. Len(toClient') : client = "up" => Before(i)' = Before(i)
  BY <1>1, <1>2, <1>3, <1>4 DEF Before, clientVars
<1>7. Follow'
  <2> SUFFICES ASSUME client = "up", NEW i \in 1 .. Len(toClient')
               PROVE  ntohs(toClient'[i]) + 1 \in {Before(i)} \cup asked
    BY <1>4, <1>6 DEF Follow, clientVars
  <2>1. CASE i <= Len(toClient)
    BY <1>1, <1>2, <1>3, <2>1 DEF IInv, Chain, Follow
  <2>2. CASE i > Len(toClient)
    <3>1. i = Len(sent) /\ i = Len(toClient) + 1 /\ toClient'[i] = sent[i]
      BY <1>1, <1>2, <1>3, <2>2
    <3>2. ntohs(toClient'[i]) + 1 = counter
      BY <1>1, <1>2, <3>1, ShortIsPositive DEF Shorts, IInv, TypeOK
    <3> QED
      BY <1>4, <3>1, <3>2 DEF IInv, Chain, CounterFollows, LatestSent
  <2> QED
    BY <1>1, <2>1, <2>2
<1>8. client = "up" /\ (~broken' \/ server' = "up") => LatestSent' = counter'
  <2> SUFFICES ASSUME client = "up", ~broken' \/ server' = "up"
               PROVE  LatestSent' = counter'
    OBVIOUS
  <2>1. toClient' = sent /\ Len(toClient') = Len(toClient) + 1
    BY <1>2, <1>3
  <2>2. LatestSent' = ntohs(toClient'[Len(toClient')])
    BY <1>1, <2>1 DEF LatestSent, Before
  <2> QED
    BY <1>2, <1>4, <2>1, <2>2
<1>9. Chain'
  <2>1. CounterFollows'
    BY <1>4, <1>8 DEF CounterFollows, Up, clientVars
  <2>2. Requested'
    BY <1>3, <1>4 DEF IInv, Chain, Requested, clientVars
  <2> QED
    BY <1>7, <2>1, <2>2 DEF Chain
<1>10. Ending'
  <2>1. client # "closed"
    BY <1>4 DEF IInv, Ending, ClosedLater
  <2>2. SocketSpoke'
    <3> SUFFICES ASSUME "socket" \in ready, Up' PROVE toClient' # <<>>
      BY <1>4 DEF SocketSpoke, clientVars
    <3>1. toClient' = sent /\ toClient # <<>>
      BY <1>3, <1>4 DEF IInv, Ending, SocketSpoke, Up
    <3>2. CASE client = "up"
      BY <1>1, <1>2, <3>1, <3>2
    <3>3. CASE client # "up"
      BY <3>1, <3>3 DEF Sent
    <3> QED
      BY <3>2, <3>3
  <2>3. ClosedLater' /\ ZeroLast'
    BY <1>4, <1>8, <2>1 DEF ClosedLater, ZeroLast, clientVars
  <2> QED
    BY <2>2, <2>3 DEF Ending
<1>11. StdinSpoke'
  BY <1>4 DEF IInv, StdinSpoke, clientVars
<1> QED
  BY <1>5, <1>9, <1>10, <1>11 DEF IInv

\* While the numbers on the wire and the counter stay, more may be asked for.
LEMMA ChainStays ==
  ASSUME IInv, asked \subseteq asked',
         UNCHANGED <<server, counter, client, shown, toClient>>
  PROVE  Follow' /\ CounterFollows' /\ LatestSent' = LatestSent
<1>1. LatestSent' = LatestSent /\ \A i \in 1 .. Len(toClient) : Before(i)' = Before(i)
  BY DEF LatestSent, Before
<1>2. Follow'
  BY <1>1 DEF IInv, Chain, Follow
<1>3. CounterFollows'
  BY <1>1 DEF IInv, Chain, CounterFollows, Up
<1> QED
  BY <1>1, <1>2, <1>3

\* The server takes what the client has asked for, or leaves.
LEMMA ServerPreserves == IInv /\ (Reset \/ ClientGone) => IInv'
<1> SUFFICES ASSUME IInv, Reset \/ ClientGone PROVE IInv'
  OBVIOUS
<1> USE DEF IInv, clientVars
<1>1. CASE Reset
  <2> USE <1>1 DEF Reset
  <2>1. toServer \in Seq(Shorts) /\ toServer # <<>>
    BY Types
  <2>2. /\ Head(toServer) = toServer[1] /\ 1 \in 1 .. Len(toServer)
        /\ toServer[1] \in Int
        /\ Tail(toServer) \in Seq(Shorts) /\ Len(Tail(toServer)) = Len(toServer) - 1
        /\ \A i \in 1 .. Len(Tail(toServer)) :
             Tail(toServer)[i] = toServer[i + 1] /\ i + 1 \in 1 .. Len(toServer)
    BY <2>1, FirstAndRest
  <2>3. counter' \in asked /\ counter' \in Shorts
    BY <2>2, NtohsType DEF Chain, Requested
  <2>4. TypeOK'
    BY <2>2, <2>3 DEF TypeOK, Shorts
  <2>5. Chain'
    <3>1. Follow'
      BY DEF Chain, Follow, Before
    <3>2. CounterFollows'
      BY <2>3 DEF CounterFollows
    <3>3. Requested'
      BY <2>2 DEF Chain, Requested
    <3> QED
      BY <3>1, <3>2, <3>3 DEF Chain
  <2>6. Ending'
    BY DEF Ending, SocketSpoke, ClosedLater, ZeroLast, LatestSent, Before, Up
  <2> QED
    BY <2>4, <2>5, <2>6 DEF StdinSpoke
<1>2. CASE ClientGone
  <2> USE <1>2 DEF ClientGone
  <2>1. toClient \in Seq(Shorts)
    BY Types
  <2>2. /\ toClient' \in Seq(Shorts) /\ toServer' = <<>> /\ server' = "exited"
        /\ broken' \in BOOLEAN
    BY <2>1, ServerLeaves
  <2>3. TypeOK'
    BY <2>2, EmptySeq DEF TypeOK, Shorts
  <2>4. Chain'
    BY <2>2 DEF Chain, Follow, CounterFollows, Requested
  <2>5. Ending'
    BY <2>2 DEF Ending, SocketSpoke, ClosedLater, ZeroLast, Up
  <2> QED
    BY <2>3, <2>4, <2>5 DEF StdinSpoke
<1> QED
  BY <1>1, <1>2

\* select does not invent a reason for the socket to be ready.
LEMMA SelectPreserves == IInv /\ Select => IInv'
<1> SUFFICES ASSUME IInv, Select PROVE IInv'
  OBVIOUS
<1> USE DEF IInv, Select, serverVars, wireVars
<1>1. TypeOK'
  BY DEF TypeOK
<1>2. Chain'
  BY ChainStays DEF Chain, Requested
<1>3. Ending'
  BY ChainStays DEF Ending, SocketSpoke, SocketReady, ClosedLater, ZeroLast, Up
<1>4. StdinSpoke'
  BY DEF StdinSpoke, StdinReady
<1> QED
  BY <1>1, <1>2, <1>3, <1>4

\* A client that ends is not shown anything any more.  One that closes has
\* found its socket ready with nothing to read.
LEMMA EndPreserves ==
  ASSUME IInv, NEW how \in {"closed", "killed"}, ClientEnds(how),
         UNCHANGED <<server, counter, shown>>,
         typed' \in 0 .. MaxTyped, eof' \in BOOLEAN, line' \in Numbers \cup {NoNumber},
         asked \subseteq asked', asked' \subseteq Shorts,
         how = "closed" => client = "up" /\ ready = {"socket"} /\ toClient = <<>>
  PROVE  IInv'
<1> USE DEF IInv
<1>1. /\ toServer' \in Seq(Shorts)
      /\ Len(toServer') <= Len(toServer)
      /\ \A i \in 1 .. Len(toServer') : toServer'[i] = toServer[i]
      /\ ~broken' => ~broken
      /\ toClient' = <<>> /\ client' = how /\ ready' = {} /\ broken' \in BOOLEAN
  BY ClientLeaves
<1>2. TypeOK'
  BY <1>1, EmptySeq DEF TypeOK, Shorts
<1>3. Chain'
  <2>1. Len(toServer') \in Nat /\ Len(toServer) \in Nat
    BY <1>1, Types, LenProperties
  <2>2. Requested'
    BY <1>1, <2>1 DEF Chain, Requested
  <2> QED
    BY <1>1, <2>2 DEF Chain, Follow, CounterFollows
<1>4. how = "closed" => ~Up /\ (server = "exploded" /\ ~broken => shown = 0)
  BY DEF Ending, SocketSpoke, ZeroLast, LatestSent, Before
<1>5. Ending'
  BY <1>1, <1>4 DEF Ending, SocketSpoke, ClosedLater, ZeroLast, Up
<1> QED
  BY <1>1, <1>2, <1>3, <1>5 DEF StdinSpoke

\* A line is parsed, and the number in it sent.
LEMMA ParsePreserves ==
  ASSUME IInv, Parse, UNCHANGED <<serverVars, shown>>,
         typed' \in 0 .. MaxTyped, eof' \in BOOLEAN, line' \in Numbers \cup {NoNumber}
  PROVE  IInv'
<1> USE DEF IInv, serverVars, wireVars
<1>1. CASE line' = NoNumber
  <2>1. ready' = {} /\ UNCHANGED <<client, asked, wireVars>>
    BY <1>1 DEF Parse, SkipLine
  <2>2. TypeOK'
    BY <2>1 DEF TypeOK
  <2>3. Chain'
    BY <2>1, ChainStays DEF Chain, Requested
  <2>4. Ending'
    BY <2>1, ChainStays DEF Ending, SocketSpoke, ClosedLater, ZeroLast, Up
  <2> QED
    BY <2>1, <2>2, <2>3, <2>4 DEF StdinSpoke
<1>2. CASE line' # NoNumber
  <2>1. line' \in Int /\ SendNumber(line')
    BY <1>2, CountdownAssumption DEF Parse
  <2>2. asked \subseteq asked' /\ line' % Short \in asked' /\ asked' \subseteq Shorts
    BY <2>1, LowBits, Types DEF SendNumber
  <2>3. CASE /\ toServer' = Append(toServer, htons(line'))
             /\ ready' = ready \ {"stdin"}
             /\ UNCHANGED <<client, toClient, broken>>
    <3>1. toServer \in Seq(Shorts) /\ Len(toServer) \in Nat
      BY Types, LenProperties
    <3>2. /\ toServer' \in Seq(Shorts) /\ Len(toServer') = Len(toServer) + 1
          /\ \A i \in 1 .. Len(toServer) : toServer'[i] = toServer[i]
          /\ ntohs(toServer'[Len(toServer) + 1]) = line' % Short
      BY <2>1, <2>3, <3>1, SentOne
    <3>3. TypeOK'
      BY <2>2, <2>3, <3>2 DEF TypeOK, Shorts
    <3>4. Requested'
      BY <2>2, <3>1, <3>2 DEF Chain, Requested
    <3>5. Chain'
      BY <2>2, <2>3, <3>4, ChainStays DEF Chain
    <3>6. Ending'
      BY <2>2, <2>3, ChainStays DEF Ending, SocketSpoke, ClosedLater, ZeroLast, Up
    <3> QED
      BY <2>3, <3>3, <3>5, <3>6 DEF StdinSpoke
  <2>4. CASE /\ broken' = TRUE
             /\ ready' = ready \ {"stdin"}
             /\ UNCHANGED <<client, toServer, toClient>>
    <3>1. TypeOK'
      BY <2>2, <2>4 DEF TypeOK, Shorts
    <3>2. Chain'
      BY <2>2, <2>4, ChainStays DEF Chain, Requested
    <3>3. Ending'
      BY <2>4 DEF Ending, SocketSpoke, ClosedLater, ZeroLast, Up
    <3> QED
      BY <2>4, <3>1, <3>2, <3>3 DEF StdinSpoke
  <2>5. CASE ClientEnds("killed")
    BY <2>2, <2>5, EndPreserves
  <2> QED
    BY <2>1, <2>3, <2>4, <2>5 DEF SendNumber
<1> QED
  BY <1>1, <1>2

\* The number shown leaves the wire; what followed it follows what is shown.
LEMMA ShowPreserves == IInv /\ ShowNumber => IInv'
<1> SUFFICES ASSUME IInv, ShowNumber PROVE IInv'
  OBVIOUS
<1> USE DEF IInv, ShowNumber, serverVars
<1>1. toClient \in Seq(Shorts) /\ toClient # <<>> /\ Len(toClient) \in Nat
  BY Types, LenProperties
<1>2. /\ Head(toClient) = toClient[1] /\ toClient[1] \in Int
      /\ toClient' \in Seq(Shorts) /\ Len(toClient') = Len(toClient) - 1
      /\ Len(toClient') \in Nat
      /\ \A i \in 1 .. Len(toClient') : toClient'[i] = toClient[i + 1]
  BY <1>1, FirstAndRest
<1>3. \A i \in 1 .. Len(toClient') + 1 : Before(i)' = Before(i + 1)
  BY <1>1, <1>2 DEF Before
<1>4. LatestSent' = LatestSent
  BY <1>1, <1>2, <1>3 DEF LatestSent
<1>5. TypeOK'
  BY <1>2, NtohsType DEF TypeOK, Shorts
<1>6. Follow'
  BY <1>1, <1>2, <1>3 DEF Chain, Follow
<1>7. Chain'
  BY <1>4, <1>6 DEF Chain, CounterFollows, Requested, Up
<1>8. Ending'
  BY <1>4 DEF Ending, SocketSpoke, ClosedLater, ZeroLast, Up
<1> QED
  BY <1>5, <1>7, <1>8 DEF StdinSpoke

\* A step of nobody changes nothing.
LEMMA StutterPreserves == IInv /\ UNCHANGED vars => IInv'
<1> SUFFICES ASSUME IInv, UNCHANGED vars PROVE IInv'
  OBVIOUS
<1> USE DEF vars, serverVars, clientVars, wireVars, IInv
<1>1. TypeOK'
  BY DEF TypeOK
<1>2. Chain'
  BY ChainStays DEF Chain, Requested
<1>3. Ending'
  BY ChainStays DEF Ending, SocketSpoke, ClosedLater, ZeroLast, Up
<1> QED
  BY <1>1, <1>2, <1>3 DEF StdinSpoke

\* It holds always.
LEMMA Invariance == Spec => []IInv
<1>1. IInv /\ [Next]_vars => IInv'
  <2> SUFFICES ASSUME IInv, [Next]_vars PROVE IInv'
    OBVIOUS
  <2>1. CASE ServerStep
    BY <2>1, TickPreserves, ServerPreserves DEF ServerStep
  <2>2. CASE Select
    BY <2>2, SelectPreserves
  <2>3. CASE ReadLine
    <3>1. Parse /\ UNCHANGED <<serverVars, shown>>
      BY <2>3 DEF ReadLine
    <3>2. eof' \in BOOLEAN /\ line' \in Numbers \cup {NoNumber}
      BY <2>3, Types DEF ReadLine, IInv
    <3>3. typed' \in 0 .. MaxTyped
      BY <2>3, CountdownAssumption DEF ReadLine, IInv, TypeOK, StdinSpoke
    <3> QED
      BY <3>1, <3>2, <3>3, ParsePreserves
  <2>4. CASE ReadEof
    <3>1. Parse /\ UNCHANGED <<serverVars, shown>>
      BY <2>4 DEF ReadEof
    <3>2. eof' \in BOOLEAN /\ line' \in Numbers \cup {NoNumber} /\ typed' \in 0 .. MaxTyped
      BY <2>4, Types DEF ReadEof, IInv
    <3> QED
      BY <3>1, <3>2, ParsePreserves
  <2>5. CASE ShowNumber
    BY <2>5, ShowPreserves
  <2>6. CASE ServerGone \/ Interrupt
    <3>1. /\ UNCHANGED <<server, counter, shown, typed, eof, line, asked>>
          /\ \E how \in {"closed", "killed"} :
               /\ ClientEnds(how)
               /\ how = "closed" => client = "up" /\ ready = {"socket"} /\ toClient = <<>>
      BY <2>6 DEF ServerGone, Interrupt, serverVars
    <3>2. /\ typed' \in 0 .. MaxTyped /\ eof' \in BOOLEAN
          /\ line' \in Numbers \cup {NoNumber}
          /\ asked \subseteq asked' /\ asked' \subseteq Shorts
      BY <3>1, Types DEF IInv
    <3> QED
      BY <3>1, <3>2, EndPreserves
  <2>7. CASE UNCHANGED vars
    BY <2>7, StutterPreserves
  <2> QED
    BY <2>1, <2>2, <2>3, <2>4, <2>5, <2>6, <2>7 DEF Next, HandleReady
<1> QED
  BY Initially, <1>1, PTL DEF Spec

-----------------------------------------------------------------------------
(* The theorems                                                            *)

\* The variables have their types: the counter and what is shown stay within
\* 16 bits and never go below 0.
THEOREM TypeCorrect == Spec => []TypeOK
<1>1. IInv => TypeOK
  BY DEF IInv
<1> QED
  BY <1>1, Invariance, PTL

\* A client that was not cut off has shown the 0 of the explosion when it
\* finds the server gone.
THEOREM ZeroShown == Spec => []LastShownIsZero
<1>1. IInv => LastShownIsZero
  BY DEF IInv, Ending, ZeroLast, LastShownIsZero
<1> QED
  BY <1>1, Invariance, PTL

\* Whenever the client shows a number, the same one again included, it is one
\* less than the one before or than one asked for: the number it takes is the
\* first on the wire, which follows the one shown.
THEOREM ShownInOrder == Spec => ShownFollows
<1>1. IInv /\ ShowNumber => shown' + 1 \in {shown} \cup asked
  <2> SUFFICES ASSUME IInv, ShowNumber PROVE shown' + 1 \in {shown} \cup asked
    OBVIOUS
  <2>1. toClient \in Seq(Shorts) /\ toClient # <<>> /\ client = "up"
    BY Types DEF IInv, ShowNumber
  <2>2. 1 \in 1 .. Len(toClient) /\ shown' = ntohs(toClient[1])
    BY <2>1, LenProperties DEF ShowNumber
  <2> QED
    BY <2>1, <2>2 DEF IInv, Chain, Follow, Before
<1>2. IInv => [ShowNumber => shown' + 1 \in {shown} \cup asked]_vars
  BY <1>1
<1> QED
  BY <1>2, Invariance, PTL DEF Spec, ShownFollows
=============================================================================
