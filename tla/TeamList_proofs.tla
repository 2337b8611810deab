---------------------------- MODULE TeamList_proofs ----------------------------
(***************************************************************************)
(* Proofs about TeamList, for any names, values and number of nodes: every *)
(* node is on one list or free, the lists stay in order, and the program   *)
(* implements Team.                                                        *)
(*                                                                         *)
(* What Chain, a walk over the links, returns is not computed from its     *)
(* definition.  The invariant says instead that there are two sequences of *)
(* nodes that the links go through (Path), each action changes such a      *)
(* sequence by one element (With, Without), and MetIs, by induction on the *)
(* length of the walk, says that Chain returns the sequence.               *)
(***************************************************************************)
EXTENDS TeamList, FiniteSetTheorems, SequenceTheorems, WellFoundedInduction, TLAPS

-----------------------------------------------------------------------------
(* The inductive invariant                                                 *)

\* The nodes of a list are those of a sequence s: one links to the next, the
\* last to NULL, and none comes twice.
At(s, k) == IF k \in 1 .. Len(s) THEN s[k] ELSE NULL
Path(s, from, links) ==
  /\ s \in Seq(Nodes) /\ from = At(s, 1)
  /\ \A k \in 1 .. Len(s) : links[s[k]] = At(s, k + 1)
  /\ \A j, k \in 1 .. Len(s) : s[j] = s[k] => j = k
On(s) == {s[k] : k \in 1 .. Len(s)}

Place(player) == Promise!Rank[player.position]
Sorted(s, d) == \A j, k \in 1 .. Len(s) : j < k => Place(d[s[j]]) <= Place(d[s[k]])
Named(s, d) == \A j, k \in 1 .. Len(s) : d[s[j]].name = d[s[k]].name => j = k

\* Two lists, with no node in common, hold every node allocated, in order.
Both(s, from, o, ofrom, links, d) ==
  /\ Path(s, from, links) /\ Path(o, ofrom, links)
  /\ On(s) \cap On(o) = {}
  /\ \A n \in Nodes : d[n] # NULL <=> n \in On(s) \cup On(o)
  /\ Sorted(s, d) /\ Sorted(o, d)

\* The players of a list, those of them worth no more than v, and what Team's
\* Those selects of c after each of its elements.
Told(s, d) == [k \in 1 .. Len(s) |-> d[s[k]]]
Worth(v) == {q \in Players : q.value <= v}
Choosing(f, c, T) ==
  f = [i \in 0 .. Len(c) |-> IF i = 0 THEN <<>>
                             ELSE IF c[i] \in T THEN Append(f[i - 1], c[i]) ELSE f[i - 1]]
Upto(c, T) == CHOOSE f : Choosing(f, c, T)

\* t is the team, r the list of copies: of those among the first j - 1 players
\* of the team that qualify, if the search has come to the one at j.
Copied(t, r, j) == head = At(t, j) /\ Told(r, data) = Upto(Told(t, data), Worth(wanted))[j - 1]
Lists(t, r) ==
  /\ Both(t, team, r, result_list, next, data)
  /\ Named(t, data)
  /\ pc = "searching" => wanted \in Values /\ \E j \in 1 .. Len(t) + 1 : Copied(t, r, j)
IInv == TypeOK /\ \E t, r : Lists(t, r)

-----------------------------------------------------------------------------
(* Numbers                                                                 *)

\* A set of numbers that is not empty has a lowest one.
LEMMA Lowest ==
  ASSUME NEW S, S \subseteq Nat, S # {}
  PROVE  \E x \in S : \A y \in S : x <= y
<1>1. PICK x \in S : \A y \in S : ~(<<y, x>> \in OpToRel(<, Nat))
  BY NatLessThanWellFounded, WFMin
<1>2. \A y \in S : x <= y
  <2> TAKE y \in S
  <2>1. x \in Nat /\ y \in Nat
    OBVIOUS
  <2>2. y < x => <<y, x>> \in OpToRel(<, Nat)
    BY <2>1 DEF OpToRel
  <2>3. ~(y < x)
    BY <1>1, <2>2
  <2> QED
    BY <2>1, <2>3
<1> QED
  BY <1>2

\* Numbers with a property that 0 has, and the next one of each, are all.
LEMMA AllNumbers ==
  ASSUME NEW n \in Nat, NEW S, 0 \in S, \A k \in 0 .. n - 1 : k \in S => k + 1 \in S
  PROVE  0 .. n \subseteq S
<1> SUFFICES ASSUME ~(0 .. n \subseteq S) PROVE FALSE
  OBVIOUS
<1>1. (0 .. n) \ S \subseteq Nat /\ (0 .. n) \ S # {}
  OBVIOUS
<1>2. PICK x \in (0 .. n) \ S : \A y \in (0 .. n) \ S : x <= y
  BY <1>1, Lowest
<1>3. x \in Nat /\ x # 0 /\ x <= n /\ x \notin S
  BY <1>2
<1>4. x - 1 \in 0 .. n - 1 /\ ~(x <= x - 1) /\ x - 1 \in 0 .. n /\ (x - 1) + 1 = x
  BY <1>3
<1>5. x - 1 \in S
  BY <1>2, <1>4
<1> QED
  BY <1>3, <1>4, <1>5

-----------------------------------------------------------------------------
(* Lists                                                                   *)

\* The function Chain is made with.
Walks(at, from, links) ==
  at = [k \in 0 .. Cardinality(Nodes) |->
          IF k = 0 THEN from ELSE IF at[k - 1] = NULL THEN NULL ELSE links[at[k - 1]]]
Walk(from, links) == CHOOSE at : Walks(at, from, links)
Met(at) == [k \in 1 .. Cardinality({i \in DOMAIN at : at[i] # NULL}) |-> at[k - 1]]
LEMMA ChainDef ==
  ASSUME NEW from
  PROVE  Chain(from) = Met(Walk(from, next))
BY DEF Chain, Walks, Walk, Met

\* The nodes met on the way are those of the path.
LEMMA MetIs ==
  ASSUME NEW s, NEW from, NEW links, Path(s, from, links)
  PROVE  Met(Walk(from, links)) = s
<1>1. PICK m \in Nat : m = Len(s)
  BY DEF Path
<1>2. PICK n \in Nat : n = Cardinality(Nodes)
  BY TeamAssumption, FS_CardinalityType
<1>3. m <= n
  <2>1. s \in [1 .. m -> Nodes] /\ \A j, k \in 1 .. m : s[j] = s[k] => j = k
    BY <1>1 DEF Path
  <2>2. s \in Injection(1 .. m, Nodes)
    BY <2>1 DEF Injection, IsInjective
  <2>3. Cardinality(1 .. m) <= n /\ Cardinality(1 .. m) = m
    BY <1>2, <2>2, TeamAssumption, FS_Injection, FS_Interval
  <2> QED
    BY <2>3
<1>4. PICK w : w = [k \in 0 .. n |-> At(s, k + 1)]
  OBVIOUS
<1>5. \A k \in 0 .. n : (k < m => w[k] = s[k + 1] /\ w[k] \in Nodes /\ w[k] # NULL) /\ (k >= m => w[k] = NULL)
  BY <1>1, <1>4, TeamAssumption DEF At, Path
<1>6. Walks(w, from, links)
  <2>1. ASSUME NEW k \in 0 .. n
        PROVE  w[k] = IF k = 0 THEN from ELSE IF w[k - 1] = NULL THEN NULL ELSE links[w[k - 1]]
    <3>1. CASE k = 0
      BY <1>4, <3>1 DEF Path
    <3>2. CASE k # 0
      <4>1. PICK j \in 0 .. n - 1 : j = k - 1 /\ j + 1 = k
        BY <3>2
      <4>2. CASE j < m
        <5>1. PICK i \in 1 .. m : i = j + 1
          BY <4>2
        <5>2. w[j] = s[i] /\ w[j] # NULL /\ links[s[i]] = At(s, i + 1)
          BY <1>1, <1>5, <4>2, <5>1 DEF Path
        <5>3. w[k] = At(s, i + 1)
          BY <1>4, <4>1, <5>1
        <5> QED
          BY <3>2, <4>1, <5>2, <5>3
      <4>3. CASE j >= m
        BY <1>5, <3>2, <4>1, <4>3
      <4> QED
        BY <4>2, <4>3
    <3> QED
      BY <3>1, <3>2
  <2> QED
    BY <1>2, <1>4, <2>1 DEF Walks
<1>7. ASSUME NEW v, Walks(v, from, links) PROVE v = w
  <2>1. /\ v = [k \in 0 .. n |-> v[k]] /\ w = [k \in 0 .. n |-> w[k]]
        /\ \A k \in 0 .. n : v[k] = IF k = 0 THEN from ELSE IF v[k - 1] = NULL THEN NULL ELSE links[v[k - 1]]
        /\ \A k \in 0 .. n : w[k] = IF k = 0 THEN from ELSE IF w[k - 1] = NULL THEN NULL ELSE links[w[k - 1]]
    BY <1>2, <1>6, <1>7 DEF Walks
  <2> DEFINE T == {k \in 0 .. n : v[k] = w[k]}
  <2>2. 0 \in T
    <3>1. 0 \in 0 .. n
      OBVIOUS
    <3>2. v[0] = from /\ w[0] = from
      BY <2>1, <3>1, Zenon
    <3> QED
      BY <3>1, <3>2
  <2>3. ASSUME NEW k \in 0 .. n - 1, k \in T PROVE k + 1 \in T
    <3>1. PICK j \in 0 .. n : j = k + 1 /\ j # 0 /\ j - 1 = k
      OBVIOUS
    <3>2. v[k] = w[k]
      BY <2>3
    <3>3. v[j] = w[j]
      <4>1. v[j] = IF v[k] = NULL THEN NULL ELSE links[v[k]]
        BY <2>1, <3>1, Zenon
      <4>2. w[j] = IF w[k] = NULL THEN NULL ELSE links[w[k]]
        BY <2>1, <3>1, Zenon
      <4> QED
        BY <3>2, <4>1, <4>2
    <3> QED
      BY <3>1, <3>3
  <2>4. 0 .. n \subseteq T
    BY <2>2, <2>3, AllNumbers
  <2> QED
    BY <2>1, <2>4
<1>8. PICK at : at = Walk(from, links)
  OBVIOUS
<1>9. at = w
  <2>1. Walks(at, from, links)
    BY <1>6, <1>8 DEF Walk
  <2> QED
    BY <1>7, <2>1
<1>10. Cardinality({i \in DOMAIN at : at[i] # NULL}) = m
  <2>1. {i \in DOMAIN at : at[i] # NULL} = 0 .. m - 1
    BY <1>3, <1>4, <1>5, <1>9
  <2>2. Cardinality(0 .. m - 1) = m
    BY FS_Interval
  <2> QED
    BY <2>1, <2>2
<1>11. Met(at) = [k \in 1 .. m |-> s[k]]
  <2>1. \A k \in 1 .. m : w[k - 1] = s[k]
    BY <1>3, <1>5
  <2> QED
    BY <1>9, <1>10, <2>1 DEF Met
<1> QED
  BY <1>1, <1>8, <1>11 DEF Path

LEMMA ChainIs ==
  ASSUME NEW s, NEW from, Path(s, from, next)
  PROVE  Chain(from) = s
BY ChainDef, MetIs

\* The positions are ordered as GoesBefore says.
LEMMA Ranks ==
  /\ \A p \in Positions : Promise!Rank[p] \in 1 .. 4
  /\ \A p, q \in Positions : GoesBefore(p, q) <=> Promise!Rank[p] < Promise!Rank[q]
<1>1. /\ Promise!Rank["G"] = 1 /\ Promise!Rank["D"] = 2
      /\ Promise!Rank["M"] = 3 /\ Promise!Rank["S"] = 4
  BY DEF Promise!Rank, Promise!Positions
<1> QED
  BY <1>1 DEF Positions, GoesBefore, GOALKEEPER, DEFENDER, MIDFIELDER, STRIKER

LEMMA PlaceIs ==
  ASSUME NEW p \in Players
  PROVE  Place(p) \in Nat /\ p.position \in Positions /\ p # NULL
<1>1. p.position \in Positions
  BY DEF Players
<1>2. Place(p) \in 1 .. 4
  BY <1>1, Ranks DEF Place
<1> QED
  BY <1>1, <1>2, TeamAssumption

\* A path that shares no node with what is changed stays one.
LEMMA Apart ==
  ASSUME NEW s, NEW from, NEW links, NEW links2, Path(s, from, links),
         \A n \in On(s) : links2[n] = links[n]
  PROVE  Path(s, from, links2)
BY DEF Path, On

\* The nodes of a path.
LEMMA OnPath ==
  ASSUME NEW s, NEW from, NEW links, Path(s, from, links)
  PROVE  /\ s \in Seq(Nodes) /\ Len(s) \in Nat /\ On(s) \subseteq Nodes
         /\ \A k \in 1 .. Len(s) : s[k] \in On(s)
         /\ from \in Nodes \cup {NULL} /\ (from = NULL <=> Len(s) = 0)
<1>1. s \in Seq(Nodes) /\ Len(s) \in Nat /\ from = At(s, 1)
  BY DEF Path
<1>2. \A k \in 1 .. Len(s) : s[k] \in On(s) /\ s[k] \in Nodes
  BY <1>1 DEF On
<1>3. On(s) \subseteq Nodes
  BY <1>2 DEF On
<1>4. from \in Nodes \cup {NULL} /\ (from = NULL <=> Len(s) = 0)
  BY <1>1, <1>2, TeamAssumption DEF At
<1> QED
  BY <1>1, <1>2, <1>3, <1>4

-----------------------------------------------------------------------------
(* A node more                                                             *)

With(s, at, new) ==
  [k \in 1 .. Len(s) + 1 |-> IF k < at THEN s[k] ELSE IF k = at THEN new ELSE s[k - 1]]
Linked(links, s, at, new) ==
  IF at = 1 THEN [links EXCEPT ![new] = At(s, at)]
            ELSE [links EXCEPT ![new] = At(s, at), ![s[at - 1]] = new]

IsWith(u, s, at, new, m) ==
  /\ u \in Seq(Nodes) /\ Len(u) = m + 1 /\ at \in Nat
  /\ u[at] = new
  /\ \A k \in 1 .. m : k < at => u[k] = s[k]
  /\ \A k \in 1 .. m : k >= at => u[k + 1] = s[k]
  /\ On(u) = On(s) \cup {new}
LEMMA WithIs ==
  ASSUME NEW s \in Seq(Nodes), NEW at \in 1 .. Len(s) + 1, NEW new \in Nodes
  PROVE  IsWith(With(s, at, new), s, at, new, Len(s))
<1>0. PICK u, m : u = With(s, at, new) /\ m = Len(s) /\ m \in Nat
  OBVIOUS
<1>1. u = [k \in 1 .. m + 1 |-> IF k < at THEN s[k] ELSE IF k = at THEN new ELSE s[k - 1]]
  BY <1>0 DEF With
<1>2. /\ at \in 1 .. m + 1 /\ \A k \in 1 .. m : s[k] \in Nodes
      /\ \A k \in 1 .. m + 1 : (k < at => k \in 1 .. m) /\ (k > at => k - 1 \in 1 .. m)
  BY <1>0
<1>3. \A k \in 1 .. m + 1 : u[k] \in Nodes
  BY <1>1, <1>2
<1>4. u \in Seq(Nodes) /\ Len(u) = m + 1 /\ at \in Nat
  BY <1>0, <1>1, <1>2, <1>3
<1>5. u[at] = new
  BY <1>1, <1>2
<1>6. \A k \in 1 .. m : k < at => u[k] = s[k]
  BY <1>0, <1>1
<1>7. ASSUME NEW k \in 1 .. m, k >= at PROVE u[k + 1] = s[k]
  <2>1. k + 1 \in 1 .. m + 1 /\ ~(k + 1 < at) /\ k + 1 # at /\ (k + 1) - 1 = k
    BY <1>0, <1>2, <1>7
  <2> QED
    BY <1>1, <2>1
<1>8. On(u) = On(s) \cup {new}
  <2>1. ASSUME NEW k \in 1 .. m + 1 PROVE u[k] \in On(s) \cup {new}
    BY <1>0, <1>1, <1>2 DEF On
  <2>2. ASSUME NEW k \in 1 .. m PROVE s[k] \in On(u)
    <3>1. CASE k < at
      <4>1. k \in 1 .. m + 1 /\ u[k] = s[k]
        BY <1>0, <1>6, <3>1
      <4> QED
        BY <1>4, <4>1 DEF On
    <3>2. CASE k >= at
      <4>1. k + 1 \in 1 .. m + 1 /\ u[k + 1] = s[k]
        BY <1>0, <1>7, <3>2
      <4> QED
        BY <1>4, <4>1 DEF On
    <3> QED
      BY <1>2, <3>1, <3>2
  <2>3. new \in On(u)
    BY <1>2, <1>4, <1>5 DEF On
  <2> QED
    BY <1>0, <1>4, <2>1, <2>2, <2>3 DEF On
<1>9. IsWith(u, s, at, new, m)
  BY <1>4, <1>5, <1>6, <1>7, <1>8 DEF IsWith
<1> QED
  BY <1>0, <1>9

LEMMA LinkedIs ==
  ASSUME NEW links \in [Nodes -> Nodes \cup {NULL}], NEW s, NEW from, Path(s, from, links),
         NEW at \in 1 .. Len(s) + 1, NEW new \in Nodes, new \notin On(s),
         NEW links2, links2 = Linked(links, s, at, new)
  PROVE  /\ links2 \in [Nodes -> Nodes \cup {NULL}]
         /\ links2[new] = At(s, at)
         /\ at # 1 => at - 1 \in 1 .. Len(s) /\ links2[s[at - 1]] = new
         /\ \A n \in Nodes : n # new /\ (at # 1 => n # s[at - 1]) => links2[n] = links[n]
<1>1. At(s, at) \in Nodes \cup {NULL}
  BY DEF At, Path
<1>2. CASE at = 1
  BY <1>1, <1>2 DEF Linked
<1>3. CASE at # 1
  <2>1. at - 1 \in 1 .. Len(s) /\ s[at - 1] \in Nodes /\ s[at - 1] # new
    BY <1>3, OnPath
  <2>2. links2 = [links EXCEPT ![new] = At(s, at), ![s[at - 1]] = new]
    BY <1>3 DEF Linked
  <2> QED
    BY <1>1, <1>3, <2>1, <2>2
<1> QED
  BY <1>2, <1>3

LEMMA WithPath ==
  ASSUME NEW links \in [Nodes -> Nodes \cup {NULL}], NEW s, NEW from, Path(s, from, links),
         NEW at \in 1 .. Len(s) + 1, NEW new \in Nodes, new \notin On(s)
  PROVE  Path(With(s, at, new), IF at = 1 THEN new ELSE from, Linked(links, s, at, new))
<1>1. PICK u, links2 : u = With(s, at, new) /\ links2 = Linked(links, s, at, new)
  OBVIOUS
<1>2. PICK m \in Nat : m = Len(s)
  BY OnPath
<1>3. /\ s \in Seq(Nodes) /\ from = At(s, 1) /\ at \in 1 .. m + 1
      /\ \A k \in 1 .. m : links[s[k]] = At(s, k + 1)
      /\ \A j, k \in 1 .. m : s[j] = s[k] => j = k
      /\ \A k \in 1 .. m : s[k] \in Nodes /\ s[k] # new
  <2>1. s \in Seq(Nodes) /\ \A k \in 1 .. m : s[k] \in On(s)
    BY <1>2, OnPath
  <2>2. /\ from = At(s, 1) /\ at \in 1 .. m + 1
        /\ \A k \in 1 .. m : links[s[k]] = At(s, k + 1)
        /\ \A j, k \in 1 .. m : s[j] = s[k] => j = k
    BY <1>2 DEF Path
  <2> QED
    BY <1>2, <2>1, <2>2
<1>4. /\ u \in Seq(Nodes) /\ Len(u) = m + 1 /\ u[at] = new
      /\ \A k \in 1 .. m : k < at => u[k] = s[k]
      /\ \A k \in 1 .. m : k >= at => u[k + 1] = s[k]
  <2>1. IsWith(u, s, at, new, m)
    BY <1>1, <1>2, <1>3, WithIs
  <2> QED
    BY <2>1 DEF IsWith
<1>5. /\ links2[new] = At(s, at)
      /\ at # 1 => at - 1 \in 1 .. m /\ links2[s[at - 1]] = new
      /\ \A n \in Nodes : n # new /\ (at # 1 => n # s[at - 1]) => links2[n] = links[n]
  BY <1>1, <1>2, LinkedIs
<1>6. ASSUME NEW k \in 1 .. m + 1
      PROVE  \/ k < at /\ k \in 1 .. m /\ u[k] = s[k]
             \/ k = at /\ u[k] = new
             \/ k > at /\ k - 1 \in 1 .. m /\ u[k] = s[k - 1]
  <2>1. CASE k < at
    BY <1>3, <1>4, <2>1
  <2>2. CASE k = at
    BY <1>4, <2>2
  <2>3. CASE k > at
    <3>1. k - 1 \in 1 .. m /\ k - 1 >= at /\ (k - 1) + 1 = k
      BY <1>3, <2>3
    <3> QED
      BY <1>4, <2>3, <3>1
  <2> QED
    BY <1>3, <2>1, <2>2, <2>3
<1>7. ASSUME NEW j \in 1 .. m + 1, NEW k \in 1 .. m + 1, u[j] = u[k] PROVE j = k
  BY <1>3, <1>6, <1>7
<1>8. (IF at = 1 THEN new ELSE from) = At(u, 1)
  <2>1. CASE at = 1
    BY <1>4, <2>1 DEF At
  <2>2. CASE at # 1
    <3>1. 1 \in 1 .. m /\ 1 < at
      BY <1>3, <2>2
    <3> QED
      BY <1>2, <1>3, <1>4, <2>2, <3>1 DEF At
  <2> QED
    BY <2>1, <2>2
<1>9. ASSUME NEW k \in 1 .. m + 1 PROVE links2[u[k]] = At(u, k + 1)
  <2>1. CASE k = at
    <3>1. links2[u[k]] = At(s, at)
      BY <1>4, <1>5, <2>1
    <3>2. CASE at \in 1 .. m
      <4>1. u[at + 1] = s[at] /\ at + 1 \in 1 .. m + 1
        BY <1>4, <3>2
      <4> QED
        BY <1>2, <1>4, <2>1, <3>1, <3>2, <4>1 DEF At
    <3>3. CASE at = m + 1
      BY <1>2, <1>4, <2>1, <3>1, <3>3 DEF At
    <3> QED
      BY <1>3, <3>2, <3>3
  <2>2. CASE k = at - 1
    <3>1. at # 1 /\ k \in 1 .. m /\ k + 1 = at /\ k < at
      BY <1>3, <2>2
    <3>2. u[k] = s[at - 1]
      BY <1>4, <2>2, <3>1
    <3> QED
      BY <1>3, <1>4, <1>5, <3>1, <3>2 DEF At
  <2>3. CASE k < at - 1
    <3>1. k \in 1 .. m /\ k + 1 \in 1 .. m /\ k < at /\ k + 1 < at /\ k + 1 \in 1 .. m + 1
          /\ at - 1 \in 1 .. m /\ k # at - 1
      BY <1>3, <2>3
    <3>2. u[k] = s[k] /\ u[k + 1] = s[k + 1]
      BY <1>4, <3>1
    <3>3. links2[s[k]] = links[s[k]]
      BY <1>3, <1>5, <3>1
    <3> QED
      BY <1>2, <1>3, <1>4, <3>1, <3>2, <3>3 DEF At
  <2>4. CASE k > at
    <3>1. PICK j \in 1 .. m : j = k - 1 /\ j >= at /\ j + 1 = k
      BY <1>3, <2>4
    <3>2. u[k] = s[j] /\ (at # 1 => j # at - 1)
      BY <1>3, <1>4, <3>1
    <3>3. links2[s[j]] = links[s[j]]
      <4>1. at # 1 => s[j] # s[at - 1]
        BY <1>3, <1>5, <3>2
      <4> QED
        BY <1>3, <1>5, <4>1
    <3>4. links2[u[k]] = At(s, k)
      BY <1>3, <3>1, <3>2, <3>3
    <3>5. CASE k \in 1 .. m
      <4>1. u[k + 1] = s[k] /\ k + 1 \in 1 .. m + 1
        BY <1>4, <2>4, <3>5
      <4> QED
        BY <1>2, <1>4, <3>4, <3>5, <4>1 DEF At
    <3>6. CASE k = m + 1
      BY <1>2, <1>4, <3>4, <3>6 DEF At
    <3> QED
      BY <3>5, <3>6
  <2> QED
    BY <1>3, <2>1, <2>2, <2>3, <2>4
<1>10. Path(u, IF at = 1 THEN new ELSE from, links2)
  BY <1>4, <1>7, <1>8, <1>9 DEF Path
<1> QED
  BY <1>1, <1>10

\* FirstOf is a set of at most one number, the lowest.
LEMMA FirstIs ==
  ASSUME NEW ks, ks \subseteq Nat
  PROVE  /\ \A k \in FirstOf(ks) : k \in ks /\ \A j \in ks : k <= j
         /\ FirstOf(ks) = {} => ks = {}
         /\ ks # {} => \E k \in ks : FirstOf(ks) = {k}
<1>1. \A k \in FirstOf(ks) : k \in ks /\ \A j \in ks : k <= j
  BY DEF FirstOf
<1>2. ASSUME ks # {} PROVE \E k \in ks : FirstOf(ks) = {k}
  <2>1. PICK k \in ks : \A j \in ks : k <= j
    BY <1>2, Lowest
  <2>2. \A j \in ks : (\A i \in ks : j <= i) => j = k
    <3> TAKE j \in ks
    <3> HAVE \A i \in ks : j <= i
    <3>1. j <= k /\ k <= j /\ j \in Nat /\ k \in Nat
      BY <2>1
    <3> QED
      BY <3>1
  <2> QED
    BY <2>1, <2>2 DEF FirstOf
<1> QED
  BY <1>1, <1>2

\* insert_player, on a list whose nodes are s.
Places(s, player) ==
  {k \in 1 .. Len(s) : GoesBefore(player.position, data[s[k]].position)} \cup {Len(s) + 1}
InsertAt(s, from, new, at) ==
  LET after == IF at <= Len(s) THEN s[at] ELSE NULL
  IN IF at = 1
     THEN [head |-> new, next |-> [next EXCEPT ![new] = after]]
     ELSE [head |-> from, next |-> [next EXCEPT ![new] = after, ![s[at - 1]] = new]]
InsertDef(s, from, new, player) ==
  InsertAt(s, from, new,
           CHOOSE k \in FirstOf({k \in DOMAIN s : GoesBefore(player.position, data[s[k]].position)}
                                \cup {Len(s) + 1}) : TRUE)
LEMMA InsertUnfolds ==
  ASSUME NEW from, NEW new, NEW player
  PROVE  insert_player(from, new, player) = InsertDef(Chain(from), from, new, player)
BY Zenon DEF insert_player, InsertDef, InsertAt

\* A player goes before the first one whose position comes later.
LEMMA InsertIs ==
  ASSUME NEW s, NEW from, Path(s, from, next), NEW new \in Nodes, NEW player \in Players,
         \A k \in 1 .. Len(s) : data[s[k]] \in Players
  PROVE  \E at \in 1 .. Len(s) + 1 :
           /\ insert_player(from, new, player).head = IF at = 1 THEN new ELSE from
           /\ insert_player(from, new, player).next = Linked(next, s, at, new)
           /\ \A k \in 1 .. Len(s) : k < at => Place(data[s[k]]) <= Place(player)
           /\ at <= Len(s) => Place(player) < Place(data[s[at]])
<1>1. s \in Seq(Nodes) /\ Len(s) \in Nat
  BY OnPath
<1>2. PICK ks : ks = Places(s, player)
  OBVIOUS
<1>3. ks \subseteq 1 .. Len(s) + 1 /\ Len(s) + 1 \in ks
  BY <1>1, <1>2 DEF Places
<1>4. PICK at \in ks : FirstOf(ks) = {at}
  <2>1. ks \subseteq Nat /\ ks # {}
    BY <1>1, <1>3
  <2> QED
    BY <2>1, FirstIs
<1>5. \A j \in ks : at <= j
  BY <1>4 DEF FirstOf
<1>6. insert_player(from, new, player) = InsertAt(s, from, new, at)
  <2>1. Chain(from) = s
    BY ChainIs
  <2>2. insert_player(from, new, player) = InsertDef(s, from, new, player)
    BY <2>1, InsertUnfolds
  <2>3. DOMAIN s = 1 .. Len(s)
    BY <1>1
  <2>4. ks = {k \in DOMAIN s : GoesBefore(player.position, data[s[k]].position)} \cup {Len(s) + 1}
    BY <1>2, <2>3 DEF Places
  <2>5. (CHOOSE k \in FirstOf(ks) : TRUE) = at
    BY <1>4
  <2> QED
    BY <2>2, <2>4, <2>5 DEF InsertDef
<1>7. At(s, at) = IF at <= Len(s) THEN s[at] ELSE NULL
  BY <1>1, <1>3, <1>4 DEF At
<1>8. /\ insert_player(from, new, player).head = IF at = 1 THEN new ELSE from
      /\ insert_player(from, new, player).next = Linked(next, s, at, new)
  BY <1>6, <1>7 DEF InsertAt, Linked
<1>9. ASSUME NEW k \in 1 .. Len(s)
      PROVE  /\ GoesBefore(player.position, data[s[k]].position) <=> Place(player) < Place(data[s[k]])
             /\ Place(player) \in Nat /\ Place(data[s[k]]) \in Nat
  <2>1. /\ Place(player) \in Nat /\ player.position \in Positions
        /\ Place(data[s[k]]) \in Nat /\ data[s[k]].position \in Positions
    BY PlaceIs
  <2> QED
    BY <2>1, Ranks DEF Place
<1>10. ASSUME NEW k \in 1 .. Len(s), k < at PROVE Place(data[s[k]]) <= Place(player)
  <2>1. k \notin ks
    <3>1. ~(at <= k)
      BY <1>1, <1>3, <1>4, <1>10
    <3> QED
      BY <1>5, <3>1
  <2>2. ~GoesBefore(player.position, data[s[k]].position)
    BY <1>2, <2>1 DEF Places
  <2> QED
    BY <1>9, <2>2
<1>11. ASSUME at <= Len(s) PROVE Place(player) < Place(data[s[at]])
  <2>1. at \in 1 .. Len(s) /\ at # Len(s) + 1
    BY <1>1, <1>3, <1>4, <1>11
  <2>2. GoesBefore(player.position, data[s[at]].position)
    BY <1>2, <1>4, <2>1 DEF Places
  <2> QED
    BY <1>9, <2>1, <2>2
<1> QED
  BY <1>3, <1>4, <1>8, <1>10, <1>11

\* The list stays in order.
LEMMA WithSorted ==
  ASSUME NEW s \in Seq(Nodes), NEW d, NEW d2, NEW at \in 1 .. Len(s) + 1, NEW new \in Nodes,
         \A k \in 1 .. Len(s) : d[s[k]] \in Players, d2[new] \in Players,
         \A n \in On(s) : d2[n] = d[n],
         Sorted(s, d),
         \A k \in 1 .. Len(s) : k < at => Place(d[s[k]]) <= Place(d2[new]),
         at <= Len(s) => Place(d2[new]) < Place(d[s[at]])
  PROVE  Sorted(With(s, at, new), d2)
<1>1. PICK u, m : u = With(s, at, new) /\ m = Len(s) /\ m \in Nat
  OBVIOUS
<1>2. /\ Len(u) = m + 1 /\ u[at] = new /\ at \in 1 .. m + 1
      /\ \A k \in 1 .. m : k < at => u[k] = s[k]
      /\ \A k \in 1 .. m : k >= at => u[k + 1] = s[k]
  <2>1. IsWith(u, s, at, new, m)
    BY <1>1, WithIs
  <2> QED
    BY <1>1, <2>1 DEF IsWith
<1>3. PICK rank, mine : /\ rank = [k \in 1 .. m |-> Place(d[s[k]])] /\ mine = Place(d2[new])
  OBVIOUS
<1>4. /\ \A k \in 1 .. m : rank[k] \in Nat /\ rank[k] = Place(d[s[k]]) /\ rank[k] = Place(d2[s[k]])
      /\ mine \in Nat
  <2>1. \A k \in 1 .. m : Place(d[s[k]]) \in Nat /\ d2[s[k]] = d[s[k]]
    BY <1>1, PlaceIs DEF On
  <2>2. mine \in Nat
    BY <1>3, PlaceIs
  <2> QED
    BY <1>3, <2>1, <2>2
<1>5. /\ \A j, k \in 1 .. m : j < k => rank[j] <= rank[k]
      /\ \A k \in 1 .. m : k < at => rank[k] <= mine
      /\ \A k \in 1 .. m : k >= at => mine <= rank[k]
  <2>1. \A j, k \in 1 .. m : j < k => rank[j] <= rank[k]
    BY <1>1, <1>4 DEF Sorted
  <2>2. \A k \in 1 .. m : k < at => rank[k] <= mine
    BY <1>1, <1>3, <1>4
  <2>3. ASSUME NEW k \in 1 .. m, k >= at PROVE mine <= rank[k]
    <3>1. at \in 1 .. m /\ mine < rank[at]
      BY <1>1, <1>2, <1>3, <1>4, <2>3
    <3>2. at = k \/ rank[at] <= rank[k]
      BY <2>1, <2>3, <3>1
    <3> QED
      BY <1>4, <3>1, <3>2
  <2> QED
    BY <2>1, <2>2, <2>3
<1>6. ASSUME NEW k \in 1 .. m + 1
      PROVE  \/ k < at /\ k \in 1 .. m /\ Place(d2[u[k]]) = rank[k]
             \/ k = at /\ Place(d2[u[k]]) = mine
             \/ k > at /\ \E j \in 1 .. m : j = k - 1 /\ j >= at /\ Place(d2[u[k]]) = rank[j]
  <2>1. CASE k < at
    <3>1. k \in 1 .. m
      BY <1>1, <1>2, <2>1
    <3> QED
      BY <1>2, <1>4, <2>1, <3>1
  <2>2. CASE k = at
    BY <1>2, <1>3, <2>2
  <2>3. CASE k > at
    <3>1. k - 1 \in 1 .. m /\ k - 1 >= at /\ (k - 1) + 1 = k
      BY <1>1, <1>2, <2>3
    <3>2. u[k] = s[k - 1]
      BY <1>2, <3>1
    <3> QED
      BY <1>4, <2>3, <3>1, <3>2
  <2> QED
    BY <1>1, <1>2, <2>1, <2>2, <2>3
<1>7. ASSUME NEW j \in 1 .. m + 1, NEW k \in 1 .. m + 1, j < k
      PROVE  Place(d2[u[j]]) <= Place(d2[u[k]])
  <2>1. CASE j < at
    <3>1. j \in 1 .. m /\ Place(d2[u[j]]) = rank[j]
      BY <1>2, <1>6, <2>1
    <3>2. CASE k < at
      BY <1>2, <1>5, <1>6, <1>7, <3>1, <3>2
    <3>3. CASE k = at
      BY <1>2, <1>5, <1>6, <2>1, <3>1, <3>3
    <3>4. CASE k > at
      <4>1. PICK i \in 1 .. m : i >= at /\ Place(d2[u[k]]) = rank[i]
        BY <1>2, <1>6, <3>4
      <4>2. j < i
        BY <1>1, <1>2, <2>1, <4>1
      <4> QED
        BY <1>5, <3>1, <4>1, <4>2
    <3> QED
      BY <1>1, <1>2, <3>2, <3>3, <3>4
  <2>2. CASE j = at
    <3>1. Place(d2[u[j]]) = mine /\ k > at
      BY <1>2, <1>3, <1>7, <2>2
    <3>2. PICK i \in 1 .. m : i >= at /\ Place(d2[u[k]]) = rank[i]
      BY <1>2, <1>6, <3>1
    <3> QED
      BY <1>5, <3>1, <3>2
  <2>3. CASE j > at
    <3>1. PICK h \in 1 .. m : h = j - 1 /\ Place(d2[u[j]]) = rank[h]
      BY <1>2, <1>6, <2>3
    <3>2. k > at
      BY <1>1, <1>2, <1>7, <2>3
    <3>3. PICK i \in 1 .. m : i = k - 1 /\ Place(d2[u[k]]) = rank[i]
      BY <1>2, <1>6, <3>2
    <3>4. h < i
      BY <1>1, <1>7, <3>1, <3>3
    <3> QED
      BY <1>5, <3>1, <3>3, <3>4
  <2> QED
    BY <1>1, <1>2, <2>1, <2>2, <2>3
<1>8. Sorted(u, d2)
  BY <1>2, <1>7 DEF Sorted
<1> QED
  BY <1>1, <1>8

-----------------------------------------------------------------------------
(* A node less                                                             *)

Without(s, at) == [k \in 1 .. Len(s) - 1 |-> IF k < at THEN s[k] ELSE s[k + 1]]
Unlinked(links, s, at) ==
  [IF at = 1 THEN links ELSE [links EXCEPT ![s[at - 1]] = links[s[at]]] EXCEPT ![s[at]] = NULL]

\* Where each node left was before.
IsWithout(u, s, at, m) ==
  /\ u \in Seq(Nodes) /\ Len(u) = m - 1
  /\ \A k \in 1 .. m - 1 : k < at => u[k] = s[k]
  /\ \A k \in 1 .. m - 1 : k >= at => u[k] = s[k + 1]
LEMMA WithoutIs ==
  ASSUME NEW s \in Seq(Nodes), NEW at \in 1 .. Len(s)
  PROVE  IsWithout(Without(s, at), s, at, Len(s))
<1>1. PICK u, m : u = Without(s, at) /\ m = Len(s) /\ m \in Nat
  OBVIOUS
<1>2. u = [k \in 1 .. m - 1 |-> IF k < at THEN s[k] ELSE s[k + 1]]
  BY <1>1 DEF Without
<1>3. \A k \in 1 .. m - 1 : k \in 1 .. m /\ k + 1 \in 1 .. m
  BY <1>1
<1>4. \A k \in 1 .. m : s[k] \in Nodes
  BY <1>1
<1>5. \A k \in 1 .. m - 1 : u[k] \in Nodes
  BY <1>2, <1>3, <1>4
<1>6. m - 1 \in Nat
  BY <1>1
<1>7. u \in Seq(Nodes) /\ Len(u) = m - 1
  BY <1>2, <1>5, <1>6
<1>8. /\ \A k \in 1 .. m - 1 : k < at => u[k] = s[k]
      /\ \A k \in 1 .. m - 1 : k >= at => u[k] = s[k + 1]
  BY <1>1, <1>2
<1> QED
  BY <1>1, <1>7, <1>8 DEF IsWithout

LEMMA WithoutOn ==
  ASSUME NEW s \in Seq(Nodes), NEW at \in 1 .. Len(s),
         \A j, k \in 1 .. Len(s) : s[j] = s[k] => j = k
  PROVE  On(Without(s, at)) = On(s) \ {s[at]}
<1>1. PICK u, m : u = Without(s, at) /\ m = Len(s) /\ m \in Nat
  OBVIOUS
<1>2. /\ Len(u) = m - 1
      /\ \A k \in 1 .. m - 1 : k < at => u[k] = s[k]
      /\ \A k \in 1 .. m - 1 : k >= at => u[k] = s[k + 1]
  <2>1. IsWithout(u, s, at, m)
    BY <1>1, WithoutIs
  <2> QED
    BY <2>1 DEF IsWithout
<1>3. ASSUME NEW k \in 1 .. m - 1 PROVE u[k] \in On(s) \ {s[at]}
  <2>1. CASE k < at
    <3>1. k \in 1 .. m /\ k # at /\ u[k] = s[k]
      BY <1>1, <1>2, <2>1
    <3> QED
      BY <1>1, <3>1 DEF On
  <2>2. CASE k >= at
    <3>1. k + 1 \in 1 .. m /\ k + 1 # at /\ u[k] = s[k + 1]
      BY <1>1, <1>2, <2>2
    <3> QED
      BY <1>1, <3>1 DEF On
  <2> QED
    BY <1>1, <2>1, <2>2
<1>4. ASSUME NEW k \in 1 .. m, k # at PROVE s[k] \in On(u)
  <2>1. CASE k < at
    <3>1. k \in 1 .. m - 1 /\ u[k] = s[k]
      BY <1>1, <1>2, <2>1
    <3> QED
      BY <1>2, <3>1 DEF On
  <2>2. CASE k > at
    <3>1. PICK j \in 1 .. m - 1 : j = k - 1 /\ j + 1 = k /\ j >= at
      BY <1>1, <2>2
    <3>2. u[j] = s[k]
      BY <1>2, <3>1
    <3> QED
      BY <1>2, <3>2 DEF On
  <2> QED
    BY <1>1, <1>4, <2>1, <2>2
<1>5. On(u) \subseteq On(s) \ {s[at]}
  BY <1>2, <1>3 DEF On
<1>6. On(s) \ {s[at]} \subseteq On(u)
  <2> SUFFICES ASSUME NEW k \in 1 .. m, s[k] # s[at] PROVE s[k] \in On(u)
    BY <1>1, Zenon DEF On
  <2> QED
    BY <1>4
<1> QED
  BY <1>1, <1>5, <1>6

LEMMA UnlinkedIs ==
  ASSUME NEW links \in [Nodes -> Nodes \cup {NULL}], NEW s, NEW from, Path(s, from, links),
         NEW at \in 1 .. Len(s), NEW links2, links2 = Unlinked(links, s, at)
  PROVE  /\ links2 \in [Nodes -> Nodes \cup {NULL}]
         /\ links2[s[at]] = NULL
         /\ at # 1 => at - 1 \in 1 .. Len(s) /\ links2[s[at - 1]] = links[s[at]]
         /\ \A n \in Nodes : n # s[at] /\ (at # 1 => n # s[at - 1]) => links2[n] = links[n]
<1>1. s[at] \in Nodes /\ links[s[at]] \in Nodes \cup {NULL}
  BY OnPath
<1>2. CASE at = 1
  BY <1>1, <1>2 DEF Unlinked
<1>3. CASE at # 1
  <2>1. at - 1 \in 1 .. Len(s) /\ s[at - 1] \in Nodes /\ at - 1 # at
    BY <1>3, OnPath
  <2>2. s[at - 1] # s[at]
    BY <2>1 DEF Path
  <2>3. links2 = [[links EXCEPT ![s[at - 1]] = links[s[at]]] EXCEPT ![s[at]] = NULL]
    BY <1>3 DEF Unlinked
  <2> QED
    BY <1>1, <1>3, <2>1, <2>2, <2>3
<1> QED
  BY <1>2, <1>3

LEMMA WithoutPath ==
  ASSUME NEW links \in [Nodes -> Nodes \cup {NULL}], NEW s, NEW from, Path(s, from, links),
         NEW at \in 1 .. Len(s)
  PROVE  Path(Without(s, at), IF at = 1 THEN links[s[at]] ELSE from, Unlinked(links, s, at))
<1>1. PICK u, links2, m : /\ u = Without(s, at) /\ links2 = Unlinked(links, s, at)
                          /\ m = Len(s) /\ m \in Nat
  BY OnPath
<1>2. /\ s \in Seq(Nodes) /\ from = At(s, 1) /\ at \in 1 .. m
      /\ \A k \in 1 .. m : links[s[k]] = At(s, k + 1)
      /\ \A j, k \in 1 .. m : s[j] = s[k] => j = k
      /\ \A k \in 1 .. m : s[k] \in Nodes
  BY <1>1, OnPath DEF Path
<1>3. /\ u \in Seq(Nodes) /\ Len(u) = m - 1
      /\ \A k \in 1 .. m - 1 : k < at => u[k] = s[k]
      /\ \A k \in 1 .. m - 1 : k >= at => u[k] = s[k + 1]
  <2>1. IsWithout(u, s, at, m)
    BY <1>1, <1>2, WithoutIs
  <2> QED
    BY <2>1 DEF IsWithout
<1>4. /\ at # 1 => at - 1 \in 1 .. m /\ links2[s[at - 1]] = links[s[at]]
      /\ \A n \in Nodes : n # s[at] /\ (at # 1 => n # s[at - 1]) => links2[n] = links[n]
  BY <1>1, UnlinkedIs
<1>5. ASSUME NEW k \in 1 .. m - 1
      PROVE  \/ k < at /\ k \in 1 .. m /\ u[k] = s[k]
             \/ k >= at /\ k + 1 \in 1 .. m /\ u[k] = s[k + 1]
  BY <1>1, <1>2, <1>3
<1>6. ASSUME NEW j \in 1 .. m - 1, NEW k \in 1 .. m - 1, u[j] = u[k] PROVE j = k
  <2>1. PICK a \in 1 .. m : u[j] = s[a] /\ ((a = j /\ j < at) \/ (a = j + 1 /\ j >= at))
    BY <1>5
  <2>2. PICK b \in 1 .. m : u[k] = s[b] /\ ((b = k /\ k < at) \/ (b = k + 1 /\ k >= at))
    BY <1>5
  <2>3. a = b
    BY <1>2, <1>6, <2>1, <2>2
  <2> QED
    BY <1>2, <2>1, <2>2, <2>3
<1>7. (IF at = 1 THEN links[s[at]] ELSE from) = At(u, 1)
  <2>1. CASE at = 1
    <3>1. links[s[at]] = At(s, 2)
      BY <1>2, <2>1
    <3>2. CASE m = 1
      BY <1>1, <1>3, <2>1, <3>1, <3>2 DEF At
    <3>3. CASE m # 1
      <4>1. 1 \in 1 .. m - 1 /\ 2 \in 1 .. m
        BY <1>1, <1>2, <3>3
      <4>2. u[1] = s[2]
        BY <1>3, <2>1, <4>1
      <4> QED
        BY <1>1, <1>3, <2>1, <3>1, <4>1, <4>2 DEF At
    <3> QED
      BY <3>2, <3>3
  <2>2. CASE at # 1
    <3>1. 1 \in 1 .. m - 1 /\ 1 < at /\ 1 \in 1 .. m
      BY <1>1, <1>2, <2>2
    <3>2. u[1] = s[1]
      BY <1>3, <3>1
    <3> QED
      BY <1>1, <1>2, <1>3, <2>2, <3>1, <3>2 DEF At
  <2> QED
    BY <2>1, <2>2
<1>8. ASSUME NEW k \in 1 .. m - 1 PROVE links2[u[k]] = At(u, k + 1)
  <2>1. CASE k < at - 1
    <3>1. /\ k \in 1 .. m /\ k < at /\ k + 1 < at /\ k + 1 \in 1 .. m - 1 /\ k + 1 \in 1 .. m
          /\ at # 1 /\ k # at /\ k # at - 1
      BY <1>1, <1>2, <2>1
    <3>2. u[k] = s[k] /\ u[k + 1] = s[k + 1]
      BY <1>3, <3>1
    <3>3. s[k] # s[at] /\ s[k] # s[at - 1]
      BY <1>2, <1>4, <3>1
    <3>4. links2[s[k]] = links[s[k]]
      BY <1>2, <1>4, <3>1, <3>3
    <3> QED
      BY <1>1, <1>2, <1>3, <3>1, <3>2, <3>4 DEF At
  <2>2. CASE k = at - 1
    <3>1. at # 1 /\ k \in 1 .. m /\ k < at /\ k + 1 = at
      BY <1>1, <1>2, <2>2
    <3>2. u[k] = s[at - 1]
      BY <1>3, <2>2, <3>1
    <3>3. links2[u[k]] = At(s, at + 1)
      BY <1>2, <1>4, <3>1, <3>2
    <3>4. CASE at = m
      BY <1>1, <1>2, <1>3, <3>1, <3>3, <3>4 DEF At
    <3>5. CASE at # m
      <4>1. at \in 1 .. m - 1 /\ at + 1 \in 1 .. m
        BY <1>1, <1>2, <3>5
      <4>2. u[at] = s[at + 1]
        BY <1>3, <4>1
      <4> QED
        BY <1>1, <1>3, <3>1, <3>3, <4>1, <4>2 DEF At
    <3> QED
      BY <3>4, <3>5
  <2>3. CASE k >= at
    <3>1. PICK j \in 1 .. m : j = k + 1 /\ j # at /\ (at # 1 => j # at - 1)
      BY <1>1, <1>2, <2>3
    <3>2. u[k] = s[j]
      BY <1>3, <2>3, <3>1
    <3>3. s[j] # s[at] /\ (at # 1 => s[j] # s[at - 1])
      BY <1>2, <1>4, <3>1
    <3>4. links2[u[k]] = At(s, j + 1)
      BY <1>2, <1>4, <3>2, <3>3
    <3>5. CASE j = m
      BY <1>1, <1>3, <3>1, <3>4, <3>5 DEF At
    <3>6. CASE j # m
      <4>1. k + 1 \in 1 .. m - 1 /\ k + 1 >= at /\ (k + 1) + 1 = j + 1 /\ j + 1 \in 1 .. m
        BY <1>1, <1>2, <2>3, <3>1, <3>6
      <4>2. u[k + 1] = s[j + 1]
        BY <1>3, <4>1
      <4> QED
        BY <1>1, <1>3, <3>4, <4>1, <4>2 DEF At
    <3> QED
      BY <3>5, <3>6
  <2> QED
    BY <1>1, <1>2, <2>1, <2>2, <2>3
<1>9. Path(u, IF at = 1 THEN links[s[at]] ELSE from, links2)
  BY <1>3, <1>6, <1>7, <1>8 DEF Path
<1> QED
  BY <1>1, <1>9

\* What is left is in order, and has distinct names.
LEMMA WithoutSorted ==
  ASSUME NEW s \in Seq(Nodes), NEW d, NEW d2, NEW at \in 1 .. Len(s),
         \A j, k \in 1 .. Len(s) : s[j] = s[k] => j = k,
         \A n \in On(s) : n # s[at] => d2[n] = d[n]
  PROVE  /\ Sorted(s, d) => Sorted(Without(s, at), d2)
         /\ Named(s, d) => Named(Without(s, at), d2)
<1>1. PICK u, m : u = Without(s, at) /\ m = Len(s) /\ m \in Nat
  OBVIOUS
<1>2. /\ Len(u) = m - 1
      /\ \A k \in 1 .. m - 1 : k < at => u[k] = s[k]
      /\ \A k \in 1 .. m - 1 : k >= at => u[k] = s[k + 1]
  <2>1. IsWithout(u, s, at, m)
    BY <1>1, WithoutIs
  <2> QED
    BY <2>1 DEF IsWithout
<1>3. ASSUME NEW k \in 1 .. m - 1
      PROVE  \E a \in 1 .. m : /\ (a = k /\ k < at) \/ (a = k + 1 /\ k >= at)
                               /\ d2[u[k]] = d[s[a]]
  <2>1. PICK a \in 1 .. m : ((a = k /\ k < at) \/ (a = k + 1 /\ k >= at)) /\ u[k] = s[a] /\ a # at
    BY <1>1, <1>2
  <2>2. s[a] # s[at] /\ s[a] \in On(s)
    BY <1>1, <2>1 DEF On
  <2> QED
    BY <2>1, <2>2
<1>4. ASSUME Sorted(s, d), NEW j \in 1 .. m - 1, NEW k \in 1 .. m - 1, j < k
      PROVE  Place(d2[u[j]]) <= Place(d2[u[k]])
  <2>1. PICK a \in 1 .. m : ((a = j /\ j < at) \/ (a = j + 1 /\ j >= at)) /\ d2[u[j]] = d[s[a]]
    BY <1>3
  <2>2. PICK b \in 1 .. m : ((b = k /\ k < at) \/ (b = k + 1 /\ k >= at)) /\ d2[u[k]] = d[s[b]]
    BY <1>3
  <2>3. a < b
    BY <1>1, <1>4, <2>1, <2>2
  <2> QED
    BY <1>1, <1>4, <2>1, <2>2, <2>3 DEF Sorted
<1>5. ASSUME Named(s, d), NEW j \in 1 .. m - 1, NEW k \in 1 .. m - 1, d2[u[j]].name = d2[u[k]].name
      PROVE  j = k
  <2>1. PICK a \in 1 .. m : ((a = j /\ j < at) \/ (a = j + 1 /\ j >= at)) /\ d2[u[j]] = d[s[a]]
    BY <1>3
  <2>2. PICK b \in 1 .. m : ((b = k /\ k < at) \/ (b = k + 1 /\ k >= at)) /\ d2[u[k]] = d[s[b]]
    BY <1>3
  <2>3. a = b
    BY <1>1, <1>5, <2>1, <2>2 DEF Named
  <2> QED
    BY <1>1, <2>1, <2>2, <2>3
<1> QED
  BY <1>1, <1>2, <1>4, <1>5 DEF Sorted, Named

-----------------------------------------------------------------------------
(* The players selected from a roster                                      *)

LEMMA ThoseDef ==
  ASSUME NEW c, NEW T
  PROVE  Promise!Those(c, T) = Upto(c, T)[Len(c)]
BY DEF Promise!Those, Upto, Choosing

LEMMA ChoosingExists ==
  ASSUME NEW B, NEW c \in Seq(B), NEW T
  PROVE  \E f \in [0 .. Len(c) -> Seq(B)] : Choosing(f, c, T)
<1>1. PICK n \in Nat : n = Len(c)
  OBVIOUS
<1>2. \A i \in 1 .. n : c[i] \in B
  BY <1>1
<1> DEFINE Next1(f, i) == IF i = 0 THEN <<>> ELSE IF c[i] \in T THEN Append(f[i - 1], c[i]) ELSE f[i - 1]
           Some(m) == \E f \in [0 .. m -> Seq(B)] : \A i \in 0 .. m : f[i] = Next1(f, i)
           M == {m \in 0 .. n : Some(m)}
<1>3. Some(0)
  <2>1. PICK f : f = [i \in 0 .. 0 |-> <<>>]
    OBVIOUS
  <2>2. f \in [0 .. 0 -> Seq(B)] /\ f[0] = <<>>
    BY <2>1
  <2> QED
    BY <2>2
<1>4. ASSUME NEW m \in 0 .. n - 1, Some(m) PROVE Some(m + 1)
  <2>1. PICK f \in [0 .. m -> Seq(B)] : \A i \in 0 .. m : f[i] = Next1(f, i)
    BY <1>4
  <2>2. PICK last : last = IF c[m + 1] \in T THEN Append(f[m], c[m + 1]) ELSE f[m]
    OBVIOUS
  <2>3. last \in Seq(B)
    <3>1. f[m] \in Seq(B) /\ c[m + 1] \in B
      BY <1>2
    <3> QED
      BY <2>2, <3>1
  <2>4. PICK g : g = [i \in 0 .. m + 1 |-> IF i = m + 1 THEN last ELSE f[i]]
    OBVIOUS
  <2>5. g \in [0 .. m + 1 -> Seq(B)]
    BY <2>3, <2>4
  <2>6. ASSUME NEW i \in 0 .. m + 1 PROVE g[i] = Next1(g, i)
    <3>1. CASE i = m + 1
      <4>1. g[i] = last /\ i # 0 /\ i - 1 = m /\ g[m] = f[m]
        BY <2>4, <3>1
      <4> QED
        BY <2>2, <3>1, <4>1
    <3>2. CASE i # m + 1
      <4>1. i \in 0 .. m /\ g[i] = f[i] /\ (i # 0 => g[i - 1] = f[i - 1])
        BY <2>4, <3>2
      <4>2. f[i] = Next1(f, i)
        BY <2>1, <4>1
      <4> QED
        BY <4>1, <4>2
    <3> QED
      BY <3>1, <3>2
  <2> HIDE DEF Next1
  <2> QED
    BY <2>5, <2>6
<1> HIDE DEF Some
<1>5. 0 \in M /\ \A k \in 0 .. n - 1 : k \in M => k + 1 \in M
  BY <1>3, <1>4
<1>6. 0 .. n \subseteq M
  BY <1>5, AllNumbers
<1>7. Some(n)
  BY <1>6
<1>8. PICK f \in [0 .. n -> Seq(B)] : \A i \in 0 .. n : f[i] = Next1(f, i)
  BY <1>7 DEF Some
<1>9. f = [i \in 0 .. n |-> Next1(f, i)]
  BY <1>8
<1> QED
  BY <1>1, <1>8, <1>9 DEF Choosing

\* The function, place by place.
LEMMA UptoIs ==
  ASSUME NEW B, NEW c \in Seq(B), NEW T
  PROVE  /\ Upto(c, T)[0] = <<>>
         /\ \A i \in 1 .. Len(c) :
              Upto(c, T)[i] = IF c[i] \in T THEN Append(Upto(c, T)[i - 1], c[i]) ELSE Upto(c, T)[i - 1]
<1>1. PICK f : f = Upto(c, T)
  OBVIOUS
<1>2. Choosing(f, c, T)
  BY <1>1, ChoosingExists DEF Upto
<1>3. \A i \in 0 .. Len(c) :
        f[i] = IF i = 0 THEN <<>> ELSE IF c[i] \in T THEN Append(f[i - 1], c[i]) ELSE f[i - 1]
  BY <1>2, Zenon DEF Choosing
<1>4. f[0] = <<>>
  BY <1>3
<1>5. \A i \in 1 .. Len(c) : f[i] = IF c[i] \in T THEN Append(f[i - 1], c[i]) ELSE f[i - 1]
  BY <1>3
<1> QED
  BY <1>1, <1>4, <1>5

\* Two pieces of the roster: what comes before a, and what comes from b to
\* before e.
Pieces(c, a, b, e) == [x \in 1 .. (a - 1) + (e - b) |-> IF x < a THEN c[x] ELSE c[x + (b - a)]]
IsPieces(c, T, a, b, e) == Promise!Those(c, T) = Pieces(c, a, b, e)
LEMMA ThoseArePieces ==
  ASSUME NEW B, NEW c \in Seq(B), NEW T, NEW a \in Nat, NEW b \in Nat, NEW e \in Nat,
         1 <= a, a <= b, b <= e, e <= Len(c) + 1,
         \A i \in 1 .. Len(c) : c[i] \in T <=> i < a \/ (b <= i /\ i < e)
  PROVE  IsPieces(c, T, a, b, e)
<1>1. PICK n \in Nat : n = Len(c)
  OBVIOUS
<1>2. PICK f : f = Upto(c, T)
  OBVIOUS
<1>3. f[0] = <<>> /\ \A i \in 1 .. n : f[i] = IF c[i] \in T THEN Append(f[i - 1], c[i]) ELSE f[i - 1]
  BY <1>1, <1>2, UptoIs
<1> DEFINE L(i) == IF i < a THEN i ELSE IF i < b THEN a - 1 ELSE IF i < e THEN (a - 1) + (i - b) + 1 ELSE (a - 1) + (e - b)
           P(x) == IF x < a THEN c[x] ELSE c[x + (b - a)]
           First(l) == [x \in 1 .. l |-> P(x)]
           M == {i \in 0 .. n : f[i] = First(L(i))}
<1>4. 0 \in M
  <2>1. First(0) = <<>>
    OBVIOUS
  <2>2. L(0) = 0
    OBVIOUS
  <2> HIDE DEF First, L
  <2> QED
    BY <1>3, <2>1, <2>2
<1>5. ASSUME NEW i \in 0 .. n - 1, i \in M PROVE i + 1 \in M
  <2>1. PICK j \in 1 .. n : j = i + 1 /\ j - 1 = i
    OBVIOUS
  <2>2. f[i] = First(L(i))
    BY <1>5
  <2>3. f[j] = IF c[j] \in T THEN Append(f[i], c[j]) ELSE f[i]
    BY <1>3, <2>1
  <2>4. PICK l \in Nat : l = L(i)
    <3>1. L(i) \in Nat
      OBVIOUS
    <3> HIDE DEF L
    <3> QED
      BY <3>1
  <2>5. CASE c[j] \in T
    <3>1. j < a \/ (b <= j /\ j < e)
      BY <1>1, <2>5
    <3>2. L(j) = l + 1 /\ P(l + 1) = c[j]
      BY <2>1, <2>4, <3>1
    <3>3. \A x \in 1 .. l : P(x) \in B
      <4>1. \A x \in 1 .. n : c[x] \in B
        BY <1>1
      <4>2. \A x \in 1 .. l : (x < a => x \in 1 .. n) /\ (~(x < a) => x + (b - a) \in 1 .. n)
        BY <2>1, <2>4
      <4> QED
        BY <4>1, <4>2
    <3>4. c[j] \in B
      BY <1>1
    <3> HIDE DEF P, L
    <3>5. PICK u : u = First(l)
      OBVIOUS
    <3>6. u \in Seq(B) /\ Len(u) = l /\ \A x \in 1 .. l : u[x] = P(x)
      BY <3>3, <3>5
    <3>7. Append(u, c[j]) = First(l + 1)
      <4>1. PICK v : v = Append(u, c[j])
        OBVIOUS
      <4>2. /\ v \in Seq(B) /\ Len(v) = l + 1 /\ v[l + 1] = c[j]
            /\ \A x \in 1 .. l : v[x] = u[x]
        BY <3>4, <3>6, <4>1, AppendProperties
      <4>3. \A x \in 1 .. l + 1 : v[x] = P(x)
        <5> TAKE x \in 1 .. l + 1
        <5>1. x = l + 1 \/ x \in 1 .. l
          OBVIOUS
        <5> QED
          BY <3>2, <3>6, <4>2, <5>1
      <4>4. v = [x \in 1 .. l + 1 |-> v[x]]
        BY <4>2
      <4> QED
        BY <4>1, <4>3, <4>4
    <3> HIDE DEF First
    <3>8. f[j] = First(L(j))
      BY <2>2, <2>3, <2>4, <2>5, <3>2, <3>5, <3>7
    <3> QED
      BY <2>1, <3>8
  <2>6. CASE c[j] \notin T
    <3>1. ~(j < a) /\ ~(b <= j /\ j < e)
      BY <1>1, <2>6
    <3>2. L(j) = l
      BY <2>1, <2>4, <3>1
    <3> HIDE DEF First, L
    <3>3. f[j] = First(L(j))
      BY <2>2, <2>3, <2>4, <2>6, <3>2
    <3> QED
      BY <2>1, <3>3
  <2> QED
    BY <2>5, <2>6
<1>6. 0 .. n \subseteq M
  <2> HIDE DEF M
  <2> QED
    BY <1>4, <1>5, AllNumbers
<1>7. f[n] = First(L(n))
  BY <1>6
<1>8. L(n) = (a - 1) + (e - b)
  BY <1>1
<1> QED
  BY <1>1, <1>2, <1>7, <1>8, ThoseDef DEF Pieces, IsPieces

-----------------------------------------------------------------------------
(* The two lists together                                                  *)

LEMMA ToldIs ==
  ASSUME NEW s \in Seq(Nodes), NEW d, \A k \in 1 .. Len(s) : d[s[k]] \in Players
  PROVE  Told(s, d) \in Seq(Players) /\ Len(Told(s, d)) = Len(s)
BY DEF Told

\* The players of the team, and of the copies, before and after a step.
ContentsOf(from, links, d) ==
  [k \in DOMAIN Met(Walk(from, links)) |-> d[Met(Walk(from, links))[k]]]
LEMMA ContentsDef ==
  /\ Contents(team) = ContentsOf(team, next, data)
  /\ Contents(team)' = ContentsOf(team', next', data')
  /\ Contents(result_list) = ContentsOf(result_list, next, data)
BY DEF Contents, ContentsOf, Chain, Walks, Walk, Met

LEMMA ContentsIs ==
  ASSUME NEW s, NEW from, NEW links, NEW d, Path(s, from, links)
  PROVE  ContentsOf(from, links, d) = Told(s, d)
<1>1. Met(Walk(from, links)) = s
  BY MetIs
<1>2. DOMAIN s = 1 .. Len(s)
  BY OnPath
<1> QED
  BY <1>1, <1>2 DEF ContentsOf, Told

\* search_by_fam_name finds the players of a name.
LEMMA NamesIs ==
  ASSUME NEW s, NEW from, Path(s, from, next), NEW n
  PROVE  /\ \A k \in search_by_fam_name(n, from) :
              k \in 1 .. Len(s) /\ Chain(from)[k] = s[k] /\ Chain(from)[k - 1] = s[k - 1]
              /\ data[s[k]].name = n
         /\ search_by_fam_name(n, from) = {} => \A k \in 1 .. Len(s) : data[s[k]].name # n
<1>1. Chain(from) = s
  BY ChainIs
<1>2. DOMAIN s = 1 .. Len(s) /\ Len(s) \in Nat
  BY OnPath
<1>3. PICK ks : ks = {k \in 1 .. Len(s) : data[s[k]].name = n}
  OBVIOUS
<1>4. search_by_fam_name(n, from) = FirstOf(ks)
  BY <1>1, <1>2, <1>3 DEF search_by_fam_name
<1>5. ks \subseteq Nat
  BY <1>2, <1>3
<1>6. (\A k \in FirstOf(ks) : k \in ks) /\ (FirstOf(ks) = {} => ks = {})
  BY <1>5, FirstIs
<1> QED
  BY <1>1, <1>3, <1>4, <1>6

\* What is allocated holds a player.
LEMMA BothIs ==
  ASSUME NEW s, NEW from, NEW o, NEW ofrom, NEW links, NEW d,
         Both(s, from, o, ofrom, links, d), d \in [Nodes -> Players \cup {NULL}]
  PROVE  /\ s \in Seq(Nodes) /\ o \in Seq(Nodes) /\ Len(s) \in Nat /\ Len(o) \in Nat
         /\ \A k \in 1 .. Len(s) : s[k] \in On(s) /\ s[k] \in Nodes /\ d[s[k]] \in Players
         /\ \A k \in 1 .. Len(o) : o[k] \in On(o) /\ o[k] \in Nodes /\ d[o[k]] \in Players
         /\ Both(o, ofrom, s, from, links, d)
<1>1. /\ s \in Seq(Nodes) /\ o \in Seq(Nodes) /\ Len(s) \in Nat /\ Len(o) \in Nat
      /\ \A k \in 1 .. Len(s) : s[k] \in On(s) /\ s[k] \in Nodes
      /\ \A k \in 1 .. Len(o) : o[k] \in On(o) /\ o[k] \in Nodes
  <2>1. Path(s, from, links) /\ Path(o, ofrom, links)
    BY DEF Both
  <2> QED
    BY <2>1, OnPath
<1>2. \A n \in Nodes : n \in On(s) \cup On(o) => d[n] \in Players
  BY DEF Both
<1>3. Both(o, ofrom, s, from, links, d)
  BY DEF Both
<1> QED
  BY <1>1, <1>2, <1>3

\* A list whose players are left alone.
LEMMA SameData ==
  ASSUME NEW s \in Seq(Nodes), NEW d, NEW d2, \A n \in On(s) : d2[n] = d[n]
  PROVE  /\ Told(s, d2) = Told(s, d)
         /\ Sorted(s, d) => Sorted(s, d2)
         /\ Named(s, d) => Named(s, d2)
<1>1. \A k \in 1 .. Len(s) : d2[s[k]] = d[s[k]]
  BY DEF On
<1> QED
  BY <1>1 DEF Told, Sorted, Named

\* The players of a list that got one more.
ToldWith(s, d, d2, at, new) == Told(With(s, at, new), d2) = With(Told(s, d), at, d2[new])
LEMMA WithTold ==
  ASSUME NEW s \in Seq(Nodes), NEW d, NEW d2, NEW at \in 1 .. Len(s) + 1, NEW new \in Nodes,
         \A n \in On(s) : d2[n] = d[n]
  PROVE  ToldWith(s, d, d2, at, new)
<1>1. PICK u, m, c : u = With(s, at, new) /\ m = Len(s) /\ m \in Nat /\ c = Told(s, d)
  OBVIOUS
<1>2. u = [k \in 1 .. m + 1 |-> IF k < at THEN s[k] ELSE IF k = at THEN new ELSE s[k - 1]]
  BY <1>1 DEF With
<1>3. c = [k \in 1 .. m |-> d[s[k]]] /\ Len(c) = m
  BY <1>1 DEF Told
<1>4. Len(u) = m + 1
  BY <1>1, WithIs DEF IsWith
<1>5. \A k \in 1 .. m : d2[s[k]] = d[s[k]]
  BY <1>1 DEF On
<1>6. ASSUME NEW k \in 1 .. m + 1
      PROVE  d2[u[k]] = IF k < at THEN c[k] ELSE IF k = at THEN d2[new] ELSE c[k - 1]
  <2>1. at \in 1 .. m + 1 /\ (k < at => k \in 1 .. m) /\ (~(k < at) /\ k # at => k - 1 \in 1 .. m)
    BY <1>1
  <2> QED
    BY <1>2, <1>3, <1>5, <2>1
<1> QED
  BY <1>1, <1>3, <1>4, <1>6 DEF Told, With, ToldWith

ToldWithout(s, d, d2, at) == Told(Without(s, at), d2) = Without(Told(s, d), at)
LEMMA WithoutTold ==
  ASSUME NEW s \in Seq(Nodes), NEW d, NEW d2, NEW at \in 1 .. Len(s),
         \A j, k \in 1 .. Len(s) : s[j] = s[k] => j = k,
         \A n \in On(s) : n # s[at] => d2[n] = d[n]
  PROVE  ToldWithout(s, d, d2, at)
<1>1. PICK u, m, c : u = Without(s, at) /\ m = Len(s) /\ m \in Nat /\ c = Told(s, d)
  OBVIOUS
<1>2. u = [k \in 1 .. m - 1 |-> IF k < at THEN s[k] ELSE s[k + 1]]
  BY <1>1 DEF Without
<1>3. c = [k \in 1 .. m |-> d[s[k]]] /\ Len(c) = m
  BY <1>1 DEF Told
<1>4. Len(u) = m - 1
  BY <1>1, WithoutIs DEF IsWithout
<1>5. \A k \in 1 .. m : k # at => d2[s[k]] = d[s[k]]
  BY <1>1 DEF On
<1>6. ASSUME NEW k \in 1 .. m - 1
      PROVE  d2[u[k]] = IF k < at THEN c[k] ELSE c[k + 1]
  <2>1. at \in 1 .. m /\ k \in 1 .. m /\ k + 1 \in 1 .. m
    BY <1>1
  <2>2. k < at => k # at
    BY <2>1
  <2>3. ~(k < at) => k + 1 # at
    BY <2>1
  <2> QED
    BY <1>2, <1>3, <1>5, <2>1, <2>2, <2>3
<1>7. Told(u, d2) = [k \in 1 .. m - 1 |-> d2[u[k]]]
  BY <1>4 DEF Told
<1>8. Without(c, at) = [k \in 1 .. m - 1 |-> IF k < at THEN c[k] ELSE c[k + 1]]
  BY <1>3 DEF Without
<1> QED
  BY <1>1, <1>6, <1>7, <1>8 DEF ToldWithout

\* insert_player into one of two lists.
Grown(u, ufrom, o, ofrom, links, d, c, at, player) ==
  /\ Both(u, ufrom, o, ofrom, links, d)
  /\ Told(u, d) = With(c, at, player)
  /\ links \in [Nodes -> Nodes \cup {NULL}] /\ ufrom \in Nodes \cup {NULL}
  /\ d \in [Nodes -> Players \cup {NULL}]
Growing(s, o, ofrom, new, player, ufrom, links, d) ==
  \E at \in 1 .. Len(s) + 1 :
    /\ Grown(With(s, at, new), ufrom, o, ofrom, links, d, Told(s, data), at, player)
    /\ Told(o, d) = Told(o, data)
    /\ \A k \in 1 .. Len(s) : k < at => Place(data[s[k]]) <= Place(player)
    /\ at <= Len(s) => Place(player) < Place(data[s[at]])
LEMMA InsertGrows ==
  ASSUME TypeOK, NEW s, NEW from, NEW o, NEW ofrom, Both(s, from, o, ofrom, next, data),
         NEW new \in Free, NEW player \in Players,
         NEW d, d = [data EXCEPT ![new] = player],
         NEW ufrom, ufrom = insert_player(from, new, player).head,
         NEW links, links = insert_player(from, new, player).next
  PROVE  Growing(s, o, ofrom, new, player, ufrom, links, d)
<1>1. /\ s \in Seq(Nodes) /\ o \in Seq(Nodes) /\ Len(s) \in Nat /\ Len(o) \in Nat
      /\ \A k \in 1 .. Len(s) : s[k] \in On(s) /\ s[k] \in Nodes /\ data[s[k]] \in Players
      /\ \A k \in 1 .. Len(o) : o[k] \in On(o) /\ o[k] \in Nodes /\ data[o[k]] \in Players
  BY BothIs DEF TypeOK
<1>2. /\ Path(s, from, next) /\ Path(o, ofrom, next) /\ On(s) \cap On(o) = {}
      /\ \A n \in Nodes : data[n] # NULL <=> n \in On(s) \cup On(o)
      /\ Sorted(s, data) /\ Sorted(o, data)
  BY DEF Both
<1>3. /\ new \in Nodes /\ new \notin On(s) /\ new \notin On(o)
      /\ next \in [Nodes -> Nodes \cup {NULL}] /\ data \in [Nodes -> Players \cup {NULL}]
  BY <1>2 DEF Free, TypeOK
<1>4. PICK at \in 1 .. Len(s) + 1 :
        /\ ufrom = IF at = 1 THEN new ELSE from
        /\ links = Linked(next, s, at, new)
        /\ \A k \in 1 .. Len(s) : k < at => Place(data[s[k]]) <= Place(player)
        /\ at <= Len(s) => Place(player) < Place(data[s[at]])
  BY <1>1, <1>2, <1>3, InsertIs
<1>5. PICK u : u = With(s, at, new)
  OBVIOUS
<1>6. Path(u, ufrom, links)
  BY <1>2, <1>3, <1>4, <1>5, WithPath
<1>7. /\ links \in [Nodes -> Nodes \cup {NULL}]
      /\ at # 1 => at - 1 \in 1 .. Len(s)
      /\ \A n \in Nodes : n # new /\ (at # 1 => n # s[at - 1]) => links[n] = next[n]
  BY <1>2, <1>3, <1>4, LinkedIs
<1>8. Path(o, ofrom, links)
  <2>1. ASSUME NEW n \in On(o) PROVE links[n] = next[n]
    <3>1. n \in Nodes /\ n # new /\ n \notin On(s)
      BY <1>1, <1>2, <1>3, OnPath
    <3>2. at # 1 => s[at - 1] \in On(s)
      BY <1>1, <1>7
    <3> QED
      BY <1>7, <3>1, <3>2
  <2> QED
    BY <1>2, <2>1, Apart
<1>9. On(u) = On(s) \cup {new}
  BY <1>1, <1>3, <1>5, WithIs DEF IsWith
<1>10. /\ d \in [Nodes -> Players \cup {NULL}] /\ d[new] = player
       /\ \A n \in Nodes : n # new => d[n] = data[n]
  BY <1>3
<1>11. On(u) \cap On(o) = {} /\ \A n \in Nodes : d[n] # NULL <=> n \in On(u) \cup On(o)
  <2>1. player # NULL
    BY PlaceIs
  <2> QED
    BY <1>2, <1>3, <1>9, <1>10, <2>1
<1>12. /\ \A n \in On(s) : d[n] = data[n]
       /\ \A n \in On(o) : d[n] = data[n]
  <2>1. On(s) \subseteq Nodes /\ On(o) \subseteq Nodes
    BY <1>2, OnPath
  <2> QED
    BY <1>3, <1>10, <2>1
<1>13. Sorted(u, d)
  <2>1. /\ s \in Seq(Nodes) /\ new \in Nodes /\ d[new] \in Players /\ Sorted(s, data)
        /\ \A k \in 1 .. Len(s) : data[s[k]] \in Players
        /\ \A n \in On(s) : d[n] = data[n]
    BY <1>1, <1>2, <1>3, <1>10, <1>12
  <2>2. /\ \A k \in 1 .. Len(s) : k < at => Place(data[s[k]]) <= Place(d[new])
        /\ at <= Len(s) => Place(d[new]) < Place(data[s[at]])
    BY <1>4, <1>10
  <2>3. Sorted(With(s, at, new), d)
    BY <2>1, <2>2, WithSorted, ZenonT(60)
  <2> QED
    BY <1>5, <2>3
<1>14. Sorted(o, d) /\ Told(o, d) = Told(o, data)
  BY <1>1, <1>2, <1>12, SameData
<1>15. Told(u, d) = With(Told(s, data), at, player)
  <2>1. s \in Seq(Nodes) /\ new \in Nodes /\ \A n \in On(s) : d[n] = data[n]
    BY <1>1, <1>3, <1>12
  <2>2. ToldWith(s, data, d, at, new)
    BY <2>1, WithTold, Zenon
  <2> QED
    BY <1>5, <1>10, <2>2 DEF ToldWith
<1>16. ufrom \in Nodes \cup {NULL}
  BY <1>6, OnPath
<1>17. Grown(u, ufrom, o, ofrom, links, d, Told(s, data), at, player)
  BY <1>6, <1>7, <1>8, <1>10, <1>11, <1>13, <1>14, <1>15, <1>16 DEF Grown, Both
<1> QED
  BY <1>4, <1>5, <1>14, <1>17 DEF Growing

\* A node taken off one of two lists and freed.
Shrunk(u, ufrom, o, ofrom, links, d, c, at) ==
  /\ Both(u, ufrom, o, ofrom, links, d)
  /\ Told(u, d) = Without(c, at)
  /\ links \in [Nodes -> Nodes \cup {NULL}] /\ ufrom \in Nodes \cup {NULL}
  /\ d \in [Nodes -> Players \cup {NULL}]
LEMMA UnlinkShrinks ==
  ASSUME TypeOK, NEW s, NEW from, NEW o, NEW ofrom, Both(s, from, o, ofrom, next, data),
         NEW at \in 1 .. Len(s),
         NEW d, d = [data EXCEPT ![s[at]] = NULL],
         NEW ufrom, ufrom = IF at = 1 THEN next[s[at]] ELSE from,
         NEW links, links = Unlinked(next, s, at)
  PROVE  /\ Shrunk(Without(s, at), ufrom, o, ofrom, links, d, Told(s, data), at)
         /\ Named(s, data) => Named(Without(s, at), d)
<1>1. /\ s \in Seq(Nodes) /\ o \in Seq(Nodes) /\ Len(s) \in Nat /\ Len(o) \in Nat
      /\ \A k \in 1 .. Len(s) : s[k] \in On(s) /\ s[k] \in Nodes /\ data[s[k]] \in Players
      /\ \A k \in 1 .. Len(o) : o[k] \in On(o) /\ o[k] \in Nodes /\ data[o[k]] \in Players
  BY BothIs DEF TypeOK
<1>2. /\ Path(s, from, next) /\ Path(o, ofrom, next) /\ On(s) \cap On(o) = {}
      /\ \A n \in Nodes : data[n] # NULL <=> n \in On(s) \cup On(o)
      /\ Sorted(s, data) /\ Sorted(o, data)
  BY DEF Both
<1>3. /\ next \in [Nodes -> Nodes \cup {NULL}] /\ data \in [Nodes -> Players \cup {NULL}]
      /\ \A j, k \in 1 .. Len(s) : s[j] = s[k] => j = k
      /\ On(s) \subseteq Nodes /\ On(o) \subseteq Nodes
  <2>1. /\ next \in [Nodes -> Nodes \cup {NULL}] /\ data \in [Nodes -> Players \cup {NULL}]
    BY DEF TypeOK
  <2>2. \A j, k \in 1 .. Len(s) : s[j] = s[k] => j = k
    BY <1>2 DEF Path
  <2>3. On(s) \subseteq Nodes
    BY <1>2, OnPath
  <2>4. On(o) \subseteq Nodes
    BY <1>2, OnPath
  <2> QED
    BY <2>1, <2>2, <2>3, <2>4
<1>4. PICK u : u = Without(s, at)
  OBVIOUS
<1>5. Path(u, ufrom, links)
  BY <1>2, <1>3, <1>4, WithoutPath
<1>6. /\ links \in [Nodes -> Nodes \cup {NULL}]
      /\ at # 1 => at - 1 \in 1 .. Len(s)
      /\ \A n \in Nodes : n # s[at] /\ (at # 1 => n # s[at - 1]) => links[n] = next[n]
  BY <1>2, <1>3, UnlinkedIs
<1>7. Path(o, ofrom, links)
  <2>1. ASSUME NEW n \in On(o) PROVE links[n] = next[n]
    <3>1. n \in Nodes /\ n \notin On(s) /\ s[at] \in On(s) /\ (at # 1 => s[at - 1] \in On(s))
      BY <1>1, <1>2, <1>3, <1>6
    <3> QED
      BY <1>6, <3>1
  <2> QED
    BY <1>2, <2>1, Apart
<1>8. On(u) = On(s) \ {s[at]}
  BY <1>1, <1>3, <1>4, WithoutOn
<1>9. /\ d \in [Nodes -> Players \cup {NULL}] /\ d[s[at]] = NULL
      /\ \A n \in Nodes : n # s[at] => d[n] = data[n]
  BY <1>1, <1>3
<1>10. On(u) \cap On(o) = {} /\ \A n \in Nodes : d[n] # NULL <=> n \in On(u) \cup On(o)
  <2>1. s[at] \in On(s) /\ s[at] \notin On(o)
    BY <1>1, <1>2
  <2> QED
    BY <1>2, <1>8, <1>9, <2>1
<1>11. /\ \A n \in On(s) : n # s[at] => d[n] = data[n]
       /\ \A n \in On(o) : d[n] = data[n]
  BY <1>1, <1>2, <1>3, <1>9
<1>12. Sorted(u, d) /\ (Named(s, data) => Named(u, d))
  BY <1>1, <1>2, <1>3, <1>4, <1>11, WithoutSorted
<1>13. Sorted(o, d)
  BY <1>1, <1>2, <1>11, SameData
<1>14. Told(u, d) = Without(Told(s, data), at)
  <2>1. s \in Seq(Nodes) /\ \A n \in On(s) : n # s[at] => d[n] = data[n]
    BY <1>1, <1>11
  <2>2. ToldWithout(s, data, d, at)
    BY <1>3, <2>1, WithoutTold, Zenon
  <2> QED
    BY <1>4, <2>2 DEF ToldWithout
<1>15. ufrom \in Nodes \cup {NULL}
  BY <1>5, OnPath
<1>16. Shrunk(u, ufrom, o, ofrom, links, d, Told(s, data), at)
  BY <1>5, <1>6, <1>7, <1>9, <1>10, <1>12, <1>13, <1>14, <1>15 DEF Shrunk, Both
<1> QED
  BY <1>4, <1>12, <1>16

\* free_team of one of two lists leaves it empty.
Emptied(s, from, links, d) ==
  /\ Both(s, from, <<>>, NULL, links, d)
  /\ Told(s, d) = Told(s, data)
  /\ links \in [Nodes -> Nodes \cup {NULL}] /\ d \in [Nodes -> Players \cup {NULL}]
LEMMA FreeEmpties ==
  ASSUME TypeOK, NEW s, NEW from, NEW o, NEW ofrom, Both(s, from, o, ofrom, next, data),
         NEW d, d = [n \in Nodes |-> IF n \in free_team(ofrom) THEN NULL ELSE data[n]],
         NEW links, links = [n \in Nodes |-> IF n \in free_team(ofrom) THEN NULL ELSE next[n]]
  PROVE  Emptied(s, from, links, d) /\ (Named(s, data) => Named(s, d))
<1>1. /\ Path(s, from, next) /\ Path(o, ofrom, next) /\ On(s) \cap On(o) = {}
      /\ \A n \in Nodes : data[n] # NULL <=> n \in On(s) \cup On(o)
      /\ Sorted(s, data)
  BY DEF Both
<1>2. free_team(ofrom) = On(o)
  <2>1. Chain(ofrom) = o /\ DOMAIN o = 1 .. Len(o)
    BY <1>1, ChainIs, OnPath
  <2> QED
    BY <2>1 DEF free_team, Range, On
<1>3. /\ next \in [Nodes -> Nodes \cup {NULL}] /\ data \in [Nodes -> Players \cup {NULL}]
      /\ s \in Seq(Nodes) /\ On(s) \subseteq Nodes
  BY <1>1, OnPath DEF TypeOK
<1>4. /\ \A n \in Nodes : n \in On(o) => d[n] = NULL
      /\ \A n \in Nodes : n \notin On(o) => d[n] = data[n] /\ links[n] = next[n]
      /\ links \in [Nodes -> Nodes \cup {NULL}] /\ d \in [Nodes -> Players \cup {NULL}]
  BY <1>2, <1>3
<1>5. \A n \in On(s) : d[n] = data[n] /\ links[n] = next[n]
  BY <1>1, <1>3, <1>4
<1>6. Path(s, from, links)
  BY <1>1, <1>5, Apart
<1>7. Path(<<>>, NULL, links) /\ On(<<>>) = {} /\ Sorted(<<>>, d)
  BY DEF Path, At, On, Sorted
<1>8. \A n \in Nodes : d[n] # NULL <=> n \in On(s) \cup On(<<>>)
  BY <1>1, <1>4, <1>7
<1>9. Sorted(s, d) /\ Told(s, d) = Told(s, data) /\ (Named(s, data) => Named(s, d))
  BY <1>1, <1>3, <1>5, SameData
<1> QED
  BY <1>4, <1>6, <1>7, <1>8, <1>9 DEF Emptied, Both

-----------------------------------------------------------------------------
(* The steps                                                               *)

\* The players of a roster, before and after a player came to it at a place.
Inserting(c, at, player) ==
  /\ c \in Seq(Players) /\ at \in 1 .. Len(c) + 1
  /\ \A k \in 1 .. Len(c) : c[k].name # player.name
  /\ \A k \in 1 .. Len(c) : k < at => Place(c[k]) <= Place(player)
  /\ \A k \in 1 .. Len(c) : k >= at => Place(player) < Place(c[k])
LEMMA InsertPlayerKeeps ==
  ASSUME IInv, NEW player \in Players, InsertPlayer(player)
  PROVE  /\ IInv'
         /\ \E at : Inserting(Contents(team), at, player)
                    /\ Contents(team)' = With(Contents(team), at, player)
<1>1. PICK t, r : Lists(t, r)
  BY DEF IInv
<1>2. /\ TypeOK /\ pc = "prompt" /\ Both(t, team, r, result_list, next, data) /\ Named(t, data)
  BY <1>1 DEF IInv, InsertPlayer, Lists
<1>3. PICK new \in Free :
        /\ team' = insert_player(team, new, player).head
        /\ next' = insert_player(team, new, player).next
        /\ data' = [data EXCEPT ![new] = player]
  BY DEF InsertPlayer
<1>4. pc' = pc /\ wanted' = wanted /\ head' = head /\ result_list' = result_list
  BY DEF InsertPlayer, search
<1>5. PICK at \in 1 .. Len(t) + 1 :
        /\ Grown(With(t, at, new), team', r, result_list, next', data', Told(t, data), at, player)
        /\ \A k \in 1 .. Len(t) : k < at => Place(data[t[k]]) <= Place(player)
        /\ at <= Len(t) => Place(player) < Place(data[t[at]])
  <2>1. Growing(t, r, result_list, new, player, team', next', data')
    BY <1>2, <1>3, InsertGrows, Zenon
  <2> QED
    BY <2>1 DEF Growing
<1>6. PICK u, c : u = With(t, at, new) /\ c = Told(t, data)
  OBVIOUS
<1>7. /\ Both(u, team', r, result_list, next', data')
      /\ Told(u, data') = With(c, at, player)
      /\ next' \in [Nodes -> Nodes \cup {NULL}] /\ team' \in Nodes \cup {NULL}
      /\ data' \in [Nodes -> Players \cup {NULL}]
  BY <1>5, <1>6 DEF Grown
<1>8. Path(t, team, next) /\ Path(u, team', next')
  BY <1>2, <1>7 DEF Both
<1>9. /\ t \in Seq(Nodes) /\ Len(t) \in Nat
      /\ \A k \in 1 .. Len(t) : t[k] \in On(t) /\ t[k] \in Nodes /\ data[t[k]] \in Players
  BY <1>2, BothIs DEF TypeOK
<1>10. c \in Seq(Players) /\ Len(c) = Len(t) /\ \A k \in 1 .. Len(t) : c[k] = data[t[k]]
  BY <1>6, <1>9, ToldIs DEF Told
<1>11. Contents(team) = c /\ Contents(team)' = With(c, at, player)
  BY <1>6, <1>7, <1>8, ContentsDef, ContentsIs
<1>12. \A k \in 1 .. Len(t) : c[k].name # player.name
  <2>1. search_by_fam_name(player.name, team) = {}
    BY DEF InsertPlayer
  <2>2. \A k \in 1 .. Len(t) : data[t[k]].name # player.name
    BY <1>8, <2>1, NamesIs
  <2> QED
    BY <1>10, <2>2
<1>13. Inserting(c, at, player)
  <2>1. ASSUME NEW k \in 1 .. Len(t), k >= at PROVE Place(player) < Place(c[k])
    <3>1. at \in 1 .. Len(t) /\ Place(player) < Place(c[at])
      BY <1>5, <1>9, <1>10, <2>1
    <3>2. at = k \/ Place(c[at]) <= Place(c[k])
      BY <1>2, <1>9, <1>10, <2>1, <3>1 DEF Both, Sorted
    <3>3. Place(player) \in Nat /\ Place(c[at]) \in Nat /\ Place(c[k]) \in Nat
      BY <1>9, <1>10, <3>1, PlaceIs
    <3> QED
      BY <3>1, <3>2, <3>3
  <2> QED
    BY <1>5, <1>10, <1>12, <2>1 DEF Inserting
<1>14. Named(u, data')
  <2>1. PICK m \in Nat : m = Len(t)
    BY <1>9
  <2>2. Len(u) = m + 1 /\ at \in 1 .. m + 1
    BY <1>3, <1>6, <1>9, <2>1, WithIs DEF IsWith, Free
  <2>3. ASSUME NEW k \in 1 .. m + 1
        PROVE  \/ k < at /\ k \in 1 .. m /\ data'[u[k]] = c[k]
               \/ k = at /\ data'[u[k]] = player
               \/ k > at /\ k - 1 \in 1 .. m /\ data'[u[k]] = c[k - 1]
    <3>1. data'[u[k]] = With(c, at, player)[k]
      BY <1>7, <2>2 DEF Told
    <3>2. With(c, at, player)[k] = IF k < at THEN c[k] ELSE IF k = at THEN player ELSE c[k - 1]
      BY <1>10, <2>1 DEF With
    <3>3. (k < at => k \in 1 .. m) /\ (k > at => k - 1 \in 1 .. m) /\ (k < at \/ k = at \/ k > at)
      BY <2>2
    <3> QED
      BY <3>1, <3>2, <3>3
  <2>4. \A j, k \in 1 .. m : c[j].name = c[k].name => j = k
    BY <1>2, <1>10, <2>1 DEF Named
  <2>5. ASSUME NEW j \in 1 .. m + 1, NEW k \in 1 .. m + 1, data'[u[j]].name = data'[u[k]].name
        PROVE  j = k
    <3>1. CASE j = at
      BY <1>12, <2>1, <2>2, <2>3, <2>5, <3>1
    <3>2. CASE k = at
      BY <1>12, <2>1, <2>2, <2>3, <2>5, <3>2
    <3>3. CASE j # at /\ k # at
      <4>1. PICK a \in 1 .. m : data'[u[j]] = c[a] /\ ((a = j /\ j < at) \/ (a = j - 1 /\ j > at))
        BY <2>3, <3>3
      <4>2. PICK b \in 1 .. m : data'[u[k]] = c[b] /\ ((b = k /\ k < at) \/ (b = k - 1 /\ k > at))
        BY <2>3, <3>3
      <4>3. a = b
        BY <2>4, <2>5, <4>1, <4>2
      <4> QED
        BY <2>2, <4>1, <4>2, <4>3
    <3> QED
      BY <3>1, <3>2, <3>3
  <2> QED
    BY <2>2, <2>5 DEF Named
<1>15. Lists(u, r)'
  BY <1>2, <1>4, <1>7, <1>14 DEF Lists
<1>16. TypeOK'
  BY <1>2, <1>4, <1>7 DEF TypeOK
<1> QED
  BY <1>11, <1>13, <1>15, <1>16 DEF IInv

Deleting(c, at, n) ==
  /\ c \in Seq(Players) /\ at \in 1 .. Len(c)
  /\ \A k \in 1 .. Len(c) : c[k].name = n <=> k = at
LEMMA DeletePlayerKeeps ==
  ASSUME IInv, NEW n \in Names, DeletePlayer(n)
  PROVE  /\ IInv'
         /\ \E at : Deleting(Contents(team), at, n)
                    /\ Contents(team)' = Without(Contents(team), at)
<1>1. PICK t, r : Lists(t, r)
  BY DEF IInv
<1>2. /\ TypeOK /\ pc = "prompt" /\ Both(t, team, r, result_list, next, data) /\ Named(t, data)
      /\ Path(t, team, next)
  BY <1>1 DEF IInv, DeletePlayer, Lists, Both
<1>3. PICK at \in search_by_fam_name(n, team) :
        /\ team' = IF at = 1 THEN next[Chain(team)[at]] ELSE team
        /\ next' = [IF at = 1 THEN next ELSE [next EXCEPT ![Chain(team)[at - 1]] = next[Chain(team)[at]]]
                      EXCEPT ![Chain(team)[at]] = NULL]
        /\ data' = [data EXCEPT ![Chain(team)[at]] = NULL]
  BY DEF DeletePlayer
<1>4. pc' = pc /\ wanted' = wanted /\ head' = head /\ result_list' = result_list
  BY DEF DeletePlayer, search
<1>5. at \in 1 .. Len(t) /\ data[t[at]].name = n
      /\ Chain(team)[at] = t[at] /\ Chain(team)[at - 1] = t[at - 1]
  BY <1>2, NamesIs
<1>6. /\ team' = IF at = 1 THEN next[t[at]] ELSE team
      /\ next' = Unlinked(next, t, at)
      /\ data' = [data EXCEPT ![t[at]] = NULL]
  BY <1>3, <1>5, Zenon DEF Unlinked
<1>7. PICK u, c : u = Without(t, at) /\ c = Told(t, data)
  OBVIOUS
<1>8. Shrunk(u, team', r, result_list, next', data', c, at) /\ Named(u, data')
  BY <1>2, <1>5, <1>6, <1>7, UnlinkShrinks
<1>9. /\ Both(u, team', r, result_list, next', data')
      /\ Told(u, data') = Without(c, at)
      /\ next' \in [Nodes -> Nodes \cup {NULL}] /\ team' \in Nodes \cup {NULL}
      /\ data' \in [Nodes -> Players \cup {NULL}]
  BY <1>8 DEF Shrunk
<1>10. /\ t \in Seq(Nodes) /\ Len(t) \in Nat
       /\ \A k \in 1 .. Len(t) : t[k] \in On(t) /\ t[k] \in Nodes /\ data[t[k]] \in Players
  BY <1>2, BothIs DEF TypeOK
<1>11. c \in Seq(Players) /\ Len(c) = Len(t) /\ \A k \in 1 .. Len(t) : c[k] = data[t[k]]
  BY <1>7, <1>10, ToldIs DEF Told
<1>12. Contents(team) = c /\ Contents(team)' = Without(c, at)
  <2>1. Path(u, team', next')
    BY <1>9 DEF Both
  <2> QED
    BY <1>2, <1>7, <1>9, <2>1, ContentsDef, ContentsIs
<1>13. Deleting(c, at, n)
  BY <1>2, <1>5, <1>11 DEF Named, Deleting
<1>14. Lists(u, r)'
  BY <1>2, <1>4, <1>8, <1>9 DEF Lists
<1>15. TypeOK'
  BY <1>2, <1>4, <1>9 DEF TypeOK
<1> QED
  BY <1>12, <1>13, <1>14, <1>15 DEF IInv

\* What has been selected of a roster comes from what was looked at.
Selects(f, c, i, B) ==
  f[i] \in Seq(B) /\ \A x \in 1 .. Len(f[i]) : \E y \in 1 .. i : f[i][x] = c[y]
LEMMA UptoAmong ==
  ASSUME NEW B, NEW c \in Seq(B), NEW T, NEW i \in 0 .. Len(c)
  PROVE  Selects(Upto(c, T), c, i, B)
<1>1. PICK f, n : f = Upto(c, T) /\ n = Len(c) /\ n \in Nat
  OBVIOUS
<1>2. f[0] = <<>> /\ \A j \in 1 .. n : f[j] = IF c[j] \in T THEN Append(f[j - 1], c[j]) ELSE f[j - 1]
  BY <1>1, UptoIs
<1> DEFINE Among(j) == f[j] \in Seq(B) /\ \A x \in 1 .. Len(f[j]) : \E y \in 1 .. j : f[j][x] = c[y]
           S == {j \in 0 .. n : Among(j)}
<1>3. 0 \in S
  <2>1. Among(0)
    BY <1>2
  <2> HIDE DEF Among
  <2> QED
    BY <1>1, <2>1
<1>4. ASSUME NEW j \in 0 .. n - 1, j \in S PROVE j + 1 \in S
  <2>1. PICK k \in 1 .. n : k = j + 1 /\ k - 1 = j
    BY <1>1
  <2>2. PICK u, v : u = f[j] /\ v = f[k]
    OBVIOUS
  <2>3. u \in Seq(B) /\ \A x \in 1 .. Len(u) : \E y \in 1 .. j : u[x] = c[y]
    BY <1>4, <2>2
  <2>4. v = IF c[k] \in T THEN Append(u, c[k]) ELSE u
    BY <1>2, <2>1, <2>2
  <2>5. CASE c[k] \in T
    <3>1. c[k] \in B
      BY <1>1
    <3>2. /\ v \in Seq(B) /\ Len(v) = Len(u) + 1 /\ v[Len(u) + 1] = c[k]
          /\ \A x \in 1 .. Len(u) : v[x] = u[x]
      BY <2>3, <2>4, <2>5, <3>1, AppendProperties
    <3>3. ASSUME NEW x \in 1 .. Len(v) PROVE \E y \in 1 .. k : v[x] = c[y]
      <4>1. CASE x = Len(u) + 1
        BY <3>2, <4>1
      <4>2. CASE x # Len(u) + 1
        <5>1. x \in 1 .. Len(u)
          BY <2>3, <3>2, <4>2
        <5>2. PICK y \in 1 .. j : u[x] = c[y]
          BY <2>3, <5>1
        <5>3. y \in 1 .. k /\ v[x] = c[y]
          BY <2>1, <3>2, <5>1, <5>2
        <5> QED
          BY <5>3
      <4> QED
        BY <4>1, <4>2
    <3>4. Among(k)
      BY <2>2, <3>2, <3>3
    <3> HIDE DEF Among
    <3> QED
      BY <2>1, <3>4
  <2>6. CASE c[k] \notin T
    <3>1. v = u
      BY <2>4, <2>6
    <3>2. \A x \in 1 .. Len(v) : \E y \in 1 .. k : v[x] = c[y]
      BY <2>1, <2>3, <3>1
    <3>3. Among(k)
      BY <2>2, <2>3, <3>1, <3>2
    <3> HIDE DEF Among
    <3> QED
      BY <2>1, <3>3
  <2> QED
    BY <2>5, <2>6
<1> HIDE DEF S
<1>5. 0 .. n \subseteq S
  BY <1>1, <1>3, <1>4, AllNumbers
<1> USE DEF S
<1>6. Among(i)
  BY <1>1, <1>5
<1> QED
  BY <1>1, <1>6 DEF Selects

\* The search starts with no copies and nothing looked at.
LEMMA SearchByValueKeeps ==
  ASSUME IInv, SearchByValue
  PROVE  IInv' /\ Contents(team)' = Contents(team)
<1>1. PICK t, r : Lists(t, r)
  BY DEF IInv
<1>2. /\ TypeOK /\ Both(t, team, r, result_list, next, data) /\ Named(t, data)
      /\ Path(t, team, next) /\ Path(r, result_list, next)
  BY <1>1 DEF IInv, Lists, Both
<1>3. /\ pc = "prompt" /\ pc' = "searching" /\ wanted' \in Values /\ head' = team /\ result_list' = NULL
      /\ team' = team /\ data' = data /\ next' = next
  BY DEF SearchByValue, heap
<1>4. result_list = NULL
  BY <1>2, <1>3 DEF TypeOK
<1>5. t \in Seq(Nodes) /\ Len(t) \in Nat /\ Len(r) = 0
  BY <1>2, <1>4, OnPath
<1>6. r = <<>>
  BY <1>2, <1>5 DEF Path
<1>7. PICK c, v : c = Told(t, data) /\ v = wanted'
  OBVIOUS
<1>8. c \in Seq(Players) /\ Told(r, data) = <<>>
  <2>1. \A k \in 1 .. Len(t) : data[t[k]] \in Players
    BY <1>2, BothIs DEF TypeOK
  <2> QED
    BY <1>5, <1>6, <1>7, <2>1, ToldIs DEF Told
<1>9. Upto(c, Worth(v))[0] = <<>>
  BY <1>8, UptoIs
<1>10. 1 \in 1 .. Len(t) + 1 /\ head' = At(t, 1)
  BY <1>2, <1>3, <1>5 DEF Path
<1>11. Copied(t, r, 1)'
  BY <1>3, <1>7, <1>8, <1>9, <1>10 DEF Copied
<1>12. Lists(t, r)'
  BY <1>2, <1>3, <1>4, <1>10, <1>11 DEF Lists
<1>13. TypeOK'
  BY <1>2, <1>3 DEF TypeOK
<1>14. Contents(team)' = Contents(team)
  BY <1>3, ContentsDef
<1> QED
  BY <1>12, <1>13, <1>14 DEF IInv

\* The player the search has come to.
Looking(t, r, j) ==
  /\ Both(t, team, r, result_list, next, data) /\ Named(t, data)
  /\ Path(t, team, next)
  /\ t \in Seq(Nodes) /\ r \in Seq(Nodes) /\ j \in 1 .. Len(t)
  /\ head = t[j] /\ next[head] = At(t, j + 1) /\ data[head] \in Players
  /\ next[head] \in Nodes \cup {NULL}
  /\ Told(t, data) \in Seq(Players) /\ Len(Told(t, data)) = Len(t)
  /\ \A k \in 1 .. Len(t) : Told(t, data)[k] = data[t[k]]
  /\ Told(r, data) = Upto(Told(t, data), Worth(wanted))[j - 1]
LEMMA LookingIs ==
  ASSUME IInv, pc = "searching", head # NULL
  PROVE  TypeOK /\ wanted \in Values /\ \E t, r, j : Looking(t, r, j)
<1>1. PICK t, r : Lists(t, r)
  BY DEF IInv
<1>2. PICK j \in 1 .. Len(t) + 1 : Copied(t, r, j)
  BY <1>1 DEF Lists
<1>3. /\ TypeOK /\ Both(t, team, r, result_list, next, data) /\ Named(t, data)
      /\ Path(t, team, next) /\ wanted \in Values
  BY <1>1 DEF IInv, Lists, Both
<1>4. /\ t \in Seq(Nodes) /\ r \in Seq(Nodes)
      /\ \A k \in 1 .. Len(t) : data[t[k]] \in Players
  BY <1>3, BothIs DEF TypeOK
<1>5. j \in 1 .. Len(t) /\ head = t[j]
  BY <1>2 DEF Copied, At
<1>6. next[head] = At(t, j + 1) /\ data[head] \in Players /\ next[head] \in Nodes \cup {NULL}
  BY <1>3, <1>4, <1>5 DEF Path, TypeOK
<1>7. /\ Told(t, data) \in Seq(Players) /\ Len(Told(t, data)) = Len(t)
      /\ \A k \in 1 .. Len(t) : Told(t, data)[k] = data[t[k]]
  BY <1>4, ToldIs DEF Told
<1>8. Looking(t, r, j)
  BY <1>2, <1>3, <1>4, <1>5, <1>6, <1>7 DEF Looking, Copied
<1> QED
  BY <1>3, <1>8

LEMMA SkipPlayerKeeps ==
  ASSUME IInv, SkipPlayer
  PROVE  IInv' /\ Contents(team)' = Contents(team)
<1>1. PICK t, r, j : Looking(t, r, j)
  BY LookingIs DEF SkipPlayer
<1>2. /\ pc = "searching" /\ pc' = pc /\ head' = next[head] /\ ~Qualifies(data[head])
      /\ team' = team /\ data' = data /\ next' = next /\ wanted' = wanted /\ result_list' = result_list
      /\ TypeOK /\ wanted \in Values
  BY LookingIs DEF SkipPlayer, heap
<1>3. PICK c, f : c = Told(t, data) /\ f = Upto(c, Worth(wanted))
  OBVIOUS
<1>4. PICK m \in Nat : m = Len(t)
  BY <1>1 DEF Looking
<1>5. /\ j \in 1 .. m /\ head = t[j] /\ next[head] = At(t, j + 1)
      /\ c \in Seq(Players) /\ Len(c) = m /\ c[j] = data[head]
      /\ Told(r, data) = f[j - 1]
  BY <1>1, <1>3, <1>4 DEF Looking
<1>6. c[j] \notin Worth(wanted)
  BY <1>2, <1>5 DEF Worth, Qualifies
<1>7. f[j] = f[j - 1]
  BY <1>3, <1>5, <1>6, UptoIs
<1>8. j + 1 \in 1 .. m + 1 /\ (j + 1) - 1 = j
  BY <1>5
<1>9. Copied(t, r, j + 1)'
  BY <1>2, <1>3, <1>5, <1>7, <1>8 DEF Copied
<1>10. Lists(t, r)'
  BY <1>1, <1>2, <1>4, <1>8, <1>9 DEF Lists, Looking
<1>11. TypeOK'
  <2>1. head' \in Nodes \cup {NULL}
    BY <1>1, <1>2 DEF Looking
  <2> QED
    BY <1>2, <2>1 DEF TypeOK
<1>12. Contents(team)' = Contents(team)
  BY <1>2, ContentsDef
<1> QED
  BY <1>10, <1>11, <1>12 DEF IInv

\* A copy goes behind all that were made: their positions come no later.
LEMMA CopyPlayerKeeps ==
  ASSUME IInv, CopyPlayer
  PROVE  IInv' /\ Contents(team)' = Contents(team)
<1>1. PICK t, r, j : Looking(t, r, j)
  BY LookingIs DEF CopyPlayer
<1>2. /\ pc = "searching" /\ pc' = pc /\ head' = next[head] /\ Qualifies(data[head])
      /\ team' = team /\ wanted' = wanted
      /\ TypeOK /\ wanted \in Values
  BY LookingIs DEF CopyPlayer
<1>3. PICK c, f, player : c = Told(t, data) /\ f = Upto(c, Worth(wanted)) /\ player = data[head]
  OBVIOUS
<1>4. PICK m \in Nat : m = Len(t)
  BY <1>1 DEF Looking
<1>5. /\ j \in 1 .. m /\ head = t[j] /\ next[head] = At(t, j + 1)
      /\ c \in Seq(Players) /\ Len(c) = m /\ c[j] = player /\ player \in Players
      /\ Told(r, data) = f[j - 1] /\ r \in Seq(Nodes) /\ t \in Seq(Nodes)
      /\ Both(t, team, r, result_list, next, data) /\ Named(t, data)
  BY <1>1, <1>3, <1>4 DEF Looking
<1>6. PICK new \in Free :
        /\ result_list' = insert_player(result_list, new, player).head
        /\ next' = insert_player(result_list, new, player).next
        /\ data' = [data EXCEPT ![new] = player]
  BY <1>3 DEF CopyPlayer
<1>7. Both(r, result_list, t, team, next, data)
  BY <1>2, <1>5, BothIs DEF TypeOK
<1>8. PICK at \in 1 .. Len(r) + 1 :
        /\ Grown(With(r, at, new), result_list', t, team, next', data', Told(r, data), at, player)
        /\ Told(t, data') = c
        /\ at <= Len(r) => Place(player) < Place(data[r[at]])
  <2>1. Growing(r, t, team, new, player, result_list', next', data')
    <3>1. TypeOK /\ player \in Players
      BY <1>2, <1>5
    <3> QED
      BY <1>6, <1>7, <3>1, InsertGrows, Zenon
  <2> QED
    BY <1>3, <2>1 DEF Growing
<1>9. PICK u : u = With(r, at, new)
  OBVIOUS
<1>10. /\ Both(u, result_list', t, team, next', data')
       /\ Told(u, data') = With(f[j - 1], at, player)
       /\ next' \in [Nodes -> Nodes \cup {NULL}] /\ result_list' \in Nodes \cup {NULL}
       /\ data' \in [Nodes -> Players \cup {NULL}]
  BY <1>5, <1>8, <1>9 DEF Grown
<1>11. PICK l \in Nat : l = Len(r)
  BY <1>5
<1>12. at = l + 1
  <2> SUFFICES ASSUME at \in 1 .. l PROVE FALSE
    BY <1>8, <1>11
  <2>1. Len(f[j - 1]) = l /\ f[j - 1][at] = data[r[at]]
    BY <1>5, <1>11 DEF Told
  <2>2. j - 1 \in 0 .. Len(c)
    BY <1>5
  <2>3. PICK y \in 1 .. j - 1 : f[j - 1][at] = c[y]
    <3>1. \A x \in 1 .. Len(f[j - 1]) : \E y \in 1 .. j - 1 : f[j - 1][x] = c[y]
      <4>1. Selects(Upto(c, Worth(wanted)), c, j - 1, Players)
        BY <1>5, <2>2, UptoAmong, Zenon
      <4> QED
        BY <1>3, <4>1 DEF Selects
    <3> QED
      BY <2>1, <3>1
  <2>4. y \in 1 .. m /\ y < j
    BY <1>5, <2>3
  <2>5. Place(data[t[y]]) <= Place(data[t[j]])
    BY <1>4, <1>5, <2>4 DEF Both, Sorted
  <2>6. c[y] = data[t[y]] /\ c[j] = data[t[j]]
    BY <1>3, <1>4, <1>5, <2>4 DEF Told
  <2>7. Place(player) < Place(c[y]) /\ Place(c[y]) <= Place(player)
    BY <1>5, <1>8, <1>11, <2>1, <2>3, <2>5, <2>6
  <2>8. Place(player) \in Nat /\ Place(c[y]) \in Nat
    <3>1. c[y] \in Players
      BY <1>5, <2>4
    <3> QED
      BY <1>5, <3>1, PlaceIs
  <2> QED
    BY <2>7, <2>8
<1>13. Told(u, data') = f[j]
  <2>1. PICK e : e = f[j - 1]
    OBVIOUS
  <2>2. e \in Seq(Players) /\ Len(e) = l
    <3>1. j - 1 \in 0 .. Len(c)
      BY <1>5
    <3>2. e \in Seq(Players)
      BY <1>3, <1>5, <2>1, <3>1, UptoAmong DEF Selects
    <3> QED
      BY <1>5, <1>11, <2>1, <3>2 DEF Told
  <2>3. c[j] \in Worth(wanted)
    BY <1>2, <1>3, <1>5 DEF Worth, Qualifies
  <2>4. f[j] = Append(e, player)
    BY <1>3, <1>5, <2>1, <2>3, UptoIs
  <2>5. With(e, l + 1, player) = Append(e, player)
    <3>1. PICK v, w : v = With(e, l + 1, player) /\ w = Append(e, player)
      OBVIOUS
    <3>2. v = [k \in 1 .. l + 1 |-> IF k < l + 1 THEN e[k] ELSE IF k = l + 1 THEN player ELSE e[k - 1]]
      BY <2>2, <3>1 DEF With
    <3>3. /\ w \in Seq(Players) /\ Len(w) = l + 1 /\ w[l + 1] = player
          /\ \A k \in 1 .. l : w[k] = e[k]
      BY <1>5, <2>2, <3>1, AppendProperties
    <3>4. \A k \in 1 .. l + 1 : w[k] = IF k < l + 1 THEN e[k] ELSE IF k = l + 1 THEN player ELSE e[k - 1]
      BY <3>3
    <3>5. w = [k \in 1 .. l + 1 |-> w[k]]
      BY <3>3
    <3> QED
      BY <3>1, <3>2, <3>4, <3>5
  <2> QED
    BY <1>10, <1>12, <2>1, <2>4, <2>5
<1>14. j + 1 \in 1 .. m + 1 /\ (j + 1) - 1 = j
  BY <1>5
<1>15. Copied(t, u, j + 1)'
  BY <1>2, <1>3, <1>5, <1>8, <1>13, <1>14 DEF Copied
<1>16. Both(t, team, u, result_list', next', data')
  BY <1>10 DEF Both
<1>17. Named(t, data')
  <2>1. \A k \in 1 .. Len(t) : data'[t[k]] = data[t[k]]
    BY <1>3, <1>4, <1>8 DEF Told
  <2> QED
    BY <1>5, <2>1 DEF Named
<1>18. Lists(t, u)'
  BY <1>2, <1>4, <1>14, <1>15, <1>16, <1>17 DEF Lists
<1>19. TypeOK'
  <2>1. head' \in Nodes \cup {NULL}
    BY <1>1, <1>2 DEF Looking
  <2> QED
    BY <1>2, <1>10, <2>1 DEF TypeOK
<1>20. Contents(team)' = Contents(team)
  <2>1. Path(t, team, next) /\ Path(t, team, next')
    BY <1>5, <1>10 DEF Both
  <2> QED
    BY <1>2, <1>3, <1>8, <2>1, ContentsDef, ContentsIs
<1> QED
  BY <1>18, <1>19, <1>20 DEF IInv

\* The search ends with a copy of everyone who qualifies.
LEMMA PrintResultKeeps ==
  ASSUME IInv, PrintResult
  PROVE  /\ IInv' /\ Contents(team)' = Contents(team) /\ wanted \in Values
         /\ Contents(result_list) = Promise!Those(Contents(team), Worth(wanted))
<1>1. PICK t, r : Lists(t, r)
  BY DEF IInv
<1>2. /\ TypeOK /\ Both(t, team, r, result_list, next, data) /\ Named(t, data)
      /\ Path(t, team, next) /\ Path(r, result_list, next)
  BY <1>1 DEF IInv, Lists, Both
<1>3. /\ pc = "searching" /\ head = NULL /\ pc' = "prompt"
      /\ result_list' = NULL /\ wanted' = NULL /\ team' = team /\ head' = head
      /\ data' = [n \in Nodes |-> IF n \in free_team(result_list) THEN NULL ELSE data[n]]
      /\ next' = [n \in Nodes |-> IF n \in free_team(result_list) THEN NULL ELSE next[n]]
  BY DEF PrintResult, free_nodes
<1>4. PICK j \in 1 .. Len(t) + 1 : Copied(t, r, j)
  BY <1>1, <1>3 DEF Lists
<1>5. wanted \in Values
  BY <1>1, <1>3 DEF Lists
<1>6. t \in Seq(Nodes) /\ Len(t) \in Nat /\ \A k \in 1 .. Len(t) : t[k] \in Nodes
  BY <1>2, OnPath
<1>7. j - 1 = Len(t)
  BY <1>3, <1>4, <1>6, TeamAssumption DEF Copied, At
<1>8. PICK c : c = Told(t, data)
  OBVIOUS
<1>9. Len(c) = Len(t)
  BY <1>6, <1>8 DEF Told
<1>10. Told(r, data) = Promise!Those(c, Worth(wanted))
  BY <1>4, <1>7, <1>8, <1>9, ThoseDef DEF Copied
<1>11. Contents(team) = c /\ Contents(result_list) = Told(r, data)
  BY <1>2, <1>8, ContentsDef, ContentsIs
<1>12. Emptied(t, team, next', data') /\ Named(t, data')
  BY <1>2, <1>3, FreeEmpties
<1>13. /\ Both(t, team, <<>>, NULL, next', data') /\ Told(t, data') = c
       /\ next' \in [Nodes -> Nodes \cup {NULL}] /\ data' \in [Nodes -> Players \cup {NULL}]
  BY <1>8, <1>12 DEF Emptied
<1>14. Contents(team)' = c
  <2>1. Path(t, team, next')
    BY <1>13 DEF Both
  <2> QED
    BY <1>3, <1>13, <2>1, ContentsDef, ContentsIs
<1>15. Lists(t, <<>>)'
  BY <1>3, <1>12, <1>13 DEF Lists
<1>16. TypeOK'
  BY <1>2, <1>3, <1>13 DEF TypeOK
<1> QED
  BY <1>5, <1>10, <1>11, <1>14, <1>15, <1>16 DEF IInv

LEMMA QuitKeeps ==
  ASSUME IInv, Quit
  PROVE  IInv' /\ Contents(team)' = <<>>
<1>1. PICK t, r : Lists(t, r)
  BY DEF IInv
<1>2. TypeOK /\ Both(t, team, r, result_list, next, data)
  BY <1>1 DEF IInv, Lists
<1>3. /\ pc = "prompt" /\ pc' = "exited" /\ team' = NULL
      /\ wanted' = wanted /\ head' = head /\ result_list' = result_list
      /\ data' = [n \in Nodes |-> IF n \in free_team(team) THEN NULL ELSE data[n]]
      /\ next' = [n \in Nodes |-> IF n \in free_team(team) THEN NULL ELSE next[n]]
  BY DEF Quit, free_nodes, search
<1>4. Both(r, result_list, t, team, next, data)
  BY <1>2, BothIs DEF TypeOK
<1>5. Emptied(r, result_list, next', data')
  BY <1>2, <1>3, <1>4, FreeEmpties
<1>6. /\ Both(r, result_list, <<>>, NULL, next', data')
      /\ next' \in [Nodes -> Nodes \cup {NULL}] /\ data' \in [Nodes -> Players \cup {NULL}]
  BY <1>5 DEF Emptied
<1>7. Both(<<>>, NULL, r, result_list, next', data') /\ Path(<<>>, NULL, next')
  BY <1>6 DEF Both
<1>8. Contents(team)' = <<>>
  <2>1. Told(<<>>, data') = <<>>
    BY DEF Told
  <2> QED
    BY <1>3, <1>7, <2>1, ContentsDef, ContentsIs
<1>9. Named(<<>>, data')
  BY DEF Named
<1>10. Lists(<<>>, r)'
  BY <1>3, <1>7, <1>9 DEF Lists
<1>11. TypeOK'
  BY <1>2, <1>3, <1>6 DEF TypeOK
<1> QED
  BY <1>8, <1>10, <1>11 DEF IInv

\* The other commands leave the lists alone, and go on or end the program.
LEMMA RestKeeps ==
  ASSUME IInv, UNCHANGED <<team, heap, search>>,
         pc' = pc \/ pc' \in {"exited", "crashed", "spinning"}
  PROVE  IInv' /\ Contents(team)' = Contents(team)
<1>1. PICK t, r : Lists(t, r)
  BY DEF IInv
<1>2. /\ team' = team /\ data' = data /\ next' = next
      /\ wanted' = wanted /\ head' = head /\ result_list' = result_list
  BY DEF heap, search
<1>3. Contents(team)' = Contents(team)
  BY <1>2, ContentsDef
<1>4. pc' = "searching" => pc = "searching"
  OBVIOUS
<1>5. \A j : Copied(t, r, j) => Copied(t, r, j)'
  BY <1>2 DEF Copied
<1>6. Lists(t, r)'
  BY <1>1, <1>2, <1>4, <1>5 DEF Lists
<1>7. TypeOK'
  BY <1>2 DEF IInv, TypeOK
<1> QED
  BY <1>3, <1>6, <1>7 DEF IInv

-----------------------------------------------------------------------------
(* The invariants                                                          *)

LEMMA Starts ==
  ASSUME Init
  PROVE  IInv /\ Contents(team) = <<>>
<1>1. /\ pc = "prompt" /\ team = NULL /\ wanted = NULL /\ head = NULL /\ result_list = NULL
      /\ data = [n \in Nodes |-> NULL] /\ next = [n \in Nodes |-> NULL]
  BY DEF Init
<1>2. Path(<<>>, NULL, next) /\ On(<<>>) = {} /\ Sorted(<<>>, data) /\ Named(<<>>, data)
  BY DEF Path, At, On, Sorted, Named
<1>3. Lists(<<>>, <<>>)
  BY <1>1, <1>2 DEF Lists, Both
<1>4. TypeOK
  BY <1>1 DEF TypeOK
<1>5. Contents(team) = <<>>
  <2>1. Told(<<>>, data) = <<>>
    BY DEF Told
  <2> QED
    BY <1>1, <1>2, <2>1, ContentsDef, ContentsIs
<1> QED
  BY <1>3, <1>4, <1>5 DEF IInv

LEMMA StepsKeep ==
  ASSUME IInv, [Next]_vars
  PROVE  IInv'
<1>1. CASE Refuse
  BY <1>1, RestKeeps DEF Refuse
<1>2. CASE \E p \in Players : InsertPlayer(p)
  BY <1>2, InsertPlayerKeeps
<1>3. CASE NoMemory
  BY <1>3, RestKeeps DEF NoMemory, Ends
<1>4. CASE \E n \in Names : DeletePlayer(n)
  BY <1>4, DeletePlayerKeeps
<1>5. CASE \E n \in Names : SearchByName(n)
  BY <1>5, RestKeeps DEF SearchByName
<1>6. CASE PrintTeam
  BY <1>6, RestKeeps DEF PrintTeam
<1>7. CASE SearchByValue
  BY <1>7, SearchByValueKeeps
<1>8. CASE CopyPlayer
  BY <1>8, CopyPlayerKeeps
<1>9. CASE SkipPlayer
  BY <1>9, SkipPlayerKeeps
<1>10. CASE InsertNull
  BY <1>10, RestKeeps DEF InsertNull, Ends
<1>11. CASE PrintResult
  BY <1>11, PrintResultKeeps
<1>12. CASE Quit
  BY <1>12, QuitKeeps
<1>13. CASE StdinEof
  BY <1>13, RestKeeps DEF StdinEof, Ends
<1>14. CASE UNCHANGED vars
  BY <1>14, RestKeeps DEF vars
<1> QED
  BY <1>1, <1>2, <1>3, <1>4, <1>5, <1>6, <1>7, <1>8, <1>9, <1>10, <1>11, <1>12, <1>13, <1>14
  DEF Next

\* The two lists are made of all nodes allocated, and are in order, at any time.
THEOREM Invariant == Spec => []IInv
<1>1. Init => IInv
  BY Starts
<1>2. IInv /\ [Next]_vars => IInv'
  BY StepsKeep
<1> QED
  BY <1>1, <1>2, PTL DEF Spec

\* Every variable has its type: in particular the links that insert_player and
\* delete_player make stay within the heap (team.c:466-541).
THEOREM TypeCorrect == Spec => []TypeOK
<1>1. IInv => TypeOK
  BY DEF IInv
<1> QED
  BY <1>1, Invariant, PTL

\* The team and the copies share no node, have none twice, and are all that is
\* allocated: a command frees what it should, once, however many nodes there are
\* (team.c:390-401, 515-564).
THEOREM OneList == Spec => []EveryNodeOnOneList
<1>1. ASSUME IInv PROVE EveryNodeOnOneList
  <2>1. PICK t, r : Both(t, team, r, result_list, next, data)
    BY <1>1 DEF IInv, Lists
  <2>2. /\ Path(t, team, next) /\ Path(r, result_list, next)
        /\ On(t) \cap On(r) = {}
        /\ \A n \in Nodes : data[n] # NULL <=> n \in On(t) \cup On(r)
    BY <2>1 DEF Both
  <2>3. Chain(team) = t /\ Chain(result_list) = r
    BY <2>2, ChainIs
  <2>4. /\ t \in Seq(Nodes) /\ r \in Seq(Nodes)
        /\ \A k \in 1 .. Len(t) : t[k] \in On(t)
        /\ \A k \in 1 .. Len(r) : r[k] \in On(r)
        /\ \A j, k \in 1 .. Len(t) : t[j] = t[k] => j = k
        /\ \A j, k \in 1 .. Len(r) : r[j] = r[k] => j = k
    BY <2>2, OnPath DEF Path
  <2>5. Range(t) = On(t) /\ Range(r) = On(r)
    BY <2>4 DEF Range, On
  <2>6. Distinct(t \o r)
    <3>1. PICK a \in Nat, b \in Nat : a = Len(t) /\ b = Len(r)
      BY <2>4
    <3>2. PICK s : s = t \o r
      OBVIOUS
    <3>3. DOMAIN s = 1 .. a + b
      BY <2>4, <3>1, <3>2
    <3>4. ASSUME NEW k \in 1 .. a + b
          PROVE  \/ k \in 1 .. a /\ s[k] = t[k]
                 \/ k - a \in 1 .. b /\ s[k] = r[k - a]
      BY <2>4, <3>1, <3>2
    <3>5. ASSUME NEW j \in 1 .. a + b, NEW k \in 1 .. a + b, s[j] = s[k] PROVE j = k
      <4>1. CASE j \in 1 .. a /\ s[j] = t[j]
        <5>1. k \in 1 .. a /\ s[k] = t[k]
          BY <2>2, <2>4, <3>1, <3>4, <3>5, <4>1
        <5> QED
          BY <2>4, <3>1, <3>5, <4>1, <5>1
      <4>2. CASE j - a \in 1 .. b /\ s[j] = r[j - a]
        <5>1. k - a \in 1 .. b /\ s[k] = r[k - a]
          BY <2>2, <2>4, <3>1, <3>4, <3>5, <4>2
        <5>2. j - a = k - a
          BY <2>4, <3>1, <3>5, <4>2, <5>1
        <5> QED
          BY <3>1, <5>2
      <4> QED
        BY <3>4, <4>1, <4>2
    <3> QED
      BY <3>2, <3>3, <3>5 DEF Distinct
  <2> QED
    BY <2>2, <2>3, <2>5, <2>6 DEF EveryNodeOnOneList
<1> QED
  BY <1>1, Invariant, PTL

\* The team is ordered by position and its family names are unique, and the
\* copies are ordered (team.c:166-179, 466-508).
THEOREM InOrderHolds == Spec => []ListsInOrder
<1>1. ASSUME IInv PROVE ListsInOrder
  <2>1. PICK t, r : Both(t, team, r, result_list, next, data) /\ Named(t, data) /\ TypeOK
    BY <1>1 DEF IInv, Lists
  <2>2. /\ Path(t, team, next) /\ Path(r, result_list, next)
        /\ Sorted(t, data) /\ Sorted(r, data)
    BY <2>1 DEF Both
  <2>3. Contents(team) = Told(t, data) /\ Contents(result_list) = Told(r, data)
    BY <2>2, ContentsDef, ContentsIs
  <2>4. ASSUME NEW s, Sorted(s, data) PROVE InOrder(Told(s, data))
    BY <2>4 DEF InOrder, Told, Sorted, Place
  <2>5. Distinct([k \in DOMAIN Told(t, data) |-> Told(t, data)[k].name])
    BY <2>1 DEF Distinct, Told, Named
  <2> QED
    BY <2>2, <2>3, <2>4, <2>5 DEF ListsInOrder
<1> QED
  BY <1>1, Invariant, PTL

-----------------------------------------------------------------------------
(* The refinement of Team                                                  *)

LEMMA SamePlayers ==
  Promise!Players = Players
BY DEF Promise!Players, Promise!Positions, Players, Positions, GOALKEEPER, DEFENDER, MIDFIELDER, STRIKER

\* What Team does to a roster when a player comes or goes.
LEMMA InsertingThose ==
  ASSUME NEW c, NEW at, NEW p \in Players, Inserting(c, at, p)
  PROVE  /\ Promise!Those(c, {q \in Players : q.name = p.name}) = <<>>
         /\ With(c, at, p) =
              Promise!Those(c, {q \in Players : Promise!Rank[q.position] <= Promise!Rank[p.position]})
              \o <<p>>
              \o Promise!Those(c, {q \in Players : Promise!Rank[q.position] > Promise!Rank[p.position]})
<1>1. PICK n \in Nat : n = Len(c)
  BY DEF Inserting
<1>2. /\ c \in Seq(Players) /\ at \in 1 .. n + 1 /\ at \in Nat /\ n + 1 \in Nat
      /\ \A k \in 1 .. n : c[k] \in Players /\ c[k].name # p.name
      /\ \A k \in 1 .. n : k < at => Place(c[k]) <= Place(p)
      /\ \A k \in 1 .. n : k >= at => Place(p) < Place(c[k])
  BY <1>1 DEF Inserting
<1>3. \A k \in 1 .. n : Place(c[k]) \in Nat /\ Place(p) \in Nat
  BY <1>2, PlaceIs
<1>4. PICK S, T, U : /\ S = {q \in Players : q.name = p.name}
                     /\ T = {q \in Players : Place(q) <= Place(p)}
                     /\ U = {q \in Players : Place(q) > Place(p)}
  OBVIOUS
<1>5. Promise!Those(c, S) = <<>>
  <2>1. \A i \in 1 .. Len(c) : c[i] \in S <=> i < 1 \/ (1 <= i /\ i < 1)
    BY <1>1, <1>2, <1>4
  <2>2. IsPieces(c, S, 1, 1, 1)
    <3>1. 1 \in Nat /\ 1 <= 1 /\ 1 <= Len(c) + 1
      BY <1>1
    <3> QED
      BY <1>2, <2>1, <3>1, ThoseArePieces, Zenon
  <2> QED
    BY <2>2 DEF IsPieces, Pieces
<1>6. Promise!Those(c, T) = Pieces(c, at, at, at)
  <2>1. \A i \in 1 .. Len(c) : c[i] \in T <=> i < at \/ (at <= i /\ i < at)
    <3> TAKE i \in 1 .. Len(c)
    <3>1. i < at \/ i >= at
      BY <1>1, <1>2
    <3>2. c[i] \in T <=> Place(c[i]) <= Place(p)
      BY <1>1, <1>2, <1>4
    <3> QED
      BY <1>1, <1>2, <1>3, <3>1, <3>2
  <2>2. IsPieces(c, T, at, at, at)
    <3>1. 1 <= at /\ at <= at /\ at <= Len(c) + 1
      BY <1>1, <1>2
    <3> QED
      BY <1>2, <2>1, <3>1, ThoseArePieces, Zenon
  <2> QED
    BY <2>2 DEF IsPieces
<1>7. Promise!Those(c, U) = Pieces(c, 1, at, n + 1)
  <2>1. \A i \in 1 .. Len(c) : c[i] \in U <=> i < 1 \/ (at <= i /\ i < n + 1)
    <3> TAKE i \in 1 .. Len(c)
    <3>1. i < at \/ i >= at
      BY <1>1, <1>2
    <3>2. c[i] \in U <=> Place(c[i]) > Place(p)
      BY <1>1, <1>2, <1>4
    <3> QED
      BY <1>1, <1>2, <1>3, <3>1, <3>2
  <2>2. IsPieces(c, U, 1, at, n + 1)
    <3>1. 1 \in Nat /\ 1 <= 1 /\ 1 <= at /\ at <= n + 1 /\ n + 1 <= Len(c) + 1
      BY <1>1, <1>2
    <3> QED
      BY <1>2, <2>1, <3>1, ThoseArePieces, Zenon
  <2> QED
    BY <2>2 DEF IsPieces
<1>8. With(c, at, p) = Pieces(c, at, at, at) \o <<p>> \o Pieces(c, 1, at, n + 1)
  <2>1. PICK u, v : u = Pieces(c, at, at, at) /\ v = Pieces(c, 1, at, n + 1)
    OBVIOUS
  <2>2. PICK a \in Nat, b \in Nat : a = at - 1 /\ b = (n + 1) - at /\ a + 1 + b = n + 1
    BY <1>2
  <2>3. u = [x \in 1 .. a |-> c[x]]
    <3>1. u = [x \in 1 .. (at - 1) + (at - at) |-> IF x < at THEN c[x] ELSE c[x + (at - at)]]
      BY <2>1 DEF Pieces
    <3>2. (at - 1) + (at - at) = a /\ \A x \in 1 .. a : x < at
      BY <1>2, <2>2
    <3> QED
      BY <3>1, <3>2
  <2>4. v = [x \in 1 .. b |-> c[x + a]]
    <3>1. v = [x \in 1 .. (1 - 1) + ((n + 1) - at) |-> IF x < 1 THEN c[x] ELSE c[x + (at - 1)]]
      BY <2>1 DEF Pieces
    <3>2. (1 - 1) + ((n + 1) - at) = b /\ \A x \in 1 .. b : ~(x < 1)
      BY <1>2, <2>2
    <3> QED
      BY <2>2, <3>1, <3>2
  <2>5. u \in Seq(Players) /\ Len(u) = a /\ v \in Seq(Players) /\ Len(v) = b
    <3>1. \A x \in 1 .. a : c[x] \in Players
      BY <1>2, <2>2
    <3>2. \A x \in 1 .. b : c[x + a] \in Players
      <4>1. \A x \in 1 .. b : x + a \in 1 .. n
        BY <1>1, <1>2, <2>2
      <4> QED
        BY <1>2, <4>1
    <3> QED
      BY <2>3, <2>4, <3>1, <3>2
  <2>6. PICK w : w = (u \o <<p>>) \o v
    OBVIOUS
  <2>7. /\ u \o <<p>> \in Seq(Players) /\ Len(u \o <<p>>) = a + 1
        /\ (u \o <<p>>)[a + 1] = p /\ \A x \in 1 .. a : (u \o <<p>>)[x] = u[x]
    <3>1. u \o <<p>> = Append(u, p)
      BY <2>5
    <3> QED
      BY <2>5, <3>1, AppendProperties
  <2>8. /\ w \in Seq(Players) /\ Len(w) = n + 1
        /\ \A x \in 1 .. a + 1 : w[x] = (u \o <<p>>)[x]
        /\ \A x \in 1 .. n + 1 : x > a + 1 => w[x] = v[x - (a + 1)]
    <3>1. PICK h : h = u \o <<p>>
      OBVIOUS
    <3>2. h \in Seq(Players) /\ Len(h) = a + 1 /\ w = h \o v
      BY <2>6, <2>7, <3>1
    <3>3. /\ w \in Seq(Players) /\ Len(w) = (a + 1) + b
          /\ \A x \in 1 .. (a + 1) + b : w[x] = IF x <= a + 1 THEN h[x] ELSE v[x - (a + 1)]
      <4>1. /\ h \o v \in Seq(Players) /\ Len(h \o v) = Len(h) + Len(v)
            /\ \A x \in 1 .. Len(h) + Len(v) : (h \o v)[x] = IF x <= Len(h) THEN h[x] ELSE v[x - Len(h)]
        BY <2>5, <3>2, ConcatProperties
      <4> QED
        BY <2>5, <3>2, <4>1, Zenon
    <3>4. (a + 1) + b = n + 1 /\ \A x \in 1 .. a + 1 : x \in 1 .. n + 1 /\ x <= a + 1
      BY <2>2
    <3>5. ASSUME NEW x \in 1 .. n + 1, x > a + 1 PROVE w[x] = v[x - (a + 1)]
      <4>1. ~(x <= a + 1)
        BY <2>2, <3>5
      <4> QED
        BY <3>3, <3>4, <4>1
    <3>6. \A x \in 1 .. a + 1 : w[x] = h[x]
      BY <3>3, <3>4
    <3> QED
      BY <3>1, <3>3, <3>4, <3>5, <3>6
  <2>9. ASSUME NEW k \in 1 .. n + 1
        PROVE  w[k] = IF k < at THEN c[k] ELSE IF k = at THEN p ELSE c[k - 1]
    <3>1. CASE k < at
      <4>1. k \in 1 .. a /\ k \in 1 .. a + 1
        BY <1>2, <2>2, <3>1
      <4> QED
        BY <2>3, <2>7, <2>8, <3>1, <4>1
    <3>2. CASE k = at
      <4>1. k = a + 1 /\ k \in 1 .. a + 1 /\ ~(k < at)
        BY <1>2, <2>2, <3>2
      <4> QED
        BY <2>7, <2>8, <3>2, <4>1
    <3>3. CASE k > at
      <4>1. PICK x \in 1 .. b : x = k - (a + 1) /\ x + a = k - 1 /\ k > a + 1
        BY <1>2, <2>2, <3>3
      <4>2. w[k] = v[x]
        BY <2>8, <4>1
      <4> QED
        BY <1>2, <2>4, <3>3, <4>1, <4>2
    <3> QED
      BY <1>2, <3>1, <3>2, <3>3
  <2>10. w = [k \in 1 .. n + 1 |-> w[k]]
    BY <2>8
  <2>11. With(c, at, p) = [k \in 1 .. n + 1 |-> IF k < at THEN c[k] ELSE IF k = at THEN p ELSE c[k - 1]]
    BY <1>1 DEF With
  <2>12. With(c, at, p) = w
    BY <2>9, <2>10, <2>11
  <2> QED
    BY <2>1, <2>6, <2>12
<1> QED
  BY <1>4, <1>5, <1>6, <1>7, <1>8 DEF Place

LEMMA DeletingThose ==
  ASSUME NEW c, NEW at, NEW n, Deleting(c, at, n)
  PROVE  /\ Promise!Those(c, {q \in Players : q.name = n}) = <<c[at]>>
         /\ Promise!Those(c, {q \in Players : q.name # n}) = Without(c, at)
<1>1. PICK m \in Nat : m = Len(c)
  BY DEF Deleting
<1>2. /\ c \in Seq(Players) /\ at \in 1 .. m /\ at \in Nat /\ at + 1 \in Nat /\ m + 1 \in Nat
      /\ \A k \in 1 .. m : c[k] \in Players /\ (c[k].name = n <=> k = at)
  BY <1>1 DEF Deleting
<1>3. PICK S, T : S = {q \in Players : q.name = n} /\ T = {q \in Players : q.name # n}
  OBVIOUS
<1>4. Promise!Those(c, S) = <<c[at]>>
  <2>1. \A i \in 1 .. Len(c) : c[i] \in S <=> i < 1 \/ (at <= i /\ i < at + 1)
    <3> TAKE i \in 1 .. Len(c)
    <3>1. c[i] \in S <=> i = at
      BY <1>1, <1>2, <1>3
    <3> QED
      BY <1>1, <1>2, <3>1
  <2>2. IsPieces(c, S, 1, at, at + 1)
    <3>1. 1 \in Nat /\ 1 <= 1 /\ 1 <= at /\ at <= at + 1 /\ at + 1 <= Len(c) + 1
      BY <1>1, <1>2
    <3> QED
      BY <1>2, <2>1, <3>1, ThoseArePieces, Zenon
  <2>3. Pieces(c, 1, at, at + 1) = [x \in 1 .. 1 |-> c[at]]
    <3>1. Pieces(c, 1, at, at + 1) = [x \in 1 .. (1 - 1) + ((at + 1) - at) |-> IF x < 1 THEN c[x] ELSE c[x + (at - 1)]]
      BY DEF Pieces
    <3>2. (1 - 1) + ((at + 1) - at) = 1 /\ \A x \in 1 .. 1 : ~(x < 1) /\ x + (at - 1) = at
      BY <1>2
    <3> QED
      BY <3>1, <3>2
  <2> QED
    BY <2>2, <2>3 DEF IsPieces
<1>5. Promise!Those(c, T) = Without(c, at)
  <2>1. \A i \in 1 .. Len(c) : c[i] \in T <=> i < at \/ (at + 1 <= i /\ i < m + 1)
    <3> TAKE i \in 1 .. Len(c)
    <3>1. c[i] \in T <=> i # at
      BY <1>1, <1>2, <1>3
    <3> QED
      BY <1>1, <1>2, <3>1
  <2>2. IsPieces(c, T, at, at + 1, m + 1)
    <3>1. 1 <= at /\ at <= at + 1 /\ at + 1 <= m + 1 /\ m + 1 <= Len(c) + 1
      BY <1>1, <1>2
    <3> QED
      BY <1>2, <2>1, <3>1, ThoseArePieces, Zenon
  <2>3. Pieces(c, at, at + 1, m + 1) = Without(c, at)
    <3>1. Pieces(c, at, at + 1, m + 1)
          = [x \in 1 .. (at - 1) + ((m + 1) - (at + 1)) |-> IF x < at THEN c[x] ELSE c[x + ((at + 1) - at)]]
      BY DEF Pieces
    <3>2. (at - 1) + ((m + 1) - (at + 1)) = m - 1 /\ (at + 1) - at = 1
      BY <1>2
    <3> QED
      BY <1>1, <3>1, <3>2 DEF Without
  <2> QED
    BY <2>2, <2>3 DEF IsPieces
<1> QED
  BY <1>3, <1>4, <1>5

Up == pc \in {"prompt", "searching"}

LEMMA InsertPlayerImplements ==
  ASSUME IInv, NEW player \in Players, InsertPlayer(player)
  PROVE  Promise!Next
<1>1. PICK at : Inserting(Contents(team), at, player)
                /\ Contents(team)' = With(Contents(team), at, player)
  BY InsertPlayerKeeps
<1>2. /\ Promise!Those(Contents(team), {q \in Players : q.name = player.name}) = <<>>
      /\ With(Contents(team), at, player) =
           Promise!Those(Contents(team), {q \in Players : Promise!Rank[q.position] <= Promise!Rank[player.position]})
           \o <<player>>
           \o Promise!Those(Contents(team), {q \in Players : Promise!Rank[q.position] > Promise!Rank[player.position]})
  BY <1>1, InsertingThose
<1>3. Up /\ Up' /\ shown' = <<>>
  BY DEF InsertPlayer, Up
<1>4. Promise!Insert(player)
  BY <1>1, <1>2, <1>3, SamePlayers DEF Promise!Insert, Promise!Named, Up
<1> QED
  BY <1>4, SamePlayers DEF Promise!Next

LEMMA DeletePlayerImplements ==
  ASSUME IInv, NEW n \in Names, DeletePlayer(n)
  PROVE  Promise!Next
<1>1. PICK at : Deleting(Contents(team), at, n)
                /\ Contents(team)' = Without(Contents(team), at)
  BY DeletePlayerKeeps
<1>2. /\ Promise!Those(Contents(team), {q \in Players : q.name = n}) = <<Contents(team)[at]>>
      /\ Promise!Those(Contents(team), {q \in Players : q.name # n}) = Without(Contents(team), at)
  BY <1>1, DeletingThose
<1>3. Up /\ Up' /\ shown' = <<>>
  BY DEF DeletePlayer, Up
<1>4. Promise!Delete(n)
  BY <1>1, <1>2, <1>3, SamePlayers DEF Promise!Delete, Promise!Named, Up
<1> QED
  BY <1>4 DEF Promise!Next

\* The name looked up belongs to one player of the team.
LEMMA SearchByNameImplements ==
  ASSUME IInv, NEW n \in Names, SearchByName(n)
  PROVE  Promise!Next
<1>1. PICK t, r : Lists(t, r)
  BY DEF IInv
<1>2. /\ TypeOK /\ Both(t, team, r, result_list, next, data) /\ Named(t, data)
      /\ Path(t, team, next)
  BY <1>1 DEF IInv, Lists, Both
<1>3. PICK at \in search_by_fam_name(n, team) : shown' = <<"name", n, <<data[Chain(team)[at]]>>>>
  BY DEF SearchByName
<1>4. at \in 1 .. Len(t) /\ data[t[at]].name = n /\ Chain(team)[at] = t[at]
  BY <1>2, NamesIs
<1>5. PICK c : c = Told(t, data)
  OBVIOUS
<1>6. /\ t \in Seq(Nodes) /\ Len(t) \in Nat
      /\ \A k \in 1 .. Len(t) : data[t[k]] \in Players
  BY <1>2, BothIs DEF TypeOK
<1>7. c \in Seq(Players) /\ Len(c) = Len(t) /\ \A k \in 1 .. Len(t) : c[k] = data[t[k]]
  BY <1>5, <1>6, ToldIs DEF Told
<1>8. Contents(team) = c
  BY <1>2, <1>5, ContentsDef, ContentsIs
<1>9. Deleting(c, at, n)
  BY <1>2, <1>4, <1>7 DEF Named, Deleting
<1>10. Promise!Those(c, {q \in Players : q.name = n}) = <<c[at]>>
  BY <1>9, DeletingThose
<1>11. shown' = <<"name", n, <<c[at]>>>>
  BY <1>3, <1>4, <1>7
<1>12. Up /\ Up' /\ Contents(team)' = Contents(team)
  BY RestKeeps DEF SearchByName, Up
<1>13. Promise!ByName(n)
  <2>1. Promise!Named(n) = <<c[at]>>
    BY <1>8, <1>10, SamePlayers DEF Promise!Named
  <2>2. Promise!Named(n) # <<>>
    BY <2>1
  <2>3. Promise!Show(<<"name", n, Promise!Named(n)>>)
    BY <1>11, <1>12, <2>1 DEF Promise!Show, Up
  <2> QED
    BY <2>2, <2>3 DEF Promise!ByName
<1> QED
  BY <1>13 DEF Promise!Next

LEMMA PrintResultImplements ==
  ASSUME IInv, PrintResult
  PROVE  Promise!Next
<1>1. /\ Contents(team)' = Contents(team) /\ wanted \in Values
      /\ Contents(result_list) = Promise!Those(Contents(team), Worth(wanted))
  BY PrintResultKeeps
<1>2. Up /\ Up' /\ shown' = <<"value", wanted, Contents(result_list)>>
  BY DEF PrintResult, Up
<1>3. Promise!ByValue(wanted)
  BY <1>1, <1>2, SamePlayers DEF Promise!ByValue, Promise!Show, Worth, Up
<1> QED
  BY <1>1, <1>3 DEF Promise!Next

LEMMA StopImplements ==
  ASSUME Up, ~Up', Contents(team)' \in {Contents(team), <<>>}, shown' = <<>>
  PROVE  Promise!Next
BY DEF Promise!Next, Promise!Stop, Up

LEMMA StutterImplements ==
  ASSUME Up' = Up, Contents(team)' = Contents(team), shown' = shown
  PROVE  UNCHANGED Promise!vars
BY DEF Promise!vars, Up

LEMMA StepsImplement ==
  ASSUME IInv, [Next]_vars
  PROVE  [Promise!Next]_(Promise!vars)
<1>1. CASE Refuse
  <2>1. Up /\ Up' /\ Contents(team)' = Contents(team) /\ shown' = <<>>
    BY <1>1, RestKeeps DEF Refuse, Up
  <2>2. Promise!Refuse
    BY <2>1 DEF Promise!Refuse, Promise!Show, Up
  <2> QED
    BY <2>2 DEF Promise!Next
<1>2. CASE \E p \in Players : InsertPlayer(p)
  BY <1>2, InsertPlayerImplements
<1>3. CASE NoMemory
  <2>1. Up /\ ~Up' /\ Contents(team)' = Contents(team) /\ shown' = <<>>
    BY <1>3, RestKeeps DEF NoMemory, Ends, Up
  <2> QED
    BY <2>1, StopImplements
<1>4. CASE \E n \in Names : DeletePlayer(n)
  BY <1>4, DeletePlayerImplements
<1>5. CASE \E n \in Names : SearchByName(n)
  BY <1>5, SearchByNameImplements
<1>6. CASE PrintTeam
  <2>1. Up /\ Up' /\ Contents(team)' = Contents(team) /\ shown' = <<"team", Contents(team)>>
    BY <1>6, RestKeeps DEF PrintTeam, Up
  <2>2. Promise!WholeTeam
    BY <2>1 DEF Promise!WholeTeam, Promise!Show, Up
  <2> QED
    BY <2>2 DEF Promise!Next
<1>7. CASE SearchByValue
  <2>1. Up /\ Up' /\ Contents(team)' = Contents(team) /\ shown' = shown
    BY <1>7, SearchByValueKeeps DEF SearchByValue, Up
  <2> QED
    BY <2>1, StutterImplements
<1>8. CASE CopyPlayer
  <2>1. Up /\ Up' /\ Contents(team)' = Contents(team) /\ shown' = shown
    BY <1>8, CopyPlayerKeeps DEF CopyPlayer, Up
  <2> QED
    BY <2>1, StutterImplements
<1>9. CASE SkipPlayer
  <2>1. Up /\ Up' /\ Contents(team)' = Contents(team) /\ shown' = shown
    BY <1>9, SkipPlayerKeeps DEF SkipPlayer, Up
  <2> QED
    BY <2>1, StutterImplements
<1>10. CASE InsertNull
  <2>1. Up /\ ~Up' /\ Contents(team)' = Contents(team) /\ shown' = <<>>
    BY <1>10, RestKeeps DEF InsertNull, Ends, Up
  <2> QED
    BY <2>1, StopImplements
<1>11. CASE PrintResult
  BY <1>11, PrintResultImplements
<1>12. CASE Quit
  <2>1. Up /\ ~Up' /\ Contents(team)' = <<>> /\ shown' = <<>>
    BY <1>12, QuitKeeps DEF Quit, Up
  <2> QED
    BY <2>1, StopImplements
<1>13. CASE StdinEof
  <2>1. Up /\ ~Up' /\ Contents(team)' = Contents(team) /\ shown' = <<>>
    BY <1>13, RestKeeps DEF StdinEof, Ends, Up
  <2> QED
    BY <2>1, StopImplements
<1>14. CASE UNCHANGED vars
  <2>1. Up' = Up /\ Contents(team)' = Contents(team) /\ shown' = shown
    BY <1>14, RestKeeps DEF vars, Up
  <2> QED
    BY <2>1, StutterImplements
<1> QED
  BY <1>1, <1>2, <1>3, <1>4, <1>5, <1>6, <1>7, <1>8, <1>9, <1>10, <1>11, <1>12, <1>13, <1>14
  DEF Next

\* The linked list implements a roster, for any number of nodes, names and
\* values: a player goes in after those whose position comes no later, a name
\* is looked up and deleted as Team says, and a search by value prints the very
\* players that qualify, in the roster's order (team.c:119-259, 431-564).
THEOREM Implements == Spec => ImplementsTeam
<1>1. Init => Promise!Init
  BY Starts DEF Init, Promise!Init
<1>2. IInv /\ [Next]_vars => [Promise!Next]_(Promise!vars)
  BY StepsImplement
<1> QED
  BY <1>1, <1>2, Invariant, PTL DEF Spec, ImplementsTeam, Promise!Spec
=============================================================================
