-------------------------------- MODULE Team --------------------------------
(***************************************************************************)
(* What the team program of assignment02 (part02/team.c) promises, without *)
(* its linked list: a roster of players with distinct family names, ordered *)
(* by position, and within a position by arrival.                          *)
(***************************************************************************)
EXTENDS Integers, Sequences

CONSTANTS Names,            \* the family names
          Values            \* what players are worth

\* The positions in the order of the roster: goalkeepers, defenders,
\* midfielders, strikers.
Positions == {"G", "D", "M", "S"}
Rank == [p \in Positions |-> CASE p = "G" -> 1 [] p = "D" -> 2
                               [] p = "M" -> 3 [] p = "S" -> 4]
Players == [name : Names, position : Positions, value : Values]

VARIABLES up,               \* the program takes commands
          roster,
          shown             \* the last query and the players it printed

vars == <<up, roster, shown>>

\* The elements of s that are in T, in the order of s.
Those(s, T) ==
  LET upto[i \in 0 .. Len(s)] ==
        IF i = 0 THEN <<>>
        ELSE IF s[i] \in T THEN Append(upto[i - 1], s[i]) ELSE upto[i - 1]
  IN upto[Len(s)]

Named(n) == Those(roster, {q \in Players : q.name = n})

Init ==
  /\ up = TRUE
  /\ roster = <<>>
  /\ shown = <<>>

Insert(p) ==
  /\ up
  /\ Named(p.name) = <<>>
  /\ roster' = Those(roster, {q \in Players : Rank[q.position] <= Rank[p.position]})
               \o <<p>>
               \o Those(roster, {q \in Players : Rank[q.position] > Rank[p.position]})
  /\ shown' = <<>>
  /\ UNCHANGED up

Delete(n) ==
  /\ up
  /\ Named(n) # <<>>
  /\ roster' = Those(roster, {q \in Players : q.name # n})
  /\ shown' = <<>>
  /\ UNCHANGED up

\* The queries by name and by value, and the whole team; a name that is not
\* on the roster is answered with a message, like any command refused.
Show(answer) ==
  /\ up
  /\ shown' = answer
  /\ UNCHANGED <<up, roster>>

ByName(n) == Named(n) # <<>> /\ Show(<<"name", n, Named(n)>>)
ByValue(v) == Show(<<"value", v, Those(roster, {q \in Players : q.value <= v})>>)
WholeTeam == Show(<<"team", roster>>)
Refuse == Show(<<>>)

\* The end of the program, in whatever way.
Stop ==
  /\ up
  /\ up' = FALSE
  /\ roster' \in {roster, <<>>}
  /\ shown' = <<>>

Next ==
  \/ \E p \in Players : Insert(p)
  \/ \E n \in Names : Delete(n) \/ ByName(n)
  \/ \E v \in Values : ByValue(v)
  \/ WholeTeam
  \/ Refuse
  \/ Stop

Spec == Init /\ [][Next]_vars
=============================================================================
