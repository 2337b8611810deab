------------------------------ MODULE TeamList ------------------------------
(***************************************************************************)
(* The team program of assignment02 (part02/team.c): a menu loop over a    *)
(* linked list of players in allocated nodes.  It implements Team.         *)
(*                                                                         *)
(* First names are left out: nothing depends on them.  A node and its two  *)
(* strings are allocated and freed together.  Every command but the search *)
(* by value is one action; that search copies one player per iteration,    *)
(* and any allocation may fail.                                            *)
(*                                                                         *)
(* Operators named X_Fault are faulty forms of X, plausible mistakes in    *)
(* the code it models; no specification here uses them.                    *)
(***************************************************************************)
EXTENDS Integers, Sequences, FiniteSets, Functions

CONSTANTS Names, Values,    \* as in Team
          Nodes,            \* the heap's nodes
          NULL

VARIABLES
  pc,               \* "prompt", "searching", or how the program stopped
  team,             \* head of the list
  data,             \* per node: its player, NULL if it is not allocated
  next,
  wanted,           \* search_by_value: the value, the node it looks at, and
  head, result_list,    \* the list of copies
  shown             \* history: the last query and the players it printed

heap == <<data, next>>
search == <<wanted, head, result_list>>
vars == <<pc, team, heap, search, shown>>

GOALKEEPER == "G"
DEFENDER == "D"
MIDFIELDER == "M"
STRIKER == "S"
Positions == {GOALKEEPER, DEFENDER, MIDFIELDER, STRIKER}
Players == [name : Names, position : Positions, value : Values]

\* NULL is neither an address nor what a node holds.
ASSUME TeamAssumption ==
  /\ IsFiniteSet(Nodes)
  /\ NULL \notin Nodes \cup Players
  /\ Values \subseteq Int

-----------------------------------------------------------------------------
(* Lists                                                                   *)

\* The nodes met on the way from one, in order.  The way round a cycle is
\* longer than there are nodes.
Chain(from) ==
  LET at[k \in 0 .. Cardinality(Nodes)] ==
        IF k = 0 THEN from
        ELSE IF at[k - 1] = NULL THEN NULL ELSE next[at[k - 1]]
      steps == {k \in DOMAIN at : at[k] # NULL}
  IN [k \in 1 .. Cardinality(steps) |-> at[k - 1]]

\* What print_team prints of a list.
Contents(from) ==
  LET chain == Chain(from) IN [k \in DOMAIN chain |-> data[chain[k]]]

FirstOf(ks) == {k \in ks : \A j \in ks : k <= j}

\* The place of a family name in the list, in a set; its player's node is the
\* current node of the search's result, the one before it the previous node.
search_by_fam_name(n, from) ==
  FirstOf({k \in DOMAIN Chain(from) : data[Chain(from)[k]].name = n})

\* A player goes before the first one whose position comes later.
GoesBefore_Midfielders(p, q) ==
  \/ p = MIDFIELDER /\ q = STRIKER
  \/ p = DEFENDER /\ q = MIDFIELDER
  \/ p = GOALKEEPER /\ q # GOALKEEPER
GoesBefore(p, q) ==
  \/ p = MIDFIELDER /\ q = STRIKER
  \/ p = DEFENDER /\ q \in {MIDFIELDER, STRIKER}
  \/ p = GOALKEEPER /\ q # GOALKEEPER

\* The head of the list from after a player was put into it in node new, and
\* the links.
insert_player(from, new, player) ==
  LET chain == Chain(from)
      place == FirstOf({k \in DOMAIN chain :
                          GoesBefore(player.position, data[chain[k]].position)}
                       \cup {Len(chain) + 1})
      at == CHOOSE k \in place : TRUE
      after == IF at <= Len(chain) THEN chain[at] ELSE NULL
  IN IF at = 1
     THEN [head |-> new, next |-> [next EXCEPT ![new] = after]]
     ELSE [head |-> from,
           next |-> [next EXCEPT ![new] = after, ![chain[at - 1]] = new]]

Free == {n \in Nodes : data[n] = NULL}
free_nodes(ns) ==
  /\ data' = [n \in Nodes |-> IF n \in ns THEN NULL ELSE data[n]]
  /\ next' = [n \in Nodes |-> IF n \in ns THEN NULL ELSE next[n]]
free_team_OnlyHead(from) == IF from = NULL THEN {} ELSE {from}
free_team(from) == Range(Chain(from))

-----------------------------------------------------------------------------
(* Commands                                                                *)

Init ==
  /\ pc = "prompt"
  /\ team = NULL
  /\ data = [n \in Nodes |-> NULL]
  /\ next = [n \in Nodes |-> NULL]
  /\ wanted = NULL
  /\ head = NULL
  /\ result_list = NULL
  /\ shown = <<>>

\* The program ends without freeing anything, or never ends.
Ends(how) ==
  /\ pc' = how
  /\ shown' = <<>>
  /\ UNCHANGED <<team, heap, search>>

\* A command that changes nothing: one not known, a position or a value not
\* valid, a name already or not in the team.
Refuse ==
  /\ pc = "prompt"
  /\ shown' = <<>>
  /\ UNCHANGED <<pc, team, heap, search>>

InsertPlayer(player) ==
  /\ pc = "prompt"
  /\ search_by_fam_name(player.name, team) = {}
  /\ \E new \in Free :
       LET inserted == insert_player(team, new, player)
       IN /\ team' = inserted.head
          /\ next' = inserted.next
          /\ data' = [data EXCEPT ![new] = player]
  /\ shown' = <<>>
  /\ UNCHANGED <<pc, search>>

NoMemory ==
  /\ pc = "prompt"
  /\ \E n \in Names : search_by_fam_name(n, team) = {}
  /\ Ends("exited")

DeletePlayer_StaleLink(n) ==
  /\ pc = "prompt"
  /\ \E k \in search_by_fam_name(n, team) :
       LET current == Chain(team)[k]
       IN /\ team' = IF k = 1 THEN next[current] ELSE team
          /\ data' = [data EXCEPT ![current] = NULL]
  /\ shown' = <<>>
  /\ UNCHANGED <<pc, next, search>>
DeletePlayer(n) ==
  /\ pc = "prompt"
  /\ \E k \in search_by_fam_name(n, team) :
       LET current == Chain(team)[k]
           linked == IF k = 1
                     THEN next
                     ELSE [next EXCEPT ![Chain(team)[k - 1]] = next[current]]
       IN /\ team' = IF k = 1 THEN next[current] ELSE team
          /\ next' = [linked EXCEPT ![current] = NULL]
          /\ data' = [data EXCEPT ![current] = NULL]
  /\ shown' = <<>>
  /\ UNCHANGED <<pc, search>>

SearchByName(n) ==
  /\ pc = "prompt"
  /\ \E k \in search_by_fam_name(n, team) : 
       shown' = <<"name", n, <<data[Chain(team)[k]]>>>>
  /\ UNCHANGED <<pc, team, heap, search>>

PrintTeam ==
  /\ pc = "prompt"
  /\ shown' = <<"team", Contents(team)>>
  /\ UNCHANGED <<pc, team, heap, search>>

\* search_by_value starts at the head of the team ...
SearchByValue ==
  /\ pc = "prompt"
  /\ pc' = "searching"
  /\ wanted' \in Values
  /\ head' = team
  /\ result_list' = NULL
  /\ UNCHANGED <<team, heap, shown>>

\* ... copies the players worth no more than the value, in the order of the
\* list ...
Qualifies_Less(player) == player.value < wanted
Qualifies(player) == player.value <= wanted
CopyPlayer ==
  /\ pc = "searching"
  /\ head # NULL
  /\ Qualifies(data[head])
  /\ \E new \in Free :
       LET inserted == insert_player(result_list, new, data[head])
       IN /\ result_list' = inserted.head
          /\ next' = inserted.next
          /\ data' = [data EXCEPT ![new] = data[head]]
  /\ head' = next[head]
  /\ UNCHANGED <<pc, team, wanted, shown>>

SkipPlayer ==
  /\ pc = "searching"
  /\ head # NULL
  /\ ~Qualifies(data[head])
  /\ head' = next[head]
  /\ UNCHANGED <<pc, team, heap, wanted, result_list, shown>>

\* ... and inserts NULL, unchecked, where there is no memory for a copy.
InsertNull_Abandons ==
  /\ pc = "searching" /\ head # NULL /\ Qualifies(data[head])
  /\ pc' = "prompt"
  /\ UNCHANGED <<team, heap, search, shown>>
InsertNull ==
  /\ pc = "searching"
  /\ head # NULL
  /\ Qualifies(data[head])
  /\ Ends("crashed")

\* The copies are printed and freed.
PrintResult ==
  /\ pc = "searching"
  /\ head = NULL
  /\ pc' = "prompt"
  /\ shown' = <<"value", wanted, Contents(result_list)>>
  /\ free_nodes(free_team(result_list))
  /\ result_list' = NULL
  /\ wanted' = NULL
  /\ UNCHANGED <<team, head>>

Quit ==
  /\ pc = "prompt"
  /\ pc' = "exited"
  /\ free_nodes(free_team(team))
  /\ team' = NULL
  /\ shown' = <<>>
  /\ UNCHANGED search

\* At the end of stdin safegets returns lines of (char) EOF for ever, which
\* are no command.
StdinEof ==
  /\ pc = "prompt"
  /\ Ends("spinning")

Next ==
  \/ Refuse
  \/ \E p \in Players : InsertPlayer(p)
  \/ NoMemory
  \/ \E n \in Names : DeletePlayer(n) \/ SearchByName(n)
  \/ PrintTeam
  \/ SearchByValue
  \/ CopyPlayer
  \/ SkipPlayer
  \/ InsertNull
  \/ PrintResult
  \/ Quit
  \/ StdinEof

Spec == Init /\ [][Next]_vars

-----------------------------------------------------------------------------
(* Properties                                                              *)

Promise == INSTANCE Team WITH
  up <- pc \in {"prompt", "searching"},
  roster <- Contents(team)

TypeOK ==
  /\ pc \in {"prompt", "searching", "exited", "crashed", "spinning"}
  /\ team \in Nodes \cup {NULL}
  /\ data \in [Nodes -> Players \cup {NULL}]
  /\ next \in [Nodes -> Nodes \cup {NULL}]
  /\ wanted \in Values \cup {NULL}
  /\ head \in Nodes \cup {NULL}
  /\ result_list \in Nodes \cup {NULL}
  /\ pc = "prompt" => wanted = NULL /\ head = NULL /\ result_list = NULL

Distinct(s) == \A j, k \in DOMAIN s : s[j] = s[k] => j = k

\* Every allocated node is on exactly one of the two lists, once, and every
\* node on a list is allocated: nothing leaks, nothing dangles, no node is
\* freed twice, and the copies share nothing with the team (team.c:515-563).
EveryNodeOnOneList ==
  /\ Distinct(Chain(team) \o Chain(result_list))
  /\ \A n \in Nodes :
       data[n] # NULL <=> n \in Range(Chain(team)) \cup Range(Chain(result_list))

\* Family names are unique on the team, positions in order, after any mix of
\* insertions and deletions (team.c:166-179, 466-508); so they are on the list
\* of copies, which insert_player builds from an empty one.
InOrder(s) ==
  \A j, k \in DOMAIN s :
    j < k => Promise!Rank[s[j].position] <= Promise!Rank[s[k].position]
ListsInOrder ==
  /\ InOrder(Contents(team)) /\ InOrder(Contents(result_list))
  /\ Distinct([k \in DOMAIN Contents(team) |-> Contents(team)[k].name])

\* The program implements Team: its list is the roster, and each command
\* changes it and prints as Team says; the copies come out complete and in
\* the roster's order, players of one position by arrival.
ImplementsTeam == Promise!Spec
=============================================================================
