------------------------------ MODULE MCShell ------------------------------
(* Shell with the lines of one and two segments that differ in what they   *)
(* make the shell do, and the longer ones that need more.                  *)
EXTENDS Shell
MCLines ==
  { <<k>> : k \in Kinds \ {"endless"} }
  \cup {<<"finite", "filter">>, <<"endless", "finite">>, <<"finite", "empty">>,
        <<"badredir", "filter">>, <<"cd", "exit">>, <<"exit", "finite">>,
        <<"endless", "exit", "filter">>, <<"finite", "filter", "finite">>}
MCLaterLines == { <<"cd">>, <<"tofile">>, <<"finite", "filter">>, <<"endless", "finite">> }
=============================================================================
