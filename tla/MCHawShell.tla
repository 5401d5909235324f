------------------------------ MODULE MCHawShell ------------------------------
(* An instance of HawShell for TLC: scripts of up to three lines, of every *)
(* kind that hawsh and startProcess tell apart.                            *)
EXTENDS HawShell

SomeTokens == {"prog", "quit", "help", "/", "x", "&", "blank", "newline"}

Found == {<<"prog">>}
Paths == {<<"/">>, <<"/", "x">>}

Lines == {
  <<"prog", "newline">>,
  <<"prog", "&", "newline">>,
  <<"prog", "blank", "&", "newline">>,         \* execlp looks for "prog "
  <<"x", "newline">>,                          \* no such program
  <<"quit", "blank", "newline">>,
  <<"/", "newline">>,
  <<"/", "x", "newline">>,
  <<"/", "help", "newline">>,                  \* no such directory
  <<"blank", "newline">>,
  <<"help", "newline">>}

(* A line that does not fit: its end is taken for a command of its own. *)
TooLong == <<"prog", "blank", "blank", "blank", "prog", "newline">>

SomeScripts ==
  {<<a, b, c>> : a, b, c \in Lines} \cup {<<TooLong, a>> : a \in Lines}
=============================================================================
