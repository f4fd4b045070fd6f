-------------------------- MODULE MCCommandHistory --------------------------
EXTENDS CommandHistory

CONSTANTS r1, r2

\* One letter in both cases, another, and the blank.
LowerCase == [c \in {"a", "A", "b", " "} |-> IF c = "A" THEN "a" ELSE c]

\* Two commands that begin alike, but for the case of a letter.
TwoCommands == {<<"a", "b">>, <<"A", "a">>}

TwoRequests == {r1, r2}

AllLines ==
  {<<>>, <<"a">>, <<"A">>, <<"a", "b">>, <<"A", "b">>, <<"A", "a">>, <<"A", " ">>,
   <<" ">>, <<" ", "a">>}

\* The user types and erases while requests overtake each other.
Typing ==
  [tasks |-> 0, outside |-> 0, requests |-> 2, lines |-> AllLines, begin |-> Records]

\* A suggestion is deleted and the command entered.
Repeating ==
  [tasks |-> 2, outside |-> 0, requests |-> 1, lines |-> {<<"a">>, <<"a", "b">>},
   begin |-> {}]

\* The settings list and delete what is recorded and synchronized meanwhile.
Managing ==
  [tasks |-> 2, outside |-> 1, requests |-> 0, lines |-> {<<"a", "b">>},
   begin |-> RecordsOf(<<"a", "b">>)]

HistorySettings == {Typing, Repeating, Managing}

=============================================================================
