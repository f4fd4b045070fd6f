--------------------------- MODULE MCSftpBrowser ---------------------------
EXTENDS SftpBrowser

CONSTANTS s1, s2, j1, j2

TwoServers == {s1, s2}
TwoSlots == {j1, j2}
TwoDirs == {"d", "e"}
TwoFiles == {"f", "g"}

\* Two tabs whose directories have a name in common; the path stored for the second is gone.
Panel ==
  [panel |-> TRUE, tasks |-> 3, failures |-> TRUE, home |-> <<>>, root |-> <<>>,
   servers |-> {s1}, typed |-> {<<"e">>}, choices |-> {},
   stored |-> [h \in Hosts |-> IF h = s1 THEN <<"d">> ELSE <<"e">>],
   disk |-> [h \in Hosts |-> IF h = s1 THEN {<<"d">>, <<"f">>, <<"d", "f">>}
                             ELSE IF h = s2 THEN {<<"d">>, <<"f">>} ELSE {}]]

\* The workspace: files of the same name on both sides, and below the local directory granted.
Workspace ==
  [panel |-> FALSE, tasks |-> 3, failures |-> FALSE, home |-> <<>>, root |-> <<"d">>,
   servers |-> {s1}, typed |-> {<<>>}, choices |-> {<<>>},
   stored |-> [h \in Hosts |-> IF h = Local THEN <<"d", "d">> ELSE <<>>],
   disk |-> [h \in Hosts |-> IF h = s1 THEN {<<"f">>, <<"g">>}
                             ELSE IF h = Local
                             THEN {<<"d">>, <<"d", "d">>, <<"d", "d", "f">>, <<"d", "f">>, <<"d", "g">>}
                             ELSE {}]]

BrowserSituations == {Panel, Workspace}
=============================================================================
