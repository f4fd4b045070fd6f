-------------------------- MODULE MCZmodemAdapter --------------------------
EXTENDS ZmodemAdapter

\* The first file has two blocks.
TwoAndOne == <<2, 1>>

\* sz sends two files; its header may have to be sent again after a cancellation.
Receiving ==
  [programs |-> {"sz"}, szFiles |-> 2, headers |-> 3, senders |-> 0, selections |-> {},
   failures |-> FALSE, input |-> 1, cancels |-> TRUE]

\* rz gets two files, and after a cancellation or a failure others.
Sending ==
  [programs |-> {"rz"}, szFiles |-> 1, headers |-> 2, senders |-> 2,
   selections |-> {<<1>>, <<2, 1>>}, failures |-> TRUE, input |-> 1, cancels |-> TRUE]

\* A dialog is open while sz begins.
Mixed ==
  [programs |-> {"sz", "rz"}, szFiles |-> 1, headers |-> 2, senders |-> 1,
   selections |-> {<<1>>}, failures |-> TRUE, input |-> 1, cancels |-> TRUE]

\* Two dialogs are open, because sz was cancelled in between.
Dialogs ==
  [programs |-> {"sz", "rz"}, szFiles |-> 1, headers |-> 3, senders |-> 2,
   selections |-> {<<2, 2>>}, failures |-> FALSE, input |-> 0, cancels |-> TRUE]

AdapterSettings == {Receiving, Sending, Mixed, Dialogs}

=============================================================================
