------------------------- MODULE MCTerminalReconnect -------------------------
(***************************************************************************)
(* One automatic attempt in a row, and up to four calls of StartSSH: one   *)
(* that fails, one that succeeds, and one or two after that.               *)
(***************************************************************************)
EXTENDS TerminalReconnect

FourCalls == 1..4

\* Locked twice, with the sessions left alone.
Automatic ==
  [disconnect |-> FALSE, resumes |-> TRUE, overlaps |-> FALSE, prompt |-> TRUE,
   careful |-> TRUE, maxLocks |-> 2, maxCalls |-> 3]

Manual == [Automatic EXCEPT !.resumes = FALSE, !.maxLocks = 1]

Disconnecting == [Automatic EXCEPT !.disconnect = TRUE, !.maxLocks = 1, !.maxCalls = 4]

\* Answers to old questions, and events in front of the render they cross.
Late == [Automatic EXCEPT !.prompt = FALSE, !.careful = FALSE, !.maxLocks = 1, !.maxCalls = 4]

\* Bootstraps that cross a lock.
Overlapping == [Automatic EXCEPT !.overlaps = TRUE, !.maxLocks = 1]

ReconnectSettings == {Automatic, Manual, Disconnecting, Late, Overlapping}

===============================================================================
