----------------------------- MODULE TerminalEcho -----------------------------
(***************************************************************************)
(* Which of the lines typed into a terminal are recorded as commands       *)
(* (terminalEchoGuard.ts and the handlers of TerminalView.tsx that feed    *)
(* it).  The webview does not know what the remote program reads: a line   *)
(* is recorded once all of it has been seen in the output, and its end, so *)
(* that a password is not: with the echo off, nothing of it is displayed.  *)
(*                                                                         *)
(* Keys travel to the remote and output travels back.  The remote is       *)
(* external: a terminal that echoes what it takes, unless its program has  *)
(* turned that off, and a program that prints: what might be awaited, or   *)
(* Text, which stands for everything else.                                 *)
(***************************************************************************)
EXTENDS Naturals, Sequences

CONSTANTS
  Chars,      \* the characters that are typed
  Blank,      \* the space, which trim removes
  Text,       \* a character that is only printed, or arrives when none is awaited
  MaxKeys,    \* keys typed in one behaviour
  MaxPrints   \* what the program prints, in one behaviour

ASSUME TextAssumption == Text \notin Chars \cup {Blank}

\* What stands for a key or for a control sequence is not a character.
ASSUME MarkerAssumption ==
  {"enter", "erase", "control", "newline", "break", "rub", "escape"} \cap (Chars \cup {Text}) = {}

VARIABLES
  guard,      \* the TerminalEchoGuard: its current line, and the lines submitted
  keys,       \* typed and not yet taken by the remote
  out,        \* output under way to the webview
  tty,        \* the remote terminal: its echo, and the line it collects
  recorded,   \* the lines handed to recordCommandHistory
  logs,       \* for each line of the guard, what has been seen since it was begun
  echoed,     \* the commands that had been seen in the output when their line ended
  read,       \* every line the remote program has read
  clean,      \* nothing has disturbed the dialogue of terminal and user
  typed, printed

vars == <<guard, keys, out, tty, recorded, logs, echoed, read, clean, typed, printed>>

IsBlank(text) == \A i \in 1..Len(text) : text[i] = Blank

DropLast(text) == SubSeq(text, 1, Len(text) - 1)

NewLine ==
  [command |-> <<>>, pending |-> <<>>, reliable |-> TRUE, echoSafe |-> TRUE,
   echoJustConfirmed |-> FALSE]

NewGuard == [line |-> NewLine, submitted |-> <<>>]

(***************************************************************************)
(* The methods of the guard that a key calls.                              *)
(***************************************************************************)
MarkUnsafe(line) ==
  [line EXCEPT !.echoSafe = FALSE, !.pending = <<>>, !.echoJustConfirmed = FALSE]

AppendInput(line, char) ==
  [line EXCEPT !.command = Append(@, char), !.echoJustConfirmed = FALSE,
     !.pending = IF line.echoSafe THEN Append(@, char) ELSE @]

Backspace(line) ==
  IF line.command = <<>> THEN line
  ELSE [line EXCEPT !.command = DropLast(@), !.echoJustConfirmed = FALSE,
          !.pending = IF line.echoSafe /\ @ # <<>> THEN DropLast(@) ELSE @]

MarkUnreliable(line) == MarkUnsafe([line EXCEPT !.reliable = FALSE])

Trusted(line) == line.reliable /\ line.echoSafe /\ ~IsBlank(line.command)

Submit(g) ==
  [line |-> NewLine,
   submitted |-> IF Trusted(g.line)
                   THEN Append(g.submitted, [g.line EXCEPT !.echoJustConfirmed = FALSE])
                   ELSE g.submitted]

(***************************************************************************)
(* The methods that output calls: a character is compared with the first   *)
(* one that awaits its echo; the end of a line confirms, or gives up, the  *)
(* first line submitted.                                                   *)
(***************************************************************************)
Awaited(line, char) == line.echoSafe /\ line.pending # <<>> /\ Head(line.pending) = char

SubmittedChar(g, char) ==
  LET first == Head(g.submitted)
  IN  [g EXCEPT !.submitted =
         IF Awaited(first, char)
           THEN <<[first EXCEPT !.pending = Tail(@)]>> \o Tail(@)
           ELSE Tail(@)]

CurrentChar(line, char) ==
  IF Awaited(line, char)
    THEN [line EXCEPT !.pending = Tail(@), !.echoJustConfirmed = Tail(line.pending) = <<>>]
    ELSE IF line.echoSafe /\ (line.pending # <<>> \/ line.echoJustConfirmed)
           THEN MarkUnsafe(line)
           ELSE line

\* A bug in consumeVisibleChar: the lines submitted are passed over.
ObserveCharCurrent(g, char) == [g EXCEPT !.line = CurrentChar(@, char)]

ObserveChar(g, char) ==
  IF g.submitted # <<>> THEN SubmittedChar(g, char)
  ELSE [g EXCEPT !.line = CurrentChar(@, char)]

\* A bug in consumeLineBoundary: a line is confirmed when it ends, echoed or not.
ConfirmsUnseen(g) == g.submitted # <<>> /\ Trusted(Head(g.submitted))

Confirms(g) ==
  /\ g.submitted # <<>>
  /\ Trusted(Head(g.submitted))
  /\ Head(g.submitted).pending = <<>>

LineBoundary(g) ==
  IF g.submitted # <<>> THEN [g EXCEPT !.submitted = Tail(@)]
  ELSE IF g.line.pending # <<>> \/ g.line.echoJustConfirmed
         THEN [g EXCEPT !.line = MarkUnsafe(@)]
         ELSE g

(***************************************************************************)
(* onData: a key is sent, and told to the guard.  Control stands for the   *)
(* keys with which the remote may change the line in its own way.          *)
(***************************************************************************)
Keys == Chars \cup {"enter", "erase", "control"}

Press(g, key) ==
  CASE key = "enter"   -> Submit(g)
    [] key = "erase"   -> [g EXCEPT !.line = Backspace(@)]
    [] key = "control" -> [g EXCEPT !.line = MarkUnreliable(@)]
    [] OTHER           -> [g EXCEPT !.line = AppendInput(@, key)]

\* What makes the guard give the line up: an empty line, or an erasure that overtakes an echo.
Disturbs(line, key) ==
  \/ key = "control"
  \/ key = "enter" /\ IsBlank(line.command)
  \/ key = "erase" /\ line.pending # <<>>

(***************************************************************************)
(* What has been seen of a line: the characters that have arrived since    *)
(* its first key, and how many of them there were when each of its own was *)
(* typed.  An echo comes after the key.                                    *)
(***************************************************************************)
NewLog == [shown |-> <<>>, typed |-> <<>>]

NoLogs == [line |-> NewLog, submitted |-> <<>>]

Seen(command, log) ==
  \E at \in [1..Len(command) -> 1..Len(log.shown)] :
    /\ \A i \in 1..Len(command) : log.typed[i] < at[i] /\ log.shown[at[i]] = command[i]
    /\ \A i, j \in 1..Len(command) : i < j => at[i] < at[j]

LogKey(log, key) ==
  CASE key = "erase"   -> [log EXCEPT !.typed = IF @ = <<>> THEN @ ELSE DropLast(@)]
    [] key = "control" -> log
    [] OTHER           -> IF log.typed = <<>> THEN [shown |-> <<>>, typed |-> <<0>>]
                          ELSE [log EXCEPT !.typed = Append(@, Len(log.shown))]

LogPress(key) ==
  IF key # "enter" THEN [logs EXCEPT !.line = LogKey(@, key)]
  ELSE [line |-> NewLog,
        submitted |-> IF Trusted(guard.line) THEN Append(logs.submitted, logs.line)
                      ELSE logs.submitted]

LogChar(log, char) == [log EXCEPT !.shown = Append(@, char)]

LogVisible(char) ==
  [line |-> IF logs.line.typed = <<>> THEN logs.line ELSE LogChar(logs.line, char),
   submitted |-> [i \in 1..Len(logs.submitted) |-> LogChar(logs.submitted[i], char)]]

\* The first lines are gone from the guard.
Left(log, g) ==
  [log EXCEPT !.submitted = SubSeq(@, Len(@) - Len(g.submitted) + 1, Len(@))]

Type(key) ==
  /\ typed < MaxKeys
  /\ typed' = typed + 1
  /\ keys' = Append(keys, key)
  /\ guard' = Press(guard, key)
  /\ logs' = LogPress(key)
  /\ clean' = (clean /\ ~Disturbs(guard.line, key))
  /\ UNCHANGED <<out, tty, recorded, echoed, read, printed>>

(***************************************************************************)
(* The remote terminal takes a key.  With the echo off it displays nothing *)
(* but, as the program likes, the end of the line.                         *)
(***************************************************************************)
Display(items) == out' = out \o items

TakeChar ==
  /\ keys # <<>> /\ Head(keys) \in Chars
  /\ tty' = [tty EXCEPT !.line = Append(@, Head(keys))]
  /\ Display(IF tty.echo THEN <<Head(keys)>> ELSE <<>>)
  /\ clean' = (clean /\ tty.echo)
  /\ keys' = Tail(keys)
  /\ UNCHANGED <<guard, recorded, logs, echoed, read, typed, printed>>

TakeErase ==
  /\ keys # <<>> /\ Head(keys) = "erase"
  /\ tty' = [tty EXCEPT !.line = IF @ = <<>> THEN @ ELSE DropLast(@)]
  /\ Display(IF tty.echo /\ tty.line # <<>> THEN <<"rub">> ELSE <<>>)
  /\ keys' = Tail(keys)
  /\ UNCHANGED <<guard, recorded, logs, echoed, read, clean, typed, printed>>

TakeEnter ==
  /\ keys # <<>> /\ Head(keys) = "enter"
  /\ tty' = [tty EXCEPT !.line = <<>>]
  /\ read' = read \cup {tty.line}
  /\ \/ Display(<<"newline">>) /\ UNCHANGED clean
     \/ ~tty.echo /\ Display(<<>>) /\ clean' = FALSE
  /\ keys' = Tail(keys)
  /\ UNCHANGED <<guard, recorded, logs, echoed, typed, printed>>

\* The line is completed, or given up; what is displayed is the program's business.
TakeControl ==
  /\ keys # <<>> /\ Head(keys) = "control"
  /\ \/ tty' = [tty EXCEPT !.line = <<>>] /\ Display(<<"newline">>)
     \/ \E char \in Chars :
          tty' = [tty EXCEPT !.line = Append(@, char)] /\ Display(<<char>>)
  /\ keys' = Tail(keys)
  /\ UNCHANGED <<guard, recorded, logs, echoed, read, clean, typed, printed>>

ProgramPrints ==
  /\ printed < MaxPrints
  /\ printed' = printed + 1
  /\ \E item \in Chars \cup {Text, "break", "escape"} :
       Display(<<item>>) /\ clean' = (clean /\ item \notin Chars)
  /\ UNCHANGED <<guard, keys, tty, recorded, logs, echoed, read, typed>>

SetEcho ==
  /\ printed < MaxPrints
  /\ printed' = printed + 1
  /\ tty' = [tty EXCEPT !.echo = ~@]
  /\ UNCHANGED <<guard, keys, out, recorded, logs, echoed, read, clean, typed>>

(***************************************************************************)
(* Output arrives in chunks, cut anywhere: the halves of an end of line    *)
(* count twice, those of an escape sequence or of a rub out leave a        *)
(* visible character behind.                                               *)
(***************************************************************************)
UnderWay == guard.line.command # <<>> \/ guard.submitted # <<>>

Observe(after, split) ==
  LET item == Head(out)
  IN  /\ out' = Tail(out)
      /\ guard' = after
      /\ clean' = (clean /\ ~split /\ (item \in {Text, "break"} => ~UnderWay))
      /\ UNCHANGED <<keys, tty, read, typed, printed>>

Sees(char, split) ==
  LET after == ObserveChar(guard, char)
  IN  /\ Observe(after, split)
      /\ logs' = Left(LogVisible(char), after)

ObserveVisible ==
  /\ out # <<>> /\ Head(out) \in Chars \cup {Text}
  /\ Sees(Head(out), FALSE)
  /\ UNCHANGED <<recorded, echoed>>

First(g) == Head(g.submitted).command

\* The command of the first line submitted, if it has been seen.
Ended(g, log) ==
  IF g.submitted # <<>> /\ Seen(First(g), Head(log.submitted)) THEN {First(g)} ELSE {}

\* The command that observeOutput returns.
Confirmed(g) == IF Confirms(g) THEN {First(g)} ELSE {}

ObserveEnd ==
  /\ out # <<>> /\ Head(out) \in {"newline", "break"}
  /\ LET after == LineBoundary(guard)
     IN  /\ recorded' = recorded \cup Confirmed(guard)
         /\ echoed' = echoed \cup Ended(guard, logs)
         /\ logs' = Left(logs, after)
         /\ Observe(after, FALSE)

\* The second half of an end of line that was cut confirms what comes next, if that is echoed.
ObserveCutEnd ==
  /\ out # <<>> /\ Head(out) \in {"newline", "break"}
  /\ LET half == LineBoundary(guard)
         after == LineBoundary(half)
         left == Left(logs, half)
     IN  /\ recorded' = recorded \cup Confirmed(guard) \cup Confirmed(half)
         /\ echoed' = echoed \cup Ended(guard, logs) \cup Ended(half, left)
         /\ logs' = Left(left, after)
         /\ Observe(after, TRUE)

ObserveInvisible ==
  /\ out # <<>> /\ Head(out) \in {"rub", "escape"}
  /\ \/ Observe(guard, FALSE) /\ UNCHANGED logs
     \/ Sees(IF Head(out) = "rub" THEN Blank ELSE Text, TRUE)
  /\ UNCHANGED <<recorded, echoed>>

\* resetEchoTracking, when the connection is lost or replaced: the remote's part is new as well.
Reconnect ==
  /\ typed < MaxKeys
  /\ typed' = typed + 1
  /\ guard' = NewGuard /\ keys' = <<>> /\ out' = <<>> /\ logs' = NoLogs
  /\ tty' = [echo |-> TRUE, line |-> <<>>]
  /\ clean' = FALSE
  /\ UNCHANGED <<recorded, echoed, read, printed>>

Init ==
  /\ guard = NewGuard /\ keys = <<>> /\ out = <<>> /\ logs = NoLogs
  /\ tty = [echo |-> TRUE, line |-> <<>>]
  /\ recorded = {} /\ echoed = {} /\ read = {}
  /\ clean = TRUE /\ typed = 0 /\ printed = 0

Take == TakeChar \/ TakeErase \/ TakeEnter \/ TakeControl

See == ObserveVisible \/ ObserveEnd \/ ObserveCutEnd \/ ObserveInvisible

Next == (\E key \in Keys : Type(key)) \/ Take \/ ProgramPrints \/ SetEcho \/ See \/ Reconnect

Spec == Init /\ [][Next]_vars

-------------------------------------------------------------------------------
\* A recorded command has been seen in the output when its line ended: all its characters,
\* in their order, each after the key was pressed; whatever is typed ahead, erased, printed or
\* cut in between (terminalEchoGuard.ts:67-118).  So a line of which nothing is displayed is
\* not recorded; but what is displayed need not be its echo: a program that prints what is
\* awaited, or the echo of a character erased before it came, takes its place.
RecordedWasEchoed == recorded \subseteq echoed

\* As long as nothing comes between, the commands recorded are the lines the remote program
\* has read: none is missing once the output has arrived, and none was erased or put together
\* from two lines.
CleanIsRecorded ==
  clean => /\ recorded \subseteq read
           /\ keys = <<>> /\ out = <<>> => recorded = read

===============================================================================
