-------------------------- MODULE TerminalViewProofs --------------------------
(***************************************************************************)
(* Two parts of the terminal in the webview.                               *)
(*                                                                         *)
(* TerminalEcho: what is recorded has been seen in the output, and what    *)
(* is typed undisturbed is always recorded, for any characters and any     *)
(* number of keys and outputs.  The first argument: what a line of the     *)
(* guard still awaits is the rest of the line, and everything before it    *)
(* has been seen, each character after its key.  The second: what is under *)
(* way, in both directions, is exactly what the lines of the guard await.  *)
(*                                                                         *)
(* ZmodemAdapter: a file that is finished is whole, a file that is open    *)
(* belongs to the transfer under way, and a session that ends has sent its *)
(* selection, for any files, cancellations and failures.  The argument: an *)
(* item is due at each place of the input, and what the receiver, its      *)
(* batch and the flush under way hold is what comes before it.             *)
(***************************************************************************)
EXTENDS TerminalEcho, ZmodemAdapter, SequenceTheorems, WellFoundedInduction, TLAPS

Lines ==
  [command : Seq(Chars), pending : Seq(Chars), reliable : BOOLEAN, echoSafe : BOOLEAN,
   echoJustConfirmed : BOOLEAN]

\* What awaits its echo is the rest of the line.
Rest(command, pending) ==
  /\ command \in Seq(Chars) /\ pending \in Seq(Chars)
  /\ Len(pending) <= Len(command)
  /\ \A k \in 1..Len(command) :
       ~(k <= Len(command) - Len(pending))
         => command[k] = pending[k - (Len(command) - Len(pending))]

\* Nothing is awaited for a line that is given up.
LineOK(line) ==
  /\ line \in Lines
  /\ line.echoSafe => Rest(line.command, line.pending)
  /\ ~line.echoSafe => line.pending = <<>>

GuardOK(g) ==
  /\ g = [line |-> g.line, submitted |-> g.submitted]
  /\ LineOK(g.line)
  /\ g.submitted \in Seq(Lines)
  /\ \A i \in 1..Len(g.submitted) : LineOK(g.submitted[i])

Items == Chars \cup {Text, "newline", "break", "rub", "escape"}

-------------------------------------------------------------------------------
(***************************************************************************)
(* The methods that a key calls keep LineOK.                               *)
(***************************************************************************)
LEMMA Appended ==
  ASSUME NEW S, NEW text \in Seq(S), NEW x \in S
  PROVE  /\ Append(text, x) \in Seq(S)
         /\ Len(Append(text, x)) = Len(text) + 1
         /\ \A i \in 1..Len(text) : Append(text, x)[i] = text[i]
         /\ Append(text, x)[Len(text) + 1] = x
  BY AppendProperties, LenProperties

LEMMA FirstTaken ==
  ASSUME NEW S, NEW text \in Seq(S), text # <<>>
  PROVE  /\ DropLast(text) \in Seq(S)
         /\ Len(DropLast(text)) = Len(text) - 1
         /\ \A i \in 1..(Len(text) - 1) : DropLast(text)[i] = text[i]
<1>1. Len(text) \in Nat \ {0}
  BY EmptySeq
<1>2. \A i \in 1..(Len(text) - 1) : text[i] \in S
  BY <1>1, ElementOfSeq
<1> DEFINE n == Len(text) - 1
<1>3. n \in Nat /\ 1 \in Int /\ n \in Int /\ \A i \in 1..n : text[i] \in S
  BY <1>1, <1>2
<1> HIDE DEF n
<1>4. /\ SubSeq(text, 1, n) \in Seq(S)
      /\ Len(SubSeq(text, 1, n)) = IF 1 <= n THEN n - 1 + 1 ELSE 0
      /\ \A i \in 1..(n - 1 + 1) : SubSeq(text, 1, n)[i] = text[1 + i - 1]
  BY <1>3, SubSeqProperties
<1>5. (IF 1 <= n THEN n - 1 + 1 ELSE 0) = n /\ n - 1 + 1 = n
  BY <1>3
<1>6. \A i \in 1..n : 1 + i - 1 = i
  BY <1>3
<1>7. /\ Len(SubSeq(text, 1, n)) = n
      /\ \A i \in 1..n : SubSeq(text, 1, n)[i] = text[i]
  BY <1>4, <1>5, <1>6, Zenon
<1> QED
  BY <1>4, <1>7, Zenon DEF DropLast, n

\* The first element is gone.
LEMMA KeysLeft ==
  ASSUME NEW S, NEW k \in Seq(S), k # <<>>
  PROVE  /\ Len(k) \in Nat \ {0} /\ Head(k) = k[1] /\ k[1] \in S
         /\ Tail(k) \in Seq(S) /\ Len(Tail(k)) = Len(k) - 1
         /\ \A i \in 1..Len(k) - 1 : Tail(k)[i] = k[i + 1]
<1>1. Len(k) \in Nat \ {0} /\ Head(k) = k[1]
  BY EmptySeq, LenProperties
<1>2. /\ Tail(k) \in Seq(S) /\ Len(Tail(k)) = Len(k) - 1
      /\ \A i \in 1..Len(Tail(k)) : Tail(k)[i] = k[i + 1]
  BY HeadTailProperties
<1>3. k[1] \in S
  BY <1>1, ElementOfSeq
<1> QED
  BY <1>1, <1>2, <1>3

LEMMA RestAppended ==
  ASSUME NEW command, NEW pending, Rest(command, pending), NEW char \in Chars
  PROVE  Rest(Append(command, char), Append(pending, char))
<1>1. command \in Seq(Chars) /\ pending \in Seq(Chars)
  BY DEF Rest
<1>2. Len(command) \in Nat /\ Len(pending) \in Nat
  BY <1>1, LenProperties
<1>3. /\ Append(command, char) \in Seq(Chars)
      /\ Len(Append(command, char)) = Len(command) + 1
      /\ \A i \in 1..Len(command) : Append(command, char)[i] = command[i]
      /\ Append(command, char)[Len(command) + 1] = char
  BY <1>1, Appended
<1>4. /\ Append(pending, char) \in Seq(Chars)
      /\ Len(Append(pending, char)) = Len(pending) + 1
      /\ \A i \in 1..Len(pending) : Append(pending, char)[i] = pending[i]
      /\ Append(pending, char)[Len(pending) + 1] = char
  BY <1>1, Appended
<1>5. Len(Append(command, char)) - Len(Append(pending, char)) = Len(command) - Len(pending)
  BY <1>2, <1>3, <1>4
<1>6. Len(pending) <= Len(command)
  BY DEF Rest
<1>7. ASSUME NEW k \in 1..Len(Append(command, char))
      PROVE  ~(k <= Len(command) - Len(pending))
               => Append(command, char)[k]
                    = Append(pending, char)[k - (Len(command) - Len(pending))]
  <2> DEFINE gap == Len(command) - Len(pending)
  <2>1. gap \in Nat /\ gap <= Len(command) /\ Len(pending) = Len(command) - gap
    BY <1>2, <1>6
  <2>2. \A i \in 1..Len(command) : ~(i <= gap) => command[i] = pending[i - gap]
    BY DEF Rest
  <2> HIDE DEF gap
  <2>3. CASE k \in 1..Len(command)
    <3>1. ~(k <= gap) => k - gap \in 1..Len(pending)
      BY <1>2, <2>1, <2>3
    <3> QED
      BY <1>3, <1>4, <2>2, <2>3, <3>1 DEF gap
  <2>4. CASE k = Len(command) + 1
    <3>1. ~(k <= gap) /\ k - gap = Len(pending) + 1
      BY <1>2, <2>1, <2>4
    <3> QED
      BY <1>3, <1>4, <2>4, <3>1 DEF gap
  <2> QED
    BY <1>2, <1>3, <2>3, <2>4
<1>8. Len(Append(pending, char)) <= Len(Append(command, char))
  BY <1>2, <1>3, <1>4, <1>6
<1> QED
  BY <1>3, <1>4, <1>5, <1>7, <1>8, Zenon DEF Rest

\* What makes a rest, by the length of what is known.
LEMMA RestIs ==
  ASSUME NEW command \in Seq(Chars), NEW pending \in Seq(Chars), NEW gap \in Nat,
         Len(pending) <= Len(command), gap = Len(command) - Len(pending),
         \A k \in 1..Len(command) : ~(k <= gap) => command[k] = pending[k - gap]
  PROVE  Rest(command, pending)
BY DEF Rest

LEMMA RestDropped ==
  ASSUME NEW command, NEW pending, Rest(command, pending), command # <<>>
  PROVE  Rest(DropLast(command), IF pending # <<>> THEN DropLast(pending) ELSE pending)
<1>1. command \in Seq(Chars) /\ pending \in Seq(Chars)
  BY DEF Rest
<1>2. Len(command) \in Nat \ {0} /\ Len(pending) \in Nat
  BY <1>1, EmptySeq, LenProperties
<1>3. /\ DropLast(command) \in Seq(Chars)
      /\ Len(DropLast(command)) = Len(command) - 1
      /\ \A i \in 1..(Len(command) - 1) : DropLast(command)[i] = command[i]
  BY <1>1, FirstTaken
<1>4. CASE pending = <<>>
  <2>1. Len(pending) = 0
    BY <1>4, EmptySeq
  <2> QED
    BY <1>1, <1>2, <1>3, <1>4, <2>1 DEF Rest
<1>5. CASE pending # <<>>
  <2>1. /\ DropLast(pending) \in Seq(Chars)
        /\ Len(DropLast(pending)) = Len(pending) - 1
        /\ \A i \in 1..(Len(pending) - 1) : DropLast(pending)[i] = pending[i]
        /\ Len(pending) > 0
    BY <1>1, <1>2, <1>5, FirstTaken, EmptySeq
  <2> DEFINE gap == Len(command) - Len(pending)
  <2>2. gap \in Nat /\ gap = Len(DropLast(command)) - Len(DropLast(pending))
        /\ Len(pending) = Len(command) - gap
    BY <1>2, <1>3, <2>1 DEF Rest
  <2>3. \A i \in 1..Len(command) : ~(i <= gap) => command[i] = pending[i - gap]
    BY DEF Rest
  <2> HIDE DEF gap
  <2>4. \A k \in 1..(Len(command) - 1) :
          ~(k <= gap) => DropLast(command)[k] = DropLast(pending)[k - gap]
    <3> SUFFICES ASSUME NEW k \in 1..(Len(command) - 1)
                 PROVE  ~(k <= gap) => DropLast(command)[k] = DropLast(pending)[k - gap]
      OBVIOUS
    <3>1. k \in 1..Len(command) /\ (~(k <= gap) => k - gap \in 1..(Len(pending) - 1))
      BY <1>2, <2>2
    <3> QED
      BY <1>3, <2>1, <2>3, <3>1
  <2> DEFINE c == DropLast(command)
             p == DropLast(pending)
  <2>5. /\ c \in Seq(Chars) /\ p \in Seq(Chars) /\ gap \in Nat /\ gap = Len(c) - Len(p)
        /\ Len(c) = Len(command) - 1 /\ Len(p) = Len(pending) - 1
        /\ \A k \in 1..Len(c) : ~(k <= gap) => c[k] = p[k - gap]
    BY <1>3, <2>1, <2>2, <2>4
  <2>6. Len(pending) <= Len(command)
    BY DEF Rest
  <2> HIDE DEF c, p
  <2>7. Len(p) <= Len(c)
    BY <1>2, <2>5, <2>6
  <2>8. Rest(c, p)
    BY <2>5, <2>7, RestIs
  <2> QED
    BY <1>5, <2>8 DEF c, p
<1> QED
  BY <1>4, <1>5

LEMMA RestConfirmed ==
  ASSUME NEW command, NEW pending, Rest(command, pending), pending # <<>>
  PROVE  Rest(command, Tail(pending))
<1>1. Len(command) \in Nat /\ Len(pending) \in Nat \ {0} /\ Head(pending) = pending[1]
  BY EmptySeq, LenProperties DEF Rest
<1>2. /\ Tail(pending) \in Seq(Chars)
      /\ Len(Tail(pending)) = Len(pending) - 1
      /\ \A i \in 1..(Len(pending) - 1) : Tail(pending)[i] = pending[i + 1]
  BY HeadTailProperties DEF Rest
<1> QED
  BY <1>1, <1>2 DEF Rest

LEMMA NewLineOK == LineOK(NewLine)
  BY EmptySeq DEF LineOK, Rest, Lines, NewLine

LEMMA MarkUnsafeOK ==
  ASSUME NEW line, LineOK(line)
  PROVE  LineOK(MarkUnsafe(line))
  BY EmptySeq DEF LineOK, Lines, MarkUnsafe

LEMMA MarkUnreliableOK ==
  ASSUME NEW line, LineOK(line)
  PROVE  LineOK(MarkUnreliable(line))
<1>1. LineOK([line EXCEPT !.reliable = FALSE])
  BY DEF LineOK, Lines
<1> QED
  BY <1>1, MarkUnsafeOK DEF MarkUnreliable

LEMMA AppendInputOK ==
  ASSUME NEW line, LineOK(line), NEW char \in Chars
  PROVE  LineOK(AppendInput(line, char))
<1> DEFINE new == AppendInput(line, char)
<1>1. line \in Lines /\ line.command \in Seq(Chars) /\ line.pending \in Seq(Chars)
  BY DEF LineOK, Lines
<1>2. Append(line.command, char) \in Seq(Chars) /\ Append(line.pending, char) \in Seq(Chars)
  BY <1>1, Appended
<1>3. CASE line.echoSafe
  <2>1. new = [line EXCEPT !.command = Append(line.command, char), !.echoJustConfirmed = FALSE,
                           !.pending = Append(line.pending, char)]
    BY <1>3 DEF AppendInput
  <2>2. new \in Lines /\ new.command = Append(line.command, char)
          /\ new.pending = Append(line.pending, char) /\ new.echoSafe
    BY <1>1, <1>2, <1>3, <2>1 DEF Lines
  <2>3. Rest(new.command, new.pending)
    BY <1>3, <2>2, RestAppended DEF LineOK
  <2> QED
    BY <2>2, <2>3 DEF LineOK
<1>4. CASE ~line.echoSafe
  <2>1. new = [line EXCEPT !.command = Append(line.command, char), !.echoJustConfirmed = FALSE,
                           !.pending = line.pending]
    BY <1>4 DEF AppendInput
  <2>2. new \in Lines /\ new.pending = line.pending /\ ~new.echoSafe
    BY <1>1, <1>2, <1>4, <2>1 DEF Lines
  <2> QED
    BY <1>4, <2>2 DEF LineOK
<1> QED
  BY <1>3, <1>4

LEMMA BackspaceOK ==
  ASSUME NEW line, LineOK(line)
  PROVE  LineOK(Backspace(line))
<1> DEFINE new == Backspace(line)
           left == IF line.pending # <<>> THEN DropLast(line.pending) ELSE line.pending
<1>1. line \in Lines /\ line.command \in Seq(Chars) /\ line.pending \in Seq(Chars)
  BY DEF LineOK, Lines
<1>2. CASE line.command = <<>>
  BY <1>2 DEF Backspace
<1>3. CASE line.command # <<>> /\ line.echoSafe
  <2>1. new = [line EXCEPT !.command = DropLast(line.command), !.echoJustConfirmed = FALSE,
                           !.pending = left]
    BY <1>3 DEF Backspace
  <2>2. DropLast(line.command) \in Seq(Chars) /\ left \in Seq(Chars)
    BY <1>1, <1>3, FirstTaken
  <2> HIDE DEF left
  <2>3. new \in Lines /\ new.command = DropLast(line.command) /\ new.pending = left /\ new.echoSafe
    BY <1>1, <1>3, <2>1, <2>2 DEF Lines
  <2>4. Rest(new.command, new.pending)
    BY <1>3, <2>3, RestDropped DEF LineOK, left
  <2> QED
    BY <2>3, <2>4 DEF LineOK
<1>4. CASE line.command # <<>> /\ ~line.echoSafe
  <2>1. new = [line EXCEPT !.command = DropLast(line.command), !.echoJustConfirmed = FALSE,
                           !.pending = line.pending]
    BY <1>4 DEF Backspace
  <2>2. DropLast(line.command) \in Seq(Chars)
    BY <1>1, <1>4, FirstTaken
  <2>3. new \in Lines /\ new.pending = line.pending /\ ~new.echoSafe
    BY <1>1, <1>4, <2>1, <2>2 DEF Lines
  <2> QED
    BY <1>4, <2>3 DEF LineOK
<1> QED
  BY <1>2, <1>3, <1>4

(***************************************************************************)
(* The methods that output calls keep it.                                  *)
(***************************************************************************)
LEMMA ConfirmedOK ==
  ASSUME NEW line, LineOK(line), NEW char, Awaited(line, char), NEW confirmed \in BOOLEAN
  PROVE  LineOK([line EXCEPT !.pending = Tail(@), !.echoJustConfirmed = confirmed])
<1> DEFINE new == [line EXCEPT !.pending = Tail(@), !.echoJustConfirmed = confirmed]
<1>1. line \in Lines /\ line.pending \in Seq(Chars) /\ line.pending # <<>> /\ line.echoSafe
        /\ Head(line.pending) = char
  BY DEF LineOK, Lines, Awaited
<1>2. Tail(line.pending) \in Seq(Chars)
  BY <1>1, HeadTailProperties
<1>3. new \in Lines /\ new.pending = Tail(line.pending) /\ new.command = line.command
        /\ new.echoSafe
  BY <1>1, <1>2 DEF Lines
<1>4. Rest(new.command, new.pending)
  BY <1>1, <1>2, <1>3, RestConfirmed DEF LineOK
<1> QED
  BY <1>3, <1>4 DEF LineOK

LEMMA CurrentCharOK ==
  ASSUME NEW line, LineOK(line), NEW char
  PROVE  LineOK(CurrentChar(line, char))
<1>1. CASE Awaited(line, char)
  <2>1. (Tail(line.pending) = <<>>) \in BOOLEAN
    OBVIOUS
  <2> QED
    BY <1>1, <2>1, ConfirmedOK DEF CurrentChar
<1>2. CASE ~Awaited(line, char)
  BY <1>2, MarkUnsafeOK DEF CurrentChar
<1> QED
  BY <1>1, <1>2

LEMMA GuardMade ==
  ASSUME NEW line, LineOK(line), NEW submitted \in Seq(Lines),
         \A i \in 1..Len(submitted) : LineOK(submitted[i])
  PROVE  GuardOK([line |-> line, submitted |-> submitted])
  BY DEF GuardOK

LEMMA SubmittedCharOK ==
  ASSUME NEW g, GuardOK(g), g.submitted # <<>>, NEW char
  PROVE  GuardOK(SubmittedChar(g, char))
<1> DEFINE first == Head(g.submitted)
           others == Tail(g.submitted)
           known == [first EXCEPT !.pending = Tail(@)]
<1>1. /\ g = [line |-> g.line, submitted |-> g.submitted]
      /\ LineOK(g.line)
      /\ g.submitted \in Seq(Lines)
      /\ \A i \in 1..Len(g.submitted) : LineOK(g.submitted[i])
  BY DEF GuardOK
<1>2. /\ Len(g.submitted) \in Nat \ {0} /\ first = g.submitted[1]
      /\ others \in Seq(Lines) /\ Len(others) = Len(g.submitted) - 1
      /\ \A i \in 1..Len(others) : others[i] = g.submitted[i + 1]
  BY <1>1, EmptySeq, LenProperties, HeadTailProperties
<1>3. LineOK(first)
  BY <1>1, <1>2
<1>4. \A i \in 1..Len(others) : LineOK(others[i])
  BY <1>1, <1>2
<1>5. \A submitted : [g EXCEPT !.submitted = submitted] = [line |-> g.line, submitted |-> submitted]
  BY <1>1
<1>6. CASE Awaited(first, char)
  <2>1. known = [first EXCEPT !.pending = Tail(@), !.echoJustConfirmed = first.echoJustConfirmed]
          /\ first.echoJustConfirmed \in BOOLEAN
    BY <1>3 DEF LineOK, Lines
  <2>2. LineOK(known)
    BY <1>3, <1>6, <2>1, ConfirmedOK
  <2>3. known \in Lines /\ <<known>> \in Seq(Lines) /\ Len(<<known>>) = 1 /\ <<known>>[1] = known
    BY <2>2 DEF LineOK
  <2> HIDE DEF known, others, first
  <2>4. /\ <<known>> \o others \in Seq(Lines)
        /\ Len(<<known>> \o others) = 1 + Len(others)
        /\ \A i \in 1..(1 + Len(others)) :
             (<<known>> \o others)[i] = IF i <= 1 THEN <<known>>[i] ELSE others[i - 1]
    BY <1>2, <2>3, ConcatProperties
  <2>5. Len(others) \in Nat
    BY <1>2
  <2>6. \A i \in 1..(1 + Len(others)) : LineOK((<<known>> \o others)[i])
    <3> SUFFICES ASSUME NEW i \in 1..(1 + Len(others))
                 PROVE  LineOK((<<known>> \o others)[i])
      OBVIOUS
    <3>1. i = 1 \/ (~(i <= 1) /\ i - 1 \in 1..Len(others))
      BY <2>5
    <3> QED
      BY <1>4, <2>2, <2>3, <2>4, <3>1
  <2>7. SubmittedChar(g, char) = [g EXCEPT !.submitted = <<known>> \o others]
    BY <1>6, Zenon DEF SubmittedChar, known, others, first
  <2>8. SubmittedChar(g, char) = [line |-> g.line, submitted |-> <<known>> \o others]
    BY <1>5, <2>7, Zenon
  <2> QED
    BY <1>1, <2>4, <2>6, <2>8, GuardMade
<1>7. CASE ~Awaited(first, char)
  <2>1. SubmittedChar(g, char) = [g EXCEPT !.submitted = others]
    BY <1>7, Zenon DEF SubmittedChar
  <2>2. SubmittedChar(g, char) = [line |-> g.line, submitted |-> others]
    BY <1>5, <2>1, Zenon
  <2> QED
    BY <1>1, <1>2, <1>4, <2>2, GuardMade
<1> QED
  BY <1>6, <1>7

LEMMA GuardLineOK ==
  ASSUME NEW g, GuardOK(g), NEW line, LineOK(line)
  PROVE  GuardOK([g EXCEPT !.line = line])
<1>1. [g EXCEPT !.line = line] = [line |-> line, submitted |-> g.submitted]
  BY DEF GuardOK
<1> QED
  BY <1>1 DEF GuardOK

LEMMA ObserveCharOK ==
  ASSUME NEW g, GuardOK(g), NEW char
  PROVE  GuardOK(ObserveChar(g, char))
<1>1. CASE g.submitted # <<>>
  BY <1>1, SubmittedCharOK DEF ObserveChar
<1>2. CASE g.submitted = <<>>
  BY <1>2, CurrentCharOK, GuardLineOK DEF ObserveChar, GuardOK
<1> QED
  BY <1>1, <1>2

LEMMA LineBoundaryOK ==
  ASSUME NEW g, GuardOK(g)
  PROVE  GuardOK(LineBoundary(g))
<1>1. CASE g.submitted # <<>>
  <2> DEFINE others == Tail(g.submitted)
  <2>1. /\ LineOK(g.line) /\ g.submitted \in Seq(Lines)
        /\ \A i \in 1..Len(g.submitted) : LineOK(g.submitted[i])
        /\ LineBoundary(g) = [line |-> g.line, submitted |-> others]
    BY <1>1 DEF LineBoundary, GuardOK
  <2>2. /\ Len(g.submitted) \in Nat \ {0}
        /\ others \in Seq(Lines) /\ Len(others) = Len(g.submitted) - 1
        /\ \A i \in 1..Len(others) : others[i] = g.submitted[i + 1]
    BY <1>1, <2>1, EmptySeq, LenProperties, HeadTailProperties
  <2>3. \A i \in 1..Len(others) : LineOK(others[i])
    BY <2>1, <2>2
  <2> QED
    BY <2>1, <2>2, <2>3, GuardMade
<1>2. CASE g.submitted = <<>>
  BY <1>2, MarkUnsafeOK, GuardLineOK DEF LineBoundary, GuardOK
<1> QED
  BY <1>1, <1>2

LEMMA SubmitOK ==
  ASSUME NEW g, GuardOK(g)
  PROVE  GuardOK(Submit(g))
<1> DEFINE sent == [g.line EXCEPT !.echoJustConfirmed = FALSE]
           longer == Append(g.submitted, sent)
<1>1. /\ LineOK(g.line) /\ g.submitted \in Seq(Lines)
      /\ \A i \in 1..Len(g.submitted) : LineOK(g.submitted[i])
  BY DEF GuardOK
<1>2. LineOK(sent) /\ sent \in Lines
  BY <1>1 DEF LineOK, Lines
<1>3. /\ longer \in Seq(Lines) /\ Len(longer) = Len(g.submitted) + 1
      /\ \A i \in 1..Len(g.submitted) : longer[i] = g.submitted[i]
      /\ longer[Len(g.submitted) + 1] = sent
      /\ Len(g.submitted) \in Nat
  BY <1>1, <1>2, Appended, LenProperties
<1>4. \A i \in 1..Len(longer) : LineOK(longer[i])
  <2> SUFFICES ASSUME NEW i \in 1..Len(longer) PROVE LineOK(longer[i])
    OBVIOUS
  <2>1. i \in 1..Len(g.submitted) \/ i = Len(g.submitted) + 1
    BY <1>3
  <2> QED
    BY <1>1, <1>2, <1>3, <2>1
<1>5. CASE Trusted(g.line)
  <2>1. Submit(g) = [line |-> NewLine, submitted |-> longer]
    BY <1>5 DEF Submit
  <2>2. longer \in Seq(Lines) /\ LineOK(NewLine)
    BY <1>3, NewLineOK
  <2> HIDE DEF sent, longer
  <2>3. GuardOK([line |-> NewLine, submitted |-> longer])
    BY <1>4, <2>2, GuardMade
  <2> QED
    BY <2>1, <2>3
<1>6. CASE ~Trusted(g.line)
  <2>1. Submit(g) = [line |-> NewLine, submitted |-> g.submitted]
    BY <1>6 DEF Submit
  <2> QED
    BY <1>1, <2>1, NewLineOK, GuardMade
<1> QED
  BY <1>5, <1>6

LEMMA PressOK ==
  ASSUME NEW g, GuardOK(g), NEW key \in Keys
  PROVE  GuardOK(Press(g, key))
<1>1. LineOK(g.line)
  BY DEF GuardOK
<1>2. CASE key = "enter"
  BY <1>2, SubmitOK DEF Press
<1>3. CASE key = "erase"
  BY <1>1, <1>3, BackspaceOK, GuardLineOK DEF Press
<1>4. CASE key = "control"
  BY <1>1, <1>4, MarkUnreliableOK, GuardLineOK DEF Press
<1>5. CASE key \notin {"enter", "erase", "control"}
  BY <1>1, <1>5, AppendInputOK, GuardLineOK DEF Press, Keys
<1> QED
  BY <1>2, <1>3, <1>4, <1>5

\* A line that is confirmed awaits nothing.
LEMMA ConfirmsAll ==
  ASSUME NEW g, GuardOK(g), Confirms(g)
  PROVE  /\ Len(g.submitted) \in Nat \ {0} /\ Head(g.submitted) = g.submitted[1]
         /\ g.submitted[1].echoSafe /\ g.submitted[1].pending = <<>>
         /\ g.submitted[1].command \in Seq(Chars)
<1>1. g.submitted # <<>> /\ g.submitted \in Seq(Lines)
  BY DEF Confirms, GuardOK
<1>2. Len(g.submitted) \in Nat \ {0} /\ Head(g.submitted) = g.submitted[1]
  BY <1>1, EmptySeq, LenProperties
<1>3. g.submitted[1] \in Lines
  BY <1>1, <1>2, ElementOfSeq
<1> QED
  BY <1>2, <1>3 DEF Confirms, Trusted, Lines

-------------------------------------------------------------------------------
(***************************************************************************)
(* The logs of a guard say of each line that what is not awaited any more  *)
(* has been seen.                                                          *)
(***************************************************************************)
Visible == Chars \cup {Text, Blank}

Logs == [shown : Seq(Visible), typed : Seq(Nat)]

\* The first n characters of the command have been seen.
SeenTo(command, log, n) ==
  \E at \in [1..n -> 1..Len(log.shown)] :
    /\ \A i \in 1..n : log.typed[i] < at[i] /\ log.shown[at[i]] = command[i]
    /\ \A i, j \in 1..n : i < j => at[i] < at[j]

LogOK(line, log) ==
  /\ log \in Logs
  /\ Len(log.typed) = Len(line.command)
  /\ \A i \in 1..Len(log.typed) : log.typed[i] <= Len(log.shown)
  /\ line.echoSafe => SeenTo(line.command, log, Len(line.command) - Len(line.pending))

LogsOK(g, log) ==
  /\ log = [line |-> log.line, submitted |-> log.submitted]
  /\ LogOK(g.line, log.line)
  /\ log.submitted \in Seq(Logs)
  /\ Len(log.submitted) = Len(g.submitted)
  /\ \A i \in 1..Len(g.submitted) : LogOK(g.submitted[i], log.submitted[i])

LEMMA SeenNone ==
  ASSUME NEW command, NEW log
  PROVE  SeenTo(command, log, 0)
<1> DEFINE at == [i \in 1..0 |-> i]
<1>1. 1..0 = {}
  OBVIOUS
<1>2. at \in [1..0 -> 1..Len(log.shown)]
  BY <1>1
<1> HIDE DEF at
<1> QED
  BY <1>1, <1>2 DEF SeenTo

\* What has been seen stays seen, and more of it than is asked.
LEMMA SeenStays ==
  ASSUME NEW n \in Nat, NEW m \in Nat, m <= n, NEW command, NEW other,
         NEW log \in Logs, NEW more \in Logs, SeenTo(command, log, n),
         Len(log.shown) <= Len(more.shown),
         \A i \in 1..Len(log.shown) : more.shown[i] = log.shown[i],
         \A i \in 1..m : other[i] = command[i] /\ more.typed[i] = log.typed[i]
  PROVE  SeenTo(other, more, m)
<1> DEFINE a == Len(log.shown)
           b == Len(more.shown)
<1>1. a \in Nat /\ b \in Nat
  BY LenProperties DEF Logs
<1>2. PICK at \in [1..n -> 1..a] :
        /\ \A i \in 1..n : log.typed[i] < at[i] /\ log.shown[at[i]] = command[i]
        /\ \A i, j \in 1..n : i < j => at[i] < at[j]
  BY DEF SeenTo
<1> DEFINE to == [i \in 1..m |-> at[i]]
<1>3. \A i \in 1..m : i \in 1..n /\ at[i] \in 1..a /\ at[i] \in 1..b
  BY <1>1, <1>2
<1>4. \A i \in 1..m : more.typed[i] < at[i] /\ more.shown[at[i]] = other[i]
  BY <1>2, <1>3
<1>5. \A i, j \in 1..m : i < j => at[i] < at[j]
  BY <1>2, <1>3
<1>6. to \in [1..m -> 1..b] /\ \A i \in 1..m : to[i] = at[i]
  BY <1>3
<1> HIDE DEF to
<1>7. \A i \in 1..m : more.typed[i] < to[i] /\ more.shown[to[i]] = other[i]
  BY <1>4, <1>6
<1>8. \A i, j \in 1..m : i < j => to[i] < to[j]
  BY <1>5, <1>6
<1> QED
  BY <1>6, <1>7, <1>8 DEF SeenTo

LEMMA LogCharAdds ==
  ASSUME NEW log \in Logs, NEW char \in Visible
  PROVE  /\ LogChar(log, char) \in Logs
         /\ LogChar(log, char).typed = log.typed
         /\ Len(log.shown) \in Nat
         /\ Len(LogChar(log, char).shown) = Len(log.shown) + 1
         /\ \A i \in 1..Len(log.shown) : LogChar(log, char).shown[i] = log.shown[i]
         /\ LogChar(log, char).shown[Len(log.shown) + 1] = char
<1>1. log.shown \in Seq(Visible) /\ log.typed \in Seq(Nat)
  BY DEF Logs
<1>2. LogChar(log, char) = [shown |-> Append(log.shown, char), typed |-> log.typed]
  <2>1. log = [shown |-> log.shown, typed |-> log.typed]
    BY DEF Logs
  <2>2. \A x : [log EXCEPT !.shown = x] = [shown |-> x, typed |-> log.typed]
    BY <2>1
  <2>3. LogChar(log, char) = [log EXCEPT !.shown = Append(log.shown, char)]
    BY Zenon DEF LogChar
  <2> QED
    BY <2>2, <2>3, Zenon
<1>3. /\ Append(log.shown, char) \in Seq(Visible)
      /\ Len(Append(log.shown, char)) = Len(log.shown) + 1
      /\ \A i \in 1..Len(log.shown) : Append(log.shown, char)[i] = log.shown[i]
      /\ Append(log.shown, char)[Len(log.shown) + 1] = char
  BY <1>1, Appended
<1>4. Len(log.shown) \in Nat
  BY <1>1, LenProperties
<1> QED
  BY <1>1, <1>2, <1>3, <1>4 DEF Logs

\* The character that is next has arrived.
LEMMA SeenOne ==
  ASSUME NEW n \in Nat, NEW command, NEW log \in Logs, NEW char \in Visible,
         SeenTo(command, log, n), command[n + 1] = char,
         log.typed[n + 1] \in Nat, log.typed[n + 1] <= Len(log.shown)
  PROVE  SeenTo(command, LogChar(log, char), n + 1)
<1> DEFINE a == Len(log.shown)
           more == LogChar(log, char)
<1>1. /\ a \in Nat /\ Len(more.shown) = a + 1 /\ more.typed = log.typed
      /\ \A i \in 1..a : more.shown[i] = log.shown[i]
      /\ more.shown[a + 1] = char
  BY LogCharAdds
<1>2. PICK at \in [1..n -> 1..a] :
        /\ \A i \in 1..n : log.typed[i] < at[i] /\ log.shown[at[i]] = command[i]
        /\ \A i, j \in 1..n : i < j => at[i] < at[j]
  BY DEF SeenTo
<1> HIDE DEF a, more
<1> DEFINE to == [i \in 1..(n + 1) |-> IF i = n + 1 THEN a + 1 ELSE at[i]]
<1>3. \A i \in 1..(n + 1) : i = n + 1 \/ (i \in 1..n /\ i # n + 1)
  OBVIOUS
<1>4. /\ to[n + 1] = a + 1
      /\ \A i \in 1..n : to[i] = at[i] /\ at[i] \in 1..a
  BY <1>2
<1>5. to \in [1..(n + 1) -> 1..(a + 1)]
  BY <1>1, <1>2, <1>3
<1> HIDE DEF to
<1>6. ASSUME NEW i \in 1..(n + 1)
      PROVE  more.typed[i] < to[i] /\ more.shown[to[i]] = command[i]
  <2>1. CASE i = n + 1
    BY <1>1, <1>4, <2>1 DEF a
  <2>2. CASE i \in 1..n
    BY <1>1, <1>2, <1>4, <2>2
  <2> QED
    BY <1>3, <2>1, <2>2
<1>7. ASSUME NEW i \in 1..(n + 1), NEW j \in 1..(n + 1), i < j
      PROVE  to[i] < to[j]
  <2>1. i \in 1..n
    BY <1>7
  <2>2. CASE j = n + 1
    BY <1>1, <1>4, <2>1, <2>2
  <2>3. CASE j \in 1..n
    BY <1>2, <1>4, <1>7, <2>1, <2>3
  <2> QED
    BY <1>3, <2>2, <2>3
<1>8. to \in [1..(n + 1) -> 1..Len(more.shown)]
  BY <1>1, <1>5
<1> QED
  BY <1>6, <1>7, <1>8 DEF SeenTo, more

\* How much of the line awaits its echo.
LEMMA Gap ==
  ASSUME NEW line, LineOK(line)
  PROVE  /\ Len(line.command) \in Nat /\ Len(line.pending) \in Nat
         /\ line.echoSafe => /\ Len(line.command) - Len(line.pending) \in Nat
                             /\ Len(line.command) - Len(line.pending) <= Len(line.command)
<1> DEFINE a == Len(line.command)
           b == Len(line.pending)
<1>1. line.command \in Seq(Chars) /\ line.pending \in Seq(Chars)
  BY DEF LineOK, Lines
<1>2. a \in Nat /\ b \in Nat
  BY <1>1, LenProperties
<1>3. line.echoSafe => b <= a
  BY DEF LineOK, Rest
<1> HIDE DEF a, b
<1>4. line.echoSafe => a - b \in Nat /\ a - b <= a
  BY <1>2, <1>3
<1> QED
  BY <1>2, <1>4, Zenon DEF a, b

LEMMA NewLogOK == LogOK(NewLine, NewLog)
<1>1. NewLog \in Logs /\ NewLog.typed = <<>> /\ NewLine.command = <<>> /\ NewLine.pending = <<>>
  BY EmptySeq DEF NewLog, NewLine, Logs
<1>2. Len(<<>>) - Len(<<>>) = 0 /\ Len(<<>>) = 0
  OBVIOUS
<1> QED
  BY <1>1, <1>2, SeenNone DEF LogOK

\* A line that is given up claims nothing.
LEMMA UnsafeLogged ==
  ASSUME NEW line, LineOK(line), NEW log, LogOK(line, log)
  PROVE  LogOK(MarkUnsafe(line), log) /\ LogOK(MarkUnreliable(line), log)
<1>1. MarkUnsafe(line).command = line.command /\ MarkUnsafe(line).echoSafe = FALSE
  BY DEF MarkUnsafe, LineOK, Lines
<1>2. MarkUnreliable(line).command = line.command /\ MarkUnreliable(line).echoSafe = FALSE
  BY DEF MarkUnreliable, MarkUnsafe, LineOK, Lines
<1> QED
  BY <1>1, <1>2 DEF LogOK

\* What is displayed besides makes no difference.
LEMMA ShownMore ==
  ASSUME NEW line, LineOK(line), NEW log, LogOK(line, log), NEW char \in Visible
  PROVE  LogOK(line, LogChar(log, char))
<1> DEFINE more == LogChar(log, char)
<1>1. log \in Logs /\ Len(log.typed) = Len(line.command)
      /\ \A i \in 1..Len(log.typed) : log.typed[i] <= Len(log.shown)
  BY DEF LogOK
<1>2. /\ more \in Logs /\ more.typed = log.typed
      /\ Len(log.shown) \in Nat /\ Len(more.shown) = Len(log.shown) + 1
      /\ \A i \in 1..Len(log.shown) : more.shown[i] = log.shown[i]
  BY <1>1, LogCharAdds
<1> HIDE DEF more
<1>3. log.typed \in Seq(Nat) /\ Len(log.typed) \in Nat
  BY <1>1, LenProperties DEF Logs
<1>4. \A i \in 1..Len(more.typed) : more.typed[i] <= Len(more.shown)
  <2>1. \A i \in 1..Len(log.typed) : log.typed[i] \in Nat
    BY <1>3, ElementOfSeq
  <2> QED
    BY <1>1, <1>2, <2>1
<1> DEFINE n == Len(line.command) - Len(line.pending)
<1>5. ASSUME line.echoSafe PROVE SeenTo(line.command, more, n)
  <2>1. n \in Nat
    BY <1>5, Gap, Zenon
  <2>2. SeenTo(line.command, log, n)
    BY <1>5 DEF LogOK
  <2> HIDE DEF n
  <2>3. n <= n /\ Len(log.shown) <= Len(more.shown)
    BY <1>2, <2>1
  <2>4. \A i \in 1..n : line.command[i] = line.command[i] /\ more.typed[i] = log.typed[i]
    BY <1>2
  <2> QED
    BY <1>1, <1>2, <2>1, <2>2, <2>3, <2>4, SeenStays
<1> QED
  BY <1>1, <1>2, <1>4, <1>5, Zenon DEF LogOK, more

\* The echo that is awaited has arrived.
LEMMA EchoShown ==
  ASSUME NEW line, LineOK(line), NEW log, LogOK(line, log), NEW char \in Visible,
         Awaited(line, char), NEW new, new.command = line.command, new.echoSafe = line.echoSafe,
         new.pending = Tail(line.pending)
  PROVE  LogOK(new, LogChar(log, char))
<1> DEFINE a == Len(line.command)
           b == Len(line.pending)
           n == a - b
<1>1. line.echoSafe /\ line.pending # <<>> /\ Head(line.pending) = char
      /\ line.pending \in Seq(Chars) /\ Rest(line.command, line.pending)
  BY DEF Awaited, LineOK, Lines
<1>2. /\ a \in Nat /\ b \in Nat \ {0} /\ n \in Nat
      /\ Head(line.pending) = line.pending[1] /\ Len(Tail(line.pending)) = b - 1
  <2>1. b \in Nat \ {0} /\ Head(line.pending) = line.pending[1]
        /\ Len(Tail(line.pending)) = b - 1
    BY <1>1, KeysLeft, Zenon
  <2> QED
    BY <1>1, <2>1, Gap, Zenon
<1>3. Len(new.command) = a /\ Len(new.pending) = b - 1
  BY <1>2, Zenon
<1>4. \A k \in 1..a : ~(k <= n) => line.command[k] = line.pending[k - n]
  BY <1>1, Zenon DEF Rest
<1> HIDE DEF a, b
<1>5. /\ n + 1 \in 1..a /\ n + 1 - n = 1 /\ ~(n + 1 <= n)
      /\ Len(new.command) - Len(new.pending) = n + 1
  <2>1. n = a - b /\ a - (b - 1) = n + 1
    BY <1>2
  <2>2. Len(new.command) - Len(new.pending) = n + 1
    BY <1>3, <2>1, Zenon
  <2> HIDE DEF n
  <2>3. /\ n + 1 \in 1..a /\ n + 1 - n = 1 /\ ~(n + 1 <= n)
    BY <1>2, <2>1
  <2> QED
    BY <2>2, <2>3
<1> HIDE DEF n
<1>6. line.command[n + 1] = char
  BY <1>1, <1>2, <1>4, <1>5
<1>7. LogOK(line, LogChar(log, char))
  BY ShownMore
<1>8. log \in Logs /\ Len(log.typed) = a
      /\ (\A i \in 1..Len(log.typed) : log.typed[i] <= Len(log.shown))
      /\ SeenTo(line.command, log, n)
  BY <1>1 DEF LogOK, n, a, b
<1>9. log.typed[n + 1] \in Nat /\ log.typed[n + 1] <= Len(log.shown)
  BY <1>5, <1>8, ElementOfSeq DEF Logs
<1>10. SeenTo(line.command, LogChar(log, char), n + 1)
  BY <1>2, <1>6, <1>8, <1>9, SeenOne
<1> QED
  BY <1>5, <1>7, <1>10 DEF LogOK

\* A character, seen while the line is typed.
LEMMA CurrentShown ==
  ASSUME NEW line, LineOK(line), NEW log, LogOK(line, log), NEW char \in Visible
  PROVE  LogOK(CurrentChar(line, char),
               IF log.typed = <<>> THEN log ELSE LogChar(log, char))
<1> DEFINE new == CurrentChar(line, char)
           more == IF log.typed = <<>> THEN log ELSE LogChar(log, char)
<1>1. CASE Awaited(line, char)
  <2>1. new = [line EXCEPT !.pending = Tail(@), !.echoJustConfirmed = Tail(line.pending) = <<>>]
    BY <1>1 DEF CurrentChar
  <2>2. new.command = line.command /\ new.echoSafe = line.echoSafe
        /\ new.pending = Tail(line.pending)
    BY <2>1 DEF LineOK, Lines
  <2> HIDE DEF new
  <2>3. log.typed # <<>>
    <3>1. line.echoSafe /\ line.pending # <<>> /\ line.pending \in Seq(Chars)
      BY <1>1 DEF Awaited, LineOK, Lines
    <3>2. Len(line.pending) \in Nat \ {0}
      BY <3>1, KeysLeft
    <3>3. Len(line.pending) <= Len(line.command) /\ Len(log.typed) = Len(line.command)
      BY <3>1 DEF LineOK, Rest, LogOK
    <3>4. Len(log.typed) # 0
      BY <3>2, <3>3
    <3> QED
      BY <3>4
  <2>4. LogOK(new, LogChar(log, char))
    BY <1>1, <2>2, EchoShown
  <2> QED
    BY <2>3, <2>4 DEF new
<1>2. CASE ~Awaited(line, char)
  <2>1. LogOK(line, more)
    BY ShownMore
  <2>2. new = line \/ new = MarkUnsafe(line)
    BY <1>2 DEF CurrentChar
  <2> HIDE DEF new, more
  <2>3. LogOK(MarkUnsafe(line), more)
    BY <2>1, UnsafeLogged
  <2> QED
    BY <2>1, <2>2, <2>3 DEF new, more
<1> QED
  BY <1>1, <1>2

LEMMA CharLogged ==
  ASSUME NEW line, LineOK(line), NEW log, LogOK(line, log), NEW char \in Chars,
         NEW more \in Logs,
         IF log.typed = <<>> THEN more.shown = <<>> /\ more.typed = << 0 >>
         ELSE more.shown = log.shown /\ more.typed = Append(log.typed, Len(log.shown))
  PROVE  LogOK(AppendInput(line, char), more)
<1> DEFINE new == AppendInput(line, char)
           n == Len(line.command) - Len(line.pending)
<1>1. line \in Lines /\ line.command \in Seq(Chars) /\ line.pending \in Seq(Chars)
  BY DEF LineOK, Lines
<1>2. /\ new.command = Append(line.command, char) /\ new.echoSafe = line.echoSafe
      /\ line.echoSafe => new.pending = Append(line.pending, char)
  BY <1>1 DEF AppendInput, Lines
<1> HIDE DEF new
<1>3. /\ Len(new.command) = Len(line.command) + 1
      /\ \A i \in 1..Len(line.command) : new.command[i] = line.command[i]
  BY <1>1, <1>2, Appended
<1>4. line.echoSafe => Len(new.pending) = Len(line.pending) + 1
  BY <1>1, <1>2, Appended
<1>5. /\ Len(line.command) \in Nat /\ Len(line.pending) \in Nat
      /\ line.echoSafe => n \in Nat /\ n <= Len(line.command)
  BY Gap, Zenon
<1>6. line.echoSafe => Len(new.command) - Len(new.pending) = n
  <2> DEFINE a == Len(line.command)
             b == Len(line.pending)
  <2>1. a \in Nat /\ b \in Nat /\ n = a - b /\ Len(new.command) = a + 1
        /\ (line.echoSafe => Len(new.pending) = b + 1)
    BY <1>3, <1>4, <1>5
  <2> HIDE DEF a, b, n
  <2>2. (a + 1) - (b + 1) = n
    BY <2>1
  <2> QED
    BY <2>1, <2>2, Zenon
<1>7. /\ log \in Logs /\ Len(log.typed) = Len(line.command)
      /\ \A i \in 1..Len(log.typed) : log.typed[i] <= Len(log.shown)
      /\ line.echoSafe => SeenTo(line.command, log, n)
      /\ log.typed \in Seq(Nat) /\ log.shown \in Seq(Visible) /\ Len(log.shown) \in Nat
  BY LenProperties DEF LogOK, Logs
<1> HIDE DEF n
<1>8. CASE log.typed = <<>>
  <2>1. more.shown = <<>> /\ more.typed = <<0>> /\ Len(line.command) = 0
    BY <1>7, <1>8, EmptySeq
  <2>2. Len(more.typed) = 1 /\ more.typed[1] = 0 /\ Len(more.shown) = 0
    BY <2>1
  <2>3. Len(new.command) = 1
    BY <1>3, <2>1
  <2>4. \A i \in 1..Len(more.typed) : more.typed[i] <= Len(more.shown)
    BY <2>2
  <2>5. line.echoSafe => n = 0
    BY <1>5, <2>1
  <2>6. SeenTo(new.command, more, 0)
    BY SeenNone
  <2> QED
    BY <1>2, <1>6, <2>2, <2>3, <2>4, <2>5, <2>6 DEF LogOK, new
<1>9. CASE log.typed # <<>>
  <2>1. more.shown = log.shown /\ more.typed = Append(log.typed, Len(log.shown))
    BY <1>9
  <2>2. /\ Len(more.typed) = Len(log.typed) + 1
        /\ \A i \in 1..Len(log.typed) : more.typed[i] = log.typed[i]
        /\ more.typed[Len(log.typed) + 1] = Len(log.shown)
    BY <1>7, <2>1, Appended
  <2>3. \A i \in 1..Len(more.typed) : more.typed[i] <= Len(more.shown)
    <3>1. \A i \in 1..Len(more.typed) : i \in 1..Len(log.typed) \/ i = Len(log.typed) + 1
      BY <1>5, <1>7, <2>2
    <3> QED
      BY <1>7, <2>1, <2>2, <3>1
  <2>4. ASSUME line.echoSafe PROVE SeenTo(new.command, more, n)
    <3>1. n \in Nat /\ n <= n /\ SeenTo(line.command, log, n)
      BY <1>5, <1>7, <2>4
    <3>2. \A i \in 1..n : new.command[i] = line.command[i] /\ more.typed[i] = log.typed[i]
      BY <1>3, <1>5, <1>7, <2>2, <2>4
    <3>3. /\ Len(log.shown) <= Len(more.shown)
          /\ \A i \in 1..Len(log.shown) : more.shown[i] = log.shown[i]
      BY <1>7, <2>1
    <3> QED
      BY <1>7, <3>1, <3>2, <3>3, SeenStays
  <2> QED
    BY <1>2, <1>3, <1>6, <1>7, <2>2, <2>3, <2>4 DEF LogOK, new
<1> QED
  BY <1>8, <1>9

LEMMA EraseLogged ==
  ASSUME NEW line, LineOK(line), NEW log, LogOK(line, log), NEW more \in Logs,
         more.shown = log.shown,
         more.typed = IF log.typed = <<>> THEN log.typed ELSE DropLast(log.typed)
  PROVE  LogOK(Backspace(line), more)
<1> DEFINE new == Backspace(line)
           n == Len(line.command) - Len(line.pending)
<1>1. line \in Lines /\ line.command \in Seq(Chars) /\ line.pending \in Seq(Chars)
  BY DEF LineOK, Lines
<1>2. /\ log \in Logs /\ Len(log.typed) = Len(line.command)
      /\ \A i \in 1..Len(log.typed) : log.typed[i] <= Len(log.shown)
      /\ line.echoSafe => SeenTo(line.command, log, n)
      /\ log.typed \in Seq(Nat) /\ log.shown \in Seq(Visible) /\ Len(log.shown) \in Nat
  BY LenProperties DEF LogOK, Logs
<1>3. /\ Len(line.command) \in Nat /\ Len(line.pending) \in Nat
      /\ line.echoSafe => n \in Nat /\ n <= Len(line.command)
  BY Gap, Zenon
<1>4. CASE line.command = <<>>
  <2>1. log.typed = <<>>
    BY <1>1, <1>2, <1>4, EmptySeq
  <2>2. more = log
    BY <1>2, <2>1 DEF Logs
  <2> QED
    BY <1>4, <2>2 DEF Backspace
<1>5. CASE line.command # <<>>
  <2>1. /\ new.command = DropLast(line.command) /\ new.echoSafe = line.echoSafe
        /\ line.echoSafe => new.pending = IF line.pending = <<>> THEN line.pending
                                          ELSE DropLast(line.pending)
    BY <1>1, <1>5 DEF Backspace, Lines
  <2> HIDE DEF new
  <2>2. /\ Len(line.command) \in Nat \ {0} /\ Len(new.command) = Len(line.command) - 1
        /\ \A i \in 1..(Len(line.command) - 1) : new.command[i] = line.command[i]
    BY <1>1, <1>3, <1>5, <2>1, FirstTaken, EmptySeq
  <2>3. log.typed # <<>> /\ more.typed = DropLast(log.typed)
    BY <1>2, <2>2
  <2>4. /\ Len(more.typed) = Len(log.typed) - 1
        /\ \A i \in 1..(Len(log.typed) - 1) : more.typed[i] = log.typed[i]
    BY <1>2, <2>3, FirstTaken
  <2>5. \A i \in 1..Len(more.typed) : more.typed[i] <= Len(more.shown)
    <3>1. \A i \in 1..Len(more.typed) : i \in 1..Len(log.typed) /\ more.typed[i] = log.typed[i]
      BY <1>2, <2>2, <2>4
    <3> QED
      BY <1>2, <3>1
  <2>6. ASSUME line.echoSafe
        PROVE  SeenTo(new.command, more, Len(new.command) - Len(new.pending))
    <3> DEFINE m == Len(new.command) - Len(new.pending)
    <3>1. m \in Nat /\ m <= n /\ m <= Len(line.command) - 1 /\ n \in Nat
      <4>1. CASE line.pending = <<>>
        <5>1. Len(new.pending) = 0 /\ Len(line.pending) = 0
          BY <2>1, <2>6, <4>1
        <5> QED
          BY <1>3, <2>2, <5>1
      <4>2. CASE line.pending # <<>>
        <5>1. new.pending = DropLast(line.pending)
          BY <2>1, <2>6, <4>2
        <5>2. Len(new.pending) = Len(line.pending) - 1 /\ Len(line.pending) \in Nat \ {0}
          BY <1>1, <4>2, <5>1, FirstTaken, KeysLeft
        <5> QED
          BY <1>3, <2>2, <2>6, <5>2
      <4> QED
        BY <4>1, <4>2
    <3>2. SeenTo(line.command, log, n)
      BY <1>2, <2>6
    <3> HIDE DEF m, n
    <3>3. \A i \in 1..m : new.command[i] = line.command[i] /\ more.typed[i] = log.typed[i]
      BY <1>2, <1>3, <2>2, <2>4, <3>1
    <3>4. /\ Len(log.shown) <= Len(more.shown)
          /\ \A i \in 1..Len(log.shown) : more.shown[i] = log.shown[i]
      BY <1>2
    <3>5. SeenTo(new.command, more, m)
      BY <1>2, <3>1, <3>2, <3>3, <3>4, SeenStays, ZenonT(30)
    <3> QED
      BY <3>5 DEF m
  <2> QED
    BY <1>2, <2>1, <2>2, <2>4, <2>5, <2>6 DEF LogOK, new
<1> QED
  BY <1>4, <1>5

-------------------------------------------------------------------------------
(***************************************************************************)
(* The logs follow the guard.                                              *)
(***************************************************************************)
LEMMA NoLogsOK == LogsOK(NewGuard, NoLogs)
<1>1. NewGuard.line = NewLine /\ NewGuard.submitted = <<>>
      /\ NoLogs.line = NewLog /\ NoLogs.submitted = <<>>
      /\ NoLogs = [line |-> NoLogs.line, submitted |-> NoLogs.submitted]
  BY DEF NewGuard, NoLogs
<1>2. <<>> \in Seq(Logs) /\ 1..Len(<<>>) = {}
  BY EmptySeq
<1> QED
  BY <1>1, <1>2, NewLogOK DEF LogsOK

LEMMA LogKeyIs ==
  ASSUME NEW log \in Logs, NEW key
  PROVE  /\ key = "erase" => /\ LogKey(log, key) \in Logs
                             /\ LogKey(log, key).shown = log.shown
                             /\ LogKey(log, key).typed
                                  = IF log.typed = <<>> THEN log.typed ELSE DropLast(log.typed)
         /\ key = "control" => LogKey(log, key) = log
         /\ key \notin {"erase", "control"} =>
              LET more == LogKey(log, key)
              IN  /\ more \in Logs
                  /\ IF log.typed = <<>> THEN more.shown = <<>> /\ more.typed = <<0>>
                     ELSE more.shown = log.shown
                          /\ more.typed = Append(log.typed, Len(log.shown))
<1>1. log.shown \in Seq(Visible) /\ log.typed \in Seq(Nat) /\ Len(log.shown) \in Nat
  BY LenProperties DEF Logs
<1>2. log.typed # <<>> => DropLast(log.typed) \in Seq(Nat)
  BY <1>1, FirstTaken
<1>3. Append(log.typed, Len(log.shown)) \in Seq(Nat)
  BY <1>1, Appended
<1>4. <<0>> \in Seq(Nat) /\ <<>> \in Seq(Visible)
  BY EmptySeq
<1>5. CASE key = "erase"
  BY <1>1, <1>2, <1>5 DEF LogKey, Logs
<1>6. CASE key = "control"
  BY <1>6 DEF LogKey
<1>7. CASE key \notin {"erase", "control"}
  BY <1>1, <1>3, <1>4, <1>7 DEF LogKey, Logs
<1> QED
  BY <1>5, <1>6, <1>7

LEMMA KeyLogged ==
  ASSUME GuardOK(guard), LogsOK(guard, logs), NEW key \in Keys
  PROVE  LogsOK(Press(guard, key), LogPress(key))
<1> DEFINE g == guard
           n == Len(guard.submitted)
<1>1. /\ LineOK(g.line) /\ g.submitted \in Seq(Lines) /\ n \in Nat
      /\ g = [line |-> g.line, submitted |-> g.submitted]
  BY LenProperties DEF GuardOK
<1>2. /\ LogOK(g.line, logs.line) /\ logs.line \in Logs
      /\ logs.submitted \in Seq(Logs) /\ Len(logs.submitted) = n
      /\ \A i \in 1..n : LogOK(g.submitted[i], logs.submitted[i])
      /\ logs = [line |-> logs.line, submitted |-> logs.submitted]
  BY DEF LogsOK, LogOK
<1>3. CASE key # "enter"
  <2> DEFINE more == LogKey(logs.line, key)
  <2>1. LogPress(key) = [line |-> more, submitted |-> logs.submitted]
    BY <1>2, <1>3 DEF LogPress
  <2>2. PICK line : /\ Press(guard, key) = [line |-> line, submitted |-> g.submitted]
                    /\ LogOK(line, more)
    <3>1. CASE key = "erase"
      <4>1. Press(guard, key) = [line |-> Backspace(g.line), submitted |-> g.submitted]
        BY <1>1, <3>1 DEF Press
      <4>2. LogOK(Backspace(g.line), more)
        BY <1>1, <1>2, <3>1, LogKeyIs, EraseLogged
      <4> QED
        BY <4>1, <4>2
    <3>2. CASE key = "control"
      <4>1. Press(guard, key) = [line |-> MarkUnreliable(g.line), submitted |-> g.submitted]
        BY <1>1, <3>2 DEF Press
      <4>2. LogOK(MarkUnreliable(g.line), more)
        BY <1>1, <1>2, <3>2, LogKeyIs, UnsafeLogged
      <4> QED
        BY <4>1, <4>2
    <3>3. CASE key \notin {"erase", "control"}
      <4>1. Press(guard, key) = [line |-> AppendInput(g.line, key), submitted |-> g.submitted]
        BY <1>1, <1>3, <3>3 DEF Press
      <4>2. key \in Chars
        BY <1>3, <3>3 DEF Keys
      <4>3. LogOK(AppendInput(g.line, key), more)
        BY <1>1, <1>2, <3>3, <4>2, LogKeyIs, CharLogged
      <4> QED
        BY <4>1, <4>3
    <3> QED
      BY <3>1, <3>2, <3>3
  <2> HIDE DEF more
  <2> QED
    BY <1>2, <2>1, <2>2 DEF LogsOK
<1>4. CASE key = "enter"
  <2>1. Press(guard, key) = Submit(g)
    BY <1>4 DEF Press
  <2>2. CASE Trusted(g.line)
    <3> DEFINE sent == [g.line EXCEPT !.echoJustConfirmed = FALSE]
               lines == Append(g.submitted, sent)
               more == Append(logs.submitted, logs.line)
    <3>1. /\ sent \in Lines /\ sent.command = g.line.command /\ sent.pending = g.line.pending
          /\ sent.echoSafe = g.line.echoSafe
      BY <1>1 DEF LineOK, Lines
    <3>2. Press(guard, key) = [line |-> NewLine, submitted |-> lines]
      BY <2>1, <2>2 DEF Submit
    <3>3. LogPress(key) = [line |-> NewLog, submitted |-> more]
      BY <1>4, <2>2 DEF LogPress
    <3> HIDE DEF sent
    <3>4. LogOK(sent, logs.line)
      BY <1>2, <3>1 DEF LogOK
    <3>5. /\ Len(lines) = n + 1 /\ lines[n + 1] = sent
          /\ \A i \in 1..n : lines[i] = g.submitted[i]
      BY <1>1, <3>1, Appended
    <3>6. /\ more \in Seq(Logs) /\ Len(more) = n + 1 /\ more[n + 1] = logs.line
          /\ \A i \in 1..n : more[i] = logs.submitted[i]
      BY <1>2, Appended
    <3> HIDE DEF lines, more
    <3>7. \A i \in 1..(n + 1) : LogOK(lines[i], more[i])
      <4>1. \A i \in 1..(n + 1) : i \in 1..n \/ i = n + 1
        BY <1>1
      <4> QED
        BY <1>2, <3>4, <3>5, <3>6, <4>1
    <3> QED
      BY <3>2, <3>3, <3>5, <3>6, <3>7, NewLogOK DEF LogsOK
  <2>3. CASE ~Trusted(g.line)
    <3>1. Press(guard, key) = [line |-> NewLine, submitted |-> g.submitted]
      BY <2>1, <2>3 DEF Submit
    <3>2. LogPress(key) = [line |-> NewLog, submitted |-> logs.submitted]
      BY <1>4, <2>3 DEF LogPress
    <3> QED
      BY <1>2, <3>1, <3>2, NewLogOK DEF LogsOK
  <2> QED
    BY <2>2, <2>3
<1> QED
  BY <1>3, <1>4

\* The guard has given up, or confirmed, the first d lines.
LEMMA LeftOK ==
  ASSUME NEW g, NEW log, NEW d \in Nat, g.submitted \in Seq(Lines),
         log = [line |-> log.line, submitted |-> log.submitted],
         LogOK(g.line, log.line), log.submitted \in Seq(Logs),
         Len(log.submitted) = Len(g.submitted) + d,
         \A i \in 1..Len(g.submitted) : LogOK(g.submitted[i], log.submitted[i + d])
  PROVE  LogsOK(g, Left(log, g))
<1> DEFINE s == log.submitted
           n == Len(g.submitted)
           low == d + 1
           high == n + d
           t == SubSeq(s, low, high)
<1>1. n \in Nat /\ Len(s) = high /\ Len(s) - n + 1 = low
  BY LenProperties
<1>2. Left(log, g) = [line |-> log.line, submitted |-> t]
  <2>1. \A x : [log EXCEPT !.submitted = x] = [line |-> log.line, submitted |-> x]
    OBVIOUS
  <2>2. Left(log, g) = [log EXCEPT !.submitted = SubSeq(s, Len(s) - n + 1, Len(s))]
    BY Zenon DEF Left
  <2> QED
    BY <1>1, <2>1, <2>2, Zenon
<1>3. \A i \in low..high : s[i] \in Logs
  <2>1. \A i \in low..high : i \in 1..Len(s)
    BY <1>1
  <2> QED
    BY <2>1, ElementOfSeq
<1>4. /\ low \in Int /\ high \in Int
      /\ (IF low <= high THEN high - low + 1 ELSE 0) = n /\ high - low + 1 = n
      /\ \A i \in 1..n : low + i - 1 = i + d
  <2>1. n \in Nat
    BY <1>1
  <2> HIDE DEF n
  <2>2. low \in Int /\ high \in Int
    BY <2>1
  <2>3. (low <= high => high - low + 1 = n) /\ (~(low <= high) => n = 0) /\ high - low + 1 = n
    BY <2>1
  <2>4. (IF low <= high THEN high - low + 1 ELSE 0) = n
    BY <2>3, Zenon
  <2>5. \A i \in 1..n : low + i - 1 = i + d
    BY <2>1
  <2> QED
    BY <2>2, <2>3, <2>4, <2>5, Zenon
<1> HIDE DEF s, n, t, low, high
<1>5. /\ SubSeq(s, low, high) \in Seq(Logs)
      /\ Len(SubSeq(s, low, high)) = IF low <= high THEN high - low + 1 ELSE 0
      /\ \A i \in 1..(high - low + 1) : SubSeq(s, low, high)[i] = s[low + i - 1]
  BY <1>3, <1>4, SubSeqProperties, SMTT(20)
<1>7. t \in Seq(Logs) /\ Len(t) = n /\ \A i \in 1..n : t[i] = s[low + i - 1]
  BY <1>4, <1>5, Zenon DEF t
<1>8. \A i \in 1..n : t[i] = s[i + d]
  BY <1>4, <1>7
<1>9. \A i \in 1..n : LogOK(g.submitted[i], t[i])
  BY <1>8 DEF s, n
<1> QED
  BY <1>2, <1>7, <1>9 DEF LogsOK, n

LEMMA LogVisibleIs ==
  ASSUME LogsOK(guard, logs), NEW char \in Visible
  PROVE  /\ LogVisible(char) = [line |-> LogVisible(char).line,
                                submitted |-> LogVisible(char).submitted]
         /\ LogVisible(char).line = IF logs.line.typed = <<>> THEN logs.line
                                    ELSE LogChar(logs.line, char)
         /\ LogVisible(char).submitted \in Seq(Logs)
         /\ Len(LogVisible(char).submitted) = Len(logs.submitted)
         /\ \A i \in 1..Len(logs.submitted) :
              LogVisible(char).submitted[i] = LogChar(logs.submitted[i], char)
<1> DEFINE n == Len(logs.submitted)
           t == [i \in 1..n |-> LogChar(logs.submitted[i], char)]
<1>1. logs.submitted \in Seq(Logs) /\ n \in Nat
  BY LenProperties DEF LogsOK
<1>2. \A i \in 1..n : LogChar(logs.submitted[i], char) \in Logs
  BY <1>1, ElementOfSeq, LogCharAdds
<1>3. t \in [1..n -> Logs]
  BY <1>2
<1>4. t \in Seq(Logs)
  BY <1>1, <1>3, SeqDef
<1>5. Len(t) = n
  BY <1>1, <1>3, <1>4, LenProperties
<1> QED
  BY <1>4, <1>5 DEF LogVisible

LEMMA VisibleLogged ==
  ASSUME GuardOK(guard), LogsOK(guard, logs), NEW char \in Visible
  PROVE  LogsOK(ObserveChar(guard, char), Left(LogVisible(char), ObserveChar(guard, char)))
<1> DEFINE g == guard
           n == Len(guard.submitted)
           more == LogVisible(char)
           after == ObserveChar(guard, char)
<1>1. /\ LineOK(g.line) /\ g.submitted \in Seq(Lines) /\ n \in Nat
      /\ g = [line |-> g.line, submitted |-> g.submitted]
      /\ \A i \in 1..n : LineOK(g.submitted[i])
  BY LenProperties DEF GuardOK
<1>2. /\ LogOK(g.line, logs.line) /\ logs.line \in Logs /\ Len(logs.submitted) = n
      /\ \A i \in 1..n : LogOK(g.submitted[i], logs.submitted[i])
  BY DEF LogsOK, LogOK
<1>3. /\ more = [line |-> more.line, submitted |-> more.submitted]
      /\ more.line = IF logs.line.typed = <<>> THEN logs.line ELSE LogChar(logs.line, char)
      /\ more.submitted \in Seq(Logs) /\ Len(more.submitted) = n
      /\ \A i \in 1..n : more.submitted[i] = LogChar(logs.submitted[i], char)
  BY <1>2, LogVisibleIs
<1>4. GuardOK(after)
  BY ObserveCharOK
<1> HIDE DEF more
<1>5. \A i \in 1..n : LogOK(g.submitted[i], more.submitted[i])
  BY <1>1, <1>2, <1>3, ShownMore
<1>6. CASE g.submitted = <<>>
  <2>1. after = [line |-> CurrentChar(g.line, char), submitted |-> g.submitted] /\ n = 0
    BY <1>1, <1>6, EmptySeq DEF ObserveChar
  <2>2. LogOK(CurrentChar(g.line, char), more.line)
    BY <1>1, <1>2, <1>3, CurrentShown
  <2>3. /\ after.submitted \in Seq(Lines) /\ LogOK(after.line, more.line)
        /\ Len(more.submitted) = Len(after.submitted) + 0
        /\ \A i \in 1..Len(after.submitted) : LogOK(after.submitted[i], more.submitted[i + 0])
    BY <1>1, <1>3, <2>1, <2>2
  <2> HIDE DEF after
  <2>4. LogsOK(after, Left(more, after))
    BY <1>3, <2>3, LeftOK
  <2> QED
    BY <2>4 DEF after, more
<1>7. CASE g.submitted # <<>>
  <2> DEFINE first == Head(g.submitted)
             others == Tail(g.submitted)
             known == [first EXCEPT !.pending = Tail(@)]
  <2>1. /\ n \in Nat \ {0} /\ first = g.submitted[1] /\ first \in Lines
        /\ others \in Seq(Lines) /\ Len(others) = n - 1
        /\ \A i \in 1..(n - 1) : others[i] = g.submitted[i + 1]
    BY <1>1, <1>7, KeysLeft
  <2>2. LogOK(g.line, more.line)
    BY <1>1, <1>2, <1>3, ShownMore
  <2>3. CASE Awaited(first, char)
    <3>1. after = [line |-> g.line, submitted |-> <<known>> \o others]
      BY <1>1, <1>7, <2>3 DEF ObserveChar, SubmittedChar
    <3>2. /\ known.command = first.command /\ known.pending = Tail(first.pending)
          /\ known.echoSafe = first.echoSafe
      BY <2>1 DEF Lines
    <3>3. after.submitted \in Seq(Lines) /\ after.submitted = <<known>> \o others
          /\ after.line = g.line
      BY <1>4, <3>1 DEF GuardOK
    <3>4. known \in Lines
      <4>1. Tail(first.pending) \in Seq(Chars)
        BY <2>1, <2>3, KeysLeft DEF Awaited, Lines
      <4> HIDE DEF first
      <4> QED
        BY <2>1, <4>1 DEF Lines
    <3> HIDE DEF known
    <3>5. LogOK(known, LogChar(logs.submitted[1], char))
      <4>1. LineOK(first) /\ LogOK(first, logs.submitted[1])
        BY <1>1, <1>2, <2>1
      <4> HIDE DEF first
      <4> QED
        BY <2>3, <3>2, <4>1, EchoShown
    <3> HIDE DEF others, first
    <3>6. <<known>> \in Seq(Lines) /\ Len(<<known>>) = 1 /\ <<known>>[1] = known
      BY <3>4
    <3>7. /\ Len(<<known>> \o others) = 1 + Len(others)
          /\ \A i \in 1..(1 + Len(others)) :
               (<<known>> \o others)[i] = IF i <= 1 THEN <<known>>[i] ELSE others[i - 1]
      BY <2>1, <3>6, ConcatProperties
    <3>8. ASSUME NEW i \in 1..n PROVE LogOK(after.submitted[i], more.submitted[i + 0])
      <4>0. i + 0 = i /\ (i = 1 \/ (i # 1 /\ ~(i <= 1) /\ i - 1 \in 1..n - 1 /\ i - 1 + 1 = i))
        BY <2>1
      <4>1. CASE i = 1
        <5>1. after.submitted[i] = known
          BY <2>1, <3>3, <3>6, <3>7, <4>1
        <5>2. more.submitted[i] = LogChar(logs.submitted[1], char)
          BY <1>3, <4>1
        <5> QED
          BY <3>5, <4>0, <5>1, <5>2, Zenon
      <4>2. CASE i # 1
        <5>1. after.submitted[i] = g.submitted[i]
          BY <2>1, <3>3, <3>7, <4>0, <4>2
        <5> QED
          BY <1>5, <4>0, <5>1
      <4> QED
        BY <4>1, <4>2
    <3>9. Len(after.submitted) = n /\ n + 0 = n
      BY <2>1, <3>3, <3>7
    <3> HIDE DEF after
    <3>10. LogsOK(after, Left(more, after))
      BY <1>3, <2>2, <3>3, <3>8, <3>9, LeftOK
    <3> QED
      BY <3>10 DEF after, more
  <2>4. CASE ~Awaited(first, char)
    <3>1. after = [line |-> g.line, submitted |-> others]
      BY <1>1, <1>7, <2>4 DEF ObserveChar, SubmittedChar
    <3>2. after.submitted = others /\ after.line = g.line
      BY <3>1
    <3> HIDE DEF others
    <3>3. \A i \in 1..(n - 1) : i + 1 \in 1..n
      BY <2>1
    <3>4. \A i \in 1..Len(after.submitted) : LogOK(after.submitted[i], more.submitted[i + 1])
      BY <1>5, <2>1, <3>2, <3>3
    <3>5. Len(more.submitted) = Len(after.submitted) + 1
      BY <1>3, <2>1, <3>2
    <3> HIDE DEF after
    <3>6. LogsOK(after, Left(more, after))
      BY <1>3, <2>1, <2>2, <3>2, <3>4, <3>5, LeftOK
    <3> QED
      BY <3>6 DEF after, more
  <2> QED
    BY <2>3, <2>4
<1> QED
  BY <1>6, <1>7

LEMMA EndLogged ==
  ASSUME NEW g, GuardOK(g), NEW log, LogsOK(g, log)
  PROVE  LogsOK(LineBoundary(g), Left(log, LineBoundary(g)))
<1> DEFINE n == Len(g.submitted)
           after == LineBoundary(g)
<1>1. /\ LineOK(g.line) /\ g.submitted \in Seq(Lines) /\ n \in Nat
      /\ g = [line |-> g.line, submitted |-> g.submitted]
  BY LenProperties DEF GuardOK
<1>2. /\ LogOK(g.line, log.line) /\ Len(log.submitted) = n /\ log.submitted \in Seq(Logs)
      /\ \A i \in 1..n : LogOK(g.submitted[i], log.submitted[i])
      /\ log = [line |-> log.line, submitted |-> log.submitted]
  BY DEF LogsOK
<1>3. CASE g.submitted = <<>>
  <2>1. /\ after.submitted = g.submitted
        /\ after.line = g.line \/ after.line = MarkUnsafe(g.line)
    BY <1>1, <1>3 DEF LineBoundary
  <2>2. LogOK(after.line, log.line)
    BY <1>1, <1>2, <2>1, UnsafeLogged
  <2> HIDE DEF after
  <2>3. /\ Len(log.submitted) = Len(after.submitted) + 0
        /\ \A i \in 1..Len(after.submitted) : LogOK(after.submitted[i], log.submitted[i + 0])
    BY <1>1, <1>2, <2>1
  <2> QED
    BY <1>1, <1>2, <2>1, <2>2, <2>3, LeftOK DEF after
<1>4. CASE g.submitted # <<>>
  <2> DEFINE others == Tail(g.submitted)
  <2>1. after.submitted = others /\ after.line = g.line
    BY <1>1, <1>4 DEF LineBoundary
  <2>2. /\ n \in Nat \ {0} /\ others \in Seq(Lines) /\ Len(others) = n - 1
        /\ \A i \in 1..(n - 1) : others[i] = g.submitted[i + 1]
    BY <1>1, <1>4, KeysLeft
  <2> HIDE DEF after, others
  <2>3. \A i \in 1..(n - 1) : i + 1 \in 1..n
    BY <2>2
  <2>4. \A i \in 1..Len(after.submitted) : LogOK(after.submitted[i], log.submitted[i + 1])
    BY <1>2, <2>1, <2>2, <2>3
  <2>5. Len(log.submitted) = Len(after.submitted) + 1
    BY <1>2, <2>1, <2>2
  <2> QED
    BY <1>2, <2>1, <2>2, <2>4, <2>5, LeftOK DEF after
<1> QED
  BY <1>3, <1>4

\* What is confirmed has been seen.
LEMMA ConfirmedIsSeen ==
  ASSUME NEW g, GuardOK(g), NEW log, LogsOK(g, log)
  PROVE  Confirmed(g) \subseteq Ended(g, log)
<1> SUFFICES ASSUME Confirms(g) PROVE Confirmed(g) \subseteq Ended(g, log)
  BY DEF Confirmed
<1> DEFINE first == g.submitted[1]
           kept == log.submitted[1]
<1>1. /\ Len(g.submitted) \in Nat \ {0} /\ Head(g.submitted) = first
      /\ first.echoSafe /\ first.pending = <<>> /\ first.command \in Seq(Chars)
  BY ConfirmsAll
<1>2. log.submitted # <<>> /\ log.submitted \in Seq(Logs)
  BY <1>1, EmptySeq DEF LogsOK
<1>3. Head(log.submitted) = kept /\ LogOK(first, kept)
  BY <1>1, <1>2, KeysLeft DEF LogsOK
<1>4. Len(first.command) - Len(first.pending) = Len(first.command)
  BY <1>1, EmptySeq, LenProperties
<1> HIDE DEF first, kept
<1>5. Seen(first.command, kept)
  BY <1>1, <1>3, <1>4 DEF LogOK, SeenTo, Seen
<1>6. First(g) = first.command /\ g.submitted # <<>>
  BY <1>1, EmptySeq DEF First
<1> QED
  BY <1>3, <1>5, <1>6 DEF Confirmed, Ended

-------------------------------------------------------------------------------
IInv == GuardOK(guard) /\ LogsOK(guard, logs) /\ out \in Seq(Items) /\ recorded \subseteq echoed

LEMMA OutGrows ==
  ASSUME out \in Seq(Items), NEW items \in Seq(Items), Display(items)
  PROVE  out' \in Seq(Items)
  BY ConcatProperties DEF Display

\* Whatever the keys, the remote and the programs do, the invariant holds.
THEOREM Inductive == Spec => []IInv
<1>1. Init => IInv
  <2> SUFFICES ASSUME Init PROVE IInv
    OBVIOUS
  <2>1. GuardOK(guard)
    <3>1. <<>> \in Seq(Lines) /\ \A i \in 1..Len(<<>>) : LineOK(<<>>[i])
      BY EmptySeq
    <3> QED
      BY <3>1, NewLineOK, GuardMade DEF Init, NewGuard
  <2>2. LogsOK(guard, logs)
    BY NoLogsOK DEF Init
  <2> QED
    BY <2>1, <2>2, EmptySeq DEF Init, IInv
<1>2. IInv /\ [Next]_vars => IInv'
  <2> SUFFICES ASSUME IInv, [Next]_vars PROVE IInv'
    OBVIOUS
  <2>1. GuardOK(guard) /\ LogsOK(guard, logs) /\ out \in Seq(Items) /\ recorded \subseteq echoed
    BY DEF IInv
  <2>2. ASSUME NEW key \in Keys, Type(key) PROVE IInv'
    <3>1. /\ guard' = Press(guard, key) /\ logs' = LogPress(key)
          /\ UNCHANGED <<out, recorded, echoed>>
      BY <2>2 DEF Type
    <3>2. GuardOK(guard') /\ LogsOK(guard', logs')
      BY <2>1, <3>1, PressOK, KeyLogged
    <3> QED
      BY <2>1, <3>1, <3>2 DEF IInv
  <2>3. ASSUME out' \in Seq(Items), UNCHANGED <<guard, logs, recorded, echoed>> PROVE IInv'
    BY <2>1, <2>3 DEF IInv
  <2>4. <<>> \in Seq(Items) /\ \A item \in Items : <<item>> \in Seq(Items)
    BY EmptySeq
  <2>5. ASSUME Take PROVE IInv'
    <3>1. UNCHANGED <<guard, logs, recorded, echoed>>
      BY <2>5 DEF Take, TakeChar, TakeErase, TakeEnter, TakeControl
    <3>2. \E items \in Seq(Items) : Display(items)
      <4>1. "newline" \in Items /\ "rub" \in Items /\ Chars \subseteq Items
        BY DEF Items
      <4>2. CASE TakeChar
        BY <2>4, <4>1, <4>2 DEF TakeChar
      <4>3. CASE TakeErase
        BY <2>4, <4>1, <4>3 DEF TakeErase
      <4>4. CASE TakeEnter
        BY <2>4, <4>1, <4>4 DEF TakeEnter
      <4>5. CASE TakeControl
        BY <2>4, <4>1, <4>5 DEF TakeControl
      <4> QED
        BY <2>5, <4>2, <4>3, <4>4, <4>5 DEF Take
    <3> QED
      BY <2>1, <2>3, <3>1, <3>2, OutGrows
  <2>6. ASSUME ProgramPrints PROVE IInv'
    <3>1. \E item \in Items : Display(<<item>>)
      BY <2>6 DEF ProgramPrints, Items
    <3>2. out' \in Seq(Items)
      BY <2>1, <2>4, <3>1, OutGrows
    <3> QED
      BY <2>3, <2>6, <3>2 DEF ProgramPrints
  <2>7. ASSUME SetEcho PROVE IInv'
    BY <2>1, <2>3, <2>7 DEF SetEcho
  <2>8. ASSUME out # <<>> PROVE Tail(out) \in Seq(Items)
    BY <2>1, <2>8, KeysLeft
  <2>9. ASSUME out # <<>>, NEW char \in Visible, NEW split, Sees(char, split),
               UNCHANGED <<recorded, echoed>>
        PROVE  IInv'
    <3>1. /\ guard' = ObserveChar(guard, char) /\ out' = Tail(out)
          /\ logs' = Left(LogVisible(char), ObserveChar(guard, char))
      BY <2>9 DEF Sees, Observe
    <3>2. GuardOK(guard') /\ LogsOK(guard', logs')
      BY <2>1, <3>1, ObserveCharOK, VisibleLogged
    <3> QED
      BY <2>1, <2>8, <2>9, <3>1, <3>2 DEF IInv
  <2>10. ASSUME ObserveVisible PROVE IInv'
    BY <2>9, <2>10 DEF ObserveVisible, Visible
  <2>11. ASSUME ObserveInvisible PROVE IInv'
    <3>1. CASE Observe(guard, FALSE) /\ UNCHANGED logs
      BY <2>3, <2>8, <2>11, <3>1 DEF ObserveInvisible, Observe
    <3>2. CASE Sees(IF Head(out) = "rub" THEN Blank ELSE Text, TRUE)
      <4>1. (IF Head(out) = "rub" THEN Blank ELSE Text) \in Visible
        BY DEF Visible
      <4> QED
        BY <2>9, <2>11, <3>2, <4>1 DEF ObserveInvisible
    <3> QED
      BY <2>11, <3>1, <3>2 DEF ObserveInvisible
  <2>12. ASSUME ObserveEnd PROVE IInv'
    <3> DEFINE after == LineBoundary(guard)
    <3>1. /\ out # <<>> /\ out' = Tail(out) /\ guard' = after /\ logs' = Left(logs, after)
          /\ recorded' = recorded \cup Confirmed(guard)
          /\ echoed' = echoed \cup Ended(guard, logs)
      BY <2>12 DEF ObserveEnd, Observe
    <3>2. GuardOK(after) /\ LogsOK(after, Left(logs, after))
      BY <2>1, LineBoundaryOK, EndLogged
    <3>3. Confirmed(guard) \subseteq Ended(guard, logs)
      BY <2>1, ConfirmedIsSeen
    <3> HIDE DEF after
    <3> QED
      BY <2>1, <2>8, <3>1, <3>2, <3>3 DEF IInv
  <2>13. ASSUME ObserveCutEnd PROVE IInv'
    <3> DEFINE half == LineBoundary(guard)
               after == LineBoundary(half)
               left == Left(logs, half)
    <3>1. /\ out # <<>> /\ out' = Tail(out) /\ guard' = after /\ logs' = Left(left, after)
          /\ recorded' = recorded \cup Confirmed(guard) \cup Confirmed(half)
          /\ echoed' = echoed \cup Ended(guard, logs) \cup Ended(half, left)
      BY <2>13 DEF ObserveCutEnd, Observe
    <3>2. GuardOK(half) /\ LogsOK(half, left)
      BY <2>1, LineBoundaryOK, EndLogged
    <3>3. Confirmed(guard) \subseteq Ended(guard, logs)
      BY <2>1, ConfirmedIsSeen
    <3> HIDE DEF half, left
    <3>4. GuardOK(after) /\ LogsOK(after, Left(left, after))
      BY <3>2, LineBoundaryOK, EndLogged
    <3>5. Confirmed(half) \subseteq Ended(half, left)
      BY <3>2, ConfirmedIsSeen
    <3> HIDE DEF after
    <3> QED
      BY <2>1, <2>8, <3>1, <3>3, <3>4, <3>5 DEF IInv
  <2>14. ASSUME Reconnect PROVE IInv'
    <3>1. <<>> \in Seq(Lines) /\ \A i \in 1..Len(<<>>) : LineOK(<<>>[i])
      BY EmptySeq
    <3>2. GuardOK(NewGuard)
      BY <3>1, NewLineOK, GuardMade DEF NewGuard
    <3> QED
      BY <2>1, <2>4, <2>14, <3>2, NoLogsOK DEF Reconnect, IInv
  <2>15. ASSUME UNCHANGED vars PROVE IInv'
    BY <2>1, <2>15 DEF vars, IInv
  <2> QED
    BY <2>2, <2>5, <2>6, <2>7, <2>10, <2>11, <2>12, <2>13, <2>14, <2>15
       DEF Next, See
<1> QED
  BY <1>1, <1>2, PTL DEF Spec

\* A recorded command has been seen in the output when its line ended, character by character
\* and each after its key: for any characters, any number of keys and any output, programs that
\* print what is awaited included (submit, consumeSubmittedChar, consumeCurrentChar and
\* consumeLineBoundary together).
THEOREM UnseenIsNotRecorded == Spec => []RecordedWasEchoed
<1>1. IInv => RecordedWasEchoed
  BY DEF IInv, RecordedWasEchoed
<1> QED
  BY <1>1, Inductive, PTL

-------------------------------------------------------------------------------
(***************************************************************************)
(* While nothing comes between: what is under way, output and keys, is     *)
(* what the lines of the guard await.  A course says of every point p of   *)
(* the flow which line it is in (nth, counted from some beginning), how    *)
(* many of its characters have gone by (got), and, from the remote         *)
(* terminal on, the line as the remote collects it (text).                 *)
(***************************************************************************)
Typable == Chars \cup {"enter", "erase"}

Ends == {"newline", "enter"}

Stages == [text : Seq(Chars), nth : Nat, got : Nat]

Flow(o, k, p) == IF p <= Len(o) THEN o[p] ELSE k[p - Len(o)]

\* The line of number x, when the first one that awaits something has number first.
LineOf(g, first, x) ==
  IF x < first + Len(g.submitted) THEN g.submitted[x - first + 1] ELSE g.line

\* The characters of line x that had gone by when the flow began.
Gone(f, x) == IF x = f[0].nth THEN f[0].got ELSE 0

\* An echo is the next one its line awaits; an end comes when the line awaits no more.
Expected(f, item, g, p) ==
  LET s == f[p - 1]
      t == f[p]
      pending == LineOf(g, f[0].nth, s.nth).pending
  IN  /\ item \in Chars =>
           /\ t.nth = s.nth /\ t.got = s.got + 1
           /\ t.got - Gone(f, s.nth) \in 1..Len(pending)
           /\ pending[t.got - Gone(f, s.nth)] = item
      /\ item \in Ends =>
           /\ t.nth = s.nth + 1 /\ t.got = 0
           /\ s.nth < f[0].nth + Len(g.submitted)
           /\ s.got - Gone(f, s.nth) = Len(pending)
      /\ item \notin Chars \cup Ends => t.nth = s.nth /\ t.got = s.got

Echoing(f, o, k, g) ==
  LET m == Len(o) + Len(k)
  IN  /\ f \in [0..m -> Stages]
      /\ \A p \in 1..m : Expected(f, Flow(o, k, p), g, p)
      /\ \A p \in 0..m : f[0].nth <= f[p].nth /\ f[p].nth <= f[0].nth + Len(g.submitted)
      /\ f[m].nth = f[0].nth + Len(g.submitted)
      /\ f[m].got - Gone(f, f[m].nth) = Len(g.line.pending)

\* What a key makes of a line at the remote.
Edited(text, key) ==
  IF key = "enter" THEN <<>>
  ELSE IF key = "erase" THEN IF text = <<>> THEN text ELSE DropLast(text)
  ELSE Append(text, key)

Editing(f, o, k, g, text) ==
  /\ f[Len(o)].text = text
  /\ f[Len(o) + Len(k)].text = g.line.command
  /\ \A i \in 1..Len(k) :
       /\ f[Len(o) + i].text = Edited(f[Len(o) + i - 1].text, k[i])
       /\ k[i] = "enter" =>
            LineOf(g, f[0].nth, f[Len(o) + i - 1].nth).command = f[Len(o) + i - 1].text

\* A line whose end is on its way back has been read; what has been read and is not recorded
\* is such a line.
Reading(f, o, g, seen, kept) ==
  /\ \A p \in 1..Len(o) :
       o[p] = "newline" => LineOf(g, f[0].nth, f[p - 1].nth).command \in seen
  /\ \A text \in seen \ kept :
       \E x \in f[0].nth..f[Len(o)].nth - 1 : LineOf(g, f[0].nth, x).command = text

\* The guard trusts its lines.
Trusting(g) ==
  /\ g.line.reliable /\ g.line.echoSafe
  /\ g.line.echoJustConfirmed => g.line.command # <<>>
  /\ \A i \in 1..Len(g.submitted) : Trusted(g.submitted[i])

Course(f, o, k, g, text, seen, kept) ==
  Echoing(f, o, k, g) /\ Editing(f, o, k, g, text) /\ Reading(f, o, g, seen, kept)

CleanInv ==
  /\ tty = [echo |-> tty.echo, line |-> tty.line]
  /\ clean =>
       /\ keys \in Seq(Typable) /\ Trusting(guard) /\ recorded \subseteq read
       /\ \E f : Course(f, out, keys, guard, tty.line, read, recorded)

LEMMA Classes ==
  /\ Chars \cap Ends = {}
  /\ {Text, "erase", "break", "rub", "escape"} \cap (Chars \cup Ends) = {}
<1>1. Text \notin Ends
  BY MarkerAssumption DEF Ends
<1> QED
  BY <1>1, MarkerAssumption, TextAssumption DEF Ends

\* The flow, point by point.
LEMMA FlowIs ==
  ASSUME NEW o \in Seq(Items), NEW k \in Seq(Typable)
  PROVE  /\ Len(o) \in Nat /\ Len(k) \in Nat
         /\ \A p \in 1..Len(o) : Flow(o, k, p) = o[p] /\ o[p] \in Items
         /\ \A i \in 1..Len(k) : Flow(o, k, Len(o) + i) = k[i] /\ k[i] \in Typable
<1>1. Len(o) \in Nat /\ Len(k) \in Nat
  BY LenProperties
<1>2. \A p \in 1..Len(o) : Flow(o, k, p) = o[p] /\ o[p] \in Items
  BY <1>1, ElementOfSeq DEF Flow
<1>3. ASSUME NEW i \in 1..Len(k)
      PROVE  Flow(o, k, Len(o) + i) = k[i] /\ k[i] \in Typable
  <2>1. ~(Len(o) + i <= Len(o)) /\ Len(o) + i - Len(o) = i
    BY <1>1
  <2>2. k[i] \in Typable
    BY ElementOfSeq
  <2> QED
    BY <2>1, <2>2 DEF Flow
<1> QED
  BY <1>1, <1>2, <1>3

\* The lines of a guard that passes the tests of GuardOK.
LEMMA LinesOf ==
  ASSUME NEW g, NEW s, GuardOK(g), NEW first \in Nat
  PROVE  /\ Len(g.submitted) \in Nat
         /\ \A x \in Nat : first <= x => LineOf(g, first, x) \in Lines
         /\ \A i \in 1..Len(g.submitted) : LineOf(g, first, first + i - 1) = g.submitted[i]
         /\ LineOf(g, first, first + Len(g.submitted)) = g.line
<1>1. g.submitted \in Seq(Lines) /\ g.line \in Lines
  BY DEF GuardOK, LineOK
<1>2. Len(g.submitted) \in Nat
  BY <1>1, LenProperties
<1>3. \A i \in 1..Len(g.submitted) : g.submitted[i] \in Lines
  BY <1>1, ElementOfSeq
<1>4. ASSUME NEW x \in Nat, first <= x PROVE LineOf(g, first, x) \in Lines
  <2>1. CASE x < first + Len(g.submitted)
    <3>1. x - first + 1 \in 1..Len(g.submitted)
      BY <1>2, <1>4, <2>1
    <3> QED
      BY <1>3, <2>1, <3>1 DEF LineOf
  <2>2. CASE ~(x < first + Len(g.submitted))
    BY <1>1, <2>2 DEF LineOf
  <2> QED
    BY <2>1, <2>2
<1>5. ASSUME NEW i \in 1..Len(g.submitted)
      PROVE  LineOf(g, first, first + i - 1) = g.submitted[i]
  <2>1. first + i - 1 < first + Len(g.submitted) /\ first + i - 1 - first + 1 = i
    BY <1>2
  <2> QED
    BY <2>1 DEF LineOf
<1>6. LineOf(g, first, first + Len(g.submitted)) = g.line
  BY <1>2 DEF LineOf
<1> QED
  BY <1>2, <1>4, <1>5, <1>6

\* A key lengthens what is awaited, or leaves it.
Continues(g, more) ==
  LET n == Len(g.submitted)
      line == IF n < Len(more.submitted) THEN more.submitted[n + 1] ELSE more.line
  IN  /\ n <= Len(more.submitted)
      /\ \A i \in 1..n : more.submitted[i] = g.submitted[i]
      /\ Len(g.line.pending) <= Len(line.pending)
      /\ \A j \in 1..Len(g.line.pending) : line.pending[j] = g.line.pending[j]

LEMMA LineContinues ==
  ASSUME NEW g, GuardOK(g), NEW more, GuardOK(more), Continues(g, more),
         NEW first \in Nat, NEW x \in Nat, first <= x, x <= first + Len(g.submitted)
  PROVE  /\ x < first + Len(g.submitted) => LineOf(more, first, x) = LineOf(g, first, x)
         /\ Len(LineOf(g, first, x).pending) \in Nat /\ Len(LineOf(more, first, x).pending) \in Nat
         /\ Len(LineOf(g, first, x).pending) <= Len(LineOf(more, first, x).pending)
         /\ \A j \in 1..Len(LineOf(g, first, x).pending) :
              LineOf(more, first, x).pending[j] = LineOf(g, first, x).pending[j]
<1>1. Len(g.submitted) \in Nat /\ Len(more.submitted) \in Nat
  BY LinesOf
<1>2. LineOf(g, first, x) \in Lines /\ LineOf(more, first, x) \in Lines
  BY LinesOf
<1>3. Len(LineOf(g, first, x).pending) \in Nat /\ Len(LineOf(more, first, x).pending) \in Nat
  BY <1>2, LenProperties DEF Lines
<1>4. CASE x < first + Len(g.submitted)
  <2>1. x - first + 1 \in 1..Len(g.submitted) /\ x < first + Len(more.submitted)
    BY <1>1, <1>4 DEF Continues
  <2>2. more.submitted[x - first + 1] = g.submitted[x - first + 1]
    BY <2>1 DEF Continues
  <2>3. LineOf(more, first, x) = LineOf(g, first, x)
    BY <1>4, <2>1, <2>2 DEF LineOf
  <2> QED
    BY <1>3, <2>3
<1>5. CASE x = first + Len(g.submitted)
  <2> DEFINE n == Len(g.submitted)
             line == IF n < Len(more.submitted) THEN more.submitted[n + 1] ELSE more.line
  <2>1. LineOf(g, first, x) = g.line
    BY <1>1, <1>5 DEF LineOf
  <2>2. LineOf(more, first, x) = line
    <3>1. x - first + 1 = n + 1 /\ (x < first + Len(more.submitted) <=> n < Len(more.submitted))
      BY <1>1, <1>5
    <3> QED
      BY <3>1 DEF LineOf
  <2>3. /\ Len(g.line.pending) <= Len(line.pending)
        /\ \A j \in 1..Len(g.line.pending) : line.pending[j] = g.line.pending[j]
    BY DEF Continues
  <2> HIDE DEF line
  <2> QED
    BY <1>1, <1>3, <1>5, <2>1, <2>2, <2>3
<1> QED
  BY <1>1, <1>4, <1>5

\* Course h is course f with one more point, ...
Longer(h, f, m) ==
  h \in [0..m + 1 -> Stages] /\ \A p \in 0..m : h[p] = f[p]

\* ... with which it is as far as the guard.
Arrives(h, f, key, more, m) ==
  /\ Expected(h, key, more, m + 1)
  /\ h[m + 1].nth = f[0].nth + Len(more.submitted)
  /\ h[m + 1].got - Gone(f, h[m + 1].nth) = Len(more.line.pending)

\* Arithmetic that the next two lemmas need.
LEMMA FurtherOff == \A a, b, m, n \in Nat : b <= a + m /\ m <= n => b <= a + n
OBVIOUS

LEMMA Counted ==
  \A a, n \in Nat : /\ a + n \in Nat /\ a + 1 \in Nat
                    /\ a + n < a + (n + 1) /\ a + n + 1 = a + (n + 1) /\ a + n + 1 # a
OBVIOUS

\* The flow with one more key, of which the rest of the course is right.
LEMMA EchoingExtended ==
  ASSUME NEW o \in Seq(Items), NEW k \in Seq(Typable), NEW g, GuardOK(g),
         NEW f, Echoing(f, o, k, g), NEW more, GuardOK(more), Continues(g, more),
         NEW key \in Typable, NEW m, m = Len(o) + Len(k),
         NEW h, Longer(h, f, m), Arrives(h, f, key, more, m)
  PROVE  Echoing(h, o, Append(k, key), more)
<1>1. /\ Len(o) \in Nat /\ Len(k) \in Nat /\ m \in Nat /\ f \in [0..m -> Stages]
      /\ Append(k, key) \in Seq(Typable) /\ Len(Append(k, key)) = Len(k) + 1
      /\ \A i \in 1..Len(k) : Append(k, key)[i] = k[i]
      /\ Append(k, key)[Len(k) + 1] = key
  BY FlowIs, Appended DEF Echoing
<1>2. f[0].nth \in Nat /\ f[0].got \in Nat /\ \A p \in 0..m : f[p].nth \in Nat /\ f[p].got \in Nat
  <2>1. 0 \in 0..m /\ \A p \in 0..m : f[p] \in Stages
    BY <1>1, SMTT(20)
  <2> QED
    BY <2>1 DEF Stages
<1>3. h[0] = f[0] /\ \A x : Gone(h, x) = Gone(f, x)
  <2>1. h[0] = f[0]
    BY <1>1 DEF Longer
  <2> QED
    BY <2>1 DEF Gone
<1>4. /\ Len(g.submitted) \in Nat /\ Len(more.submitted) \in Nat
      /\ Len(g.submitted) <= Len(more.submitted)
  BY LinesOf, <1>2 DEF Continues
<1>5. ASSUME NEW p \in 1..m PROVE Flow(o, Append(k, key), p) = Flow(o, k, p)
  <2>1. CASE p <= Len(o)
    BY <2>1 DEF Flow
  <2>2. CASE ~(p <= Len(o))
    <3>1. p - Len(o) \in 1..Len(k)
      BY <1>1, <2>2
    <3> QED
      BY <1>1, <2>2, <3>1 DEF Flow
  <2> QED
    BY <2>1, <2>2
<1>6. Flow(o, Append(k, key), m + 1) = key
  <2>1. ~(m + 1 <= Len(o)) /\ m + 1 - Len(o) = Len(k) + 1
    BY <1>1
  <2> QED
    BY <1>1, <2>1 DEF Flow
<1>7. ASSUME NEW p \in 1..m, NEW item, Expected(f, item, g, p)
      PROVE  Expected(h, item, more, p)
  <2> DEFINE x == f[p - 1].nth
             old == LineOf(g, f[0].nth, x).pending
             new == LineOf(more, f[0].nth, x).pending
             gone == Gone(f, x)
  <2>1. p - 1 \in 0..m /\ p \in 0..m /\ h[p] = f[p] /\ h[p - 1] = f[p - 1]
    <3>1. p - 1 \in 0..m /\ p \in 0..m
      BY <1>1
    <3> QED
      BY <3>1 DEF Longer
  <2>2. x \in Nat /\ f[0].nth <= x /\ x <= f[0].nth + Len(g.submitted)
    BY <1>1, <1>2, <2>1 DEF Echoing
  <2>3. /\ x < f[0].nth + Len(g.submitted) => new = old
        /\ Len(old) \in Nat /\ Len(new) \in Nat /\ Len(old) <= Len(new)
        /\ \A j \in 1..Len(old) : new[j] = old[j]
    <3> DEFINE first == f[0].nth
    <3>1. first \in Nat
      BY <1>2
    <3> HIDE DEF x, first
    <3>2. /\ x < first + Len(g.submitted) => LineOf(more, first, x) = LineOf(g, first, x)
          /\ Len(LineOf(g, first, x).pending) \in Nat /\ Len(LineOf(more, first, x).pending) \in Nat
          /\ Len(LineOf(g, first, x).pending) <= Len(LineOf(more, first, x).pending)
          /\ \A j \in 1..Len(LineOf(g, first, x).pending) :
               LineOf(more, first, x).pending[j] = LineOf(g, first, x).pending[j]
      <4>1. first <= x /\ x <= first + Len(g.submitted)
        BY <2>2 DEF first
      <4>2. x \in Nat /\ x <= first + Len(g.submitted)
        BY <2>2, <4>1
      <4> QED
        BY <3>1, <4>1, <4>2, LineContinues, SMTT(30)
    <3> QED
      BY <3>2, Zenon DEF first
  <2>4. gone = Gone(h, x) /\ gone \in Nat
    BY <1>2, <1>3 DEF Gone
  <2>5. /\ item \in Chars =>
             /\ f[p].nth = x /\ f[p].got = f[p - 1].got + 1
             /\ f[p].got - gone \in 1..Len(old)
             /\ old[f[p].got - gone] = item
        /\ item \in Ends =>
             /\ f[p].nth = x + 1 /\ f[p].got = 0
             /\ x < f[0].nth + Len(g.submitted)
             /\ f[p - 1].got - gone = Len(old)
        /\ item \notin Chars \cup Ends => f[p].nth = x /\ f[p].got = f[p - 1].got
    BY <1>7 DEF Expected
  <2> HIDE DEF x, old, new, gone
  <2>6. /\ item \in Chars =>
             /\ f[p].nth = x /\ f[p].got = f[p - 1].got + 1
             /\ f[p].got - gone \in 1..Len(new)
             /\ new[f[p].got - gone] = item
        /\ item \in Ends =>
             /\ f[p].nth = x + 1 /\ f[p].got = 0
             /\ x < f[0].nth + Len(more.submitted)
             /\ f[p - 1].got - gone = Len(new)
    <3>1. ASSUME item \in Chars
          PROVE  /\ f[p].nth = x /\ f[p].got = f[p - 1].got + 1
                 /\ f[p].got - gone \in 1..Len(new)
                 /\ new[f[p].got - gone] = item
      <4>1. f[p].got - gone \in 1..Len(old) => f[p].got - gone \in 1..Len(new)
        BY <2>3
      <4> QED
        BY <2>3, <2>5, <3>1, <4>1
    <3>2. ASSUME item \in Ends
          PROVE  /\ f[p].nth = x + 1 /\ f[p].got = 0
                 /\ x < f[0].nth + Len(more.submitted)
                 /\ f[p - 1].got - gone = Len(new)
      <4>1. x < f[0].nth + Len(g.submitted) => x < f[0].nth + Len(more.submitted)
        BY <1>2, <1>4, <2>2
      <4> QED
        BY <2>3, <2>5, <3>2, <4>1
    <3> QED
      BY <3>1, <3>2
  <2> QED
    BY <1>3, <2>1, <2>4, <2>5, <2>6 DEF Expected, x, new
<1>8. \A p \in 1..m + 1 : Expected(h, Flow(o, Append(k, key), p), more, p)
  <2> SUFFICES ASSUME NEW p \in 1..m + 1
               PROVE  Expected(h, Flow(o, Append(k, key), p), more, p)
    OBVIOUS
  <2>1. CASE p \in 1..m
    <3>1. Expected(f, Flow(o, k, p), g, p)
      BY <2>1 DEF Echoing
    <3> QED
      BY <1>5, <1>7, <2>1, <3>1
  <2>2. CASE p = m + 1
    BY <1>6, <2>2 DEF Arrives
  <2>3. p \in 1..m \/ p = m + 1
    BY <1>1
  <2> QED
    BY <2>1, <2>2, <2>3, Zenon
<1>9. \A p \in 0..m + 1 : h[0].nth <= h[p].nth /\ h[p].nth <= h[0].nth + Len(more.submitted)
  <2> SUFFICES ASSUME NEW p \in 0..m + 1
               PROVE  h[0].nth <= h[p].nth /\ h[p].nth <= h[0].nth + Len(more.submitted)
    OBVIOUS
  <2>1. CASE p \in 0..m
    <3>1. f[0].nth <= f[p].nth /\ f[p].nth <= f[0].nth + Len(g.submitted)
      BY <2>1 DEF Echoing
    <3>2. f[0].nth \in Nat /\ f[p].nth \in Nat
      BY <1>2, <2>1
    <3>3. f[p].nth <= f[0].nth + Len(more.submitted)
      BY <1>4, <3>1, <3>2, FurtherOff, Zenon
    <3>4. h[p] = f[p]
      BY <2>1 DEF Longer
    <3> QED
      BY <1>3, <3>1, <3>3, <3>4, Zenon
  <2>2. CASE p = m + 1
    BY <1>2, <1>3, <1>4, <2>2 DEF Arrives
  <2>3. p \in 0..m \/ p = m + 1
    BY <1>1, SMTT(20)
  <2> QED
    BY <2>1, <2>2, <2>3, Zenon
<1>10. Len(o) + Len(Append(k, key)) = m + 1
  BY <1>1
<1> QED
  BY <1>1, <1>3, <1>8, <1>9, <1>10 DEF Echoing, Longer, Arrives

\* What a course says of its points.
LEMMA CourseIs ==
  ASSUME NEW o \in Seq(Items), NEW k \in Seq(Typable), NEW g, GuardOK(g),
         NEW f, Echoing(f, o, k, g), NEW m, m = Len(o) + Len(k)
  PROVE  /\ m \in Nat /\ 0 \in 0..m /\ f[0].nth \in Nat /\ Len(g.submitted) \in Nat
         /\ \A p \in 0..m : /\ f[p] \in Stages /\ f[p].nth \in Nat /\ f[p].got \in Nat
                            /\ f[p].text \in Seq(Chars)
                            /\ f[0].nth <= f[p].nth /\ f[p].nth <= f[0].nth + Len(g.submitted)
         /\ \A p \in 1..m : /\ p \in 0..m /\ p - 1 \in 0..m
                            /\ Expected(f, Flow(o, k, p), g, p)
         /\ \A p \in 1..m : Flow(o, k, p) \in Ends => f[p - 1].nth < f[0].nth + Len(g.submitted)
<1>1. m \in Nat /\ f \in [0..m -> Stages] /\ Len(g.submitted) \in Nat
  <2>1. Len(g.submitted) \in Nat
    BY LinesOf
  <2> QED
    BY <2>1, FlowIs DEF Echoing
<1>2. 0 \in 0..m /\ \A p \in 0..m : f[p] \in Stages
  BY <1>1, SMTT(20)
<1>3. \A p \in 0..m : f[p].nth \in Nat /\ f[p].got \in Nat /\ f[p].text \in Seq(Chars)
  BY <1>2 DEF Stages
<1>4. \A p \in 0..m : f[0].nth <= f[p].nth /\ f[p].nth <= f[0].nth + Len(g.submitted)
  BY DEF Echoing
<1>5. \A p \in 1..m : p \in 0..m /\ p - 1 \in 0..m
  BY <1>1
<1>6. \A p \in 1..m : Expected(f, Flow(o, k, p), g, p)
  BY DEF Echoing
<1>7. ASSUME NEW p \in 1..m, Flow(o, k, p) \in Ends
      PROVE  f[p - 1].nth < f[0].nth + Len(g.submitted)
  <2>1. Expected(f, Flow(o, k, p), g, p)
    BY <1>6
  <2> QED
    BY <1>7, <2>1 DEF Expected
<1> QED
  BY <1>1, <1>2, <1>3, <1>4, <1>5, <1>6, <1>7

\* The key makes of the line what the remote will make of it.
Agrees(h, f, key, more, m) ==
  /\ h[m + 1].text = Edited(f[m].text, key)
  /\ h[m + 1].text = more.line.command
  /\ key = "enter" => LineOf(more, f[0].nth, f[m].nth).command = f[m].text

LEMMA EditingExtended ==
  ASSUME NEW o \in Seq(Items), NEW k \in Seq(Typable), NEW g, GuardOK(g),
         NEW f, Echoing(f, o, k, g), NEW text, Editing(f, o, k, g, text),
         NEW more, GuardOK(more), Continues(g, more),
         NEW key \in Typable, NEW m, m = Len(o) + Len(k),
         NEW h, Longer(h, f, m), Agrees(h, f, key, more, m)
  PROVE  Editing(h, o, Append(k, key), more, text)
<1>1. /\ Len(o) \in Nat /\ Len(k) \in Nat /\ m \in Nat
      /\ Len(Append(k, key)) = Len(k) + 1
      /\ \A i \in 1..Len(k) : Append(k, key)[i] = k[i]
      /\ Append(k, key)[Len(k) + 1] = key
  BY FlowIs, Appended
<1>2. h[0] = f[0] /\ \A p \in 0..m : h[p] = f[p]
  BY <1>1 DEF Longer
<1>3. h[Len(o)].text = text
  BY <1>1, <1>2 DEF Editing
<1>4. Len(o) + Len(Append(k, key)) = m + 1 /\ Len(o) + (Len(k) + 1) = m + 1
      /\ Len(o) + (Len(k) + 1) - 1 = m
  BY <1>1
<1>5. ASSUME NEW i \in 1..Len(k)
      PROVE  /\ h[Len(o) + i].text = Edited(h[Len(o) + i - 1].text, k[i])
             /\ k[i] = "enter" =>
                  LineOf(more, h[0].nth, h[Len(o) + i - 1].nth).command = h[Len(o) + i - 1].text
  <2> DEFINE q == Len(o) + i - 1
             x == f[q].nth
  <2>1. q \in 0..m /\ Len(o) + i \in 0..m /\ Len(o) + i \in 1..m /\ Len(o) + i - 1 = q
    BY <1>1
  <2>2. h[Len(o) + i] = f[Len(o) + i] /\ h[q] = f[q]
    BY <1>2, <2>1
  <2>3. /\ f[Len(o) + i].text = Edited(f[q].text, k[i])
        /\ k[i] = "enter" => LineOf(g, f[0].nth, x).command = f[q].text
    BY DEF Editing
  <2>4. x \in Nat /\ f[0].nth \in Nat /\ f[0].nth <= x /\ x <= f[0].nth + Len(g.submitted)
    BY <2>1, CourseIs
  <2>5. k[i] = "enter" => x < f[0].nth + Len(g.submitted)
    <3>1. Flow(o, k, Len(o) + i) = k[i]
      BY FlowIs
    <3> QED
      BY <2>1, <3>1, CourseIs DEF Ends
  <2> HIDE DEF x
  <2>6. k[i] = "enter" => LineOf(more, f[0].nth, x) = LineOf(g, f[0].nth, x)
    BY <2>4, <2>5, LineContinues
  <2> QED
    BY <1>2, <2>2, <2>3, <2>6 DEF x
<1>6. /\ h[m + 1].text = Edited(h[m].text, key)
      /\ key = "enter" => LineOf(more, h[0].nth, h[m].nth).command = h[m].text
  <2>1. h[m] = f[m]
    BY <1>1, <1>2
  <2> QED
    BY <1>2, <2>1 DEF Agrees
<1>7. ASSUME NEW i \in 1..(Len(k) + 1)
      PROVE  /\ h[Len(o) + i].text = Edited(h[Len(o) + i - 1].text, Append(k, key)[i])
             /\ Append(k, key)[i] = "enter" =>
                  LineOf(more, h[0].nth, h[Len(o) + i - 1].nth).command = h[Len(o) + i - 1].text
  <2>1. i \in 1..Len(k) \/ i = Len(k) + 1
    BY <1>1
  <2>2. CASE i \in 1..Len(k)
    <3>1. Append(k, key)[i] = k[i]
      BY <1>1, <2>2
    <3> QED
      BY <1>5, <2>2, <3>1
  <2>3. CASE i = Len(k) + 1
    <3>1. Append(k, key)[i] = key /\ Len(o) + i = m + 1 /\ Len(o) + i - 1 = m
      BY <1>1, <1>4, <2>3
    <3> QED
      BY <1>6, <3>1
  <2> QED
    BY <2>1, <2>2, <2>3
<1>8. h[m + 1].text = more.line.command
  BY DEF Agrees
<1> QED
  BY <1>1, <1>3, <1>4, <1>7, <1>8 DEF Editing

LEMMA ReadingExtended ==
  ASSUME NEW o \in Seq(Items), NEW k \in Seq(Typable), NEW g, GuardOK(g),
         NEW f, Echoing(f, o, k, g), NEW seen, NEW kept, Reading(f, o, g, seen, kept),
         NEW more, GuardOK(more), Continues(g, more),
         NEW m, m = Len(o) + Len(k), NEW h, Longer(h, f, m)
  PROVE  Reading(h, o, more, seen, kept)
<1>1. Len(o) \in Nat /\ Len(k) \in Nat /\ m \in Nat
  BY FlowIs
<1>2. h[0] = f[0] /\ h[Len(o)] = f[Len(o)] /\ \A p \in 1..Len(o) : h[p - 1] = f[p - 1]
  BY <1>1, SMTT(20) DEF Longer
<1>3. ASSUME NEW p \in 1..Len(o), o[p] = "newline"
      PROVE  LineOf(more, h[0].nth, h[p - 1].nth).command \in seen
  <2> DEFINE x == f[p - 1].nth
  <2>1. p \in 1..m /\ Flow(o, k, p) = "newline"
    BY <1>1, <1>3, FlowIs
  <2>2. /\ x \in Nat /\ f[0].nth \in Nat /\ f[0].nth <= x /\ x <= f[0].nth + Len(g.submitted)
        /\ x < f[0].nth + Len(g.submitted)
    BY <2>1, CourseIs DEF Ends
  <2>3. LineOf(g, f[0].nth, x).command \in seen
    BY <1>3 DEF Reading
  <2> HIDE DEF x
  <2>4. LineOf(more, f[0].nth, x) = LineOf(g, f[0].nth, x)
    BY <2>2, LineContinues
  <2> QED
    BY <1>2, <2>3, <2>4 DEF x
<1>4. ASSUME NEW text \in seen \ kept
      PROVE  \E x \in h[0].nth..h[Len(o)].nth - 1 : LineOf(more, h[0].nth, x).command = text
  <2>1. Len(o) \in 0..m
    BY <1>1
  <2>2. /\ f[0].nth \in Nat /\ f[Len(o)].nth \in Nat /\ Len(g.submitted) \in Nat
        /\ f[Len(o)].nth <= f[0].nth + Len(g.submitted)
    BY <2>1, CourseIs
  <2>3. PICK x \in f[0].nth..f[Len(o)].nth - 1 : LineOf(g, f[0].nth, x).command = text
    BY DEF Reading
  <2>4. /\ x \in Nat /\ f[0].nth <= x /\ x <= f[0].nth + Len(g.submitted)
        /\ x < f[0].nth + Len(g.submitted)
    BY <2>2, SMTT(20)
  <2>5. LineOf(more, f[0].nth, x) = LineOf(g, f[0].nth, x)
    BY <2>2, <2>4, LineContinues
  <2> QED
    BY <1>2, <2>3, <2>5
<1> QED
  BY <1>3, <1>4 DEF Reading

\* The point that a key adds to the course.
Reaches(last, f, key, more, m) ==
  LET pending == LineOf(more, f[0].nth, f[m].nth).pending
  IN  /\ last \in Stages
      /\ last.text = Edited(f[m].text, key) /\ last.text = more.line.command
      /\ last.nth = f[0].nth + Len(more.submitted)
      /\ last.got - Gone(f, last.nth) = Len(more.line.pending)
      /\ key \in Chars =>
           /\ last.nth = f[m].nth /\ last.got = f[m].got + 1
           /\ last.got - Gone(f, f[m].nth) \in 1..Len(pending)
           /\ pending[last.got - Gone(f, f[m].nth)] = key
      /\ key = "enter" =>
           /\ last.nth = f[m].nth + 1 /\ last.got = 0
           /\ f[m].nth < f[0].nth + Len(more.submitted)
           /\ f[m].got - Gone(f, f[m].nth) = Len(pending)
           /\ LineOf(more, f[0].nth, f[m].nth).command = f[m].text
      /\ key = "erase" => last.nth = f[m].nth /\ last.got = f[m].got

LEMMA CourseExtended ==
  ASSUME NEW o \in Seq(Items), NEW k \in Seq(Typable), NEW g, GuardOK(g),
         NEW f, NEW text, NEW seen, NEW kept, Course(f, o, k, g, text, seen, kept),
         NEW more, GuardOK(more), Continues(g, more), NEW key \in Typable,
         NEW m, m = Len(o) + Len(k), NEW last, Reaches(last, f, key, more, m)
  PROVE  \E h : Course(h, o, Append(k, key), more, text, seen, kept)
<1> DEFINE h == [p \in 0..m + 1 |-> IF p <= m THEN f[p] ELSE last]
<1>1. Echoing(f, o, k, g) /\ Editing(f, o, k, g, text) /\ Reading(f, o, g, seen, kept)
  BY DEF Course
<1>2. m \in Nat /\ last \in Stages /\ f \in [0..m -> Stages]
  BY <1>1, CourseIs DEF Echoing, Reaches
<1>3. Longer(h, f, m)
  <2>1. \A p \in 0..m : p \in 0..m + 1 /\ p <= m
    BY <1>2
  <2>2. \A p \in 0..m : h[p] = f[p]
    BY <2>1
  <2>3. \A p \in 0..m + 1 : (IF p <= m THEN f[p] ELSE last) \in Stages
    <3>1. \A p \in 0..m + 1 : p <= m => p \in 0..m
      BY <1>2
    <3> QED
      BY <1>2, <3>1
  <2> QED
    BY <2>2, <2>3 DEF Longer
<1>4. h[m + 1] = last
  <2>1. m + 1 \in 0..m + 1 /\ ~(m + 1 <= m)
    BY <1>2
  <2> QED
    BY <2>1
<1> HIDE DEF h
<1>5. h[0] = f[0] /\ h[m] = f[m] /\ m + 1 - 1 = m
  BY <1>2, <1>3 DEF Longer
<1>6. Gone(h, f[m].nth) = Gone(f, f[m].nth)
  BY <1>5 DEF Gone
<1>7. key \in Ends => key = "enter"
  BY MarkerAssumption DEF Typable, Ends
<1>8. key \notin Chars \cup Ends => key = "erase"
  BY DEF Typable, Ends
<1>9. Expected(h, key, more, m + 1)
  BY <1>4, <1>5, <1>6, <1>7, <1>8 DEF Expected, Reaches
<1>10. Arrives(h, f, key, more, m)
  BY <1>4, <1>9 DEF Arrives, Reaches
<1>11. Agrees(h, f, key, more, m)
  BY <1>4 DEF Agrees, Reaches
<1>12. Echoing(h, o, Append(k, key), more)
  BY <1>1, <1>3, <1>10, EchoingExtended
<1>13. Editing(h, o, Append(k, key), more, text)
  BY <1>1, <1>3, <1>11, EditingExtended
<1>14. Reading(h, o, more, seen, kept)
  BY <1>1, <1>3, ReadingExtended
<1> QED
  BY <1>12, <1>13, <1>14 DEF Course

\* Where a course ends.
LEMMA CourseEnds ==
  ASSUME NEW o \in Seq(Items), NEW k \in Seq(Typable), NEW g, GuardOK(g),
         NEW f, NEW text, NEW seen, NEW kept, Course(f, o, k, g, text, seen, kept),
         NEW m, m = Len(o) + Len(k)
  PROVE  /\ m \in Nat /\ f[0].nth \in Nat /\ Len(g.submitted) \in Nat
         /\ f[m].nth = f[0].nth + Len(g.submitted)
         /\ f[m].got \in Nat /\ Gone(f, f[m].nth) \in Nat
         /\ f[m].got - Gone(f, f[m].nth) = Len(g.line.pending)
         /\ f[m].text = g.line.command
<1>1. Echoing(f, o, k, g) /\ Editing(f, o, k, g, text)
  BY DEF Course
<1>2. m \in Nat /\ 0 \in 0..m /\ f[0].nth \in Nat /\ Len(g.submitted) \in Nat
  BY <1>1, CourseIs
<1>3. m \in 0..m /\ f[0].got \in Nat
  BY <1>1, <1>2, CourseIs
<1>4. f[m].got \in Nat /\ Gone(f, f[m].nth) \in Nat
  BY <1>1, <1>3, CourseIs DEF Gone
<1> QED
  BY <1>1, <1>2, <1>4 DEF Echoing, Editing

LEMMA CharTyped ==
  ASSUME NEW o \in Seq(Items), NEW k \in Seq(Typable), NEW g, GuardOK(g), Trusting(g),
         NEW f, NEW text, NEW seen, NEW kept, Course(f, o, k, g, text, seen, kept),
         NEW key \in Chars, NEW more, more = Press(g, key), GuardOK(more)
  PROVE  Trusting(more) /\ \E h : Course(h, o, Append(k, key), more, text, seen, kept)
<1> DEFINE m == Len(o) + Len(k)
           last == [text |-> more.line.command, nth |-> f[m].nth, got |-> f[m].got + 1]
<1>1. /\ g = [line |-> g.line, submitted |-> g.submitted] /\ g.line \in Lines
      /\ g.line.command \in Seq(Chars) /\ g.line.pending \in Seq(Chars) /\ g.line.echoSafe
  BY DEF GuardOK, LineOK, Lines, Trusting
<1>2. more = [g EXCEPT !.line = AppendInput(@, key)]
  BY MarkerAssumption DEF Press
<1>3. more.line = AppendInput(g.line, key) /\ more.submitted = g.submitted
  BY <1>1, <1>2
<1>4. /\ more.line.command = Append(g.line.command, key)
      /\ more.line.pending = Append(g.line.pending, key)
      /\ ~more.line.echoJustConfirmed
      /\ more.line.reliable = g.line.reliable /\ more.line.echoSafe = g.line.echoSafe
  BY <1>1, <1>3 DEF AppendInput, Lines
<1>5. /\ Append(g.line.command, key) \in Seq(Chars)
      /\ Len(g.line.pending) \in Nat /\ Len(Append(g.line.pending, key)) = Len(g.line.pending) + 1
      /\ \A j \in 1..Len(g.line.pending) : Append(g.line.pending, key)[j] = g.line.pending[j]
      /\ Append(g.line.pending, key)[Len(g.line.pending) + 1] = key
  BY <1>1, Appended, LenProperties
<1>6. Trusting(more)
  BY <1>3, <1>4 DEF Trusting
<1>7. Continues(g, more)
  <2>1. Len(g.submitted) \in Nat
    BY LinesOf
  <2>2. /\ Len(g.submitted) <= Len(g.submitted) /\ ~(Len(g.submitted) < Len(g.submitted))
        /\ Len(g.line.pending) <= Len(g.line.pending) + 1
    BY <1>5, <2>1
  <2> QED
    BY <1>3, <1>4, <1>5, <2>2, Zenon DEF Continues
<1>8. key \in Typable /\ key # "enter" /\ key # "erase"
  BY MarkerAssumption DEF Typable
<1>9. m = Len(o) + Len(k)
  OBVIOUS
<1> HIDE DEF m
<1>10. /\ m \in Nat /\ f[0].nth \in Nat /\ Len(g.submitted) \in Nat
       /\ f[m].nth = f[0].nth + Len(g.submitted)
       /\ f[m].got \in Nat /\ Gone(f, f[m].nth) \in Nat
       /\ f[m].got - Gone(f, f[m].nth) = Len(g.line.pending)
       /\ f[m].text = g.line.command
  BY <1>9, CourseEnds
<1>11. LineOf(more, f[0].nth, f[m].nth) = more.line
  <2>1. f[m].nth = f[0].nth + Len(more.submitted)
    BY <1>3, <1>10
  <2> QED
    BY <1>10, <2>1, LinesOf
<1>12. Reaches(last, f, key, more, m)
  <2>1. last \in Stages
    <3>1. more.line.command \in Seq(Chars)
      BY <1>4, <1>5
    <3>2. f[m].nth \in Nat /\ f[m].got + 1 \in Nat
      <4>1. f[0].nth + Len(g.submitted) \in Nat
        BY <1>10, Counted, Zenon
      <4>2. f[m].got + 1 \in Nat
        BY <1>10, Counted, Zenon
      <4> QED
        BY <1>10, <4>1, <4>2, Zenon
    <3> QED
      BY <3>1, <3>2 DEF Stages
  <2>2. last.text = Edited(f[m].text, key) /\ last.text = more.line.command
    BY <1>4, <1>8, <1>10 DEF Edited
  <2>3. last.nth = f[m].nth /\ last.got = f[m].got + 1
    OBVIOUS
  <2> HIDE DEF last
  <2>4. last.got - Gone(f, f[m].nth) = Len(g.line.pending) + 1
    <3> DEFINE gone == Gone(f, f[m].nth)
               n == Len(g.line.pending)
    <3>1. n \in Nat /\ gone \in Nat /\ f[m].got \in Nat /\ f[m].got - gone = n
      BY <1>5, <1>10
    <3> HIDE DEF gone, n
    <3>2. last.got - gone = n + 1
      BY <2>3, <3>1
    <3> QED
      BY <3>2 DEF gone, n
  <2>5. Len(g.line.pending) + 1 \in 1..Len(more.line.pending)
    BY <1>4, <1>5
  <2> QED
    BY <1>3, <1>4, <1>5, <1>8, <1>10, <1>11, <2>1, <2>2, <2>3, <2>4, <2>5 DEF Reaches
<1> HIDE DEF last
<1> QED
  BY <1>6, <1>7, <1>8, <1>9, <1>12, CourseExtended

LEMMA EnterTyped ==
  ASSUME NEW o \in Seq(Items), NEW k \in Seq(Typable), NEW g, GuardOK(g), Trusting(g),
         NEW f, NEW text, NEW seen, NEW kept, Course(f, o, k, g, text, seen, kept),
         ~IsBlank(g.line.command),
         NEW more, more = Press(g, "enter"), GuardOK(more)
  PROVE  Trusting(more) /\ \E h : Course(h, o, Append(k, "enter"), more, text, seen, kept)
<1> DEFINE m == Len(o) + Len(k)
           n == Len(g.submitted)
           sent == [g.line EXCEPT !.echoJustConfirmed = FALSE]
           last == [text |-> <<>>, nth |-> f[m].nth + 1, got |-> 0]
<1>1. g.line \in Lines /\ g.submitted \in Seq(Lines) /\ n \in Nat
  BY LinesOf DEF GuardOK, LineOK
<1>2. /\ sent \in Lines /\ sent.command = g.line.command /\ sent.pending = g.line.pending
      /\ sent.reliable = g.line.reliable /\ sent.echoSafe = g.line.echoSafe
  BY <1>1 DEF Lines
<1>3. Trusted(g.line)
  BY DEF Trusting, Trusted
<1>4. more.line = NewLine /\ more.submitted = Append(g.submitted, sent)
  BY <1>3 DEF Press, Submit
<1> HIDE DEF sent
<1>5. /\ Len(more.submitted) = n + 1 /\ more.submitted[n + 1] = sent
      /\ \A i \in 1..n : more.submitted[i] = g.submitted[i]
  BY <1>1, <1>2, <1>4, Appended
<1>6. /\ NewLine.command = <<>> /\ NewLine.pending = <<>> /\ NewLine.reliable
      /\ NewLine.echoSafe /\ ~NewLine.echoJustConfirmed /\ Len(<<>>) = 0
  BY DEF NewLine
<1>7. Trusting(more)
  <2>1. Trusted(sent)
    BY <1>2, <1>3 DEF Trusted
  <2>2. \A i \in 1..n + 1 : i \in 1..n \/ i = n + 1
    BY <1>1
  <2>3. \A i \in 1..n : Trusted(g.submitted[i])
    BY DEF Trusting
  <2> QED
    BY <1>4, <1>5, <1>6, <2>1, <2>2, <2>3 DEF Trusting
<1>8. Continues(g, more)
  <2>1. Len(g.line.pending) \in Nat
    BY <1>1, LenProperties DEF Lines
  <2>2. n <= n + 1 /\ n < n + 1 /\ Len(g.line.pending) <= Len(g.line.pending)
    BY <1>1, <2>1
  <2> QED
    BY <1>2, <1>5, <2>2 DEF Continues
<1>9. m = Len(o) + Len(k) /\ "enter" \in Typable
  BY DEF Typable
<1> HIDE DEF m
<1>10. /\ m \in Nat /\ f[0].nth \in Nat
       /\ f[m].nth = f[0].nth + n
       /\ f[m].got \in Nat /\ Gone(f, f[m].nth) \in Nat
       /\ f[m].got - Gone(f, f[m].nth) = Len(g.line.pending)
       /\ f[m].text = g.line.command
  BY <1>9, CourseEnds
<1>11. LineOf(more, f[0].nth, f[m].nth) = sent
  <2>1. f[m].nth < f[0].nth + Len(more.submitted) /\ f[m].nth - f[0].nth + 1 = n + 1
    BY <1>1, <1>5, <1>10
  <2> QED
    BY <1>5, <2>1 DEF LineOf
<1>12. Reaches(last, f, "enter", more, m)
  <2>1. last \in Stages
    BY <1>1, <1>10 DEF Stages
  <2>2. last.text = Edited(f[m].text, "enter") /\ last.text = more.line.command
    BY <1>4, <1>6 DEF Edited
  <2>3. last.nth = f[m].nth + 1 /\ last.got = 0
    OBVIOUS
  <2> HIDE DEF last, n
  <2>4. f[m].nth < f[0].nth + Len(more.submitted) /\ last.nth = f[0].nth + Len(more.submitted)
        /\ last.nth # f[0].nth
    <3>1. Len(more.submitted) = n + 1 /\ last.nth = f[0].nth + n + 1
      BY <1>5, <1>10, <2>3
    <3>2. n \in Nat
      BY <1>1
    <3>3. f[0].nth \in Nat /\ f[m].nth = f[0].nth + n
      BY <1>10
    <3>4. f[0].nth + n < f[0].nth + (n + 1) /\ f[0].nth + n + 1 = f[0].nth + (n + 1)
          /\ f[0].nth + n + 1 # f[0].nth
      BY <3>2, <3>3, Counted, Zenon
    <3> QED
      BY <3>1, <3>3, <3>4, Zenon
  <2>5. last.got - Gone(f, last.nth) = Len(more.line.pending)
    BY <1>4, <1>6, <2>3, <2>4 DEF Gone
  <2>6. "enter" \notin Chars
    BY MarkerAssumption
  <2> QED
    BY <1>2, <1>10, <1>11, <2>1, <2>2, <2>3, <2>4, <2>5, <2>6 DEF Reaches
<1> HIDE DEF last
<1> QED
  BY <1>7, <1>8, <1>9, <1>12, CourseExtended

LEMMA EraseTyped ==
  ASSUME NEW o \in Seq(Items), NEW k \in Seq(Typable), NEW g, GuardOK(g), Trusting(g),
         NEW f, NEW text, NEW seen, NEW kept, Course(f, o, k, g, text, seen, kept),
         g.line.pending = <<>>,
         NEW more, more = Press(g, "erase"), GuardOK(more)
  PROVE  Trusting(more) /\ \E h : Course(h, o, Append(k, "erase"), more, text, seen, kept)
<1> DEFINE m == Len(o) + Len(k)
           last == [text |-> more.line.command, nth |-> f[m].nth, got |-> f[m].got]
<1>1. /\ g = [line |-> g.line, submitted |-> g.submitted] /\ g.line \in Lines
      /\ g.line.command \in Seq(Chars)
  BY DEF GuardOK, LineOK, Lines
<1>2. more.line = Backspace(g.line) /\ more.submitted = g.submitted
  BY <1>1 DEF Press
<1>3. /\ more.line.command = Edited(g.line.command, "erase")
      /\ more.line.pending = <<>>
      /\ more.line.echoJustConfirmed => more.line.command # <<>>
      /\ more.line.reliable = g.line.reliable /\ more.line.echoSafe = g.line.echoSafe
  <2>1. CASE g.line.command = <<>>
    BY <1>2, <2>1 DEF Backspace, Edited, Trusting
  <2>2. CASE g.line.command # <<>>
    <3>1. more.line = [g.line EXCEPT !.command = DropLast(@), !.echoJustConfirmed = FALSE,
                                     !.pending = g.line.pending]
      BY <1>2, <2>2 DEF Backspace
    <3> QED
      BY <1>1, <2>2, <3>1 DEF Lines, Edited
  <2> QED
    BY <2>1, <2>2
<1>4. Trusting(more)
  BY <1>2, <1>3 DEF Trusting
<1>5. Continues(g, more)
  <2>1. Len(g.submitted) \in Nat
    BY LinesOf
  <2> QED
    BY <1>2, <1>3, <2>1 DEF Continues
<1>6. m = Len(o) + Len(k) /\ "erase" \in Typable
  BY DEF Typable
<1> HIDE DEF m
<1>7. /\ m \in Nat /\ f[0].nth \in Nat /\ Len(g.submitted) \in Nat
      /\ f[m].nth = f[0].nth + Len(g.submitted)
      /\ f[m].got \in Nat /\ Gone(f, f[m].nth) \in Nat
      /\ f[m].got - Gone(f, f[m].nth) = Len(g.line.pending)
      /\ f[m].text = g.line.command
  BY <1>6, CourseEnds
<1>8. Reaches(last, f, "erase", more, m)
  <2>1. more.line.command \in Seq(Chars)
    BY <1>2 DEF GuardOK, LineOK, Lines
  <2>2. last \in Stages
    BY <1>7, <2>1 DEF Stages
  <2>3. /\ last.text = Edited(f[m].text, "erase") /\ last.text = more.line.command
        /\ last.nth = f[m].nth /\ last.got = f[m].got
    BY <1>3, <1>7
  <2> HIDE DEF last
  <2>4. "erase" \notin Chars
    BY MarkerAssumption
  <2> QED
    BY <1>2, <1>3, <1>7, <2>2, <2>3, <2>4 DEF Reaches
<1> HIDE DEF last
<1> QED
  BY <1>4, <1>5, <1>6, <1>8, CourseExtended

\* One more item is under way.
Displays(more, o, item) ==
  /\ more \in Seq(Items) /\ Len(more) = Len(o) + 1 /\ more[Len(o) + 1] = item
  /\ \A i \in 1..Len(o) : more[i] = o[i]

LEMMA DisplayAdds ==
  ASSUME out \in Seq(Items), NEW item \in Items, Display(<<item>>)
  PROVE  Displays(out', out, item)
<1>1. <<item>> \in Seq(Items) /\ Len(<<item>>) = 1 /\ <<item>>[1] = item
  OBVIOUS
<1>2. Len(out) \in Nat
  BY <1>1, LenProperties
<1>3. /\ out' \in Seq(Items) /\ Len(out') = Len(out) + 1
      /\ \A i \in 1..(Len(out) + 1) :
           out'[i] = IF i <= Len(out) THEN out[i] ELSE <<item>>[i - Len(out)]
  BY <1>1, ConcatProperties DEF Display
<1>4. out'[Len(out) + 1] = item
  BY <1>1, <1>2, <1>3
<1>5. \A i \in 1..Len(out) : out'[i] = out[i]
  BY <1>2, <1>3
<1> QED
  BY <1>3, <1>4, <1>5 DEF Displays

\* What the remote displays of a key means to the guard what the key meant.
Echoes(item, key) ==
  \/ key \in Chars /\ item = key
  \/ key = "enter" /\ item = "newline"
  \/ key = "erase" /\ item = "rub"

LEMMA EchoMeans ==
  ASSUME NEW key, NEW item, Echoes(item, key), NEW f, NEW g, NEW p, Expected(f, key, g, p)
  PROVE  Expected(f, item, g, p)
<1>1. CASE key \in Chars /\ item = key
  BY <1>1
<1>2. CASE key = "enter" /\ item = "newline"
  <2>1. item \in Ends /\ key \in Ends /\ item \notin Chars
    BY <1>2, MarkerAssumption DEF Ends
  <2> QED
    BY <2>1 DEF Expected
<1>3. CASE key = "erase" /\ item = "rub"
  <2>1. item \notin Chars \cup Ends /\ key \notin Chars \cup Ends
    BY <1>3, Classes
  <2> QED
    BY <2>1 DEF Expected
<1> QED
  BY <1>1, <1>2, <1>3 DEF Echoes

LEMMA KeyEchoed ==
  ASSUME NEW o \in Seq(Items), NEW k \in Seq(Typable), NEW g, GuardOK(g),
         NEW f, NEW text, NEW seen, NEW kept, Course(f, o, k, g, text, seen, kept),
         k # <<>>, NEW item, Echoes(item, Head(k)), NEW more, Displays(more, o, item),
         NEW known, known = seen \cup IF Head(k) = "enter" THEN {text} ELSE {}
  PROVE  Course(f, more, Tail(k), g, Edited(text, Head(k)), known, kept)
<1> DEFINE m == Len(o) + Len(k)
           n == Len(o)
<1>1. Echoing(f, o, k, g) /\ Editing(f, o, k, g, text) /\ Reading(f, o, g, seen, kept)
  BY DEF Course
<1>2. /\ Len(k) \in Nat \ {0} /\ Head(k) = k[1] /\ Tail(k) \in Seq(Typable)
      /\ Len(Tail(k)) = Len(k) - 1 /\ \A i \in 1..Len(k) - 1 : Tail(k)[i] = k[i + 1]
  BY KeysLeft
<1>3. n \in Nat /\ Len(more) = n + 1 /\ more[n + 1] = item /\ \A i \in 1..n : more[i] = o[i]
  BY FlowIs DEF Displays
<1>4. m \in Nat /\ Len(more) + Len(Tail(k)) = m /\ n + 1 \in 1..m /\ n \in 0..m /\ n + 1 - 1 = n
  BY <1>2, <1>3
<1>5. Flow(o, k, n + 1) = Head(k)
  <2>1. 1 \in 1..Len(k)
    BY <1>2
  <2> QED
    BY <1>2, <2>1, FlowIs
<1>6. Expected(f, Head(k), g, n + 1)
  BY <1>1, <1>4, <1>5, CourseIs
<1> HIDE DEF m
<1>7. Echoing(f, more, Tail(k), g)
  <2>1. ASSUME NEW p \in 1..m PROVE Expected(f, Flow(more, Tail(k), p), g, p)
    <3>1. Expected(f, Flow(o, k, p), g, p)
      BY <1>1, CourseIs DEF m
    <3>2. CASE p <= n
      <4>1. p \in 1..n /\ p <= n + 1
        BY <1>3, <3>2
      <4> QED
        BY <1>3, <3>1, <3>2, <4>1 DEF Flow
    <3>3. CASE p = n + 1
      <4>1. Flow(more, Tail(k), p) = item
        BY <1>3, <3>3 DEF Flow
      <4> QED
        BY <1>6, <3>3, <4>1, EchoMeans
    <3>4. CASE p > n + 1
      <4>1. /\ ~(p <= n) /\ ~(p <= n + 1) /\ p - (n + 1) \in 1..Len(k) - 1
            /\ p - (n + 1) + 1 = p - n
        BY <1>2, <1>3, <3>4 DEF m
      <4>2. Flow(more, Tail(k), p) = Flow(o, k, p)
        BY <1>2, <1>3, <4>1 DEF Flow
      <4> QED
        BY <3>1, <4>2
    <3> QED
      BY <1>3, <3>2, <3>3, <3>4
  <2>2. \A p \in 1..m : Expected(f, Flow(more, Tail(k), p), g, p)
    BY <2>1
  <2> QED
    BY <1>1, <1>4, <2>2 DEF Echoing, m
<1>8. Editing(f, more, Tail(k), g, Edited(text, Head(k)))
  <2>1. /\ f[n].text = text /\ f[m].text = g.line.command
        /\ \A i \in 1..Len(k) :
             /\ f[n + i].text = Edited(f[n + i - 1].text, k[i])
             /\ k[i] = "enter" =>
                  LineOf(g, f[0].nth, f[n + i - 1].nth).command = f[n + i - 1].text
    BY <1>1 DEF Editing, m
  <2>2. f[n + 1].text = Edited(text, Head(k))
    <3>1. 1 \in 1..Len(k)
      BY <1>2
    <3> QED
      BY <1>2, <1>4, <2>1, <3>1
  <2>3. ASSUME NEW i \in 1..Len(Tail(k))
        PROVE  /\ f[Len(more) + i].text = Edited(f[Len(more) + i - 1].text, Tail(k)[i])
               /\ Tail(k)[i] = "enter" =>
                    LineOf(g, f[0].nth, f[Len(more) + i - 1].nth).command
                      = f[Len(more) + i - 1].text
    <3>1. /\ i \in 1..Len(k) - 1 /\ i + 1 \in 1..Len(k) /\ Len(more) + i = n + (i + 1)
          /\ Len(more) + i - 1 = n + (i + 1) - 1
      BY <1>2, <1>3
    <3>2. Tail(k)[i] = k[i + 1]
      BY <1>2, <3>1
    <3> HIDE DEF n
    <3> QED
      BY <2>1, <3>1, <3>2
  <2> QED
    BY <1>3, <1>4, <2>1, <2>2, <2>3 DEF Editing
<1>9. Reading(f, more, g, known, kept)
  <2>1. /\ f[0].nth \in Nat /\ f[n].nth \in Nat /\ f[n + 1].nth \in Nat /\ f[0].nth <= f[n].nth
        /\ f[n + 1].nth = f[n].nth \/ f[n + 1].nth = f[n].nth + 1
    <3>1. f[n + 1].nth = f[n].nth \/ f[n + 1].nth = f[n].nth + 1
      BY <1>4, <1>6 DEF Expected
    <3>2. n + 1 \in 0..m
      BY <1>4
    <3> QED
      BY <1>1, <1>4, <3>1, <3>2, CourseIs DEF m
  <2>2. Head(k) = "enter" =>
          f[n + 1].nth = f[n].nth + 1 /\ LineOf(g, f[0].nth, f[n].nth).command = text
    <3>1. 1 \in 1..Len(k) /\ n + 1 - 1 = n
      BY <1>2, <1>3
    <3>2. k[1] = "enter" => LineOf(g, f[0].nth, f[n].nth).command = f[n].text
      BY <1>1, <3>1 DEF Editing
    <3>3. f[n].text = text
      BY <1>1 DEF Editing
    <3>4. Head(k) = "enter" => f[n + 1].nth = f[n].nth + 1
      BY <1>4, <1>6 DEF Expected, Ends
    <3> QED
      BY <1>2, <3>2, <3>3, <3>4
  <2>3. ASSUME NEW p \in 1..n + 1, more[p] = "newline"
        PROVE  LineOf(g, f[0].nth, f[p - 1].nth).command \in known
    <3>1. CASE p \in 1..n
      BY <1>1, <1>3, <2>3, <3>1 DEF Reading
    <3>2. CASE p = n + 1
      <4>1. Head(k) = "enter"
        BY <1>3, <2>3, <3>2, MarkerAssumption DEF Echoes
      <4> QED
        BY <1>4, <2>2, <3>2, <4>1
    <3>3. p \in 1..n \/ p = n + 1
      BY <1>3
    <3> QED
      BY <3>1, <3>2, <3>3
  <2>4. ASSUME NEW line \in known \ kept
        PROVE  \E x \in f[0].nth..f[n + 1].nth - 1 : LineOf(g, f[0].nth, x).command = line
    <3>1. CASE line \in seen
      <4>1. PICK x \in f[0].nth..f[n].nth - 1 : LineOf(g, f[0].nth, x).command = line
        BY <1>1, <3>1 DEF Reading
      <4>2. x \in f[0].nth..f[n + 1].nth - 1
        BY <2>1
      <4> QED
        BY <4>1, <4>2
    <3>2. CASE line \notin seen
      <4>1. Head(k) = "enter" /\ line = text
        BY <3>2
      <4>2. f[n].nth \in f[0].nth..f[n + 1].nth - 1
        BY <2>1, <2>2, <4>1
      <4> QED
        BY <2>2, <4>1, <4>2
    <3> QED
      BY <3>1, <3>2
  <2> QED
    BY <1>3, <2>3, <2>4 DEF Reading
<1> QED
  BY <1>7, <1>8, <1>9 DEF Course

\* What is expected at a point depends on where the points before and after it are.
LEMMA SameStep ==
  ASSUME NEW f, NEW item, NEW g, NEW q, Expected(f, item, g, q),
         NEW h, NEW p, h[0].nth = f[0].nth, h[0].got = f[0].got,
         h[p].nth = f[q].nth, h[p].got = f[q].got,
         h[p - 1].nth = f[q - 1].nth, h[p - 1].got = f[q - 1].got
  PROVE  Expected(h, item, g, p)
<1>1. Gone(h, f[q - 1].nth) = Gone(f, f[q - 1].nth)
  BY DEF Gone
<1> QED
  BY <1>1 DEF Expected

\* Course h is course f without the point after n; both are in the same place there.
Without(h, f, n, m) ==
  /\ h \in [0..m - 1 -> Stages]
  /\ \A p \in 0..m - 1 : /\ p < n => h[p] = f[p]
                         /\ p >= n => h[p] = f[p + 1]
  /\ f[n + 1].nth = f[n].nth /\ f[n + 1].got = f[n].got

\* The remote erases, with nothing to display.
LEMMA EraseUnechoed ==
  ASSUME NEW o \in Seq(Items), NEW k \in Seq(Typable), NEW g, GuardOK(g),
         NEW f, NEW text, NEW seen, NEW kept, Course(f, o, k, g, text, seen, kept),
         k # <<>>, Head(k) = "erase"
  PROVE  \E h : Course(h, o, Tail(k), g, Edited(text, "erase"), seen, kept)
<1> DEFINE m == Len(o) + Len(k)
           n == Len(o)
           h == [p \in 0..m - 1 |-> IF p < n THEN f[p] ELSE f[p + 1]]
<1>1. Echoing(f, o, k, g) /\ Editing(f, o, k, g, text) /\ Reading(f, o, g, seen, kept)
  BY DEF Course
<1>2. /\ Len(k) \in Nat \ {0} /\ k[1] = "erase" /\ Tail(k) \in Seq(Typable)
      /\ Len(Tail(k)) = Len(k) - 1 /\ \A i \in 1..Len(k) - 1 : Tail(k)[i] = k[i + 1]
  BY KeysLeft
<1>3. n \in Nat
  BY FlowIs
<1>4. m \in Nat /\ n + 1 \in 1..m /\ n \in 0..m - 1 /\ n + 1 - 1 = n /\ n + Len(Tail(k)) = m - 1
      /\ m - 1 + 1 = m /\ m - 1 \in 0..m - 1 /\ m - 1 >= n
  BY <1>2, <1>3
<1>5. Expected(f, "erase", g, n + 1)
  <2>1. 1 \in 1..Len(k)
    BY <1>2
  <2>2. Flow(o, k, n + 1) = "erase"
    BY <1>2, <2>1, FlowIs
  <2> QED
    BY <1>1, <1>4, <2>2, CourseIs
<1>6. Without(h, f, n, m)
  <2>1. f[n + 1].nth = f[n].nth /\ f[n + 1].got = f[n].got
    BY <1>4, <1>5, Classes DEF Expected
  <2>2. \A p \in 0..m : f[p] \in Stages
    BY <1>1, CourseIs
  <2>3. \A p \in 0..m - 1 : p \in 0..m /\ p + 1 \in 0..m /\ (p < n => ~(p >= n))
                             /\ (p >= n => ~(p < n))
    BY <1>3, <1>4
  <2> HIDE DEF m, n
  <2>4. h \in [0..m - 1 -> Stages]
    BY <2>2, <2>3
  <2> QED
    BY <2>1, <2>3, <2>4 DEF Without
<1> HIDE DEF h
<1>7. /\ \A p \in 0..n : h[p].nth = f[p].nth /\ h[p].got = f[p].got
      /\ \A p \in n..m - 1 : h[p] = f[p + 1]
  <2>1. ASSUME NEW p \in 0..n PROVE h[p].nth = f[p].nth /\ h[p].got = f[p].got
    <3> HIDE DEF n, m
    <3>1. n \in Nat /\ m \in Nat /\ n \in 0..m - 1
      BY <1>3, <1>4
    <3>2. p \in 0..m - 1
      BY <3>1
    <3>3. p < n \/ p = n
      BY <3>1
    <3>4. n >= n
      BY <3>1
    <3>5. CASE p < n
      BY <1>6, <3>2, <3>5 DEF Without
    <3>6. CASE p = n
      BY <1>6, <3>2, <3>4, <3>6 DEF Without
    <3> QED
      BY <3>3, <3>5, <3>6
  <2>2. \A p \in n..m - 1 : p \in 0..m - 1 /\ p >= n
    BY <1>3, <1>4
  <2> HIDE DEF n, m
  <2> QED
    BY <1>6, <2>1, <2>2 DEF Without
<1>8. 0 \in 0..n /\ h[0].nth = f[0].nth /\ h[0].got = f[0].got
  BY <1>3, <1>7
<1>9. \A x : Gone(h, x) = Gone(f, x)
  BY <1>8 DEF Gone
<1>10. h[m - 1] = f[m]
  <2>1. m - 1 \in n..m - 1
    BY <1>3, <1>4
  <2> QED
    BY <1>4, <1>7, <2>1
<1> HIDE DEF m
<1>11. Echoing(h, o, Tail(k), g)
  <2>1. ASSUME NEW p \in 1..m - 1 PROVE Expected(h, Flow(o, Tail(k), p), g, p)
    <3>1. CASE p <= n
      <4>1. p \in 1..m /\ p \in 0..n /\ p - 1 \in 0..n
        BY <1>3, <1>4, <3>1
      <4>2. Expected(f, Flow(o, k, p), g, p)
        BY <1>1, <4>1, CourseIs DEF m
      <4>3. Flow(o, Tail(k), p) = Flow(o, k, p)
        BY <3>1 DEF Flow
      <4> QED
        BY <1>7, <1>8, <4>1, <4>2, <4>3, SameStep
    <3>2. CASE p > n
      <4> DEFINE q == p + 1
      <4>1. /\ q \in 1..m /\ p \in n..m - 1 /\ p - 1 \in n..m - 1 /\ p - 1 + 1 = q - 1
            /\ ~(p <= n) /\ ~(q <= n) /\ p - n \in 1..Len(k) - 1 /\ p - n + 1 = q - n
        BY <1>3, <1>4, <3>2 DEF m
      <4>2. h[p] = f[q] /\ h[p - 1] = f[q - 1]
        BY <1>7, <4>1
      <4> HIDE DEF q
      <4>3. Expected(f, Flow(o, k, q), g, q)
        BY <1>1, <4>1, CourseIs DEF m
      <4>4. Flow(o, Tail(k), p) = Flow(o, k, q)
        BY <1>2, <4>1 DEF Flow
      <4> QED
        BY <1>8, <4>2, <4>3, <4>4, SameStep
    <3> QED
      BY <1>3, <3>1, <3>2
  <2>2. ASSUME NEW p \in 0..m - 1
        PROVE  h[0].nth <= h[p].nth /\ h[p].nth <= h[0].nth + Len(g.submitted)
    <3>1. p \in 0..m /\ p + 1 \in 0..m /\ (p \in 0..n \/ p \in n..m - 1)
      BY <1>3, <1>4
    <3>2. h[p].nth = f[p].nth \/ h[p].nth = f[p + 1].nth
      BY <1>7, <3>1
    <3>3. /\ f[0].nth <= f[p].nth /\ f[p].nth <= f[0].nth + Len(g.submitted)
          /\ f[0].nth <= f[p + 1].nth /\ f[p + 1].nth <= f[0].nth + Len(g.submitted)
      BY <1>1, <3>1, CourseIs DEF m
    <3> QED
      BY <1>8, <3>2, <3>3, Zenon
  <2>3. h[m - 1].nth = h[0].nth + Len(g.submitted)
        /\ h[m - 1].got - Gone(h, h[m - 1].nth) = Len(g.line.pending)
    BY <1>1, <1>8, <1>9, <1>10 DEF Echoing, m
  <2>4. h \in [0..m - 1 -> Stages]
    BY <1>6 DEF Without
  <2> QED
    BY <1>4, <2>1, <2>2, <2>3, <2>4 DEF Echoing
<1>12. Editing(h, o, Tail(k), g, Edited(text, "erase"))
  <2>1. /\ f[n].text = text /\ f[m].text = g.line.command
        /\ \A i \in 1..Len(k) :
             /\ f[n + i].text = Edited(f[n + i - 1].text, k[i])
             /\ k[i] = "enter" =>
                  LineOf(g, f[0].nth, f[n + i - 1].nth).command = f[n + i - 1].text
    BY <1>1 DEF Editing, m
  <2>2. h[n].text = Edited(text, "erase")
    <3>1. 1 \in 1..Len(k) /\ n \in n..m - 1
      BY <1>2, <1>3, <1>4
    <3>2. h[n] = f[n + 1] /\ f[n + 1].text = Edited(f[n + 1 - 1].text, k[1])
      BY <1>7, <2>1, <3>1
    <3> QED
      BY <1>2, <1>4, <2>1, <3>2
  <2>3. ASSUME NEW i \in 1..Len(Tail(k))
        PROVE  /\ h[n + i].text = Edited(h[n + i - 1].text, Tail(k)[i])
               /\ Tail(k)[i] = "enter" =>
                    LineOf(g, h[0].nth, h[n + i - 1].nth).command = h[n + i - 1].text
    <3>1. /\ i \in 1..Len(k) - 1 /\ i + 1 \in 1..Len(k) /\ n + i + 1 = n + (i + 1)
          /\ n + i - 1 + 1 = n + (i + 1) - 1 /\ n + i \in n..m - 1 /\ n + i - 1 \in n..m - 1
      BY <1>2, <1>3 DEF m
    <3>2. Tail(k)[i] = k[i + 1]
      BY <1>2, <3>1
    <3> HIDE DEF n
    <3>3. h[n + i] = f[n + (i + 1)] /\ h[n + i - 1] = f[n + (i + 1) - 1]
      BY <1>7, <3>1
    <3> QED
      BY <1>8, <2>1, <3>1, <3>2, <3>3
  <2> QED
    BY <1>4, <1>10, <2>1, <2>2, <2>3 DEF Editing
<1>13. Reading(h, o, g, seen, kept)
  <2>1. \A p \in 1..n : p - 1 \in 0..n
    BY <1>3
  <2>2. n \in 0..n
    BY <1>3
  <2> QED
    BY <1>1, <1>7, <1>8, <2>1, <2>2 DEF Reading
<1> QED
  BY <1>11, <1>12, <1>13 DEF Course

\* Course h is course f with a point after n, in the same place.
With(h, f, n, m) ==
  /\ h \in [0..m + 1 -> Stages]
  /\ \A p \in 0..n : h[p] = f[p]
  /\ \A p \in n..m : h[p + 1] = f[p]

\* The program prints what no line awaits.
LEMMA ItemPrinted ==
  ASSUME NEW o \in Seq(Items), NEW k \in Seq(Typable), NEW g, GuardOK(g),
         NEW f, NEW text, NEW seen, NEW kept, Course(f, o, k, g, text, seen, kept),
         NEW item, item \notin Chars \cup Ends, NEW more, Displays(more, o, item)
  PROVE  \E h : Course(h, more, k, g, text, seen, kept)
<1> DEFINE m == Len(o) + Len(k)
           n == Len(o)
           h == [p \in 0..m + 1 |-> IF p <= n THEN f[p] ELSE f[p - 1]]
<1>1. Echoing(f, o, k, g) /\ Editing(f, o, k, g, text) /\ Reading(f, o, g, seen, kept)
  BY DEF Course
<1>2. n \in Nat /\ Len(k) \in Nat /\ Len(more) = n + 1 /\ more[n + 1] = item
        /\ \A i \in 1..n : more[i] = o[i]
  BY FlowIs DEF Displays
<1>3. m \in Nat /\ n \in 0..m /\ m \in n..m /\ n + 1 + Len(k) = m + 1 /\ 0 \in 0..n
  BY <1>2
<1>4. With(h, f, n, m)
  <2>1. \A p \in 0..m : f[p] \in Stages
    BY <1>1, CourseIs
  <2> HIDE DEF m, n
  <2>2. \A p \in 0..m + 1 : /\ p <= n => p \in 0..m
                            /\ ~(p <= n) => p - 1 \in 0..m
    BY <1>2, <1>3
  <2>3. \A p \in 0..n : p \in 0..m + 1 /\ p <= n
    BY <1>2, <1>3
  <2>4. \A p \in n..m : p + 1 \in 0..m + 1 /\ ~(p + 1 <= n) /\ p + 1 - 1 = p
    BY <1>2, <1>3
  <2>5. h \in [0..m + 1 -> Stages]
    BY <2>1, <2>2
  <2>6. \A p \in 0..n : h[p] = f[p]
    BY <2>3
  <2>7. \A p \in n..m : h[p + 1] = f[p]
    BY <2>4
  <2> QED
    BY <2>5, <2>6, <2>7 DEF With
<1> HIDE DEF h
<1>5. /\ \A p \in 0..n : h[p] = f[p]
      /\ \A p \in n..m : h[p + 1] = f[p]
  BY <1>4 DEF With
<1>6. h[0] = f[0] /\ h[n] = f[n] /\ h[n + 1] = f[n] /\ h[m + 1] = f[m]
  <2>1. n \in 0..n /\ n \in n..m
    BY <1>2, <1>3
  <2> QED
    BY <1>3, <1>5, <2>1
<1>7. \A x : Gone(h, x) = Gone(f, x)
  BY <1>6 DEF Gone
<1> HIDE DEF m
<1>8. Echoing(h, more, k, g)
  <2>1. ASSUME NEW p \in 1..m + 1 PROVE Expected(h, Flow(more, k, p), g, p)
    <3>1. CASE p <= n
      <4>1. p \in 1..m /\ p \in 1..n /\ p \in 0..n /\ p - 1 \in 0..n /\ p <= n + 1
        BY <1>2, <1>3, <3>1
      <4>2. Expected(f, Flow(o, k, p), g, p)
        BY <1>1, <4>1, CourseIs DEF m
      <4>3. Flow(more, k, p) = Flow(o, k, p)
        BY <1>2, <3>1, <4>1 DEF Flow
      <4> QED
        BY <1>5, <1>6, <4>1, <4>2, <4>3, SameStep
    <3>2. CASE p = n + 1
      <4>1. Flow(more, k, p) = item /\ p - 1 = n
        BY <1>2, <3>2 DEF Flow
      <4> QED
        BY <1>6, <3>2, <4>1 DEF Expected
    <3>3. CASE p > n + 1
      <4> DEFINE q == p - 1
      <4>1. /\ q \in 1..m /\ q \in n..m /\ q - 1 \in n..m /\ q + 1 = p /\ q - 1 + 1 = p - 1
            /\ ~(q <= n) /\ ~(p <= n + 1) /\ p - (n + 1) = q - n
        BY <1>2, <1>3, <3>3
      <4> HIDE DEF q
      <4>2. h[p] = f[q] /\ h[p - 1] = f[q - 1]
        BY <1>5, <4>1
      <4>3. Expected(f, Flow(o, k, q), g, q)
        BY <1>1, <4>1, CourseIs DEF m
      <4>4. Flow(more, k, p) = Flow(o, k, q)
        BY <1>2, <4>1 DEF Flow
      <4> QED
        BY <1>6, <4>2, <4>3, <4>4, SameStep
    <3> QED
      BY <1>2, <3>1, <3>2, <3>3
  <2>2. ASSUME NEW p \in 0..m + 1
        PROVE  h[0].nth <= h[p].nth /\ h[p].nth <= h[0].nth + Len(g.submitted)
    <3>1. PICK q \in 0..m : h[p] = f[q]
      <4>1. p \in 0..n \/ p - 1 \in n..m
        BY <1>2, <1>3
      <4>2. CASE p \in 0..n
        <5>1. p \in 0..m
          BY <1>2, <1>3, <4>2
        <5> QED
          BY <1>5, <4>2, <5>1
      <4>3. CASE p - 1 \in n..m
        <5>1. p - 1 \in 0..m /\ p - 1 + 1 = p
          BY <1>2, <1>3, <4>3
        <5>2. h[p - 1 + 1] = f[p - 1]
          BY <1>5, <4>3
        <5> QED
          BY <5>1, <5>2
      <4> QED
        BY <4>1, <4>2, <4>3
    <3>2. f[0].nth <= f[q].nth /\ f[q].nth <= f[0].nth + Len(g.submitted)
      BY <1>1, CourseIs DEF m
    <3> QED
      BY <1>6, <3>1, <3>2, Zenon
  <2>3. h[m + 1].nth = h[0].nth + Len(g.submitted)
        /\ h[m + 1].got - Gone(h, h[m + 1].nth) = Len(g.line.pending)
    BY <1>1, <1>6, <1>7 DEF Echoing, m
  <2>4. h \in [0..m + 1 -> Stages]
    BY <1>4 DEF With
  <2> QED
    BY <1>2, <1>3, <2>1, <2>2, <2>3, <2>4 DEF Echoing
<1>9. Editing(h, more, k, g, text)
  <2>1. /\ f[n].text = text /\ f[m].text = g.line.command
        /\ \A i \in 1..Len(k) :
             /\ f[n + i].text = Edited(f[n + i - 1].text, k[i])
             /\ k[i] = "enter" =>
                  LineOf(g, f[0].nth, f[n + i - 1].nth).command = f[n + i - 1].text
    BY <1>1 DEF Editing, m
  <2>2. ASSUME NEW i \in 1..Len(k)
        PROVE  /\ h[n + 1 + i].text = Edited(h[n + 1 + i - 1].text, k[i])
               /\ k[i] = "enter" =>
                    LineOf(g, h[0].nth, h[n + 1 + i - 1].nth).command = h[n + 1 + i - 1].text
    <3>1. /\ n + i \in n..m /\ n + i - 1 \in n..m
          /\ n + 1 + i = n + i + 1 /\ n + 1 + i - 1 = n + i - 1 + 1
      BY <1>2 DEF m
    <3> HIDE DEF n
    <3>2. h[n + 1 + i] = f[n + i] /\ h[n + 1 + i - 1] = f[n + i - 1]
      BY <1>5, <3>1
    <3> QED
      BY <1>6, <2>1, <3>2
  <2> QED
    BY <1>2, <1>3, <1>6, <2>1, <2>2 DEF Editing
<1>10. Reading(h, more, g, seen, kept)
  <2>1. ASSUME NEW p \in 1..n + 1, more[p] = "newline"
        PROVE  LineOf(g, h[0].nth, h[p - 1].nth).command \in seen
    <3>1. p \in 1..n \/ p = n + 1
      BY <1>2
    <3>2. p # n + 1
      BY <1>2, <2>1 DEF Ends
    <3>3. p \in 1..n /\ p - 1 \in 0..n
      BY <1>2, <3>1, <3>2
    <3> QED
      BY <1>1, <1>2, <1>5, <1>6, <2>1, <3>3 DEF Reading
  <2> QED
    BY <1>1, <1>2, <1>6, <2>1 DEF Reading
<1> QED
  BY <1>8, <1>9, <1>10 DEF Course

\* A course goes on: to the next line, or further in the same one.
LEMMA CourseGoesOn ==
  ASSUME NEW o \in Seq(Items), NEW k \in Seq(Typable), NEW g, GuardOK(g),
         NEW f, Echoing(f, o, k, g), NEW m, m = Len(o) + Len(k), NEW p \in 1..m
  PROVE  f[1].nth <= f[p].nth /\ (f[p].nth = f[1].nth => f[1].got <= f[p].got)
<1> DEFINE Earlier == OpToRel(<, Nat)
           Ahead(q) == f[1].nth <= f[q].nth /\ (f[q].nth = f[1].nth => f[1].got <= f[q].got)
           Behind == {q \in 1..m : ~Ahead(q)}
<1>1. \A d \in Nat, e \in Nat : <<e, d>> \in Earlier <=> e < d
  BY DEF OpToRel
<1>2. IsWellFoundedOn(Earlier, Nat)
  BY NatLessThanWellFounded
<1>3. m \in Nat /\ \A q \in 0..m : f[q].nth \in Nat /\ f[q].got \in Nat
  BY CourseIs
<1>4. Ahead(1)
  <2>1. 1 \in 0..m
    BY <1>3
  <2>2. f[1].nth \in Nat /\ f[1].got \in Nat
    BY <1>3, <2>1
  <2> QED
    BY <2>2
<1>5. ASSUME NEW q \in 2..m, Ahead(q - 1) PROVE Ahead(q)
  <2>1. q \in 1..m /\ q \in 0..m /\ q - 1 \in 0..m /\ 1 \in 0..m
    BY <1>3
  <2>2. Expected(f, Flow(o, k, q), g, q)
    BY <2>1, CourseIs
  <2>3. \/ f[q].nth = f[q - 1].nth + 1
        \/ f[q].nth = f[q - 1].nth /\ f[q].got = f[q - 1].got + 1
        \/ f[q].nth = f[q - 1].nth /\ f[q].got = f[q - 1].got
    BY <2>2 DEF Expected
  <2>4. /\ f[q].nth \in Nat /\ f[q].got \in Nat /\ f[q - 1].nth \in Nat /\ f[q - 1].got \in Nat
        /\ f[1].nth \in Nat /\ f[1].got \in Nat
    BY <1>3, <2>1
  <2>5. f[1].nth <= f[q - 1].nth /\ (f[q - 1].nth = f[1].nth => f[1].got <= f[q - 1].got)
    BY <1>5
  <2> DEFINE a == f[1].nth
             b == f[1].got
             c == f[q - 1].nth
             d == f[q - 1].got
             x == f[q].nth
             y == f[q].got
  <2>6. /\ x \in Nat /\ y \in Nat /\ c \in Nat /\ d \in Nat /\ a \in Nat /\ b \in Nat
        /\ \/ x = c + 1
           \/ x = c /\ y = d + 1
           \/ x = c /\ y = d
        /\ a <= c /\ (c = a => b <= d)
    BY <2>3, <2>4, <2>5
  <2> HIDE DEF a, b, c, d, x, y
  <2>7. a <= x /\ (x = a => b <= y)
    BY <2>6
  <2> QED
    BY <2>7 DEF a, b, x, y
<1> HIDE DEF Earlier, Ahead
<1>6. Behind = {}
  <2> SUFFICES ASSUME Behind # {} PROVE FALSE
    OBVIOUS
  <2>1. Behind \subseteq Nat
    BY <1>3
  <2>2. PICK q \in Behind : \A e \in Behind : ~(<<e, q>> \in Earlier)
    BY <1>2, <2>1, WFMin
  <2>3. q \in 1..m /\ ~Ahead(q) /\ q # 1
    BY <1>4
  <2>4. q \in 2..m /\ q - 1 \in 1..m /\ q - 1 \in Nat /\ q \in Nat /\ q - 1 < q
    BY <1>3, <2>3
  <2>5. Ahead(q - 1)
    BY <1>1, <2>2, <2>4
  <2> QED
    BY <1>5, <2>3, <2>4, <2>5
<1> QED
  BY <1>6 DEF Ahead

\* Course h is course f from its first point on.
Shifted(h, f, m) ==
  h \in [0..m - 1 -> Stages] /\ \A p \in 0..m - 1 : h[p] = f[p + 1]

\* What line x awaits from a point on is what it awaited without what has gone by.
AwaitsRest(new, old, gone, before) ==
  /\ new.command = old.command
  /\ gone \in Nat /\ before \in Nat /\ Len(new.pending) + gone = Len(old.pending) + before
  /\ \A j \in 1..Len(new.pending) : new.pending[j] = old.pending[j + gone - before]

Keeps(h, f, after, g) ==
  /\ h[0].nth + Len(after.submitted) = f[0].nth + Len(g.submitted)
  /\ f[0].nth <= h[0].nth
  /\ \A x \in h[0].nth..f[0].nth + Len(g.submitted) :
       AwaitsRest(LineOf(after, h[0].nth, x), LineOf(g, f[0].nth, x), Gone(h, x), Gone(f, x))

\* The lines of which the end has been seen are recorded.
Records(h, f, g, more) ==
  \A x \in f[0].nth..h[0].nth - 1 : LineOf(g, f[0].nth, x).command \in more

LEMMA ShiftedIs ==
  ASSUME NEW o \in Seq(Items), NEW k \in Seq(Typable), o # <<>>, NEW g, GuardOK(g),
         NEW f, Echoing(f, o, k, g), NEW m, m = Len(o) + Len(k),
         NEW after, GuardOK(after), NEW h, Shifted(h, f, m), Keeps(h, f, after, g)
  PROVE  /\ m \in Nat \ {0} /\ Len(Tail(o)) + Len(k) = m - 1
         /\ \A p \in 1..m - 1 : Flow(Tail(o), k, p) = Flow(o, k, p + 1)
         /\ h[0] = f[1] /\ h[m - 1] = f[m]
         /\ \A p \in 0..m - 1 :
              /\ h[p] = f[p + 1] /\ h[p] \in Stages /\ h[p].nth \in Nat /\ h[p].got \in Nat
              /\ h[0].nth <= h[p].nth /\ h[p].nth <= f[0].nth + Len(g.submitted)
              /\ Gone(h, h[p].nth) <= h[p].got
<1>1. /\ Len(o) \in Nat \ {0} /\ Len(k) \in Nat /\ Len(Tail(o)) = Len(o) - 1
      /\ \A i \in 1..Len(o) - 1 : Tail(o)[i] = o[i + 1]
  BY KeysLeft, FlowIs
<1>2. m \in Nat \ {0} /\ Len(Tail(o)) + Len(k) = m - 1 /\ 0 \in 0..m - 1 /\ m - 1 \in 0..m - 1
      /\ m - 1 + 1 = m /\ 0 + 1 = 1
  BY <1>1
<1>3. ASSUME NEW p \in 1..m - 1 PROVE Flow(Tail(o), k, p) = Flow(o, k, p + 1)
  <2>1. CASE p <= Len(o) - 1
    <3>1. p \in 1..Len(o) - 1 /\ p + 1 <= Len(o)
      BY <1>1, <1>2, <2>1
    <3> QED
      BY <1>1, <2>1, <3>1 DEF Flow
  <2>2. CASE ~(p <= Len(o) - 1)
    <3>1. ~(p + 1 <= Len(o)) /\ p + 1 - Len(o) = p - (Len(o) - 1)
      BY <1>1, <1>2, <2>2
    <3> QED
      BY <1>1, <2>2, <3>1 DEF Flow
  <2> QED
    BY <2>1, <2>2
<1>4. \A p \in 0..m - 1 : h[p] = f[p + 1]
  BY DEF Shifted
<1>5. h[0] = f[1] /\ h[m - 1] = f[m]
  BY <1>2, <1>4
<1>6. ASSUME NEW p \in 0..m - 1
      PROVE  /\ h[p] = f[p + 1] /\ h[p] \in Stages /\ h[p].nth \in Nat /\ h[p].got \in Nat
             /\ h[0].nth <= h[p].nth /\ h[p].nth <= f[0].nth + Len(g.submitted)
             /\ Gone(h, h[p].nth) <= h[p].got
  <2> DEFINE q == p + 1
  <2>1. q \in 1..m /\ q \in 0..m
    BY <1>2
  <2>2. h[p] = f[q]
    BY <1>4
  <2> HIDE DEF q
  <2>3. /\ f[q] \in Stages /\ f[q].nth \in Nat /\ f[q].got \in Nat
        /\ f[q].nth <= f[0].nth + Len(g.submitted)
    BY <2>1, CourseIs
  <2>4. f[1].nth <= f[q].nth /\ (f[q].nth = f[1].nth => f[1].got <= f[q].got)
    BY <2>1, CourseGoesOn
  <2>5. Gone(h, h[p].nth) <= h[p].got
    BY <1>5, <2>2, <2>3, <2>4 DEF Gone
  <2> QED
    BY <1>5, <2>2, <2>3, <2>4, <2>5 DEF q
<1> QED
  BY <1>2, <1>3, <1>5, <1>6

LEMMA EchoingObserved ==
  ASSUME NEW o \in Seq(Items), NEW k \in Seq(Typable), o # <<>>, NEW g, GuardOK(g),
         NEW f, Echoing(f, o, k, g), NEW m, m = Len(o) + Len(k),
         NEW after, GuardOK(after), NEW h, Shifted(h, f, m), Keeps(h, f, after, g)
  PROVE  Echoing(h, Tail(o), k, after)
<1>1. /\ m \in Nat \ {0} /\ Len(Tail(o)) + Len(k) = m - 1
      /\ \A p \in 1..m - 1 : Flow(Tail(o), k, p) = Flow(o, k, p + 1)
      /\ h[0] = f[1] /\ h[m - 1] = f[m]
      /\ \A p \in 0..m - 1 :
           /\ h[p] = f[p + 1] /\ h[p] \in Stages /\ h[p].nth \in Nat /\ h[p].got \in Nat
           /\ h[0].nth <= h[p].nth /\ h[p].nth <= f[0].nth + Len(g.submitted)
           /\ Gone(h, h[p].nth) <= h[p].got
  <2>1. m \in Nat \ {0} /\ Len(Tail(o)) + Len(k) = m - 1
    BY ShiftedIs
  <2>2. \A p \in 1..m - 1 : Flow(Tail(o), k, p) = Flow(o, k, p + 1)
    BY ShiftedIs
  <2>3. h[0] = f[1] /\ h[m - 1] = f[m]
    BY ShiftedIs
  <2>4. \A p \in 0..m - 1 :
           /\ h[p] = f[p + 1] /\ h[p] \in Stages /\ h[p].nth \in Nat /\ h[p].got \in Nat
           /\ h[0].nth <= h[p].nth /\ h[p].nth <= f[0].nth + Len(g.submitted)
           /\ Gone(h, h[p].nth) <= h[p].got
    BY ShiftedIs
  <2> QED
    BY <2>1, <2>2, <2>3, <2>4, Zenon
<1>2. /\ h[0].nth + Len(after.submitted) = f[0].nth + Len(g.submitted)
      /\ \A x \in h[0].nth..f[0].nth + Len(g.submitted) :
           AwaitsRest(LineOf(after, h[0].nth, x), LineOf(g, f[0].nth, x), Gone(h, x), Gone(f, x))
  BY DEF Keeps
<1>3. f[0].nth \in Nat /\ Len(g.submitted) \in Nat /\ Len(after.submitted) \in Nat
      /\ h[0].nth \in Nat
  <2>1. f[0].nth \in Nat /\ Len(g.submitted) \in Nat
    BY CourseIs
  <2>2. Len(after.submitted) \in Nat
    BY <2>1, LinesOf
  <2>3. 0 \in 0..m - 1
    BY <1>1
  <2> QED
    BY <1>1, <2>1, <2>2, <2>3
<1>4. ASSUME NEW x \in Nat, h[0].nth <= x, x <= f[0].nth + Len(g.submitted)
      PROVE  /\ AwaitsRest(LineOf(after, h[0].nth, x), LineOf(g, f[0].nth, x),
                           Gone(h, x), Gone(f, x))
             /\ Len(LineOf(after, h[0].nth, x).pending) \in Nat
             /\ Len(LineOf(g, f[0].nth, x).pending) \in Nat
  <2>1. AwaitsRest(LineOf(after, h[0].nth, x), LineOf(g, f[0].nth, x), Gone(h, x), Gone(f, x))
    <3>1. x \in h[0].nth..f[0].nth + Len(g.submitted)
      BY <1>3, <1>4
    <3> QED
      BY <1>2, <3>1
  <2>2. f[0].nth <= x
    BY <1>3, <1>4 DEF Keeps
  <2>3. LineOf(after, h[0].nth, x) \in Lines /\ LineOf(g, f[0].nth, x) \in Lines
    BY <1>3, <1>4, <2>2, LinesOf
  <2> QED
    BY <2>1, <2>3, LenProperties DEF Lines
<1>5. ASSUME NEW p \in 1..m - 1, NEW item, Expected(f, item, g, p + 1)
      PROVE  Expected(h, item, after, p)
  <2> DEFINE x == h[p - 1].nth
             old == LineOf(g, f[0].nth, x).pending
             new == LineOf(after, h[0].nth, x).pending
             before == Gone(f, x)
             gone == Gone(h, x)
             was == h[p - 1].got
             got == h[p].got
  <2>1. p - 1 \in 0..m - 1 /\ p \in 0..m - 1 /\ p - 1 + 1 = p + 1 - 1
    BY <1>1
  <2>2. h[p] = f[p + 1] /\ h[p - 1] = f[p + 1 - 1]
    BY <1>1, <2>1
  <2>3. /\ x \in Nat /\ h[0].nth <= x /\ x <= f[0].nth + Len(g.submitted)
        /\ was \in Nat /\ got \in Nat /\ gone <= was
    BY <1>1, <2>1
  <2>4. /\ gone \in Nat /\ before \in Nat /\ Len(new) + gone = Len(old) + before
        /\ \A j \in 1..Len(new) : new[j] = old[j + gone - before]
        /\ Len(new) \in Nat /\ Len(old) \in Nat
    <3> HIDE DEF x
    <3> QED
      BY <1>4, <2>3 DEF AwaitsRest
  <2>5. /\ item \in Chars =>
             /\ h[p].nth = x /\ got = was + 1
             /\ got - before \in 1..Len(old)
             /\ old[got - before] = item
        /\ item \in Ends =>
             /\ h[p].nth = x + 1 /\ got = 0
             /\ x < f[0].nth + Len(g.submitted)
             /\ was - before = Len(old)
        /\ item \notin Chars \cup Ends => h[p].nth = x /\ got = was
    BY <1>5, <2>2 DEF Expected
  <2> HIDE DEF x, old, new, gone, before, was, got
  <2>6. ASSUME item \in Chars
        PROVE  got - gone \in 1..Len(new) /\ new[got - gone] = item
    <3>1. got = was + 1 /\ got - before \in 1..Len(old) /\ old[got - before] = item
      BY <2>5, <2>6
    <3> DEFINE j == got - gone
    <3>2. j \in 1..Len(new) /\ j + gone - before = got - before
      BY <2>3, <2>4, <3>1
    <3> HIDE DEF j
    <3>3. new[j] = old[got - before]
      BY <2>4, <3>2
    <3> QED
      BY <3>1, <3>2, <3>3 DEF j
  <2>7. ASSUME item \in Ends
        PROVE  x < h[0].nth + Len(after.submitted) /\ was - gone = Len(new)
    <3>1. was - before = Len(old) /\ x < f[0].nth + Len(g.submitted)
      BY <2>5, <2>7
    <3>2. was - gone = Len(new)
      BY <2>3, <2>4, <3>1
    <3> QED
      BY <1>2, <3>1, <3>2
  <2>8. /\ item \in Chars =>
             /\ h[p].nth = x /\ got = was + 1
             /\ got - gone \in 1..Len(new)
             /\ new[got - gone] = item
        /\ item \in Ends =>
             /\ h[p].nth = x + 1 /\ got = 0
             /\ x < h[0].nth + Len(after.submitted)
             /\ was - gone = Len(new)
        /\ item \notin Chars \cup Ends => h[p].nth = x /\ got = was
    BY <2>5, <2>6, <2>7
  <2> QED
    BY <2>8 DEF Expected, x, new, gone, was, got
<1>6. ASSUME NEW p \in 1..m - 1 PROVE Expected(h, Flow(Tail(o), k, p), after, p)
  <2>1. p + 1 \in 1..m
    BY <1>1
  <2>2. Expected(f, Flow(o, k, p + 1), g, p + 1)
    BY <2>1 DEF Echoing
  <2> QED
    BY <1>1, <1>5, <2>2
<1>7. \A p \in 0..m - 1 : h[0].nth <= h[p].nth /\ h[p].nth <= h[0].nth + Len(after.submitted)
  BY <1>1, <1>2
<1>8. /\ h[m - 1].nth = h[0].nth + Len(after.submitted)
      /\ h[m - 1].got - Gone(h, h[m - 1].nth) = Len(after.line.pending)
  <2> DEFINE x == f[m].nth
  <2>1. x = f[0].nth + Len(g.submitted) /\ f[m].got - Gone(f, x) = Len(g.line.pending)
    BY DEF Echoing
  <2>2. m \in 0..m
    BY <1>1
  <2>3. x \in Nat /\ f[m].got \in Nat /\ x = h[0].nth + Len(after.submitted)
    BY <1>2, <2>1, <2>2, CourseIs
  <2> HIDE DEF x
  <2>4. LineOf(g, f[0].nth, x) = g.line /\ LineOf(after, h[0].nth, x) = after.line
    BY <1>3, <2>1, <2>3, LinesOf
  <2>5. /\ AwaitsRest(LineOf(after, h[0].nth, x), LineOf(g, f[0].nth, x), Gone(h, x), Gone(f, x))
        /\ Len(after.line.pending) \in Nat /\ Len(g.line.pending) \in Nat
    <3>1. h[0].nth <= x /\ x <= f[0].nth + Len(g.submitted)
      BY <1>3, <2>1, <2>3
    <3> QED
      BY <1>4, <2>3, <2>4, <3>1
  <2>6. /\ Gone(h, x) \in Nat /\ Gone(f, x) \in Nat
        /\ Len(after.line.pending) + Gone(h, x) = Len(g.line.pending) + Gone(f, x)
    BY <2>4, <2>5 DEF AwaitsRest
  <2> DEFINE got == f[m].got
             before == Gone(f, x)
             gone == Gone(h, x)
             old == Len(g.line.pending)
             new == Len(after.line.pending)
  <2>7. got - gone = new
    <3>1. /\ got \in Nat /\ before \in Nat /\ gone \in Nat /\ old \in Nat /\ new \in Nat
          /\ got - before = old /\ new + gone = old + before
      BY <2>1, <2>3, <2>5, <2>6
    <3> HIDE DEF got, before, gone, old, new
    <3> QED
      BY <3>1
  <2> QED
    BY <1>1, <2>3, <2>7 DEF x
<1> QED
  BY <1>1, <1>6, <1>7, <1>8 DEF Echoing, Shifted

LEMMA EditingObserved ==
  ASSUME NEW o \in Seq(Items), NEW k \in Seq(Typable), o # <<>>, NEW g, GuardOK(g),
         NEW f, Echoing(f, o, k, g), NEW m, m = Len(o) + Len(k),
         NEW text, Editing(f, o, k, g, text),
         NEW after, GuardOK(after), NEW h, Shifted(h, f, m), Keeps(h, f, after, g)
  PROVE  Editing(h, Tail(o), k, after, text)
<1> DEFINE n == Len(o)
<1>1. n \in Nat \ {0} /\ Len(k) \in Nat /\ Len(Tail(o)) = n - 1
  BY KeysLeft, FlowIs
<1>2. /\ m \in Nat \ {0} /\ n - 1 + Len(k) = m - 1 /\ m = n + Len(k)
      /\ h[0] = f[1] /\ h[m - 1] = f[m]
      /\ \A p \in 0..m - 1 :
           /\ h[p] = f[p + 1] /\ h[p].nth \in Nat
           /\ h[0].nth <= h[p].nth /\ h[p].nth <= f[0].nth + Len(g.submitted)
  <2>1. m \in Nat \ {0} /\ n - 1 + Len(k) = m - 1
    BY <1>1
  <2> QED
    BY <2>1, ShiftedIs
<1>3. f[0].nth \in Nat /\ h[0].nth \in Nat /\ Len(g.submitted) \in Nat
  <2>1. 0 \in 0..m - 1
    BY <1>2
  <2> QED
    BY <1>2, <2>1, CourseIs
<1>4. /\ f[n].text = text /\ f[m].text = g.line.command
      /\ \A i \in 1..Len(k) :
           /\ f[n + i].text = Edited(f[n + i - 1].text, k[i])
           /\ k[i] = "enter" =>
                LineOf(g, f[0].nth, f[n + i - 1].nth).command = f[n + i - 1].text
  BY DEF Editing
<1>5. ASSUME NEW x \in h[0].nth..f[0].nth + Len(g.submitted)
      PROVE  LineOf(after, h[0].nth, x).command = LineOf(g, f[0].nth, x).command
  BY <1>5 DEF Keeps, AwaitsRest
<1> HIDE DEF n
<1>6. h[n - 1].text = text
  <2>1. n - 1 \in 0..m - 1 /\ n - 1 + 1 = n
    BY <1>1, <1>2
  <2> QED
    BY <1>2, <1>4, <2>1
<1>7. ASSUME NEW i \in 1..Len(k)
      PROVE  /\ h[n - 1 + i].text = Edited(h[n - 1 + i - 1].text, k[i])
             /\ k[i] = "enter" =>
                  LineOf(after, h[0].nth, h[n - 1 + i - 1].nth).command = h[n - 1 + i - 1].text
  <2> DEFINE q == n - 1 + i
             x == h[q - 1].nth
  <2>1. /\ q \in 0..m - 1 /\ q - 1 \in 0..m - 1 /\ q + 1 = n + i /\ q - 1 + 1 = n + i - 1
        /\ n - 1 + i = q /\ n - 1 + i - 1 = q - 1
    BY <1>1, <1>2
  <2> HIDE DEF q
  <2>2. h[q] = f[n + i] /\ h[q - 1] = f[n + i - 1]
    BY <1>2, <2>1
  <2>3. x \in h[0].nth..f[0].nth + Len(g.submitted)
    <3>1. x \in Nat /\ h[0].nth <= x /\ x <= f[0].nth + Len(g.submitted)
      BY <1>2, <2>1
    <3> HIDE DEF x
    <3> QED
      BY <1>3, <3>1
  <2>4. LineOf(after, h[0].nth, x).command = LineOf(g, f[0].nth, x).command
    BY <1>5, <2>3
  <2>5. /\ h[q].text = Edited(h[q - 1].text, k[i])
        /\ k[i] = "enter" => LineOf(after, h[0].nth, h[q - 1].nth).command = h[q - 1].text
    BY <1>4, <2>2, <2>4
  <2> QED
    BY <2>1, <2>5, Zenon
<1>8. h[n - 1 + Len(k)].text = after.line.command
  <2>1. m \in 0..m /\ m - 1 \in 0..m - 1
    BY <1>2
  <2> DEFINE x == f[m].nth
  <2>2. x = f[0].nth + Len(g.submitted) /\ x \in Nat
    BY <2>1, CourseIs DEF Echoing
  <2>3. x = h[0].nth + Len(after.submitted) /\ h[0].nth <= x
    BY <1>2, <2>1, <2>2 DEF Keeps
  <2> HIDE DEF x
  <2>4. LineOf(g, f[0].nth, x) = g.line /\ LineOf(after, h[0].nth, x) = after.line
    BY <1>3, <2>2, <2>3, LinesOf
  <2>5. x \in h[0].nth..f[0].nth + Len(g.submitted)
    BY <1>3, <2>2, <2>3
  <2>6. after.line.command = g.line.command
    BY <1>5, <2>4, <2>5
  <2> QED
    BY <1>2, <1>4, <2>6
<1> QED
  BY <1>1, <1>6, <1>7, <1>8 DEF Editing

LEMMA ReadingObserved ==
  ASSUME NEW o \in Seq(Items), NEW k \in Seq(Typable), o # <<>>, NEW g, GuardOK(g),
         NEW f, Echoing(f, o, k, g), NEW m, m = Len(o) + Len(k),
         NEW seen, NEW kept, Reading(f, o, g, seen, kept),
         NEW after, GuardOK(after), NEW h, Shifted(h, f, m), Keeps(h, f, after, g),
         NEW more, kept \subseteq more, Records(h, f, g, more)
  PROVE  Reading(h, Tail(o), after, seen, more)
<1> DEFINE n == Len(o)
<1>1. n \in Nat \ {0} /\ Len(k) \in Nat /\ Len(Tail(o)) = n - 1
      /\ \A i \in 1..n - 1 : Tail(o)[i] = o[i + 1]
  BY KeysLeft, FlowIs
<1>2. /\ m \in Nat \ {0} /\ m = n + Len(k) /\ h[0] = f[1]
      /\ \A p \in 0..m - 1 :
           /\ h[p] = f[p + 1] /\ h[p].nth \in Nat
           /\ h[0].nth <= h[p].nth /\ h[p].nth <= f[0].nth + Len(g.submitted)
  <2>1. m \in Nat \ {0}
    BY <1>1
  <2> QED
    BY <2>1, ShiftedIs
<1>3. f[0].nth \in Nat /\ h[0].nth \in Nat /\ Len(g.submitted) \in Nat /\ f[0].nth <= h[0].nth
  <2>1. 0 \in 0..m - 1
    BY <1>2
  <2> QED
    BY <1>2, <2>1, CourseIs DEF Keeps
<1>4. ASSUME NEW x \in h[0].nth..f[0].nth + Len(g.submitted)
      PROVE  LineOf(after, h[0].nth, x).command = LineOf(g, f[0].nth, x).command
  BY <1>4 DEF Keeps, AwaitsRest
<1>5. ASSUME NEW p \in 1..n - 1, Tail(o)[p] = "newline"
      PROVE  LineOf(after, h[0].nth, h[p - 1].nth).command \in seen
  <2> DEFINE x == h[p - 1].nth
             q == p + 1
  <2>1. /\ p - 1 \in 0..m - 1 /\ p - 1 + 1 = q - 1 /\ q \in 1..n /\ o[q] = "newline"
    BY <1>1, <1>2, <1>5
  <2> HIDE DEF q
  <2>2. h[p - 1] = f[q - 1]
    BY <1>2, <2>1
  <2>3. LineOf(g, f[0].nth, f[q - 1].nth).command \in seen
    BY <2>1 DEF Reading
  <2>4. x \in h[0].nth..f[0].nth + Len(g.submitted)
    <3>1. x \in Nat /\ h[0].nth <= x /\ x <= f[0].nth + Len(g.submitted)
      BY <1>2, <2>1
    <3> HIDE DEF x
    <3> QED
      BY <1>3, <3>1
  <2> QED
    BY <1>4, <2>2, <2>3, <2>4
<1>6. ASSUME NEW text \in seen \ more
      PROVE  \E x \in h[0].nth..h[n - 1].nth - 1 : LineOf(after, h[0].nth, x).command = text
  <2>1. n - 1 \in 0..m - 1 /\ n - 1 + 1 = n
    BY <1>1, <1>2
  <2>2. h[n - 1] = f[n] /\ h[n - 1].nth \in Nat /\ h[n - 1].nth <= f[0].nth + Len(g.submitted)
    BY <1>2, <2>1
  <2>3. text \in seen \ kept
    OBVIOUS
  <2>4. PICK x \in f[0].nth..f[n].nth - 1 : LineOf(g, f[0].nth, x).command = text
    BY <2>3 DEF Reading
  <2>5. ~(x \in f[0].nth..h[0].nth - 1)
    BY <2>4 DEF Records
  <2>6. x \in h[0].nth..h[n - 1].nth - 1 /\ x \in h[0].nth..f[0].nth + Len(g.submitted)
    <3> DEFINE a == f[0].nth
               b == h[0].nth
               c == h[n - 1].nth
               d == Len(g.submitted)
    <3>1. /\ a \in Nat /\ b \in Nat /\ c \in Nat /\ d \in Nat /\ c <= a + d /\ a <= b
          /\ x \in a..c - 1 /\ ~(x \in a..b - 1)
      BY <1>3, <2>2, <2>5
    <3> HIDE DEF a, b, c, d
    <3>2. x \in b..c - 1 /\ x \in b..a + d
      BY <3>1
    <3> QED
      BY <3>2 DEF a, b, c, d
  <2>7. LineOf(after, h[0].nth, x).command = text
    BY <1>4, <2>4, <2>6
  <2> QED
    BY <2>6, <2>7
<1> QED
  BY <1>1, <1>5, <1>6 DEF Reading

LEMMA CourseObserved ==
  ASSUME NEW o \in Seq(Items), NEW k \in Seq(Typable), o # <<>>, NEW g, GuardOK(g),
         NEW f, NEW text, NEW seen, NEW kept, Course(f, o, k, g, text, seen, kept),
         NEW m, m = Len(o) + Len(k),
         NEW after, GuardOK(after), NEW h, Shifted(h, f, m), Keeps(h, f, after, g),
         NEW more, kept \subseteq more, Records(h, f, g, more)
  PROVE  Course(h, Tail(o), k, after, text, seen, more)
<1>1. Echoing(f, o, k, g) /\ Editing(f, o, k, g, text) /\ Reading(f, o, g, seen, kept)
  BY DEF Course
<1>2. Echoing(h, Tail(o), k, after)
  BY <1>1, EchoingObserved
<1>3. Editing(h, Tail(o), k, after, text)
  BY <1>1, EditingObserved
<1>4. Reading(h, Tail(o), after, seen, more)
  BY <1>1, ReadingObserved
<1> QED
  BY <1>2, <1>3, <1>4 DEF Course

\* The first item of the output, and the line it is of.
Begins(h, f, g, o) ==
  /\ f[0].nth \in Nat /\ f[0].got \in Nat /\ Len(g.submitted) \in Nat
  /\ h[0].nth \in Nat /\ h[0].got \in Nat
  /\ Head(o) \in Chars =>
       /\ h[0].nth = f[0].nth /\ h[0].got = f[0].got + 1
       /\ 1 \in 1..Len(LineOf(g, f[0].nth, f[0].nth).pending)
       /\ LineOf(g, f[0].nth, f[0].nth).pending[1] = Head(o)
  /\ Head(o) \in Ends =>
       /\ h[0].nth = f[0].nth + 1 /\ h[0].got = 0
       /\ f[0].nth < f[0].nth + Len(g.submitted)
       /\ 0 = Len(LineOf(g, f[0].nth, f[0].nth).pending)
  /\ Head(o) \notin Chars \cup Ends => h[0].nth = f[0].nth /\ h[0].got = f[0].got

LEMMA FirstStep ==
  ASSUME NEW o \in Seq(Items), NEW k \in Seq(Typable), o # <<>>, NEW g, GuardOK(g),
         NEW f, Echoing(f, o, k, g), NEW m, m = Len(o) + Len(k), NEW h, Shifted(h, f, m)
  PROVE  Begins(h, f, g, o)
<1>1. Len(o) \in Nat \ {0} /\ Head(o) = o[1] /\ Len(k) \in Nat
  BY KeysLeft, FlowIs
<1>2. 1 \in 1..Len(o) /\ 1 \in 1..m /\ 0 \in 0..m /\ 1 \in 0..m /\ 0 \in 0..m - 1
      /\ 1 - 1 = 0 /\ 0 + 1 = 1
  BY <1>1
<1>3. Flow(o, k, 1) = Head(o)
  BY <1>1, <1>2, FlowIs
<1>4. h[0] = f[1]
  BY <1>2 DEF Shifted
<1>5. /\ f[0].nth \in Nat /\ f[0].got \in Nat /\ Len(g.submitted) \in Nat
      /\ h[0].nth \in Nat /\ h[0].got \in Nat
  BY <1>2, <1>4, CourseIs
<1>6. Expected(f, Head(o), g, 1)
  BY <1>2, <1>3, CourseIs
<1> DEFINE a == f[0].nth
           b == f[0].got
           pending == LineOf(g, a, a).pending
<1>7. Gone(f, a) = b
  BY DEF Gone
<1>8. /\ Head(o) \in Chars =>
           /\ h[0].nth = a /\ h[0].got = b + 1
           /\ h[0].got - b \in 1..Len(pending)
           /\ pending[h[0].got - b] = Head(o)
      /\ Head(o) \in Ends =>
           /\ h[0].nth = a + 1 /\ h[0].got = 0
           /\ a < a + Len(g.submitted)
           /\ b - b = Len(pending)
      /\ Head(o) \notin Chars \cup Ends => h[0].nth = a /\ h[0].got = b
  BY <1>2, <1>4, <1>6, <1>7 DEF Expected
<1>9. b - b = 0 /\ (h[0].got = b + 1 => h[0].got - b = 1)
  BY <1>5
<1> HIDE DEF a, b, pending
<1>10. /\ Head(o) \in Chars =>
            /\ h[0].nth = a /\ h[0].got = b + 1
            /\ 1 \in 1..Len(pending)
            /\ pending[1] = Head(o)
       /\ Head(o) \in Ends =>
            /\ h[0].nth = a + 1 /\ h[0].got = 0
            /\ a < a + Len(g.submitted)
            /\ 0 = Len(pending)
       /\ Head(o) \notin Chars \cup Ends => h[0].nth = a /\ h[0].got = b
  BY <1>8, <1>9
<1> QED
  BY <1>5, <1>10, Zenon DEF a, b, pending, Begins

\* A line that is left as it was, when the flow begins in it or before it.
LEMMA LineKept ==
  ASSUME NEW line \in Lines, NEW gone \in Nat
  PROVE  AwaitsRest(line, line, gone, gone)
<1>1. Len(line.pending) \in Nat
  BY LenProperties DEF Lines
<1>2. \A j \in 1..Len(line.pending) : j + gone - gone = j
  BY <1>1
<1> QED
  BY <1>1, <1>2 DEF AwaitsRest

\* What no line awaits passes by.
LEMMA PassesBy ==
  ASSUME NEW o \in Seq(Items), NEW k \in Seq(Typable), o # <<>>, NEW g, GuardOK(g),
         NEW f, Echoing(f, o, k, g), NEW m, m = Len(o) + Len(k), NEW h, Shifted(h, f, m),
         Head(o) \notin Chars \cup Ends, NEW kept
  PROVE  Keeps(h, f, g, g) /\ Records(h, f, g, kept)
<1>1. /\ f[0].nth \in Nat /\ f[0].got \in Nat /\ Len(g.submitted) \in Nat
      /\ h[0].nth = f[0].nth /\ h[0].got = f[0].got
  <2>1. Begins(h, f, g, o)
    BY FirstStep
  <2> QED
    BY <2>1, Zenon DEF Begins
<1>2. \A x : Gone(h, x) = Gone(f, x) /\ Gone(f, x) \in Nat
  BY <1>1 DEF Gone
<1>3. ASSUME NEW x \in f[0].nth..f[0].nth + Len(g.submitted)
      PROVE  AwaitsRest(LineOf(g, f[0].nth, x), LineOf(g, f[0].nth, x), Gone(f, x), Gone(f, x))
  <2>1. x \in Nat /\ f[0].nth <= x
    BY <1>1
  <2>2. LineOf(g, f[0].nth, x) \in Lines
    BY <1>1, <2>1, LinesOf
  <2> QED
    BY <1>2, <2>2, LineKept
<1>4. f[0].nth..f[0].nth - 1 = {} /\ f[0].nth <= f[0].nth
  BY <1>1
<1> QED
  BY <1>1, <1>2, <1>3, <1>4 DEF Keeps, Records

\* The echo that the line awaits is there.
Echoed(after, g, first) ==
  /\ Len(after.submitted) = Len(g.submitted)
  /\ LineOf(after, first, first).command = LineOf(g, first, first).command
  /\ LineOf(after, first, first).pending = Tail(LineOf(g, first, first).pending)
  /\ \A x \in first + 1..first + Len(g.submitted) : LineOf(after, first, x) = LineOf(g, first, x)

LEMMA EchoPasses ==
  ASSUME NEW o \in Seq(Items), NEW k \in Seq(Typable), o # <<>>, NEW g, GuardOK(g),
         NEW f, Echoing(f, o, k, g), NEW m, m = Len(o) + Len(k), NEW h, Shifted(h, f, m),
         Head(o) \in Chars, NEW after, Echoed(after, g, f[0].nth), NEW kept
  PROVE  Keeps(h, f, after, g) /\ Records(h, f, g, kept)
<1> DEFINE a == f[0].nth
           old == LineOf(g, a, a)
<1>1. /\ a \in Nat /\ f[0].got \in Nat /\ Len(g.submitted) \in Nat
      /\ h[0].nth = a /\ h[0].got = f[0].got + 1
      /\ 1 \in 1..Len(old.pending)
  <2>1. Begins(h, f, g, o)
    BY FirstStep
  <2> QED
    BY <2>1, Zenon DEF Begins
<1>2. ASSUME NEW x \in a..a + Len(g.submitted)
      PROVE  AwaitsRest(LineOf(after, a, x), LineOf(g, a, x), Gone(h, x), Gone(f, x))
  <2> HIDE DEF a
  <2>1. x \in Nat /\ a <= x
    BY <1>1
  <2>2. LineOf(g, a, x) \in Lines
    BY <1>1, <2>1, LinesOf
  <2>3. CASE x = a
    <3> DEFINE new == LineOf(after, a, a)
    <3>1. Gone(h, x) = f[0].got + 1 /\ Gone(f, x) = f[0].got
      BY <1>1, <2>3 DEF Gone, a
    <3>2. new.command = old.command /\ new.pending = Tail(old.pending)
      BY DEF Echoed, a
    <3>3. old.pending \in Seq(Chars)
      BY <2>2, <2>3 DEF Lines
    <3> HIDE DEF old, new
    <3>4. old.pending # <<>>
      BY <1>1, <3>3, EmptySeq
    <3>5. /\ Len(old.pending) \in Nat \ {0} /\ Len(new.pending) = Len(old.pending) - 1
          /\ \A j \in 1..Len(old.pending) - 1 : new.pending[j] = old.pending[j + 1]
      BY <3>2, <3>3, <3>4, KeysLeft
    <3> DEFINE got == f[0].got
    <3>6. got \in Nat
      BY <1>1
    <3> HIDE DEF got
    <3>7. \A j \in 1..Len(new.pending) : j + (got + 1) - got = j + 1
      BY <3>5, <3>6
    <3>8. Len(new.pending) + (got + 1) = Len(old.pending) + got /\ got + 1 \in Nat
      <4> DEFINE c == Len(new.pending)
                 d == Len(old.pending)
      <4>1. d \in Nat \ {0} /\ c = d - 1
        BY <3>5
      <4> HIDE DEF c, d
      <4>2. c + (got + 1) = d + got /\ got + 1 \in Nat
        BY <3>6, <4>1
      <4> QED
        BY <4>2 DEF c, d
    <3>9. \A j \in 1..Len(new.pending) : new.pending[j] = old.pending[j + (got + 1) - got]
      BY <3>5, <3>7
    <3>10. AwaitsRest(new, old, got + 1, got)
      BY <3>2, <3>6, <3>8, <3>9 DEF AwaitsRest
    <3> QED
      BY <2>3, <3>1, <3>10 DEF got, new, old
  <2>4. CASE x # a
    <3>1. x \in a + 1..a + Len(g.submitted)
      BY <1>1, <2>4
    <3>2. LineOf(after, a, x) = LineOf(g, a, x)
      BY <3>1 DEF Echoed, a
    <3>3. Gone(h, x) = 0 /\ Gone(f, x) = 0
      BY <1>1, <2>4 DEF Gone, a
    <3> QED
      BY <2>2, <3>2, <3>3, LineKept
  <2> QED
    BY <2>3, <2>4
<1>3. a..a - 1 = {} /\ a <= a
  BY <1>1
<1>4. Len(after.submitted) = Len(g.submitted)
  BY DEF Echoed
<1> QED
  BY <1>1, <1>2, <1>3, <1>4 DEF Keeps, Records

\* The first line submitted comes to its end.
LEMMA EndPasses ==
  ASSUME NEW o \in Seq(Items), NEW k \in Seq(Typable), o # <<>>, NEW g, GuardOK(g),
         NEW f, Echoing(f, o, k, g), NEW m, m = Len(o) + Len(k), NEW h, Shifted(h, f, m),
         Head(o) = "newline", Trusting(g), NEW seen, NEW kept, Reading(f, o, g, seen, kept),
         NEW more, more = kept \cup {Head(g.submitted).command},
         NEW after, after = LineBoundary(g), GuardOK(after)
  PROVE  /\ Keeps(h, f, after, g) /\ Records(h, f, g, more) /\ Trusting(after)
         /\ Confirms(g) /\ Head(g.submitted).command \in seen
<1> DEFINE a == f[0].nth
           n == Len(g.submitted)
           others == Tail(g.submitted)
<1>1. Head(o) \in Ends
  BY DEF Ends
<1>2. /\ a \in Nat /\ f[0].got \in Nat /\ n \in Nat /\ h[0].nth = a + 1 /\ h[0].got = 0
      /\ a < a + n /\ 0 = Len(LineOf(g, a, a).pending)
  <2>1. Begins(h, f, g, o)
    BY FirstStep
  <2> QED
    BY <1>1, <2>1, Zenon DEF Begins
<1>3. g.submitted \in Seq(Lines) /\ g = [line |-> g.line, submitted |-> g.submitted]
  BY DEF GuardOK
<1>4. n # 0 /\ g.submitted # <<>>
  BY <1>2, <1>3, EmptySeq
<1>5. /\ Head(g.submitted) = g.submitted[1] /\ g.submitted[1] \in Lines
      /\ others \in Seq(Lines) /\ Len(others) = n - 1
      /\ \A i \in 1..n - 1 : others[i] = g.submitted[i + 1]
  BY <1>3, <1>4, KeysLeft
<1>6. after.line = g.line /\ after.submitted = others
  BY <1>3, <1>4 DEF LineBoundary
<1> HIDE DEF n, others
<1>7. LineOf(g, a, a) = g.submitted[1]
  <2>1. a < a + n /\ a - a + 1 = 1
    BY <1>2
  <2> QED
    BY <2>1 DEF LineOf, n
<1>8. Confirms(g)
  <2>1. 1 \in 1..n
    BY <1>2, <1>4
  <2>2. Trusted(g.submitted[1])
    BY <2>1 DEF Trusting, n
  <2>3. g.submitted[1].pending = <<>>
    BY <1>2, <1>5, <1>7, EmptySeq DEF Lines
  <2> QED
    BY <1>4, <1>5, <2>2, <2>3 DEF Confirms
<1>9. Trusting(after)
  <2>1. ASSUME NEW i \in 1..Len(after.submitted) PROVE Trusted(after.submitted[i])
    <3>1. i \in 1..n - 1 /\ i + 1 \in 1..n
      BY <1>2, <1>5, <1>6
    <3>2. after.submitted[i] = g.submitted[i + 1]
      BY <1>5, <1>6, <3>1
    <3> QED
      BY <3>1, <3>2 DEF Trusting, n
  <2> QED
    BY <1>6, <2>1 DEF Trusting
<1>10. ASSUME NEW x \in a + 1..a + n
       PROVE  AwaitsRest(LineOf(after, a + 1, x), LineOf(g, a, x), Gone(h, x), Gone(f, x))
  <2>1. x \in Nat /\ a <= x /\ x # a
    BY <1>2
  <2>2. LineOf(g, a, x) \in Lines
    <3> HIDE DEF a
    <3> QED
      BY <1>2, <2>1, LinesOf
  <2>3. LineOf(after, a + 1, x) = LineOf(g, a, x)
    <3>1. CASE x < a + n
      <4>1. /\ x < a + 1 + Len(after.submitted) /\ x - (a + 1) + 1 \in 1..n - 1
            /\ x - (a + 1) + 1 + 1 = x - a + 1
        <5> HIDE DEF a
        <5>1. Len(after.submitted) = n - 1 /\ a \in Nat /\ n \in Nat /\ x \in a + 1..a + n
          BY <1>2, <1>5, <1>6
        <5>2. x < a + 1 + (n - 1)
          BY <3>1, <5>1
        <5>3. x - (a + 1) + 1 \in 1..n - 1
          BY <3>1, <5>1
        <5>4. x - (a + 1) + 1 + 1 = x - a + 1
          BY <5>1
        <5> QED
          BY <5>1, <5>2, <5>3, <5>4
      <4> DEFINE i == x - (a + 1) + 1
      <4>2. LineOf(after, a + 1, x) = after.submitted[i]
        BY <4>1 DEF LineOf
      <4>3. LineOf(g, a, x) = g.submitted[x - a + 1]
        BY <3>1 DEF LineOf, n
      <4>4. i \in 1..n - 1 /\ i + 1 = x - a + 1
        BY <4>1
      <4> HIDE DEF i
      <4>5. after.submitted[i] = g.submitted[i + 1]
        BY <1>5, <1>6, <4>4
      <4> QED
        BY <4>2, <4>3, <4>4, <4>5
    <3>2. CASE ~(x < a + n)
      <4>1. ~(x < a + 1 + Len(after.submitted))
        BY <1>2, <1>5, <1>6, <3>2
      <4> QED
        BY <1>6, <3>2, <4>1 DEF LineOf, n
    <3> QED
      BY <3>1, <3>2
  <2>4. Gone(h, x) = 0 /\ Gone(f, x) = 0
    BY <1>2, <2>1 DEF Gone
  <2> QED
    BY <2>2, <2>3, <2>4, LineKept
<1>11. Keeps(h, f, after, g)
  <2>1. a + 1 + Len(after.submitted) = a + n /\ a <= a + 1
    BY <1>2, <1>5, <1>6
  <2> QED
    BY <1>2, <1>10, <2>1 DEF Keeps, n
<1>12. Records(h, f, g, more)
  <2>1. ASSUME NEW x \in a..h[0].nth - 1 PROVE LineOf(g, a, x).command \in more
    <3>1. x = a
      BY <1>2
    <3> QED
      BY <1>5, <1>7, <3>1
  <2> QED
    BY <2>1 DEF Records
<1>13. Head(g.submitted).command \in seen
  <2>1. 1 \in 1..Len(o) /\ o[1] = "newline" /\ 1 - 1 = 0
    <3>1. Len(o) \in Nat \ {0} /\ Head(o) = o[1]
      BY KeysLeft
    <3> QED
      BY <3>1
  <2>2. LineOf(g, f[0].nth, f[1 - 1].nth).command \in seen
    BY <2>1 DEF Reading
  <2> QED
    BY <1>5, <1>7, <2>1, <2>2
<1> QED
  BY <1>8, <1>9, <1>11, <1>12, <1>13

\* The guard compares an echo with the line that awaits it.
LEMMA EchoCompared ==
  ASSUME NEW g, GuardOK(g), Trusting(g), NEW first \in Nat, NEW char,
         LineOf(g, first, first).pending # <<>>, Head(LineOf(g, first, first).pending) = char,
         NEW after, after = ObserveChar(g, char)
  PROVE  Echoed(after, g, first) /\ Trusting(after)
<1> DEFINE n == Len(g.submitted)
           old == LineOf(g, first, first)
<1>1. /\ g = [line |-> g.line, submitted |-> g.submitted]
      /\ g.line \in Lines /\ g.submitted \in Seq(Lines)
  BY DEF GuardOK, LineOK
<1>2. n \in Nat
  BY LinesOf
<1>3. old \in Lines
  BY LinesOf
<1>4. CASE g.submitted # <<>>
  <2> DEFINE others == Tail(g.submitted)
             new == [old EXCEPT !.pending = Tail(@)]
  <2>1. /\ n \in Nat \ {0} /\ Head(g.submitted) = g.submitted[1] /\ g.submitted[1] \in Lines
        /\ others \in Seq(Lines) /\ Len(others) = n - 1
        /\ \A i \in 1..n - 1 : others[i] = g.submitted[i + 1]
    BY <1>1, <1>4, KeysLeft
  <2>2. old = g.submitted[1]
    <3>1. first < first + n /\ first - first + 1 = 1
      BY <2>1
    <3> QED
      BY <3>1 DEF LineOf
  <2>3. Trusted(old) /\ Awaited(old, char)
    <3>1. 1 \in 1..n
      BY <2>1
    <3>2. Trusted(g.submitted[1])
      BY <3>1 DEF Trusting
    <3> QED
      BY <2>2, <3>2 DEF Awaited, Trusted
  <2>4. /\ new \in Lines /\ new.command = old.command /\ new.pending = Tail(old.pending)
        /\ Trusted(new)
    <3>1. Tail(old.pending) \in Seq(Chars)
      BY <1>3, HeadTailProperties DEF Lines
    <3> HIDE DEF old
    <3>2. /\ new \in Lines /\ new.command = old.command /\ new.pending = Tail(old.pending)
          /\ new.reliable = old.reliable /\ new.echoSafe = old.echoSafe
      BY <1>3, <3>1 DEF Lines
    <3> QED
      BY <2>3, <3>2 DEF Trusted
  <2>5. after.line = g.line /\ after.submitted = <<new>> \o others
    <3>1. after = SubmittedChar(g, char)
      BY <1>4 DEF ObserveChar
    <3>2. Head(g.submitted) = old
      BY <2>1, <2>2
    <3> HIDE DEF old
    <3>3. after = [g EXCEPT !.submitted = <<new>> \o others]
      BY <2>3, <3>1, <3>2, Zenon DEF SubmittedChar
    <3> HIDE DEF new, others
    <3> QED
      BY <1>1, <3>3
  <2> HIDE DEF new, others, n, old
  <2>6. /\ Len(after.submitted) = n /\ after.submitted[1] = new
        /\ \A i \in 2..n : after.submitted[i] = g.submitted[i]
    <3>1. <<new>> \in Seq(Lines) /\ Len(<<new>>) = 1 /\ <<new>>[1] = new
      BY <2>4
    <3>2. /\ Len(<<new>> \o others) = 1 + (n - 1)
          /\ \A i \in 1..(1 + (n - 1)) :
               (<<new>> \o others)[i] = IF i <= 1 THEN <<new>>[i] ELSE others[i - 1]
      BY <2>1, <3>1, ConcatProperties
    <3>3. 1 + (n - 1) = n /\ 1 \in 1..n /\ \A i \in 2..n : i \in 1..n /\ ~(i <= 1)
                                         /\ i - 1 \in 1..n - 1 /\ i - 1 + 1 = i
      BY <2>1
    <3>4. Len(<<new>> \o others) = n /\ (<<new>> \o others)[1] = new
      BY <3>1, <3>2, <3>3
    <3>5. ASSUME NEW i \in 2..n PROVE (<<new>> \o others)[i] = g.submitted[i]
      <4>1. others[i - 1] = g.submitted[i - 1 + 1]
        BY <2>1, <3>3
      <4> QED
        BY <3>2, <3>3, <4>1
    <3> QED
      BY <2>5, <3>4, <3>5
  <2>7. Trusting(after)
    <3>1. ASSUME NEW i \in 1..n PROVE Trusted(after.submitted[i])
      <4>1. i = 1 \/ i \in 2..n
        BY <2>1
      <4>2. CASE i \in 2..n
        BY <2>6, <4>2 DEF Trusting, n
      <4> QED
        BY <2>4, <2>6, <4>1, <4>2
    <3> QED
      BY <2>5, <2>6, <3>1 DEF Trusting
  <2>8. LineOf(after, first, first) = new
    <3>1. first < first + n /\ first - first + 1 = 1
      BY <2>1
    <3> QED
      BY <2>6, <3>1 DEF LineOf
  <2>9. ASSUME NEW x \in first + 1..first + n
        PROVE  LineOf(after, first, x) = LineOf(g, first, x)
    <3>1. CASE x < first + n
      <4>1. x - first + 1 \in 2..n
        BY <2>1, <3>1
      <4> QED
        BY <2>6, <3>1, <4>1 DEF LineOf, n
    <3>2. CASE ~(x < first + n)
      BY <2>5, <2>6, <3>2 DEF LineOf, n
    <3> QED
      BY <3>1, <3>2
  <2> QED
    BY <2>4, <2>6, <2>7, <2>8, <2>9 DEF Echoed, n, old
<1>5. CASE g.submitted = <<>>
  <2> DEFINE line == g.line
             new == [line EXCEPT !.pending = Tail(@),
                                 !.echoJustConfirmed = Tail(line.pending) = <<>>]
  <2>1. n = 0 /\ ~(first < first + n) /\ first + 1..first + n = {}
    <3>1. n = 0
      BY <1>5, EmptySeq
    <3> QED
      BY <3>1
  <2>2. old = line
    BY <2>1 DEF LineOf
  <2>3. Awaited(line, char)
    BY <2>2 DEF Awaited, Trusting
  <2>4. after = [g EXCEPT !.line = new]
    BY <1>5, <2>3 DEF ObserveChar, CurrentChar
  <2>5. /\ new.command = line.command /\ new.pending = Tail(line.pending)
        /\ new.reliable = line.reliable /\ new.echoSafe = line.echoSafe
    BY <1>1 DEF Lines
  <2> HIDE DEF new
  <2>6. after.line = new /\ after.submitted = <<>>
    BY <1>1, <1>5, <2>4
  <2>7. line.command # <<>>
    <3>1. Rest(line.command, line.pending)
      BY DEF GuardOK, LineOK, Trusting
    <3>2. /\ line.command \in Seq(Chars) /\ line.pending \in Seq(Chars)
          /\ Len(line.pending) <= Len(line.command) /\ line.pending # <<>>
      BY <2>2, <3>1 DEF Rest
    <3> HIDE DEF line
    <3>3. Len(line.pending) \in Nat \ {0} /\ Len(line.command) \in Nat
      BY <3>2, EmptySeq, LenProperties
    <3>4. Len(line.command) # 0
      BY <3>2, <3>3
    <3> QED
      BY <3>2, <3>4, EmptySeq
  <2>8. Trusting(after)
    <3>1. 1..Len(<<>>) = {}
      BY <1>5, <2>1
    <3> QED
      BY <2>5, <2>6, <2>7, <3>1 DEF Trusting
  <2>9. LineOf(after, first, first) = new
    <3>1. ~(first < first + Len(after.submitted))
      BY <1>5, <2>1, <2>6
    <3> QED
      BY <2>6, <3>1 DEF LineOf
  <2> QED
    BY <1>5, <2>1, <2>2, <2>5, <2>6, <2>8, <2>9 DEF Echoed
<1> QED
  BY <1>4, <1>5

\* With no line under way there is nothing to give up.
LEMMA NothingDisturbed ==
  ASSUME NEW g, GuardOK(g), Trusting(g), g.line.command = <<>>, g.submitted = <<>>
  PROVE  (\A char : ObserveChar(g, char) = g) /\ LineBoundary(g) = g
<1>1. g = [line |-> g.line, submitted |-> g.submitted] /\ g.line \in Lines
  BY DEF GuardOK, LineOK
<1>2. g.line.pending = <<>>
  <2>1. Rest(g.line.command, g.line.pending)
    BY DEF GuardOK, LineOK, Trusting
  <2>2. g.line.pending \in Seq(Chars) /\ Len(g.line.pending) <= Len(<<>>)
    BY <2>1 DEF Rest
  <2>3. Len(<<>>) = 0 /\ Len(g.line.pending) \in Nat
    BY <2>2, EmptySeq, LenProperties
  <2>4. Len(g.line.pending) = 0
    BY <2>2, <2>3
  <2> QED
    BY <2>2, <2>4, EmptySeq
<1>3. ~g.line.echoJustConfirmed
  BY DEF Trusting
<1>4. LineBoundary(g) = g
  BY <1>2, <1>3 DEF LineBoundary
<1>5. ASSUME NEW char PROVE ObserveChar(g, char) = g
  <2>1. CurrentChar(g.line, char) = g.line
    BY <1>2, <1>3 DEF CurrentChar, Awaited
  <2>2. ObserveChar(g, char) = [g EXCEPT !.line = g.line]
    BY <2>1 DEF ObserveChar
  <2> QED
    BY <1>1, <2>2
<1> QED
  BY <1>4, <1>5

\* There is a course from the first point on.
LEMMA ShiftedExists ==
  ASSUME NEW o \in Seq(Items), NEW k \in Seq(Typable), o # <<>>, NEW g, GuardOK(g),
         NEW f, Echoing(f, o, k, g)
  PROVE  \E h : Shifted(h, f, Len(o) + Len(k))
<1> DEFINE m == Len(o) + Len(k)
           h == [p \in 0..m - 1 |-> f[p + 1]]
<1>1. m \in Nat
  BY FlowIs
<1>2. \A p \in 0..m : f[p] \in Stages
  BY CourseIs
<1>3. \A p \in 0..m - 1 : p + 1 \in 0..m
  <2> HIDE DEF m
  <2> QED
    BY <1>1
<1> HIDE DEF m
<1>4. Shifted(h, f, m)
  BY <1>2, <1>3 DEF Shifted
<1> QED
  BY <1>4 DEF m

\* An echo under way is the next one that the first line awaits.
LEMMA EchoUnderWay ==
  ASSUME NEW o \in Seq(Items), NEW k \in Seq(Typable), o # <<>>, NEW g, GuardOK(g),
         NEW f, Echoing(f, o, k, g), Head(o) \in Chars
  PROVE  /\ f[0].nth \in Nat
         /\ 1 \in 1..Len(LineOf(g, f[0].nth, f[0].nth).pending)
         /\ LineOf(g, f[0].nth, f[0].nth).pending[1] = Head(o)
<1>1. PICK h : Shifted(h, f, Len(o) + Len(k))
  BY ShiftedExists
<1> DEFINE m == Len(o) + Len(k)
<1>2. m = Len(o) + Len(k) /\ Shifted(h, f, m)
  BY <1>1
<1> HIDE DEF m
<1> DEFINE pending == LineOf(g, f[0].nth, f[0].nth).pending
<1>3. /\ f[0].nth \in Nat
      /\ Head(o) \in Chars =>
           /\ h[0].nth = f[0].nth /\ h[0].got = f[0].got + 1
           /\ 1 \in 1..Len(pending)
           /\ pending[1] = Head(o)
  <2>1. Begins(h, f, g, o)
    BY <1>2, FirstStep
  <2> QED
    BY <1>2, <2>1, Zenon DEF Begins
<1> QED
  BY <1>3

LEMMA EchoSeen ==
  ASSUME NEW o \in Seq(Items), NEW k \in Seq(Typable), NEW g, GuardOK(g), Trusting(g),
         NEW f, NEW text, NEW seen, NEW kept, Course(f, o, k, g, text, seen, kept),
         o # <<>>, Head(o) \in Chars,
         NEW after, after = ObserveChar(g, Head(o)), GuardOK(after)
  PROVE  Trusting(after) /\ \E h : Course(h, Tail(o), k, after, text, seen, kept)
<1> DEFINE m == Len(o) + Len(k)
<1>1. Echoing(f, o, k, g)
  BY DEF Course
<1>2. PICK h : Shifted(h, f, m)
  BY <1>1, ShiftedExists
<1>3. m = Len(o) + Len(k)
  OBVIOUS
<1> HIDE DEF m
<1>4. /\ f[0].nth \in Nat
      /\ 1 \in 1..Len(LineOf(g, f[0].nth, f[0].nth).pending)
      /\ LineOf(g, f[0].nth, f[0].nth).pending[1] = Head(o)
  BY <1>1, EchoUnderWay
<1> DEFINE first == f[0].nth
           pending == LineOf(g, first, first).pending
<1>5. first \in Nat /\ first <= first
  BY <1>4
<1>6. pending \in Seq(Chars)
  <2> HIDE DEF first
  <2>1. LineOf(g, first, first) \in Lines
    BY <1>5, LinesOf
  <2> QED
    BY <2>1 DEF Lines
<1>7. 1 \in 1..Len(pending) /\ pending[1] = Head(o)
  BY <1>4
<1> HIDE DEF pending
<1>8. pending # <<>> /\ Head(pending) = Head(o)
  <2>1. pending # <<>>
    BY <1>6, <1>7, EmptySeq
  <2> QED
    BY <1>6, <1>7, <2>1, KeysLeft
<1> HIDE DEF first
<1>9. Echoed(after, g, first) /\ Trusting(after)
  BY <1>5, <1>8, EchoCompared DEF pending
<1>10. Keeps(h, f, after, g) /\ Records(h, f, g, kept)
  BY <1>1, <1>2, <1>3, <1>9, EchoPasses DEF first
<1>11. Course(h, Tail(o), k, after, text, seen, kept)
  BY <1>2, <1>3, <1>10, CourseObserved
<1> QED
  BY <1>9, <1>11

LEMMA NothingSeen ==
  ASSUME NEW o \in Seq(Items), NEW k \in Seq(Typable), NEW g, GuardOK(g),
         NEW f, NEW text, NEW seen, NEW kept, Course(f, o, k, g, text, seen, kept),
         o # <<>>, Head(o) \notin Chars \cup Ends
  PROVE  \E h : Course(h, Tail(o), k, g, text, seen, kept)
<1> DEFINE m == Len(o) + Len(k)
<1>1. Echoing(f, o, k, g)
  BY DEF Course
<1>2. PICK h : Shifted(h, f, m)
  BY <1>1, ShiftedExists
<1>3. m = Len(o) + Len(k)
  OBVIOUS
<1> HIDE DEF m
<1>4. Keeps(h, f, g, g) /\ Records(h, f, g, kept)
  BY <1>1, <1>2, <1>3, PassesBy
<1>5. Course(h, Tail(o), k, g, text, seen, kept)
  BY <1>2, <1>3, <1>4, CourseObserved
<1> QED
  BY <1>5

LEMMA EndSeen ==
  ASSUME NEW o \in Seq(Items), NEW k \in Seq(Typable), NEW g, GuardOK(g), Trusting(g),
         NEW f, NEW text, NEW seen, NEW kept, Course(f, o, k, g, text, seen, kept),
         o # <<>>, Head(o) = "newline",
         NEW more, more = kept \cup {Head(g.submitted).command},
         NEW after, after = LineBoundary(g), GuardOK(after)
  PROVE  /\ Trusting(after) /\ Confirms(g) /\ Head(g.submitted).command \in seen
         /\ \E h : Course(h, Tail(o), k, after, text, seen, more)
<1> DEFINE m == Len(o) + Len(k)
<1>1. Echoing(f, o, k, g) /\ Reading(f, o, g, seen, kept)
  BY DEF Course
<1>2. PICK h : Shifted(h, f, m)
  BY <1>1, ShiftedExists
<1>3. m = Len(o) + Len(k)
  OBVIOUS
<1> HIDE DEF m
<1>4. /\ Keeps(h, f, after, g) /\ Records(h, f, g, more) /\ Trusting(after)
      /\ Confirms(g) /\ Head(g.submitted).command \in seen
  BY <1>1, <1>2, <1>3, EndPasses
<1>5. kept \subseteq more
  OBVIOUS
<1>6. Course(h, Tail(o), k, after, text, seen, more)
  BY <1>2, <1>3, <1>4, <1>5, CourseObserved
<1> QED
  BY <1>4, <1>6

\* Before anything is typed there is one point.
LEMMA CourseStarts ==
  ASSUME NEW seen, seen = {}
  PROVE  Trusting(NewGuard) /\ \E f : Course(f, <<>>, <<>>, NewGuard, <<>>, seen, {})
<1> DEFINE start == [text |-> <<>>, nth |-> 0, got |-> 0]
           f == [p \in 0..0 |-> start]
<1>1. Len(<<>>) = 0 /\ 1..0 = {} /\ 0 + 0 = 0 /\ 0 - 0 = 0 /\ 0..0 - 1 = {}
  BY EmptySeq
<1>2. /\ NewGuard.line = NewLine /\ NewGuard.submitted = <<>> /\ NewLine.command = <<>>
      /\ NewLine.pending = <<>> /\ NewLine.reliable /\ NewLine.echoSafe
      /\ ~NewLine.echoJustConfirmed
  BY DEF NewGuard, NewLine
<1>3. start \in Stages
  <2>1. <<>> \in Seq(Chars)
    BY EmptySeq
  <2> QED
    BY <2>1 DEF Stages
<1>4. f \in [0..0 -> Stages] /\ f[0] = start /\ \A p \in 0..0 : p = 0
  BY <1>3
<1>5. f[0].nth = 0 /\ f[0].got = 0 /\ f[0].text = <<>>
  BY <1>4
<1> HIDE DEF f
<1>6. Gone(f, 0) = 0
  BY <1>5 DEF Gone
<1>7. Echoing(f, <<>>, <<>>, NewGuard)
  BY <1>1, <1>2, <1>4, <1>5, <1>6 DEF Echoing
<1>8. Editing(f, <<>>, <<>>, NewGuard, <<>>)
  BY <1>1, <1>2, <1>5 DEF Editing
<1>9. Reading(f, <<>>, NewGuard, seen, {})
  BY <1>1 DEF Reading
<1>10. Trusting(NewGuard)
  BY <1>1, <1>2 DEF Trusting
<1> QED
  BY <1>7, <1>8, <1>9, <1>10 DEF Course

-------------------------------------------------------------------------------
\* As long as nothing comes between, there is a course: each step takes it one item further, or
\* puts one more key at its end (onData, consumeVisibleChar and consumeLineBoundary).
THEOREM InductiveClean == Spec => []CleanInv
<1>1. Init => CleanInv
  <2> SUFFICES ASSUME Init PROVE CleanInv
    OBVIOUS
  <2>1. /\ guard = NewGuard /\ keys = <<>> /\ out = <<>> /\ tty = [echo |-> TRUE, line |-> <<>>]
        /\ recorded = {} /\ read = {}
    BY DEF Init
  <2>2. keys \in Seq(Typable)
    BY <2>1, EmptySeq
  <2>3. tty.line = <<>> /\ tty = [echo |-> tty.echo, line |-> tty.line]
    BY <2>1
  <2>4. Trusting(guard) /\ \E f : Course(f, out, keys, guard, tty.line, read, recorded)
    BY <2>1, <2>3, CourseStarts
  <2> QED
    BY <2>1, <2>2, <2>3, <2>4 DEF CleanInv
<1>2. IInv /\ IInv' /\ CleanInv /\ [Next]_vars => CleanInv'
  <2> SUFFICES ASSUME IInv, IInv', CleanInv, [Next]_vars PROVE CleanInv'
    OBVIOUS
  <2>1. GuardOK(guard) /\ out \in Seq(Items) /\ GuardOK(guard')
    BY DEF IInv
  <2>2. tty = [echo |-> tty.echo, line |-> tty.line]
    BY DEF CleanInv
  <2>3. ASSUME clean
        PROVE  /\ keys \in Seq(Typable) /\ Trusting(guard) /\ recorded \subseteq read
               /\ \E f : Course(f, out, keys, guard, tty.line, read, recorded)
    BY <2>3 DEF CleanInv
  <2>4. ASSUME NEW key \in Keys, Type(key) PROVE CleanInv'
    <3>1. /\ keys' = Append(keys, key) /\ guard' = Press(guard, key)
          /\ clean' = (clean /\ ~Disturbs(guard.line, key))
          /\ out' = out /\ tty' = tty /\ recorded' = recorded /\ read' = read
      BY <2>4 DEF Type
    <3>2. ASSUME clean'
          PROVE  /\ keys' \in Seq(Typable) /\ Trusting(guard')
                 /\ \E f : Course(f, out, keys', guard', tty.line, read, recorded)
      <4>1. clean /\ ~Disturbs(guard.line, key)
        BY <3>1, <3>2
      <4>2. keys \in Seq(Typable) /\ Trusting(guard)
        BY <2>3, <4>1
      <4>3. PICK f : Course(f, out, keys, guard, tty.line, read, recorded)
        BY <2>3, <4>1
      <4>4. key \in Typable
        BY <4>1 DEF Keys, Typable, Disturbs
      <4>5. keys' \in Seq(Typable)
        BY <3>1, <4>2, <4>4, Appended
      <4>6. GuardOK(guard')
        BY <2>1, <3>1
      <4>7. CASE key \in Chars
        BY <2>1, <3>1, <4>2, <4>3, <4>5, <4>6, <4>7, CharTyped
      <4>8. CASE key = "enter"
        <5>1. ~IsBlank(guard.line.command)
          BY <4>1, <4>8 DEF Disturbs
        <5> QED
          BY <2>1, <3>1, <4>2, <4>3, <4>5, <4>6, <4>8, <5>1, EnterTyped
      <4>9. CASE key = "erase"
        <5>1. guard.line.pending = <<>>
          BY <4>1, <4>9 DEF Disturbs
        <5> QED
          BY <2>1, <3>1, <4>2, <4>3, <4>5, <4>6, <4>9, <5>1, EraseTyped
      <4> QED
        BY <4>4, <4>7, <4>8, <4>9 DEF Typable
    <3>3. clean' => recorded' \subseteq read'
      BY <2>3, <3>1
    <3> QED
      BY <2>2, <3>1, <3>2, <3>3 DEF CleanInv
  <2>5. ASSUME keys # <<>>, clean, NEW item \in Items, Echoes(item, Head(keys)), Display(<<item>>),
               keys' = Tail(keys), tty'.line = Edited(tty.line, Head(keys)),
               tty' = [echo |-> tty'.echo, line |-> tty'.line],
               read' = read \cup IF Head(keys) = "enter" THEN {tty.line} ELSE {},
               UNCHANGED <<guard, recorded>>
        PROVE  CleanInv'
    <3>1. keys \in Seq(Typable) /\ Trusting(guard) /\ recorded \subseteq read
      BY <2>3, <2>5
    <3>2. PICK f : Course(f, out, keys, guard, tty.line, read, recorded)
      BY <2>3, <2>5
    <3>3. Displays(out', out, item)
      BY <2>1, <2>5, DisplayAdds
    <3>4. Course(f, out', Tail(keys), guard, Edited(tty.line, Head(keys)), read', recorded)
      BY <2>1, <2>5, <3>1, <3>2, <3>3, KeyEchoed
    <3>5. keys' \in Seq(Typable)
      BY <2>5, <3>1, KeysLeft
    <3>6. Course(f, out', keys', guard', tty'.line, read', recorded')
      BY <2>5, <3>4
    <3>7. recorded' \subseteq read' /\ Trusting(guard')
      BY <2>5, <3>1
    <3> QED
      BY <2>5, <3>5, <3>6, <3>7 DEF CleanInv
  <2>6. ASSUME TakeChar PROVE CleanInv'
    <3>1. /\ keys # <<>> /\ Head(keys) \in Chars
          /\ tty' = [tty EXCEPT !.line = Append(@, Head(keys))]
          /\ clean' = (clean /\ tty.echo) /\ keys' = Tail(keys)
          /\ UNCHANGED <<guard, recorded>> /\ read' = read
      BY <2>6 DEF TakeChar
    <3>2. tty' = [echo |-> tty.echo, line |-> Append(tty.line, Head(keys))]
      BY <2>2, <3>1
    <3>3. tty'.line = Append(tty.line, Head(keys))
          /\ tty' = [echo |-> tty'.echo, line |-> tty'.line]
      BY <3>2
    <3>4. CASE clean'
      <4>1. clean /\ tty.echo
        BY <3>1, <3>4
      <4>2. Display(<<Head(keys)>>)
        BY <2>6, <4>1 DEF TakeChar
      <4>3. Head(keys) \in Items /\ Echoes(Head(keys), Head(keys))
        BY <3>1 DEF Items, Echoes
      <4>4. Head(keys) # "enter" /\ Head(keys) # "erase"
        BY <3>1, MarkerAssumption
      <4>5. tty'.line = Edited(tty.line, Head(keys))
        BY <3>3, <4>4 DEF Edited
      <4>6. read' = read \cup IF Head(keys) = "enter" THEN {tty.line} ELSE {}
        BY <3>1, <4>4
      <4> QED
        BY <2>5, <3>1, <3>3, <4>1, <4>2, <4>3, <4>5, <4>6
    <3>5. CASE ~clean'
      BY <3>3, <3>5 DEF CleanInv
    <3> QED
      BY <3>4, <3>5
  <2>7. ASSUME TakeErase PROVE CleanInv'
    <3>1. /\ keys # <<>> /\ Head(keys) = "erase"
          /\ tty' = [tty EXCEPT !.line = IF @ = <<>> THEN @ ELSE DropLast(@)]
          /\ clean' = clean /\ keys' = Tail(keys)
          /\ UNCHANGED <<guard, recorded>> /\ read' = read
      BY <2>7 DEF TakeErase
    <3>2. tty' = [echo |-> tty.echo, line |-> Edited(tty.line, "erase")]
      BY <2>2, <3>1 DEF Edited
    <3>3. tty'.line = Edited(tty.line, Head(keys))
          /\ tty' = [echo |-> tty'.echo, line |-> tty'.line]
      <4> DEFINE text == Edited(tty.line, "erase")
      <4>1. tty' = [echo |-> tty.echo, line |-> text] /\ text = Edited(tty.line, Head(keys))
        BY <3>1, <3>2
      <4> HIDE DEF text
      <4> QED
        BY <4>1
    <3>4. CASE clean /\ tty.echo /\ tty.line # <<>>
      <4>1. Display(<<"rub">>)
        BY <2>7, <3>4 DEF TakeErase
      <4>2. "rub" \in Items /\ Echoes("rub", Head(keys))
        BY <3>1 DEF Items, Echoes
      <4>3. read' = read \cup IF Head(keys) = "enter" THEN {tty.line} ELSE {}
        BY <3>1
      <4> QED
        BY <2>5, <3>1, <3>3, <3>4, <4>1, <4>2, <4>3
    <3>5. CASE clean /\ ~(tty.echo /\ tty.line # <<>>)
      <4>1. Display(<<>>)
        BY <2>7, <3>5 DEF TakeErase
      <4>2. out' = out
        BY <2>1, <4>1, ConcatEmptySeq DEF Display
      <4>3. keys \in Seq(Typable) /\ Trusting(guard) /\ recorded \subseteq read
        BY <2>3, <3>5
      <4>4. PICK f : Course(f, out, keys, guard, tty.line, read, recorded)
        BY <2>3, <3>5
      <4>5. PICK h : Course(h, out, Tail(keys), guard, Edited(tty.line, "erase"), read, recorded)
        BY <2>1, <3>1, <4>3, <4>4, EraseUnechoed
      <4>6. Course(h, out', keys', guard', tty'.line, read', recorded')
        BY <3>1, <3>3, <4>2, <4>5
      <4>7. keys' \in Seq(Typable)
        BY <3>1, <4>3, KeysLeft
      <4>8. recorded' \subseteq read' /\ Trusting(guard')
        BY <3>1, <4>3
      <4> QED
        BY <3>3, <4>6, <4>7, <4>8 DEF CleanInv
    <3>6. CASE ~clean
      BY <3>1, <3>3, <3>6 DEF CleanInv
    <3> QED
      BY <3>4, <3>5, <3>6
  <2>8. ASSUME TakeEnter PROVE CleanInv'
    <3>1. /\ keys # <<>> /\ Head(keys) = "enter" /\ tty' = [tty EXCEPT !.line = <<>>]
          /\ keys' = Tail(keys) /\ UNCHANGED <<guard, recorded>> /\ read' = read \cup {tty.line}
          /\ \/ Display(<<"newline">>) /\ clean' = clean
             \/ clean' = FALSE
      BY <2>8 DEF TakeEnter
    <3>2. tty' = [echo |-> tty.echo, line |-> <<>>]
      BY <2>2, <3>1
    <3>3. tty'.line = Edited(tty.line, Head(keys))
          /\ tty' = [echo |-> tty'.echo, line |-> tty'.line]
      BY <3>1, <3>2 DEF Edited
    <3>4. CASE clean'
      <4>1. clean /\ Display(<<"newline">>)
        BY <3>1, <3>4
      <4>2. "newline" \in Items /\ Echoes("newline", Head(keys))
        BY <3>1 DEF Items, Echoes
      <4>3. read' = read \cup IF Head(keys) = "enter" THEN {tty.line} ELSE {}
        BY <3>1
      <4> QED
        BY <2>5, <3>1, <3>3, <4>1, <4>2, <4>3
    <3>5. CASE ~clean'
      BY <3>3, <3>5 DEF CleanInv
    <3> QED
      BY <3>4, <3>5
  <2>9. ASSUME TakeControl PROVE CleanInv'
    <3>1. keys # <<>> /\ Head(keys) = "control" /\ clean' = clean
      BY <2>9 DEF TakeControl
    <3>2. ~clean
      <4>1. ASSUME clean PROVE FALSE
        <5>1. keys \in Seq(Typable)
          BY <2>3, <4>1
        <5>2. "control" \in Typable
          BY <3>1, <5>1, KeysLeft
        <5> QED
          BY <5>2, MarkerAssumption DEF Typable
      <4> QED
        BY <4>1
    <3>3. tty' = [echo |-> tty'.echo, line |-> tty'.line]
      <4>1. PICK line : tty' = [tty EXCEPT !.line = line]
        BY <2>9 DEF TakeControl
      <4>2. tty' = [echo |-> tty.echo, line |-> line]
        BY <2>2, <4>1
      <4> QED
        BY <4>2
    <3> QED
      BY <3>1, <3>2, <3>3 DEF CleanInv
  <2>10. ASSUME ProgramPrints PROVE CleanInv'
    <3>1. PICK item \in Chars \cup {Text, "break", "escape"} :
            Display(<<item>>) /\ clean' = (clean /\ item \notin Chars)
      BY <2>10 DEF ProgramPrints
    <3>2. /\ guard' = guard /\ keys' = keys /\ tty' = tty /\ recorded' = recorded
          /\ read' = read
      BY <2>10 DEF ProgramPrints
    <3>3. item \in Items /\ (item \notin Chars => item \notin Chars \cup Ends)
      BY <3>1, Classes DEF Items
    <3>4. Displays(out', out, item)
      BY <2>1, <3>1, <3>3, DisplayAdds
    <3>5. ASSUME clean, item \notin Chars PROVE \E h : Course(h, out', keys, guard, tty.line, read, recorded)
      <4>1. keys \in Seq(Typable)
        BY <2>3, <3>5
      <4>2. PICK f : Course(f, out, keys, guard, tty.line, read, recorded)
        BY <2>3, <3>5
      <4> QED
        BY <2>1, <3>3, <3>4, <3>5, <4>1, <4>2, ItemPrinted
    <3> QED
      BY <2>2, <2>3, <3>1, <3>2, <3>5 DEF CleanInv
  <2>11. ASSUME SetEcho PROVE CleanInv'
    <3>1. /\ guard' = guard /\ keys' = keys /\ out' = out /\ recorded' = recorded
          /\ read' = read /\ clean' = clean /\ tty' = [tty EXCEPT !.echo = ~@]
      BY <2>11 DEF SetEcho
    <3>2. tty' = [echo |-> ~tty.echo, line |-> tty.line]
      BY <2>2, <3>1
    <3>3. tty'.line = tty.line
          /\ tty' = [echo |-> tty'.echo, line |-> tty'.line]
      BY <3>2
    <3> QED
      BY <2>3, <3>1, <3>3 DEF CleanInv
  <2>12. ASSUME NEW after, Observe(after, FALSE)
         PROVE  /\ keys' = keys /\ tty' = tty /\ read' = read
                /\ out' = Tail(out) /\ guard' = after
                /\ clean' => clean /\ (Head(out) \in {Text, "break"} => ~UnderWay)
    BY <2>12 DEF Observe
  <2>13. ASSUME out # <<>>, clean, Head(out) \notin Chars \cup Ends, out' = Tail(out),
                UNCHANGED <<guard, keys, tty, recorded, read>>
         PROVE  CleanInv'
    <3>1. keys \in Seq(Typable) /\ Trusting(guard) /\ recorded \subseteq read
      BY <2>3, <2>13
    <3>2. PICK f : Course(f, out, keys, guard, tty.line, read, recorded)
      BY <2>3, <2>13
    <3>3. PICK h : Course(h, Tail(out), keys, guard, tty.line, read, recorded)
      BY <2>1, <2>13, <3>1, <3>2, NothingSeen
    <3>4. Course(h, out', keys', guard', tty'.line, read', recorded')
      BY <2>13, <3>3
    <3> QED
      BY <2>2, <2>13, <3>1, <3>4 DEF CleanInv
  <2>14. ASSUME ~UnderWay, clean
         PROVE  (\A char : ObserveChar(guard, char) = guard) /\ LineBoundary(guard) = guard
    BY <2>1, <2>3, <2>14, NothingDisturbed DEF UnderWay
  <2>15. ASSUME ObserveVisible PROVE CleanInv'
    <3>1. /\ out # <<>> /\ Head(out) \in Chars \cup {Text} /\ recorded' = recorded
          /\ keys' = keys /\ tty' = tty /\ read' = read
          /\ out' = Tail(out) /\ guard' = ObserveChar(guard, Head(out))
          /\ clean' => clean /\ (Head(out) \in {Text, "break"} => ~UnderWay)
      BY <2>12, <2>15 DEF ObserveVisible, Sees
    <3>2. CASE clean' /\ Head(out) \in Chars
      <4>1. clean /\ keys \in Seq(Typable) /\ Trusting(guard) /\ recorded \subseteq read
        BY <2>3, <3>1, <3>2
      <4>2. PICK f : Course(f, out, keys, guard, tty.line, read, recorded)
        BY <2>3, <4>1
      <4>3. GuardOK(guard')
        BY <2>1, <3>1
      <4>4. /\ Trusting(guard')
            /\ \E h : Course(h, Tail(out), keys, guard', tty.line, read, recorded)
        BY <2>1, <3>1, <3>2, <4>1, <4>2, <4>3, EchoSeen
      <4> QED
        BY <2>2, <3>1, <4>1, <4>4 DEF CleanInv
    <3>3. CASE clean' /\ Head(out) \notin Chars
      <4>1. Head(out) = Text /\ clean /\ ~UnderWay
        BY <3>1, <3>3
      <4>2. guard' = guard
        BY <2>14, <3>1, <4>1
      <4>3. Head(out) \notin Chars \cup Ends
        BY <4>1, Classes
      <4> QED
        BY <2>13, <3>1, <4>1, <4>2, <4>3
    <3>4. CASE ~clean'
      BY <2>2, <3>1, <3>4 DEF CleanInv
    <3> QED
      BY <3>2, <3>3, <3>4
  <2>16. ASSUME ObserveEnd PROVE CleanInv'
    <3>1. /\ out # <<>> /\ Head(out) \in {"newline", "break"}
          /\ recorded' = recorded
               \cup IF Confirms(guard) THEN {Head(guard.submitted).command} ELSE {}
          /\ keys' = keys /\ tty' = tty /\ read' = read
          /\ out' = Tail(out) /\ guard' = LineBoundary(guard)
          /\ clean' => clean /\ (Head(out) \in {Text, "break"} => ~UnderWay)
      BY <2>12, <2>16 DEF ObserveEnd, Confirmed, First
    <3>2. CASE clean' /\ Head(out) = "newline"
      <4> DEFINE command == Head(guard.submitted).command
                 more == recorded \cup {command}
      <4>1. clean /\ keys \in Seq(Typable) /\ Trusting(guard) /\ recorded \subseteq read
        BY <2>3, <3>1, <3>2
      <4>2. PICK f : Course(f, out, keys, guard, tty.line, read, recorded)
        BY <2>3, <4>1
      <4>3. GuardOK(guard')
        BY <2>1, <3>1
      <4>4. /\ Trusting(guard') /\ Confirms(guard) /\ command \in read
            /\ \E h : Course(h, Tail(out), keys, guard', tty.line, read, more)
        BY <2>1, <3>1, <3>2, <4>1, <4>2, <4>3, EndSeen
      <4>5. recorded' = more
        BY <3>1, <4>4
      <4> QED
        BY <2>2, <3>1, <4>1, <4>4, <4>5 DEF CleanInv
    <3>3. CASE clean' /\ Head(out) = "break"
      <4>1. clean /\ ~UnderWay
        BY <3>1, <3>3
      <4>2. guard' = guard
        BY <2>14, <3>1, <4>1
      <4>3. recorded' = recorded
        BY <3>1, <4>1 DEF UnderWay, Confirms
      <4>4. Head(out) \notin Chars \cup Ends
        BY <3>3, Classes
      <4> QED
        BY <2>13, <3>1, <4>1, <4>2, <4>3, <4>4
    <3>4. CASE ~clean'
      BY <2>2, <3>1, <3>4 DEF CleanInv
    <3> QED
      BY <3>1, <3>2, <3>3, <3>4
  <2>17. ASSUME ObserveCutEnd PROVE CleanInv'
    BY <2>2, <2>17 DEF ObserveCutEnd, Observe, CleanInv
  <2>18. ASSUME ObserveInvisible PROVE CleanInv'
    <3>1. out # <<>> /\ Head(out) \in {"rub", "escape"} /\ recorded' = recorded
      BY <2>18 DEF ObserveInvisible
    <3>2. CASE Observe(guard, FALSE) /\ clean
      <4>1. Head(out) \notin Chars \cup Ends
        BY <3>1, Classes
      <4> QED
        BY <2>12, <2>13, <3>1, <3>2, <4>1
    <3>3. CASE Observe(guard, FALSE) /\ ~clean
      BY <2>2, <3>3 DEF Observe, CleanInv
    <3>4. CASE Sees(IF Head(out) = "rub" THEN Blank ELSE Text, TRUE)
      BY <2>2, <3>4 DEF Sees, Observe, CleanInv
    <3> QED
      BY <2>18, <3>2, <3>3, <3>4 DEF ObserveInvisible
  <2>19. ASSUME Reconnect PROVE CleanInv'
    BY <2>19 DEF Reconnect, CleanInv
  <2>20. ASSUME UNCHANGED vars PROVE CleanInv'
    BY <2>20 DEF vars, CleanInv
  <2> QED
    BY <2>4, <2>6, <2>7, <2>8, <2>9, <2>10, <2>11, <2>15, <2>16, <2>17, <2>18, <2>19, <2>20
       DEF Next, Take, See
<1> QED
  BY <1>1, <1>2, Inductive, PTL DEF Spec

\* As long as nothing comes between, the lines recorded are lines the remote program has read,
\* and all of them once the output has arrived: for any characters typed ahead, erased, echoed
\* and ended in any order (Press, ObserveChar and LineBoundary together).
THEOREM NoLineIsMissed == Spec => []CleanIsRecorded
<1>1. IInv /\ CleanInv => CleanIsRecorded
  <2> SUFFICES ASSUME IInv, CleanInv, clean
               PROVE  /\ recorded \subseteq read
                      /\ keys = <<>> /\ out = <<>> => recorded = read
    BY DEF CleanIsRecorded
  <2>1. recorded \subseteq read
    BY DEF CleanInv
  <2>2. PICK f : Course(f, out, keys, guard, tty.line, read, recorded)
    BY DEF CleanInv
  <2>3. ASSUME out = <<>> PROVE read \subseteq recorded
    <3>1. out \in Seq(Items) /\ keys \in Seq(Typable) /\ GuardOK(guard)
      BY DEF IInv, CleanInv
    <3>2. Len(out) = 0
      BY <2>3, EmptySeq
    <3>3. Echoing(f, out, keys, guard)
      BY <2>2 DEF Course
    <3>4. f[0].nth \in Nat
      BY <3>1, <3>3, CourseIs
    <3>5. f[0].nth..f[0].nth - 1 = {}
      BY <3>4
    <3>6. \A text \in read \ recorded :
            \E x \in f[0].nth..f[Len(out)].nth - 1 : LineOf(guard, f[0].nth, x).command = text
      BY <2>2 DEF Course, Reading
    <3> QED
      BY <3>2, <3>5, <3>6
  <2> QED
    BY <2>1, <2>3
<1> QED
  BY <1>1, Inductive, InductiveClean, PTL

-------------------------------------------------------------------------------
(***************************************************************************)
(* ZMODEM: the invariant of the adapter.                                   *)
(***************************************************************************)
Shape(r, fields) == DOMAIN r = fields /\ r = [f \in fields |-> r[f]]

(***************************************************************************)
(* The sender.                                                             *)
(***************************************************************************)
Phases == {"made", "offer", "data", "eof", "complete", "finish", "over"}

SenderFields == {"phase", "file", "block", "out", "sent", "chosen", "whole"}

\* What is ready to be sent is the offer of a file, if anything.
SenderOK(sender) ==
  /\ Shape(sender, SenderFields)
  /\ sender.phase \in Phases
  /\ sender.file \in Nat
  /\ \/ sender.out = <<>>
     \/ Len(sender.out) = 1 /\ sender.out[1].kind = "ZFILE" /\ sender.out # <<>>
  /\ sender.sent \in Seq(Nat)
  /\ sender.chosen \in Seq(Nat)

SendersOK ==
  /\ senders = [s \in 1..Len(senders) |-> senders[s]] /\ Len(senders) \in Nat
  /\ \A s \in 1..Len(senders) : SenderOK(senders[s])

SendFields == {"tx", "files", "index", "selecting", "dialogs", "failed"}

SendOK ==
  /\ Shape(send, SendFields)
  /\ send.tx \in 0..Len(senders)
  /\ send.files \in Seq(Nat)
  /\ send.index \in Nat \ {0}
  /\ send.dialogs \in Nat
  /\ send.selecting => send.dialogs > 0
  /\ send.tx = 0 /\ ~send.failed => send.index = 1

SflushOK ==
  /\ Shape(sflush, {"pc", "tx", "file", "due"})
  /\ sflush.pc \in {"idle", "read", "sent"}
  /\ sflush.pc # "idle" => sflush.tx \in 1..Len(senders)
  /\ sflush.pc = "read" => senders[sflush.tx].phase = "data"

\* A session that has begun afresh has sent the files before the index.
Progress(sender, files, index) ==
  /\ sender.chosen = files
  /\ sender.phase \in {"offer", "data", "eof", "complete"} =>
       /\ index \in 1..Len(files)
       /\ sender.file = files[index]
       /\ sender.sent = SubSeq(files, 1, index - 1)

OnItsWay ==
  send.tx # 0 /\ senders[send.tx].whole => Progress(senders[send.tx], send.files, send.index)

SentWhole(sender) ==
  sender.phase \in {"finish", "over"} /\ sender.whole => sender.sent = sender.chosen

SelectionInv ==
  /\ setting \in Settings
  /\ SendersOK
  /\ SendOK
  /\ SflushOK
  /\ OnItsWay
  /\ \A s \in 1..Len(senders) : SentWhole(senders[s])

(***************************************************************************)
(* The records are what they are.                                          *)
(***************************************************************************)
RemoteFields == {"mode", "last", "answered", "aborted", "cut", "reply"}

RecvFields == {"rx", "made", "input", "handle", "gen", "batch", "name"}

FlushFields == {"pc", "rx", "gen", "file", "handle", "blocks", "then"}

Shapes == Shape(remote, RemoteFields) /\ Shape(recv, RecvFields) /\ Shape(flush, FlushFields)

(***************************************************************************)
(* rz ends a session only with a sender, and not while sz is received.     *)
(***************************************************************************)
Quiet ==
  /\ recv.rx # 0 /\ send.tx # 0 => senders[send.tx].phase \in {"made", "offer"}
  /\ remote.mode = "rz" /\ remote.reply = "ZFIN" => recv.rx = 0

\* While output is dropped, nobody waits for it.
ScreenFields == {"discarding", "held", "active"}

Muted == Shape(screen, ScreenFields) /\ (screen.discarding => recv.rx = 0)

(***************************************************************************)
(* The receiver.                                                           *)
(***************************************************************************)
None == Plain("none")

\* What sz may have to send next.
Dues ==
  {None, Plain("ZFIN")} \cup {Item("ZFILE", f, 0) : f \in Files}
    \cup {Item("data", f, b) : f \in Files, b \in Nat} \cup {Item("ZEOF", f, 0) : f \in Files}

\* A block is one of its file.
Due(item) ==
  /\ item \in Dues
  /\ item.kind = "data" => item.block \in 1..Size[item.file]
  /\ item.kind = "ZFILE" => item.file <= setting.szFiles

FromSz == {"ZFILE", "data", "ZEOF", "ZFIN"}

Stream(due, input) ==
  /\ due = [i \in 0..Len(input) |-> due[i]]
  /\ \A i \in 0..Len(input) : Due(due[i])
  /\ \A i \in 1..Len(input) :
       /\ input[i].kind = "ZRQINIT" => due[i] = After(input[i])
       /\ input[i].kind \in FromSz => input[i] = due[i - 1] /\ due[i] = After(input[i])
       /\ input[i].kind \notin FromSz \cup {"ZRQINIT"} => due[i] = due[i - 1]

InSync(d) ==
  recv.rx # 0 /\ remote.mode = "sz" /\ remote.last.kind # "none" => d = After(remote.last)

Upto(k) == [b \in 1..k |-> b]

\* The blocks before what is due.
Before(d) == Upto(IF d.kind = "data" THEN d.block - 1 ELSE Size[d.file])

Handle(h) == h \in 1..Len(store)

\* The file that is due continues what is there.
Has(d, h, blocks) ==
  /\ recv.name = d.file /\ recv.handle = h /\ Handle(h) /\ recv.rx # 0
  /\ store[h].file = d.file
  /\ store[h].blocks \o blocks = Before(d)

AtIdle(d) ==
  /\ d.kind \in {"data", "ZEOF"} => Has(d, recv.handle, recv.batch)
  /\ d.kind = "ZFIN" => recv.handle \in {0} \cup orphans

AtBegin(d) ==
  /\ flush.rx \in 1..recv.made
  /\ recv.rx = flush.rx => /\ d = Item("data", flush.file, 1)
                           /\ recv.name = flush.file /\ recv.batch = <<>>
  /\ recv.rx # flush.rx => d.kind = "none"

AtWrite(d) ==
  /\ flush.gen \in Nat /\ flush.gen <= recv.gen
  /\ Handle(flush.handle)
  /\ flush.blocks \in Seq(Nat)
  /\ flush.then \in {"data", "complete"}
  /\ recv.gen = flush.gen =>
       /\ recv.rx = flush.rx /\ recv.handle = flush.handle /\ recv.batch = <<>> /\ recv.rx # 0
       /\ flush.then = "data" => d.kind \in {"data", "ZEOF"} /\ Has(d, flush.handle, flush.blocks)
       /\ flush.then = "complete" =>
            /\ d.kind \in {"ZFILE", "ZFIN"}
            /\ store[flush.handle].blocks \o flush.blocks = Blocks(store[flush.handle].file)
  /\ recv.gen # flush.gen => d.kind = "none"

AtFinish(d) ==
  /\ Handle(flush.handle)
  /\ store[flush.handle].blocks = Blocks(store[flush.handle].file)
  /\ recv.handle \in {0, flush.handle}
  /\ d.kind \in {"none", "ZFILE", "ZFIN"}

AtCancel == Handle(flush.handle) /\ recv.handle \in {0, flush.handle}

At(d) ==
  /\ recv.rx = 0 => d.kind = "none" /\ recv.handle \in {0} \cup orphans
  /\ flush.pc = "idle" => AtIdle(d)
  /\ flush.pc = "begin" => AtBegin(d)
  /\ flush.pc \in {"encode", "write"} => AtWrite(d)
  /\ flush.pc = "finish" => AtFinish(d)
  /\ flush.pc = "cancel" => AtCancel

InStep == \E due : Stream(due, recv.input) /\ InSync(due[Len(recv.input)]) /\ At(due[0])

RemoteOK ==
  remote.last.kind \in {"none", "ZRQINIT"} \/ Due(remote.last)

Kinds == {"ZRQINIT", "ZFILE", "data", "ZEOF", "ZFIN", "ZRINIT", "ZRPOS", "text", "half"}

Pieces == [kind : Kinds, file : Nat, block : Nat]

RecvOK ==
  /\ recv.made \in Nat /\ recv.rx \in 0..recv.made
  /\ recv.input \in Seq(Pieces)
  /\ recv.handle \in 0..Len(store)
  /\ recv.gen \in Nat
  /\ recv.batch \in Seq(Nat)

FlushOK ==
  flush.pc \in {"idle", "begin", "encode", "write", "finish", "cancel"}

FileOK(file) ==
  /\ Shape(file, {"file", "blocks", "state"})
  /\ file.blocks \in Seq(Nat)

StoreOK ==
  /\ store = [h \in 1..Len(store) |-> store[h]] /\ Len(store) \in Nat
  /\ \A h \in 1..Len(store) : FileOK(store[h])
  /\ cancels \subseteq 1..Len(store)

ReceiverInv ==
  /\ RemoteOK
  /\ RecvOK
  /\ FlushOK
  /\ StoreOK
  /\ InStep
  /\ FinishedIsWhole
  /\ NothingLeftOpen

-------------------------------------------------------------------------------
LEMMA SettingKept == [AdapterNext]_adapterVars => setting' = setting
<1> SUFFICES ASSUME [AdapterNext]_adapterVars
             PROVE  setting' = setting
  OBVIOUS
<1> USE DEF FlushChanges, SendChanges
<1>1. CASE RemoteStarts \/ HeaderBegins \/ HeaderArrives \/ SzSends \/ RzAnswers
  BY <1>1 DEF RemoteStarts, HeaderBegins, HeaderArrives, SzSends, RzAnswers
<1>2. CASE RemoteGivesUp \/ ShellPrints \/ WindowEnds \/ FlushItem \/ FlushFails
  BY <1>2 DEF RemoteGivesUp, ShellPrints, WindowEnds, FlushItem, FlushFails
<1>3. CASE BeginReturns \/ BeginDeclined \/ BeginFails \/ Encoded \/ BatchStale
  BY <1>3 DEF BeginReturns, BeginDeclined, BeginFails, Encoded, BatchStale
<1>4. CASE Written \/ WriteFails \/ FinishReturns \/ FinishFails \/ FailCancels
  BY <1>4 DEF Written, WriteFails, FinishReturns, FinishFails, FailCancels
<1>5. CASE CancelArrives \/ UserCancels \/ DialogCancelled
  BY <1>5 DEF CancelArrives, UserCancels, DialogCancelled, Cancel
<1>6. CASE FilesChosen \/ FlushSender \/ BlockRead \/ AfterBlock \/ ReadFails
  BY <1>6 DEF FilesChosen, FlushSender, BlockRead, AfterBlock, ReadFails
<1>7. CASE UNCHANGED adapterVars
  BY <1>7 DEF adapterVars
<1>. QED  BY <1>1, <1>2, <1>3, <1>4, <1>5, <1>6, <1>7 DEF AdapterNext

(***************************************************************************)
(* SelectionInv is inductive.                                              *)
(***************************************************************************)
LEMMA SelectionStutters ==
  ASSUME SelectionInv, UNCHANGED <<setting, send, senders, sflush>>
  PROVE  SelectionInv'
BY DEF SelectionInv, SendersOK, SenderOK, SendOK, SflushOK, Progress, OnItsWay, SentWhole, Shape

\* What one sender makes of a step, and what the others do not.
LEMMA OneSender ==
  ASSUME SendersOK, NEW s \in 1..Len(senders), NEW new, SenderOK(new),
         senders' = [senders EXCEPT ![s] = new]
  PROVE  /\ SendersOK'
         /\ Len(senders') = Len(senders)
         /\ senders'[s] = new
         /\ \A q \in 1..Len(senders) : q # s => senders'[q] = senders[q]
<1>1. DOMAIN senders = 1..Len(senders) /\ Len(senders) \in Nat
  BY DEF SendersOK
<1>2. /\ DOMAIN senders' = 1..Len(senders)
      /\ senders' = [q \in 1..Len(senders) |-> senders'[q]]
  BY <1>1
<1>3. Len(senders') = Len(senders)
  BY <1>1, <1>2, LenProperties
<1>4. senders'[s] = new /\ \A q \in 1..Len(senders) : q # s => senders'[q] = senders[q]
  BY <1>1
<1>5. \A q \in 1..Len(senders) : SenderOK(senders'[q])
  BY <1>4 DEF SendersOK
<1>. QED  BY <1>1, <1>2, <1>3, <1>4, <1>5 DEF SendersOK, SenderOK, Shape

LEMMA FedKeeps ==
  ASSUME NEW sender, SenderOK(sender), NEW item
  PROVE  LET fed == Fed(sender, item) IN
           /\ SenderOK(fed)
           /\ fed.file = sender.file /\ fed.sent = sender.sent /\ fed.chosen = sender.chosen
           /\ fed.whole = sender.whole
           /\ sender.phase = "data" => fed.phase = "data"
           /\ sender.phase = "made" <=> fed.phase = "made"
           /\ sender.phase \in {"finish", "over"} <=> fed.phase \in {"finish", "over"}
BY DEF SenderOK, Shape, SenderFields, Phases, Fed

LEMMA ConsumeKeepsSelection ==
  ASSUME SelectionInv, UNCHANGED setting, NEW item, Consume(item)
  PROVE  SelectionInv'
<1>1. CASE UNCHANGED <<send, senders, sflush>>
  BY <1>1, SelectionStutters
<1>2. CASE /\ send.tx # 0
           /\ senders' = [senders EXCEPT ![send.tx] = Fed(@, item)]
           /\ sflush' = [sflush EXCEPT !.due = TRUE]
           /\ UNCHANGED send
  <2> DEFINE s == send.tx
             fed == Fed(senders[s], item)
  <2>1. s \in 1..Len(senders) /\ SenderOK(senders[s])
    BY <1>2 DEF SelectionInv, SendOK, SendersOK
  <2>2. senders' = [senders EXCEPT ![s] = fed]
    BY <1>2
  <2>3. /\ SenderOK(fed)
        /\ fed.file = senders[s].file /\ fed.sent = senders[s].sent
        /\ fed.chosen = senders[s].chosen /\ fed.whole = senders[s].whole
        /\ senders[s].phase = "data" => fed.phase = "data"
        /\ senders[s].phase = "made" <=> fed.phase = "made"
        /\ senders[s].phase \in {"finish", "over"} <=> fed.phase \in {"finish", "over"}
    BY <2>1, FedKeeps
  <2> HIDE DEF fed
  <2>4. /\ SendersOK'
        /\ Len(senders') = Len(senders)
        /\ senders'[s] = fed
        /\ \A q \in 1..Len(senders) : q # s => senders'[q] = senders[q]
    BY <2>1, <2>2, <2>3, OneSender DEF SelectionInv
  <2>5. SendOK'
    BY <1>2, <2>4 DEF SelectionInv, SendOK, Shape
  <2>6. SflushOK'
    BY <1>2, <2>3, <2>4 DEF SelectionInv, SflushOK, Shape
  <2>7. OnItsWay'
    <3>1. fed.phase \in Phases /\ senders[s].phase \in Phases
      BY <2>1, <2>3 DEF SenderOK
    <3>. QED  BY <1>2, <2>1, <2>3, <2>4, <3>1 DEF SelectionInv, OnItsWay, Progress, Phases
  <2>8. \A q \in 1..Len(senders') : SentWhole(senders'[q])
    BY <2>1, <2>3, <2>4 DEF SelectionInv, SentWhole
  <2>. QED  BY <2>4, <2>5, <2>6, <2>7, <2>8 DEF SelectionInv, SentWhole
<1>3. CASE SelectFiles /\ UNCHANGED <<senders, sflush>>
  <2>1. SendOK /\ Shape(send, SendFields)
    BY DEF SelectionInv, SendOK
  <2>2. Shape(send', SendFields)
    BY <1>3, <2>1 DEF SelectFiles, SendFields, Shape
  <2>3. /\ send'.tx = send.tx /\ send'.files = send.files /\ send'.index = send.index
        /\ send'.dialogs \in {send.dialogs, send.dialogs + 1}
    BY <1>3, <2>1 DEF SelectFiles, SendFields, Shape
  <2>4. send'.failed = send.failed
    BY <1>3, <2>1 DEF SelectFiles, SendFields, Shape
  <2>5. send'.selecting => send'.dialogs > 0
    BY <1>3, <2>1 DEF SelectFiles, SendFields, Shape, SendOK
  <2>6. SendOK'
    BY <1>3, <2>1, <2>2, <2>3, <2>4, <2>5 DEF SendOK
  <2>. QED  BY <1>3, <2>3, <2>6
       DEF SelectionInv, SendersOK, SenderOK, SflushOK, OnItsWay, Progress, SentWhole, Shape
<1>. QED  BY <1>1, <1>2, <1>3 DEF Consume, Detect, sending

LEMMA CancelKeepsSelection ==
  ASSUME SelectionInv, NEW s, Shape(s, SendFields), s.dialogs \in Nat, Cancel(s)
  PROVE  SelectionInv'
<1>1. Shape(send', SendFields)
  BY DEF Cancel, Cancelled, SendFields, Shape
<1>2. /\ send'.tx = 0 /\ send'.files = <<>> /\ send'.index = 1 /\ send'.dialogs = s.dialogs
      /\ UNCHANGED <<setting, senders, sflush>>
  BY DEF Cancel, Cancelled, SendFields, Shape
<1>3. send'.selecting = FALSE
  BY DEF Cancel, Cancelled, SendFields, Shape
<1>4. SendOK'
  BY <1>1, <1>2, <1>3 DEF SelectionInv, SendersOK, SendOK
<1>. QED  BY <1>2, <1>4
     DEF SelectionInv, SendersOK, SenderOK, SflushOK, OnItsWay, SentWhole, Shape

\* What a failure makes of the state of the adapter.
LEMMA FailureSends ==
  ASSUME SelectionInv, SenderFails
  PROVE  /\ send'.tx = 0 /\ sflush'.pc = "idle" /\ Shape(sflush', {"pc", "tx", "file", "due"})
         /\ UNCHANGED senders => SendOK' /\ SflushOK'
         /\ Len(senders') = Len(senders) => SendOK' /\ SflushOK'
<1>1. SendOK /\ Shape(send, SendFields) /\ Len(senders) \in Nat
  BY DEF SelectionInv, SendOK, SendersOK
<1>2. Shape(send', SendFields)
  BY <1>1 DEF SenderFails, SendFields, Shape
<1>3. /\ send'.tx = 0 /\ send'.files = send.files /\ send'.index = send.index
      /\ send'.dialogs = send.dialogs
  BY <1>1 DEF SenderFails, SendFields, Shape
<1>4. send'.failed = TRUE
  BY <1>1 DEF SenderFails, SendFields, Shape
<1>5. send'.selecting = send.selecting
  BY <1>1 DEF SenderFails, SendFields, Shape
<1>6. sflush'.pc = "idle" /\ Shape(sflush', {"pc", "tx", "file", "due"})
  BY DEF SelectionInv, SflushOK, SenderFails, Shape
<1>7. Len(senders') = Len(senders) => SendOK' /\ SflushOK'
  BY <1>1, <1>2, <1>3, <1>4, <1>5, <1>6 DEF SendOK, SflushOK
<1>. QED  BY <1>3, <1>6, <1>7

\* A flush that fails, or goes on to read a block.
LEMMA FailureKeepsSelection ==
  ASSUME SelectionInv, SenderFails, UNCHANGED <<setting, senders>>
  PROVE  SelectionInv'
<1>. QED  BY FailureSends DEF SelectionInv, SendersOK, SenderOK, OnItsWay, SentWhole, Shape

LEMMA ReadNextKeepsSelection ==
  ASSUME SelectionInv, NEW s \in 1..Len(senders), senders[s].phase = "data", ReadNext(s),
         UNCHANGED <<setting, senders>>
  PROVE  SelectionInv'
<1>1. CASE SenderFails
  BY <1>1, FailureKeepsSelection
<1>2. CASE ~SenderFails
  <2>1. SflushOK'
    BY <1>2 DEF SflushOK, ReadNext, Shape
  <2>2. UNCHANGED send
    BY <1>2 DEF ReadNext
  <2>. QED  BY <2>1, <2>2
       DEF SelectionInv, SendersOK, SenderOK, SendOK, OnItsWay, Progress, SentWhole, Shape
<1>. QED  BY <1>1, <1>2

\* A sender that has been made, and one that has been given its file.
LEMMA MadeSender ==
  ASSUME NEW chosen \in Seq(Nat), NEW made, made = NewSender(chosen)
  PROVE  /\ SenderOK(made) /\ made.phase = "made" /\ made.file = 0 /\ made.sent = <<>>
         /\ made.chosen = chosen
         /\ made.whole => ~send.failed /\ send.tx = 0
<1> DEFINE fresh == (~send.failed /\ send.tx = 0)
<1>1. made.whole => ~send.failed /\ send.tx = 0
  BY DEF NewSender
<1>2. made = [phase |-> "made", file |-> 0, block |-> 0, out |-> <<>>, sent |-> <<>>,
              chosen |-> chosen, whole |-> fresh]
  BY DEF NewSender
<1> HIDE DEF fresh
<1>3. /\ DOMAIN made = SenderFields
      /\ made = [f \in SenderFields |-> made[f]]
  BY <1>2 DEF SenderFields
<1>4. /\ made.phase = "made" /\ made.file = 0 /\ made.out = <<>> /\ made.sent = <<>>
      /\ made.chosen = chosen
  BY <1>2
<1>5. Shape(made, SenderFields)
  BY <1>3 DEF Shape
<1>. QED  BY <1>1, <1>4, <1>5 DEF SenderOK, Phases

LEMMA OfferedSender ==
  ASSUME NEW sender, SenderOK(sender), NEW file \in Nat, NEW new, new = Offer(sender, file)
  PROVE  /\ SenderOK(new) /\ new.phase = "offer" /\ new.file = file
         /\ new.sent = sender.sent /\ new.chosen = sender.chosen /\ new.whole = sender.whole
<1>1. /\ Shape(new, SenderFields) /\ new.phase = "offer" /\ new.file = file
      /\ new.sent = sender.sent /\ new.chosen = sender.chosen /\ new.whole = sender.whole
  BY DEF SenderOK, Offer, Shape, SenderFields
<1>2. new.out = <<Item("ZFILE", file, 0)>>
  BY DEF SenderOK, Offer, Shape, SenderFields
<1>3. Len(new.out) = 1 /\ new.out[1].kind = "ZFILE" /\ new.out # <<>>
  BY <1>2 DEF Item
<1>. QED  BY <1>1, <1>3 DEF SenderOK, Phases

LEMMA ChosenKeepsSelection == SelectionInv /\ FilesChosen => SelectionInv'
<1> SUFFICES ASSUME SelectionInv, FilesChosen
             PROVE  SelectionInv'
  OBVIOUS
<1>1. PICK chosen \in setting.selections :
        LET valid == send.index <= Len(chosen)
            sender == NewSender(chosen)
        IN /\ send' = [send EXCEPT !.tx = Len(senders) + 1, !.files = chosen,
                                   !.selecting = FALSE, !.dialogs = @ - 1]
           /\ senders' = Append(senders, IF valid THEN Offer(sender, chosen[send.index])
                                                  ELSE sender)
           /\ sflush' = [sflush EXCEPT !.due = @ \/ valid]
  BY DEF FilesChosen
<1> DEFINE n == Len(senders)
           new == IF send.index <= Len(chosen) THEN Offer(NewSender(chosen), chosen[send.index])
                  ELSE NewSender(chosen)
<1>2. chosen \in Seq(Nat)
  <2>1. chosen \in Seq(Files)
    BY SettingsAssumption DEF SelectionInv
  <2>2. Files \subseteq Nat
    BY SizeAssumption DEF Files
  <2>3. /\ chosen = [i \in 1..Len(chosen) |-> chosen[i]] /\ Len(chosen) \in Nat
        /\ \A i \in 1..Len(chosen) : chosen[i] \in Nat
    BY <2>1, <2>2
  <2>. QED  BY <2>3, IsASeq
<1>3. /\ n \in Nat /\ n = Len(senders) /\ send.index \in Nat \ {0} /\ setting' = setting
      /\ send.dialogs > 0
  BY DEF SelectionInv, SendersOK, SendOK, FilesChosen
<1>4. /\ SenderOK(new)
      /\ new.chosen = chosen /\ new.sent = <<>>
      /\ new.whole => ~send.failed /\ send.tx = 0
      /\ new.phase = IF send.index <= Len(chosen) THEN "offer" ELSE "made"
      /\ send.index <= Len(chosen) => new.file = chosen[send.index]
  <2> DEFINE made == NewSender(chosen)
  <2>1. /\ SenderOK(made) /\ made.phase = "made" /\ made.sent = <<>> /\ made.chosen = chosen
        /\ made.whole => ~send.failed /\ send.tx = 0
    BY <1>2, MadeSender
  <2> HIDE DEF made
  <2>2. CASE send.index <= Len(chosen)
    <3> DEFINE file == chosen[send.index]
    <3>1. file \in Nat
      BY <1>2, <1>3, <2>2
    <3>2. new = Offer(made, file)
      BY <2>2 DEF made
    <3> HIDE DEF new, file
    <3>3. /\ SenderOK(new) /\ new.phase = "offer" /\ new.file = file
          /\ new.sent = made.sent /\ new.chosen = made.chosen /\ new.whole = made.whole
      BY <2>1, <3>1, <3>2, OfferedSender
    <3>4. new.whole => ~send.failed /\ send.tx = 0
      BY <2>1, <3>3
    <3>. QED  BY <2>1, <2>2, <3>3, <3>4 DEF file
  <2>3. CASE ~(send.index <= Len(chosen))
    <3>1. new = made
      BY <2>3 DEF made
    <3>. QED  BY <2>1, <2>3, <3>1
  <2>. QED  BY <2>2, <2>3
<1>5. senders' = Append(senders, new)
  BY <1>1
<1> HIDE DEF new
<1>6. /\ Len(senders') = n + 1
      /\ senders'[n + 1] = new
      /\ \A q \in 1..n : senders'[q] = senders[q]
      /\ senders' = [q \in 1..Len(senders') |-> senders'[q]]
  <2> DEFINE S == {senders[q] : q \in 1..n} \cup {new}
  <2>1. senders = [q \in 1..n |-> senders[q]] /\ \A q \in 1..n : senders[q] \in S
    BY <1>3 DEF SelectionInv, SendersOK
  <2>2. senders \in Seq(S) /\ new \in S
    <3>1. new \in S
      OBVIOUS
    <3> HIDE DEF S
    <3>. QED  BY <1>3, <2>1, <3>1, IsASeq
  <2> HIDE DEF S
  <2>3. Append(senders, new) \in Seq(S)
    BY <2>2
  <2> DEFINE t == Append(senders, new)
  <2>4. t = [q \in 1..Len(t) |-> t[q]]
    <3>1. t \in Seq(S)
      BY <2>3
    <3> HIDE DEF t
    <3>. QED  BY <3>1
  <2>5. senders' = [q \in 1..Len(senders') |-> senders'[q]]
    BY <1>5, <2>4
  <2>. QED  BY <1>3, <1>5, <2>2, <2>5, Appended
<1>7. SendersOK'
  <2> SUFFICES ASSUME NEW q \in 1..Len(senders')
               PROVE  SenderOK(senders'[q])
    BY <1>3, <1>6 DEF SendersOK, SenderOK, Shape
  <2>1. CASE q = n + 1
    BY <1>4, <1>6, <2>1
  <2>2. CASE q \in 1..n
    BY <1>6, <2>2 DEF SelectionInv, SendersOK
  <2>. QED  BY <1>3, <1>6, <2>1, <2>2
<1>8. send'.tx = n + 1 /\ send'.files = chosen /\ send'.index = send.index
  BY <1>1 DEF SelectionInv, SendOK, SendFields, Shape
<1>9. SendOK'
  <2>1. Shape(send', SendFields)
    BY <1>1 DEF SelectionInv, SendOK, SendFields, Shape
  <2>2. send'.dialogs = send.dialogs - 1
    BY <1>1 DEF SelectionInv, SendOK, SendFields, Shape
  <2>3. send'.selecting = FALSE
    BY <1>1 DEF SelectionInv, SendOK, SendFields, Shape
  <2>4. send.dialogs \in Nat
    BY DEF SelectionInv, SendOK
  <2>. QED  BY <1>2, <1>3, <1>6, <1>8, <2>1, <2>2, <2>3, <2>4 DEF SendOK
<1>10. SflushOK'
  <2>1. /\ Shape(sflush', {"pc", "tx", "file", "due"})
        /\ sflush'.pc = sflush.pc /\ sflush'.tx = sflush.tx
    BY <1>1 DEF SelectionInv, SflushOK, Shape
  <2>. QED  BY <1>3, <1>6, <2>1 DEF SelectionInv, SflushOK
<1>11. OnItsWay'
  <2> SUFFICES ASSUME new.whole
               PROVE  Progress(new, chosen, send.index)
    BY <1>3, <1>6, <1>8 DEF OnItsWay, Progress
  <2>1. send.index = 1
    BY <1>4 DEF SelectionInv, SendOK
  <2>. QED  BY <1>2, <1>4, <2>1 DEF Progress
<1>12. \A q \in 1..Len(senders') : SentWhole(senders'[q])
  BY <1>3, <1>4, <1>6 DEF SelectionInv, SentWhole
<1>. QED  BY <1>3, <1>7, <1>9, <1>10, <1>11, <1>12 DEF SelectionInv, SentWhole

LEMMA FlushKeepsSelection == SelectionInv /\ FlushSender => SelectionInv'
<1> SUFFICES ASSUME SelectionInv, FlushSender
             PROVE  SelectionInv'
  OBVIOUS
<1> DEFINE s == send.tx
           sender == senders[s]
           sent == [sender EXCEPT !.sent = Append(@, sender.file)]
           next == IF send.index < Len(send.files) THEN Offer(sent, send.files[send.index + 1])
                   ELSE [sent EXCEPT !.phase = "finish", !.out = <<Plain("ZFIN")>>]
           after == IF sender.phase = "complete" THEN next ELSE sender
           new == [after EXCEPT !.out = <<>>]
<1>1. s \in 1..Len(senders) /\ SenderOK(sender) /\ Len(senders) \in Nat /\ setting' = setting
  BY SMTT(20) DEF SelectionInv, SendOK, SendersOK, FlushSender, SendChanges
<1>2. /\ SenderOK(new)
      /\ new.chosen = sender.chosen /\ new.whole = sender.whole
      /\ sender.phase # "complete" =>
           new.phase = sender.phase /\ new.file = sender.file /\ new.sent = sender.sent
      /\ sender.phase = "complete" =>
           /\ new.sent = Append(sender.sent, sender.file)
           /\ IF send.index < Len(send.files)
              THEN new.phase = "offer" /\ new.file = send.files[send.index + 1]
              ELSE new.phase = "finish"
  <2>1. send.index < Len(send.files) => send.files[send.index + 1] \in Nat
    BY SMTT(20) DEF SelectionInv, SendOK
  <2>2. Append(sender.sent, sender.file) \in Seq(Nat)
    BY <1>1 DEF SenderOK
  <2> DEFINE more == Append(sender.sent, sender.file)
             nextFile == send.files[send.index + 1]
  <2>3. sent = [sender EXCEPT !.sent = more]
    BY <1>1 DEF SenderOK, Shape, SenderFields
  <2> HIDE DEF more, nextFile
  <2>4. CASE sender.phase # "complete"
    BY <1>1, <2>4 DEF SenderOK, Shape, SenderFields, Phases
  <2>5. CASE sender.phase = "complete" /\ send.index < Len(send.files)
    <3>1. new = [Offer([sender EXCEPT !.sent = more], nextFile) EXCEPT !.out = <<>>]
      BY <2>3, <2>5 DEF nextFile
    <3>. QED  BY <1>1, <2>1, <2>2, <2>5, <3>1
         DEF SenderOK, Shape, SenderFields, Phases, Offer, more, nextFile
  <2>6. CASE sender.phase = "complete" /\ ~(send.index < Len(send.files))
    <3>1. new = [[[sender EXCEPT !.sent = more] EXCEPT !.phase = "finish",
                                                   !.out = <<Plain("ZFIN")>>] EXCEPT !.out = <<>>]
      BY <2>3, <2>6
    <3>. QED  BY <1>1, <2>2, <2>6, <3>1 DEF SenderOK, Shape, SenderFields, Phases, more
  <2>. QED  BY <2>4, <2>5, <2>6
<1>3. senders' = [senders EXCEPT ![s] = new]
  BY DEF FlushSender
<1>4. /\ SendersOK'
      /\ Len(senders') = Len(senders)
      /\ senders'[s] = new
      /\ \A q \in 1..Len(senders) : q # s => senders'[q] = senders[q]
  <2> HIDE DEF new
  <2>. QED  BY <1>1, <1>2, <1>3, OneSender DEF SelectionInv
<1> HIDE DEF new, after, next, sent
<1>5. sender.phase = "complete" /\ sender.whole =>
        /\ send.index \in 1..Len(send.files) /\ sender.chosen = send.files
        /\ new.sent = SubSeq(send.files, 1, send.index)
  <2> SUFFICES ASSUME sender.phase = "complete", sender.whole
               PROVE  /\ send.index \in 1..Len(send.files) /\ sender.chosen = send.files
                      /\ new.sent = SubSeq(send.files, 1, send.index)
    OBVIOUS
  <2>1. /\ send.index \in 1..Len(send.files) /\ sender.chosen = send.files
        /\ sender.file = send.files[send.index]
        /\ sender.sent = SubSeq(send.files, 1, send.index - 1)
    BY <1>1 DEF SelectionInv, OnItsWay, Progress
  <2>2. send.files \in Seq(Nat) /\ Len(send.files) \in Nat
    BY DEF SelectionInv, SendOK
  <2>3. new.sent = Append(SubSeq(send.files, 1, send.index - 1), send.files[send.index])
    BY <1>2, <2>1
  <2>. QED  BY <2>1, <2>2, <2>3
<1>6. SentWhole(new)
  <2> SUFFICES ASSUME new.phase \in {"finish", "over"}, new.whole
               PROVE  new.sent = new.chosen
    BY DEF SentWhole
  <2>1. CASE sender.phase # "complete"
    BY <1>1, <1>2, <2>1 DEF SelectionInv, SentWhole
  <2>2. CASE sender.phase = "complete"
    <3>1. send.files \in Seq(Nat) /\ Len(send.files) \in Nat /\ send.index \in Nat
      BY DEF SelectionInv, SendOK
    <3>2. ~(send.index < Len(send.files))
      BY <1>2, <2>2
    <3>3. send.index = Len(send.files)
      BY <1>2, <1>5, <2>2, <3>1, <3>2
    <3>4. new.sent = SubSeq(send.files, 1, Len(send.files)) /\ new.chosen = send.files
      BY <1>2, <1>5, <2>2, <3>3
    <3>. QED  BY <3>1, <3>4
  <2>. QED  BY <2>1, <2>2
<1>7. \A q \in 1..Len(senders') : SentWhole(senders'[q])
  BY <1>1, <1>4, <1>6 DEF SelectionInv, SentWhole
<1>8. CASE sender.phase = "data"
  <2>1. ReadNext(s)
    BY <1>8 DEF FlushSender
  <2>2. senders'[s].phase = "data" /\ sender.phase = "data"
    BY <1>2, <1>4, <1>8
  <2>3. CASE SenderFails
    <3>1. SendOK' /\ SflushOK' /\ send'.tx = 0
      BY <1>4, <2>3, FailureSends
    <3>. QED  BY <1>1, <1>4, <1>7, <3>1 DEF SelectionInv, OnItsWay, SentWhole
  <2>4. CASE ~SenderFails
    <3>1. UNCHANGED send /\ SflushOK'
      BY <1>1, <1>4, <2>1, <2>2, <2>4 DEF ReadNext, SflushOK, Shape
    <3>2. OnItsWay'
      BY <1>1, <1>2, <1>4, <2>2, <3>1 DEF SelectionInv, OnItsWay, Progress
    <3>3. SendOK'
      BY <1>4, <3>1 DEF SelectionInv, SendOK, Shape
    <3>. QED  BY <1>1, <1>4, <1>7, <3>1, <3>2, <3>3 DEF SelectionInv, SentWhole
  <2>. QED  BY <2>3, <2>4
<1>9. CASE sender.phase # "data"
  <2>1. /\ sflush' = [sflush EXCEPT !.due = FALSE]
        /\ send' = CASE sender.phase = "complete" -> [send EXCEPT !.index = @ + 1]
                     [] sender.phase = "over" ->
                          [send EXCEPT !.tx = 0, !.files = <<>>, !.index = 1,
                                       !.failed = FALSE]
                     [] OTHER -> send
        /\ sflush.pc = "idle"
    BY <1>9 DEF FlushSender
  <2>2. SflushOK'
    BY <2>1 DEF SelectionInv, SflushOK, Shape
  <2>3. SendOK'
    <3>1. SendOK /\ Shape(send, SendFields)
      BY DEF SelectionInv, SendOK
    <3>2. CASE sender.phase = "over"
      <4>1. send' = [send EXCEPT !.tx = 0, !.files = <<>>, !.index = 1, !.failed = FALSE]
        BY <2>1, <3>2
      <4>2. Shape(send', SendFields)
        BY <3>1, <4>1 DEF SendFields, Shape
      <4>3. /\ send'.tx = 0 /\ send'.files = <<>> /\ send'.index = 1
            /\ send'.dialogs = send.dialogs
        BY <3>1, <4>1 DEF SendFields, Shape
      <4>4. send'.selecting = send.selecting
        BY <3>1, <4>1 DEF SendFields, Shape
      <4>. QED  BY <1>1, <1>4, <3>1, <4>2, <4>3, <4>4 DEF SendOK
    <3>3. CASE sender.phase = "complete"
      <4>1. send' = [send EXCEPT !.index = @ + 1]
        BY <2>1, <3>3
      <4>2. Shape(send', SendFields)
        BY <3>1, <4>1 DEF SendFields, Shape
      <4>3. /\ send'.tx = s /\ send'.files = send.files /\ send'.index = send.index + 1
            /\ send'.dialogs = send.dialogs
        BY <3>1, <4>1 DEF SendFields, Shape
      <4>4. send'.selecting = send.selecting
        BY <3>1, <4>1 DEF SendFields, Shape
      <4>5. s # 0
        BY DEF FlushSender
      <4>. QED  BY <1>1, <1>4, <3>1, <4>2, <4>3, <4>4, <4>5 DEF SendOK
    <3>4. CASE sender.phase \notin {"over", "complete"}
      <4>1. UNCHANGED send
        BY <2>1, <3>4
      <4>. QED  BY <1>4, <3>1, <4>1 DEF SendOK, Shape
    <3>. QED  BY <3>2, <3>3, <3>4
  <2>4. OnItsWay'
    <3>1. CASE sender.phase = "over"
      <4>1. send'.tx = 0
        BY <2>1, <3>1 DEF SelectionInv, SendOK, SendFields, Shape
      <4>. QED  BY <4>1 DEF OnItsWay
    <3>2. CASE sender.phase = "complete"
      <4>1. send'.tx = s /\ send'.files = send.files /\ send'.index = send.index + 1
        BY <2>1, <3>2 DEF SelectionInv, SendOK, SendFields, Shape
      <4>2. send.index \in Nat \ {0} /\ Len(send.files) \in Nat
        BY DEF SelectionInv, SendOK
      <4>3. new.whole => Progress(new, send.files, send.index + 1)
        BY <1>2, <1>5, <3>2, <4>2 DEF Progress
      <4>. QED  BY <1>1, <1>4, <4>1, <4>3 DEF OnItsWay, Progress
    <3>3. CASE sender.phase \notin {"over", "complete"}
      BY <1>1, <1>2, <1>4, <2>1, <3>3 DEF SelectionInv, OnItsWay, Progress
    <3>. QED  BY <3>1, <3>2, <3>3
  <2>. QED  BY <1>1, <1>4, <1>7, <2>2, <2>3, <2>4 DEF SelectionInv, SentWhole
<1>. QED  BY <1>8, <1>9

LEMMA BlockKeepsSelection == SelectionInv /\ BlockRead => SelectionInv'
<1> SUFFICES ASSUME SelectionInv, BlockRead
             PROVE  SelectionInv'
  OBVIOUS
<1> DEFINE s == sflush.tx
           sender == senders[s]
           last == sender.block = Size[sender.file]
           new == [sender EXCEPT !.block = @ + 1, !.phase = IF last THEN "eof" ELSE @]
<1>1. /\ s \in 1..Len(senders) /\ SenderOK(sender) /\ Len(senders) \in Nat
      /\ sender.phase = "data" /\ setting' = setting /\ UNCHANGED send
  BY DEF SelectionInv, SendersOK, SflushOK, BlockRead, SendChanges
<1>2. /\ SenderOK(new)
      /\ new.chosen = sender.chosen /\ new.whole = sender.whole /\ new.file = sender.file
      /\ new.sent = sender.sent /\ new.phase \in {"data", "eof"}
  BY <1>1 DEF SenderOK, Shape, SenderFields, Phases
<1>3. senders' = [senders EXCEPT ![s] = new]
  <2>1. DOMAIN senders = 1..Len(senders)
    BY DEF SelectionInv, SendersOK
  <2>2. DOMAIN sender = SenderFields
    BY <1>1 DEF SenderOK, Shape
  <2>3. senders' = [senders EXCEPT ![s].block = @ + 1,
                                   ![s].phase = IF last THEN "eof" ELSE @]
    BY DEF BlockRead
  <2>. QED  BY <1>1, <2>1, <2>2, <2>3 DEF SenderFields
<1> HIDE DEF new
<1>4. /\ SendersOK'
      /\ Len(senders') = Len(senders)
      /\ senders'[s] = new
      /\ \A q \in 1..Len(senders) : q # s => senders'[q] = senders[q]
  BY <1>1, <1>2, <1>3, OneSender DEF SelectionInv
<1>5. SendOK'
  BY <1>1, <1>4 DEF SelectionInv, SendOK, Shape
<1>6. SflushOK'
  BY <1>4 DEF SelectionInv, SflushOK, BlockRead, Shape
<1>7. OnItsWay'
  <2> SUFFICES ASSUME send.tx # 0, senders'[send.tx].whole
               PROVE  Progress(senders'[send.tx], send.files, send.index)
    BY <1>1 DEF OnItsWay, Progress
  <2>1. send.tx \in 1..Len(senders)
    BY DEF SelectionInv, SendOK
  <2>2. CASE send.tx = s
    BY <1>1, <1>2, <1>4, <2>2 DEF SelectionInv, OnItsWay, Progress
  <2>3. CASE send.tx # s
    BY <1>4, <2>1, <2>3 DEF SelectionInv, OnItsWay, Progress
  <2>. QED  BY <2>2, <2>3
<1>8. \A q \in 1..Len(senders') : SentWhole(senders'[q])
  BY <1>1, <1>2, <1>4 DEF SelectionInv, SentWhole
<1>. QED  BY <1>1, <1>4, <1>5, <1>6, <1>7, <1>8 DEF SelectionInv, SentWhole

LEMMA SelectionKept == SelectionInv /\ [AdapterNext]_adapterVars => SelectionInv'
<1> SUFFICES ASSUME SelectionInv, [AdapterNext]_adapterVars
             PROVE  SelectionInv'
  OBVIOUS
<1> USE SettingKept
<1>1. CASE HeaderBegins \/ HeaderArrives \/ SzSends \/ RzAnswers \/ ShellPrints
  BY <1>1, ConsumeKeepsSelection DEF HeaderBegins, HeaderArrives, SzSends, RzAnswers, ShellPrints
<1>2. CASE RemoteStarts \/ RemoteGivesUp \/ WindowEnds \/ FlushItem \/ FlushFails
  BY <1>2, SelectionStutters
     DEF RemoteStarts, RemoteGivesUp, WindowEnds, FlushItem, FlushFails, sending
<1>3. CASE BeginReturns \/ BeginDeclined \/ BeginFails \/ Encoded \/ BatchStale
  BY <1>3, SelectionStutters
     DEF BeginReturns, BeginDeclined, BeginFails, Encoded, BatchStale, FlushChanges, sending
<1>4. CASE Written \/ WriteFails \/ FinishReturns \/ FinishFails \/ FailCancels \/ CancelArrives
  BY <1>4, SelectionStutters
     DEF Written, WriteFails, FinishReturns, FinishFails, FailCancels, CancelArrives,
         FlushChanges, sending
<1>5. CASE UserCancels
  BY <1>5, CancelKeepsSelection DEF UserCancels, SelectionInv, SendOK
<1>6. CASE DialogCancelled
  <2> DEFINE s == [send EXCEPT !.dialogs = @ - 1]
  <2>1. Shape(s, SendFields) /\ s.dialogs \in Nat
    BY <1>6, SMTT(20) DEF DialogCancelled, SelectionInv, SendOK, Shape, SendFields
  <2>2. Cancel(s)
    BY <1>6 DEF DialogCancelled
  <2> HIDE DEF s
  <2>. QED  BY <2>1, <2>2, CancelKeepsSelection
<1>7. CASE FilesChosen \/ FlushSender \/ BlockRead
  BY <1>7, ChosenKeepsSelection, FlushKeepsSelection, BlockKeepsSelection
<1>8. CASE AfterBlock
  <2>1. sflush.tx \in 1..Len(senders) /\ UNCHANGED <<setting, senders>>
    BY <1>8 DEF AfterBlock, SendChanges, SelectionInv, SflushOK
  <2>2. CASE senders[sflush.tx].phase = "data" /\ ~IsStale(sflush.tx)
    BY <1>8, <2>1, <2>2, ReadNextKeepsSelection DEF AfterBlock
  <2>3. CASE ~(senders[sflush.tx].phase = "data" /\ ~IsStale(sflush.tx))
    <3>1. sflush' = [sflush EXCEPT !.pc = "idle"] /\ UNCHANGED send
      BY <1>8, <2>3 DEF AfterBlock
    <3>2. SflushOK'
      BY <3>1 DEF SelectionInv, SflushOK, Shape
    <3>. QED  BY <2>1, <3>1, <3>2
         DEF SelectionInv, SendersOK, SenderOK, SendOK, OnItsWay, Progress, SentWhole, Shape
  <2>. QED  BY <2>2, <2>3
<1>9. CASE ReadFails
  BY <1>9, FailureKeepsSelection DEF ReadFails, SendChanges
<1>10. CASE UNCHANGED adapterVars
  BY <1>10, SelectionStutters DEF adapterVars
<1>. QED  BY <1>1, <1>2, <1>3, <1>4, <1>5, <1>6, <1>7, <1>8, <1>9, <1>10 DEF AdapterNext

LEMMA SelectionInit == AdapterInit => SelectionInv
<1> SUFFICES ASSUME AdapterInit
             PROVE  SelectionInv
  OBVIOUS
<1>1. SendersOK
  BY DEF AdapterInit, SendersOK
<1>2. SendOK
  BY DEF AdapterInit, SendOK, SendFields, Shape
<1>3. SflushOK
  BY DEF AdapterInit, SflushOK, Shape
<1>. QED  BY <1>1, <1>2, <1>3 DEF AdapterInit, SelectionInv, OnItsWay

\* Every session that begins afresh and comes to its end has sent its selection, and there
\* is a dialog for as long as files are being selected.
THEOREM SelectionsAreSent == AdapterSpec => []SelectionIsSent
<1>1. SelectionInv => SelectionIsSent
  BY DEF SelectionInv, SelectionIsSent, SendersOK, SendOK, SentWhole
<1>. QED  BY <1>1, SelectionInit, SelectionKept, PTL DEF AdapterSpec

-------------------------------------------------------------------------------
(***************************************************************************)
(* The shapes of the records, and Quiet, are inductive.                    *)
(***************************************************************************)
LEMMA GetsShape ==
  ASSUME Shape(remote, RemoteFields), NEW items, NEW now, now = RemoteGets(items)
  PROVE  /\ Shape(now, RemoteFields)
         /\ now.mode = remote.mode /\ now.last = remote.last
         /\ now.reply = "ZFIN" => \/ remote.reply = "ZFIN"
                                  \/ items # <<>> /\ items[Len(items)].kind = "ZFIN"
BY DEF Shape, RemoteFields, RemoteGets, RzGets

LEMMA AnsweredShape ==
  ASSUME Shape(remote, RemoteFields), NEW item, NEW now, now = Answered(item)
  PROVE  /\ Shape(now, RemoteFields)
         /\ \/ now.mode = "shell"
            \/ now.mode = remote.mode /\ now.last = remote.last /\ now.reply = remote.reply
BY DEF Shape, RemoteFields, Answered, Shell

LEMMA ConsumeShapes ==
  ASSUME Shapes, NEW item, Consume(item)
  PROVE  /\ Shape(recv', RecvFields) /\ Shape(flush', FlushFields)
         /\ UNCHANGED <<flush, store, cancels, orphans>>
         /\ \/ UNCHANGED recv
            \/ recv.rx # 0 /\ recv' = [recv EXCEPT !.input = Append(@, item)]
            \/ /\ recv.rx = 0 /\ send.tx = 0 /\ send'.tx = 0 /\ item.kind = "ZRQINIT"
               /\ recv' = [recv EXCEPT !.rx = recv.made + 1, !.made = @ + 1,
                                       !.input = Append(@, Plain("ZRQINIT"))]
BY DEF Shapes, Shape, RecvFields, FlushFields, Consume, Detect, sending

LEMMA FailShapes ==
  ASSUME Shapes, NEW r, Shape(r, RecvFields), FailReceive(r)
  PROVE  Shape(recv', RecvFields) /\ Shape(flush', FlushFields) /\ recv'.rx \in {r.rx, 0}
BY DEF Shapes, Shape, RecvFields, FlushFields, FailReceive, Dropped, Idle

LEMMA ShapesKept == Shapes /\ [AdapterNext]_adapterVars => Shapes'
<1> SUFFICES ASSUME Shapes, [AdapterNext]_adapterVars
             PROVE  Shapes'
  OBVIOUS
<1> USE DEF FlushChanges, SendChanges, receiving, sending
<1>1. CASE HeaderBegins \/ HeaderArrives \/ SzSends \/ RzAnswers \/ ShellPrints
  <2>1. Shape(recv', RecvFields) /\ Shape(flush', FlushFields)
    BY <1>1, ConsumeShapes DEF HeaderBegins, HeaderArrives, SzSends, RzAnswers, ShellPrints
  <2>2. Shape(remote', RemoteFields)
    BY <1>1
       DEF HeaderBegins, HeaderArrives, SzSends, RzAnswers, ShellPrints, Shapes, Shape,
           RemoteFields, Shell
  <2>. QED  BY <2>1, <2>2 DEF Shapes
<1>2. CASE RemoteStarts \/ RemoteGivesUp \/ WindowEnds
  BY <1>2 DEF RemoteStarts, RemoteGivesUp, WindowEnds, Shapes, Shape, RemoteFields, Shell
<1>3. CASE FlushItem
  <2>1. Shape(remote', RemoteFields)
    BY <1>3, AnsweredShape DEF FlushItem, Shapes
  <2>2. Shape(recv', RecvFields) /\ Shape(flush', FlushFields)
    BY <1>3
       DEF FlushItem, FlushBatch, Complete, Finish, Idle, Shapes, Shape, RecvFields, FlushFields
  <2>. QED  BY <2>1, <2>2 DEF Shapes
<1>4. CASE FlushFails \/ BeginFails
  BY <1>4, FailShapes DEF FlushFails, BeginFails, Shapes
<1>5. CASE BeginDeclined
  <2>1. Shape([recv EXCEPT !.handle = 0], RecvFields)
    BY DEF Shapes, Shape, RecvFields
  <2>. QED  BY <1>5, <2>1, FailShapes DEF BeginDeclined, Shapes
<1>6. CASE BeginReturns \/ Encoded \/ BatchStale \/ Written
  BY <1>6
     DEF BeginReturns, Encoded, BatchStale, Written, GoOn, Finish, Idle, Shapes, Shape,
         RecvFields, FlushFields
<1>7. CASE WriteFails
  <2>1. CASE recv.gen = flush.gen
    BY <1>7, <2>1, FailShapes DEF WriteFails, Shapes
  <2>2. CASE recv.gen # flush.gen
    BY <1>7, <2>2 DEF WriteFails, GoOn, Finish, Idle, Shapes, Shape, RecvFields, FlushFields
  <2>. QED  BY <2>1, <2>2
<1>8. CASE FinishFails
  BY <1>8, FailShapes DEF FinishFails, Shapes
<1>9. CASE FinishReturns \/ FailCancels \/ CancelArrives
  BY <1>9
     DEF FinishReturns, FailCancels, FailEnds, CancelArrives, Dropped, Idle, Shapes, Shape,
         RecvFields, FlushFields
<1>10. CASE UserCancels \/ DialogCancelled
  <2>1. PICK s : Cancel(s)
    BY <1>10 DEF UserCancels, DialogCancelled
  <2>. QED  BY <2>1 DEF Cancel, Dropped, Shapes, Shape, RecvFields, RemoteFields
<1>11. CASE FilesChosen \/ AfterBlock \/ ReadFails
  BY <1>11 DEF FilesChosen, AfterBlock, ReadFails, Shapes
<1>12. CASE FlushSender
  <2>1. PICK items : remote' = RemoteGets(items)
    BY <1>12 DEF FlushSender
  <2>. QED  BY <1>12, <2>1, GetsShape DEF FlushSender, Shapes
<1>13. CASE BlockRead
  <2>1. PICK items : remote' = RemoteGets(items)
    BY <1>13 DEF BlockRead
  <2>. QED  BY <1>13, <2>1, GetsShape DEF BlockRead, Shapes
<1>14. CASE UNCHANGED adapterVars
  BY <1>14 DEF adapterVars, Shapes
<1>. QED  BY <1>1, <1>2, <1>3, <1>4, <1>5, <1>6, <1>7, <1>8, <1>9, <1>10, <1>11, <1>12,
             <1>13, <1>14
          DEF AdapterNext

LEMMA ConsumeKeepsQuiet ==
  ASSUME SelectionInv, Shapes, Quiet, NEW item, Consume(item),
         item.kind = "ZRQINIT" => remote'.mode # "rz",
         remote'.mode = "rz" /\ remote'.reply = "ZFIN" =>
           remote.mode = "rz" /\ remote.reply = "ZFIN"
  PROVE  Quiet'
<1>1. CASE recv'.rx = 0
  BY <1>1 DEF Quiet
<1>2. CASE recv'.rx # 0 /\ recv.rx = 0
  BY <1>2, ConsumeShapes DEF Quiet
<1>3. CASE recv.rx # 0
  BY <1>3 DEF Quiet, Consume, sending
<1>. QED  BY <1>1, <1>2, <1>3

LEMMA QuietKept == SelectionInv /\ Shapes /\ Quiet /\ [AdapterNext]_adapterVars => Quiet'
<1> SUFFICES ASSUME SelectionInv, Shapes, Quiet, [AdapterNext]_adapterVars
             PROVE  Quiet'
  OBVIOUS
<1> USE DEF FlushChanges, SendChanges, receiving, sending
<1>1. CASE HeaderBegins
  BY <1>1, ConsumeKeepsQuiet
     DEF HeaderBegins, Plain, Item, Shapes, Shape, RemoteFields
<1>2. CASE HeaderArrives
  BY <1>2, ConsumeKeepsQuiet
     DEF HeaderArrives, HeaderDue, HeaderKind, Item, Shapes, Shape, RemoteFields
<1>3. CASE SzSends
  BY <1>3, ConsumeKeepsQuiet
     DEF SzSends, After, Plain, Item, Shapes, Shape, RemoteFields
<1>4. CASE RzAnswers
  BY <1>4, ConsumeKeepsQuiet
     DEF RzAnswers, Plain, Item, Shell, Shapes, Shape, RemoteFields
<1>5. CASE ShellPrints
  BY <1>5, ConsumeKeepsQuiet DEF ShellPrints, Plain, Item
<1>6. CASE RemoteStarts \/ RemoteGivesUp \/ WindowEnds
  <2>1. UNCHANGED <<recv, send, senders>>
    BY <1>6 DEF RemoteStarts, RemoteGivesUp, WindowEnds
  <2>2. UNCHANGED remote \/ remote'.reply # "ZFIN"
    <3>1. CASE RemoteStarts
      <4>1. PICK program, answered :
              remote' = [Shell EXCEPT !.mode = program, !.answered = answered,
                                      !.reply = IF program = "rz" THEN "header" ELSE "none"]
        BY <3>1 DEF RemoteStarts
      <4>. QED  BY <4>1 DEF Shell
    <3>2. CASE RemoteGivesUp \/ WindowEnds
      BY <3>2 DEF RemoteGivesUp, WindowEnds, Shell
    <3>. QED  BY <1>6, <3>1, <3>2
  <2>. QED  BY <2>1, <2>2 DEF Quiet
<1>7. CASE FlushItem
  <2>1. recv'.rx \in {recv.rx, 0} /\ UNCHANGED <<send, senders>>
    BY <1>7 DEF FlushItem, FlushBatch, Complete, Finish, Shapes, Shape, RecvFields
  <2>2. remote'.mode = "rz" => remote.mode = "rz" /\ remote'.reply = remote.reply
    BY <1>7, AnsweredShape DEF FlushItem, Shapes
  <2>. QED  BY <2>1, <2>2 DEF Quiet
<1>8. CASE FlushFails \/ BeginFails
  BY <1>8, FailShapes DEF FlushFails, BeginFails, Shapes, Quiet
<1>9. CASE BeginDeclined
  <2>1. Shape([recv EXCEPT !.handle = 0], RecvFields) /\ [recv EXCEPT !.handle = 0].rx = recv.rx
    BY DEF Shapes, Shape, RecvFields
  <2>. QED  BY <1>9, <2>1, FailShapes DEF BeginDeclined, Quiet
<1>10. CASE BeginReturns \/ Encoded \/ BatchStale \/ Written
  BY <1>10
     DEF BeginReturns, Encoded, BatchStale, Written, GoOn, Finish, Shapes, Shape, RecvFields,
         Quiet
<1>11. CASE WriteFails
  <2>1. CASE recv.gen = flush.gen
    BY <1>11, <2>1, FailShapes DEF WriteFails, Shapes, Quiet
  <2>2. CASE recv.gen # flush.gen
    BY <1>11, <2>2 DEF WriteFails, GoOn, Finish, Quiet
  <2>. QED  BY <2>1, <2>2
<1>12. CASE FinishFails
  BY <1>12, FailShapes DEF FinishFails, Shapes, Quiet
<1>13. CASE FinishReturns \/ FailCancels \/ CancelArrives
  BY <1>13
     DEF FinishReturns, FailCancels, FailEnds, CancelArrives, Dropped, Shapes, Shape,
         RecvFields, Quiet
<1>14. CASE UserCancels \/ DialogCancelled
  <2>1. PICK s : Cancel(s)
    BY <1>14 DEF UserCancels, DialogCancelled
  <2>2. recv'.rx = 0
    BY <2>1 DEF Cancel, Dropped, Shapes, Shape, RecvFields
  <2>. QED  BY <2>2 DEF Quiet
<1>15. CASE FilesChosen
  <2>1. SelectionInv' /\ Len(senders) \in Nat
    BY SelectionKept DEF SelectionInv, SendersOK
  <2>2. PICK chosen \in setting.selections :
          /\ send'.tx = Len(senders) + 1
          /\ senders' = Append(senders, IF send.index <= Len(chosen)
                                         THEN Offer(NewSender(chosen), chosen[send.index])
                                         ELSE NewSender(chosen))
    BY <1>15 DEF FilesChosen, SelectionInv, SendOK, Shape, SendFields
  <2> DEFINE new == IF send.index <= Len(chosen) THEN Offer(NewSender(chosen), chosen[send.index])
                    ELSE NewSender(chosen)
  <2>3. new.phase \in {"made", "offer"}
    BY DEF NewSender, Offer
  <2>4. senders'[Len(senders) + 1] = new
    BY <2>1, <2>2 DEF SelectionInv, SendersOK
  <2> HIDE DEF new
  <2>. QED  BY <1>15, <2>2, <2>3, <2>4 DEF FilesChosen, Quiet
<1>16. CASE FlushSender
  <2>1. CASE recv.rx = 0
    BY <1>16, <2>1 DEF FlushSender, Quiet
  <2>2. CASE recv.rx # 0
    <3> DEFINE s == send.tx
               sender == senders[s]
    <3>1. /\ s \in 1..Len(senders) /\ sender.phase \in {"made", "offer"} /\ SenderOK(sender)
          /\ DOMAIN senders = 1..Len(senders)
      BY <1>16, <2>2, SMTT(20) DEF FlushSender, SelectionInv, SendersOK, SendOK, Quiet
    <3>2. /\ remote' = RemoteGets(sender.out)
          /\ senders' = [senders EXCEPT ![s] = [sender EXCEPT !.out = <<>>]]
          /\ UNCHANGED send
      BY <1>16, <3>1 DEF FlushSender
    <3>3. senders'[s].phase = sender.phase
      BY <3>1, <3>2 DEF SenderOK, Shape, SenderFields
    <3>4. remote'.reply = "ZFIN" => remote.reply = "ZFIN"
      BY <3>1, <3>2, GetsShape DEF Shapes, SenderOK
    <3>5. remote'.mode = remote.mode
      BY <3>2, GetsShape DEF Shapes
    <3>. QED  BY <1>16, <3>1, <3>2, <3>3, <3>4, <3>5 DEF FlushSender, Quiet
  <2>. QED  BY <2>1, <2>2
<1>17. CASE BlockRead
  <2> DEFINE s == sflush.tx
             sender == senders[s]
             last == sender.block = Size[sender.file]
             items == <<Item("data", sflush.file, sender.block)>>
                        \o IF last THEN <<Item("ZEOF", sender.file, 0)>> ELSE <<>>
  <2>1. remote' = RemoteGets(items)
    BY <1>17 DEF BlockRead
  <2>2. items[Len(items)].kind # "ZFIN"
    <3>1. CASE last
      <4> DEFINE a == Item("data", sflush.file, sender.block)
                 b == Item("ZEOF", sender.file, 0)
      <4>1. items = <<a>> \o <<b>>
        BY <3>1
      <4>2. b.kind = "ZEOF"
        BY DEF Item
      <4> HIDE DEF a, b, items
      <4> DEFINE S == {a, b}
      <4>3. <<a>> \in Seq(S) /\ <<b>> \in Seq(S)
        OBVIOUS
      <4> HIDE DEF S
      <4>4. Len(items) = 2 /\ items[2] = b
        BY <4>1, <4>3, ConcatProperties
      <4>. QED  BY <4>2, <4>4
    <3>2. CASE ~last
      <4>1. items = <<Item("data", sflush.file, sender.block)>>
        BY <3>2
      <4>. QED  BY <4>1 DEF Item
    <3>. QED  BY <3>1, <3>2
  <2> HIDE DEF items
  <2>3. remote'.mode = remote.mode /\ (remote'.reply = "ZFIN" => remote.reply = "ZFIN")
    BY <2>1, <2>2, GetsShape DEF Shapes
  <2>4. UNCHANGED <<send, recv>> /\ sender.phase = "data" /\ DOMAIN senders = 1..Len(senders)
    BY <1>17 DEF BlockRead, SelectionInv, SflushOK, SendersOK
  <2>5. \A q \in 1..Len(senders) : q # s => senders'[q] = senders[q]
    BY <1>17, <2>4 DEF BlockRead
  <2>6. send.tx \in 0..Len(senders)
    BY DEF SelectionInv, SendOK
  <2>. QED  BY <2>3, <2>4, <2>5, <2>6 DEF Quiet
<1>18. CASE AfterBlock \/ ReadFails
  <2>1. /\ UNCHANGED <<remote, recv, senders>>
        /\ send'.tx \in {send.tx, 0}
    BY <1>18
       DEF AfterBlock, ReadFails, ReadNext, SenderFails, SelectionInv, SendOK, Shape, SendFields
  <2>. QED  BY <2>1 DEF Quiet
<1>19. CASE UNCHANGED adapterVars
  BY <1>19 DEF adapterVars, Quiet
<1>. QED  BY <1>1, <1>2, <1>3, <1>4, <1>5, <1>6, <1>7, <1>8, <1>9, <1>10, <1>11, <1>12,
             <1>13, <1>14, <1>15, <1>16, <1>17, <1>18, <1>19
          DEF AdapterNext

LEMMA ScreenKept ==
  Shapes /\ Shape(screen, ScreenFields) /\ [AdapterNext]_adapterVars =>
    /\ Shape(screen', ScreenFields)
    /\ screen'.discarding => screen.discarding \/ recv'.rx = 0
<1> SUFFICES ASSUME Shapes, Shape(screen, ScreenFields), [AdapterNext]_adapterVars
             PROVE  /\ Shape(screen', ScreenFields)
                    /\ screen'.discarding => screen.discarding \/ recv'.rx = 0
  OBVIOUS
<1> USE DEF FlushChanges, SendChanges, receiving, sending
<1>1. CASE HeaderBegins \/ HeaderArrives \/ SzSends \/ RzAnswers \/ ShellPrints
  <2>1. PICK item : Consume(item)
    BY <1>1 DEF HeaderBegins, HeaderArrives, SzSends, RzAnswers, ShellPrints
  <2>. QED  BY <2>1 DEF Consume, Detect, Shape, ScreenFields
<1>2. CASE RemoteStarts \/ RemoteGivesUp \/ WindowEnds
  BY <1>2 DEF RemoteStarts, RemoteGivesUp, WindowEnds, Shape, ScreenFields
<1>3. CASE FlushItem \/ FlushFails \/ BeginFails \/ BeginDeclined \/ WriteFails \/ FinishFails
  BY <1>3
     DEF FlushItem, FlushFails, BeginFails, BeginDeclined, WriteFails, FinishFails, FailReceive,
         Shape, ScreenFields
<1>4. CASE BeginReturns \/ Encoded \/ BatchStale \/ Written \/ FinishReturns \/ CancelArrives
  BY <1>4 DEF BeginReturns, Encoded, BatchStale, Written, FinishReturns, CancelArrives
<1>5. CASE FailCancels
  BY <1>5 DEF FailCancels, FailEnds, Shape, ScreenFields
<1>6. CASE UserCancels \/ DialogCancelled
  <2>1. PICK s : Cancel(s)
    BY <1>6 DEF UserCancels, DialogCancelled
  <2>2. Shape(screen', ScreenFields)
    BY <2>1 DEF Cancel, Shape, ScreenFields
  <2>3. recv'.rx = 0
    BY <2>1 DEF Cancel, Dropped, Shapes, Shape, RecvFields
  <2>. QED  BY <2>2, <2>3
<1>7. CASE FilesChosen \/ AfterBlock \/ ReadFails \/ FlushSender \/ BlockRead
  BY <1>7
     DEF FilesChosen, AfterBlock, ReadFails, FlushSender, BlockRead, ReadNext, SenderFails,
         Shape, ScreenFields
<1>8. CASE UNCHANGED adapterVars
  BY <1>8 DEF adapterVars
<1>. QED  BY <1>1, <1>2, <1>3, <1>4, <1>5, <1>6, <1>7, <1>8 DEF AdapterNext

LEMMA MutedKept == Shapes /\ Muted /\ [AdapterNext]_adapterVars => Muted'
<1> SUFFICES ASSUME Shapes, Muted, [AdapterNext]_adapterVars
             PROVE  Muted'
  OBVIOUS
<1> USE DEF FlushChanges, SendChanges, receiving, sending
<1> DEFINE Moves == recv'.rx \in {recv.rx, 0} \/ ~screen.discarding
<1>1. CASE HeaderBegins \/ HeaderArrives \/ SzSends \/ RzAnswers \/ ShellPrints
  <2>1. PICK item : Consume(item)
    BY <1>1 DEF HeaderBegins, HeaderArrives, SzSends, RzAnswers, ShellPrints
  <2>2. Moves
    BY <2>1 DEF Consume, Shapes, Shape, RecvFields
  <2>. QED  BY <2>2, ScreenKept DEF Muted
<1>2. CASE FlushItem
  <2>1. Moves
    BY <1>2 DEF FlushItem, FlushBatch, Complete, Finish, Shapes, Shape, RecvFields
  <2>. QED  BY <2>1, ScreenKept DEF Muted
<1>3. CASE FlushFails \/ BeginFails \/ FinishFails \/ (WriteFails /\ recv.gen = flush.gen)
  <2>1. Moves
    BY <1>3, FailShapes DEF FlushFails, BeginFails, FinishFails, WriteFails, Shapes
  <2>. QED  BY <1>3, <2>1, ScreenKept DEF Muted
<1>4. CASE BeginDeclined
  <2>1. Shape([recv EXCEPT !.handle = 0], RecvFields) /\ [recv EXCEPT !.handle = 0].rx = recv.rx
    BY DEF Shapes, Shape, RecvFields
  <2>2. Moves
    BY <1>4, <2>1, FailShapes DEF BeginDeclined
  <2>. QED  BY <2>2, ScreenKept DEF Muted
<1>5. CASE BeginReturns \/ Encoded \/ BatchStale \/ Written \/ (WriteFails /\ recv.gen # flush.gen)
  <2>1. Moves
    BY <1>5
       DEF BeginReturns, Encoded, BatchStale, Written, WriteFails, GoOn, Finish, Shapes, Shape,
           RecvFields
  <2>. QED  BY <2>1, ScreenKept DEF Muted
<1>6. CASE FinishReturns \/ FailCancels \/ CancelArrives
  <2>1. Moves
    BY <1>6
       DEF FinishReturns, FailCancels, FailEnds, CancelArrives, Dropped, Shapes, Shape, RecvFields
  <2>. QED  BY <2>1, ScreenKept DEF Muted
<1>7. CASE UserCancels \/ DialogCancelled
  <2>1. PICK s : Cancel(s)
    BY <1>7 DEF UserCancels, DialogCancelled
  <2>2. Moves
    BY <2>1 DEF Cancel, Dropped, Shapes, Shape, RecvFields
  <2>. QED  BY <2>2, ScreenKept DEF Muted
<1>8. CASE RemoteStarts \/ RemoteGivesUp \/ WindowEnds
  <2>1. Moves
    BY <1>8 DEF RemoteStarts, RemoteGivesUp, WindowEnds
  <2>. QED  BY <2>1, ScreenKept DEF Muted
<1>9. CASE FilesChosen \/ AfterBlock \/ ReadFails \/ FlushSender \/ BlockRead
  <2>1. Moves
    BY <1>9 DEF FilesChosen, AfterBlock, ReadFails, FlushSender, BlockRead
  <2>. QED  BY <2>1, ScreenKept DEF Muted
<1>10. CASE UNCHANGED adapterVars
  BY <1>10 DEF adapterVars, Muted
<1>. QED  BY <1>1, <1>2, <1>3, <1>4, <1>5, <1>6, <1>7, <1>8, <1>9, <1>10 DEF AdapterNext

-------------------------------------------------------------------------------
(***************************************************************************)
(* ReceiverInv is inductive.  First what is due along the input.           *)
(***************************************************************************)
LEMMA AfterKinds ==
  ASSUME NEW item
  PROVE  /\ item.kind = "ZRQINIT" => After(item) = Item("ZFILE", 1, 0)
         /\ item.kind = "ZFILE" => After(item) = Item("data", item.file, 1)
         /\ item.kind = "data" =>
              After(item) = IF item.block < Size[item.file]
                            THEN Item("data", item.file, item.block + 1)
                            ELSE Item("ZEOF", item.file, 0)
         /\ item.kind = "ZEOF" =>
              After(item) = IF item.file < setting.szFiles THEN Item("ZFILE", item.file + 1, 0)
                            ELSE Plain("ZFIN")
         /\ item.kind = "ZFIN" => After(item) = None
BY DEF After, None

LEMMA SizeIsPositive ==
  /\ \A f \in Files : f \in Nat \ {0} /\ Size[f] \in Nat \ {0}
  /\ setting \in Settings => setting.szFiles \in Files /\ 1..setting.szFiles \subseteq Files
<1>1. /\ Len(Size) \in Nat /\ Files = 1..Len(Size)
      /\ \A f \in 1..Len(Size) : Size[f] \in Nat \ {0}
  BY SizeAssumption DEF Files
<1>2. \A f \in Files : f \in Nat \ {0} /\ Size[f] \in Nat \ {0}
  BY <1>1
<1>3. setting \in Settings => setting.szFiles \in Files
  BY SettingsAssumption
<1>. QED  BY <1>1, <1>2, <1>3

LEMMA ItemFields ==
  ASSUME NEW k, NEW f, NEW b
  PROVE  Item(k, f, b).kind = k /\ Item(k, f, b).file = f /\ Item(k, f, b).block = b
BY DEF Item

\* What may be due is a piece of a file there is.
LEMMA DueIs ==
  ASSUME setting \in Settings, NEW d, Due(d)
  PROVE  /\ d.kind \in FromSz \cup {"none"}
         /\ d.kind = "none" => d = None
         /\ d.kind = "ZFIN" => d = Plain("ZFIN")
         /\ d.kind = "ZFILE" => /\ d = Item("ZFILE", d.file, 0)
                                /\ d.file \in Files /\ d.file <= setting.szFiles
         /\ d.kind = "data" => /\ d = Item("data", d.file, d.block)
                               /\ d.file \in Files /\ d.block \in 1..Size[d.file]
         /\ d.kind = "ZEOF" => d = Item("ZEOF", d.file, 0) /\ d.file \in Files
<1>1. CASE d \in {None, Plain("ZFIN")}
  BY <1>1, ItemFields DEF None, Plain, FromSz
<1>2. CASE d \in {Item("ZFILE", f, 0) : f \in Files}
  BY <1>2, ItemFields DEF FromSz, Due
<1>3. CASE d \in {Item("data", f, b) : f \in Files, b \in Nat}
  BY <1>3, ItemFields DEF FromSz, Due
<1>4. CASE d \in {Item("ZEOF", f, 0) : f \in Files}
  BY <1>4, ItemFields DEF FromSz, Due
<1>. QED  BY <1>1, <1>2, <1>3, <1>4 DEF Due, Dues

LEMMA AfterIsDue ==
  ASSUME setting \in Settings, NEW item, item.kind = "ZRQINIT" \/ Due(item)
  PROVE  item.kind # "none" => Due(After(item))
<1>1. CASE item.kind = "ZRQINIT"
  <2>1. After(item) = Item("ZFILE", 1, 0) /\ 1 \in Files /\ 1 <= setting.szFiles
    BY <1>1, AfterKinds, SizeIsPositive
  <2>. QED  BY <1>1, <2>1, ItemFields DEF Due, Dues
<1>2. CASE item.kind = "ZFILE" /\ Due(item)
  <2>1. After(item) = Item("data", item.file, 1) /\ item.file \in Files /\ 1 \in 1..Size[item.file]
    BY <1>2, AfterKinds, DueIs, SizeIsPositive
  <2>. QED  BY <2>1, ItemFields DEF Due, Dues
<1>3. CASE item.kind = "data" /\ Due(item)
  <2>1. item.file \in Files /\ item.block \in 1..Size[item.file] /\ Size[item.file] \in Nat
    BY <1>3, DueIs, SizeIsPositive
  <2>2. CASE item.block < Size[item.file]
    <3>1. After(item) = Item("data", item.file, item.block + 1)
      BY <1>3, <2>2, AfterKinds
    <3>. QED  BY <2>1, <2>2, <3>1, ItemFields DEF Due, Dues
  <2>3. CASE ~(item.block < Size[item.file])
    <3>1. After(item) = Item("ZEOF", item.file, 0)
      BY <1>3, <2>3, AfterKinds
    <3>. QED  BY <2>1, <3>1, ItemFields DEF Due, Dues
  <2>. QED  BY <2>2, <2>3
<1>4. CASE item.kind = "ZEOF" /\ Due(item)
  <2>1. item.file \in Files /\ item.file \in Nat /\ setting.szFiles \in Nat
    BY <1>4, DueIs, SizeIsPositive
  <2>2. CASE item.file < setting.szFiles
    <3>1. After(item) = Item("ZFILE", item.file + 1, 0)
      BY <1>4, <2>2, AfterKinds
    <3>2. item.file + 1 \in Files /\ item.file + 1 <= setting.szFiles
      BY <2>1, <2>2, SizeIsPositive
    <3>. QED  BY <3>1, <3>2, ItemFields DEF Due, Dues
  <2>3. CASE ~(item.file < setting.szFiles)
    <3>1. After(item) = Plain("ZFIN")
      BY <1>4, <2>3, AfterKinds
    <3>. QED  BY <3>1, ItemFields DEF Due, Dues, Plain
  <2>. QED  BY <2>2, <2>3
<1>5. CASE item.kind = "ZFIN"
  <2>1. After(item) = None
    BY <1>5, AfterKinds
  <2>. QED  BY <2>1, ItemFields DEF Due, Dues, None, Plain
<1>. QED  BY <1>1, <1>2, <1>3, <1>4, <1>5, DueIs DEF FromSz

LEMMA NoneIsDue == Due(None) /\ None.kind = "none"
BY ItemFields DEF Due, Dues, None, Plain

LEMMA EmptyStream == Stream([i \in 0..0 |-> None], <<>>)
BY NoneIsDue DEF Stream

\* The input grows by an item that is due, begins anew, or is none of sz.
Follows(d, item, e) ==
  /\ item.kind = "ZRQINIT" => e = After(item)
  /\ item.kind \in FromSz => item = d /\ e = After(item)
  /\ item.kind \notin FromSz \cup {"ZRQINIT"} => e = d

LEMMA StreamGrows ==
  ASSUME NEW input \in Seq(Pieces), NEW item \in Pieces, NEW due, Stream(due, input),
         NEW e, Due(e), Follows(due[Len(input)], item, e)
  PROVE  \E more : /\ Stream(more, Append(input, item))
                   /\ more[0] = due[0]
                   /\ more[Len(Append(input, item))] = e
<1> DEFINE n == Len(input)
           longer == Append(input, item)
           more == [i \in 0..n + 1 |-> IF i <= n THEN due[i] ELSE e]
<1>1. n \in Nat /\ n = Len(input)
  OBVIOUS
<1>2. /\ Len(longer) = n + 1 /\ longer[n + 1] = item
      /\ \A i \in 1..n : longer[i] = input[i]
  BY Appended
<1>3. \A i \in 0..n : more[i] = due[i]
  BY <1>1
<1>4. more[n + 1] = e
  BY <1>1
<1>5. more = [i \in 0..Len(longer) |-> more[i]]
  BY <1>2
<1> HIDE DEF more, longer
<1>6. \A i \in 0..Len(longer) : Due(more[i])
  BY <1>1, <1>2, <1>3, <1>4 DEF Stream
<1>7. ASSUME NEW i \in 1..Len(longer)
      PROVE  /\ longer[i].kind = "ZRQINIT" => more[i] = After(longer[i])
             /\ longer[i].kind \in FromSz =>
                  longer[i] = more[i - 1] /\ more[i] = After(longer[i])
             /\ longer[i].kind \notin FromSz \cup {"ZRQINIT"} => more[i] = more[i - 1]
  <2>1. CASE i = n + 1
    <3>1. longer[i] = item /\ more[i] = e /\ more[i - 1] = due[n]
      BY <1>1, <1>2, <1>3, <1>4, <2>1
    <3>. QED  BY <3>1 DEF Follows
  <2>2. CASE i \in 1..n
    <3>1. longer[i] = input[i] /\ more[i] = due[i] /\ more[i - 1] = due[i - 1]
      BY <1>1, <1>2, <1>3, <2>2
    <3>. QED  BY <2>2, <3>1 DEF Stream
  <2>. QED  BY <1>1, <1>2, <2>1, <2>2
<1>8. Stream(more, longer)
  BY <1>5, <1>6, <1>7 DEF Stream
<1>. QED  BY <1>1, <1>2, <1>3, <1>4, <1>8 DEF longer

LEMMA StreamMoves ==
  ASSUME NEW input \in Seq(Pieces), input # <<>>, NEW due, Stream(due, input)
  PROVE  \E rest : /\ Stream(rest, Tail(input))
                   /\ rest[0] = due[1]
                   /\ rest[Len(Tail(input))] = due[Len(input)]
<1> DEFINE n == Len(input)
           tail == Tail(input)
           rest == [i \in 0..n - 1 |-> due[i + 1]]
<1>1. n \in Nat \ {0} /\ n = Len(input)
  OBVIOUS
<1>2. Len(tail) = n - 1 /\ \A i \in 1..n - 1 : tail[i] = input[i + 1]
  OBVIOUS
<1>3. \A i \in 0..n - 1 : rest[i] = due[i + 1]
  OBVIOUS
<1>4. rest = [i \in 0..Len(tail) |-> rest[i]]
  BY <1>2
<1> HIDE DEF rest, tail
<1>5. ASSUME NEW i \in 0..Len(tail)
      PROVE  Due(rest[i])
  <2>1. i + 1 \in 0..n /\ rest[i] = due[i + 1]
    BY <1>1, <1>2, <1>3
  <2>. QED  BY <2>1 DEF Stream
<1>6. ASSUME NEW i \in 1..Len(tail)
      PROVE  /\ tail[i].kind = "ZRQINIT" => rest[i] = After(tail[i])
             /\ tail[i].kind \in FromSz => tail[i] = rest[i - 1] /\ rest[i] = After(tail[i])
             /\ tail[i].kind \notin FromSz \cup {"ZRQINIT"} => rest[i] = rest[i - 1]
  <2>1. /\ i + 1 \in 1..n /\ tail[i] = input[i + 1] /\ rest[i] = due[i + 1]
        /\ rest[i - 1] = due[(i + 1) - 1]
    BY <1>1, <1>2, <1>3
  <2>. QED  BY <1>1, <2>1 DEF Stream
<1>7. Stream(rest, tail)
  BY <1>4, <1>5, <1>6 DEF Stream
<1>. QED  BY <1>1, <1>2, <1>3, <1>7 DEF tail

\* The first item of the input, and what is due before and after it.
LEMMA StreamHead ==
  ASSUME NEW input \in Seq(Pieces), input # <<>>, NEW due, Stream(due, input)
  PROVE  /\ Head(input) \in Pieces
         /\ Due(due[0]) /\ Due(due[1])
         /\ Follows(due[0], Head(input), due[1])
<1>1. Len(input) \in Nat \ {0} /\ Head(input) = input[1] /\ input[1] \in Pieces
  OBVIOUS
<1>2. 1 \in 1..Len(input) /\ 0 \in 0..Len(input) /\ 1 \in 0..Len(input) /\ 1 - 1 = 0
  BY <1>1
<1>. QED  BY <1>1, <1>2 DEF Stream, Follows

LEMMA InStepNext ==
  ASSUME UNCHANGED setting, NEW due, Stream(due, recv'.input),
         recv'.rx # 0 /\ remote'.mode = "sz" /\ remote'.last.kind # "none" =>
           due[Len(recv'.input)] = After(remote'.last),
         At(due[0])'
  PROVE  InStep'
<1>1. Stream(due, recv.input)'
  <2>1. ASSUME NEW i \in 0..Len(recv'.input)
        PROVE  Due(due[i])'
    <3>1. Due(due[i])
      BY DEF Stream
    <3>. QED  BY <3>1 DEF Due
  <2>2. ASSUME NEW i \in 1..Len(recv'.input)
        PROVE  After(recv'.input[i]) = After(recv.input[i])'
    BY DEF After
  <2>. QED  BY <2>1, <2>2 DEF Stream
<1>2. InSync(due[Len(recv.input)])'
  BY DEF InSync, After
<1>. QED  BY <1>1, <1>2 DEF InStep

LEMMA InStepDropped ==
  ASSUME UNCHANGED setting, recv'.input = <<>>, recv'.rx = 0, At(None)'
  PROVE  InStep'
<1> DEFINE due == [i \in 0..0 |-> None]
<1>1. Stream(due, recv'.input) /\ due[0] = None
  BY EmptyStream
<1> HIDE DEF due
<1>. QED  BY <1>1, InStepNext

(***************************************************************************)
(* The files of the backend.                                               *)
(***************************************************************************)
FileFields == {"file", "blocks", "state"}

LEMMA FileChanges ==
  ASSUME StoreOK, NEW h \in 1..Len(store), NEW new, FileOK(new),
         store' = [store EXCEPT ![h] = new], cancels' \subseteq cancels
  PROVE  /\ StoreOK' /\ Len(store') = Len(store)
         /\ store'[h] = new
         /\ \A q \in 1..Len(store) : q # h => store'[q] = store[q]
<1>1. DOMAIN store = 1..Len(store) /\ Len(store) \in Nat
  BY DEF StoreOK
<1>2. /\ DOMAIN store' = 1..Len(store)
      /\ store' = [q \in 1..Len(store) |-> store'[q]]
  BY <1>1
<1>3. Len(store') = Len(store)
  BY <1>1, <1>2, LenProperties
<1>4. store'[h] = new /\ \A q \in 1..Len(store) : q # h => store'[q] = store[q]
  BY <1>1
<1>5. \A q \in 1..Len(store) : FileOK(store'[q])
  BY <1>4 DEF StoreOK
<1>. QED  BY <1>1, <1>2, <1>3, <1>4, <1>5 DEF StoreOK, FileOK, Shape

LEMMA StateChanges ==
  ASSUME StoreOK, NEW h \in 1..Len(store), NEW v,
         store' = [store EXCEPT ![h].state = v], cancels' \subseteq cancels
  PROVE  /\ StoreOK' /\ Len(store') = Len(store)
         /\ store'[h].state = v
         /\ \A q \in 1..Len(store) :
              /\ store'[q].file = store[q].file /\ store'[q].blocks = store[q].blocks
              /\ q # h => store'[q] = store[q]
<1> DEFINE new == [store[h] EXCEPT !.state = v]
<1>1. FileOK(store[h]) /\ DOMAIN store = 1..Len(store)
  BY DEF StoreOK
<1>2. FileOK(new) /\ new.state = v /\ new.file = store[h].file /\ new.blocks = store[h].blocks
  BY <1>1 DEF FileOK, Shape
<1>3. store' = [store EXCEPT ![h] = new]
  BY <1>1
<1> HIDE DEF new
<1>4. /\ StoreOK' /\ Len(store') = Len(store) /\ store'[h] = new
      /\ \A q \in 1..Len(store) : q # h => store'[q] = store[q]
  BY <1>2, <1>3, FileChanges
<1>. QED  BY <1>2, <1>4

LEMMA BlocksChange ==
  ASSUME StoreOK, NEW h \in 1..Len(store), NEW more \in Seq(Nat),
         store' = [store EXCEPT ![h].blocks = @ \o more], UNCHANGED cancels
  PROVE  /\ StoreOK' /\ Len(store') = Len(store)
         /\ store'[h].blocks = store[h].blocks \o more
         /\ store'[h].state = store[h].state /\ store'[h].file = store[h].file
         /\ \A q \in 1..Len(store) : q # h => store'[q] = store[q]
<1> DEFINE blocks == store[h].blocks \o more
           new == [store[h] EXCEPT !.blocks = blocks]
<1>1. FileOK(store[h]) /\ DOMAIN store = 1..Len(store)
  BY DEF StoreOK
<1>2. blocks \in Seq(Nat)
  BY <1>1 DEF FileOK
<1>3. store' = [store EXCEPT ![h] = new]
  BY <1>1
<1> HIDE DEF blocks
<1>4. /\ FileOK(new) /\ new.blocks = blocks /\ new.file = store[h].file
      /\ new.state = store[h].state
  BY <1>1, <1>2 DEF FileOK, Shape
<1> HIDE DEF new
<1>. QED  BY <1>3, <1>4, FileChanges DEF blocks

LEMMA FileAdded ==
  ASSUME StoreOK, NEW new, FileOK(new), store' = Append(store, new), UNCHANGED cancels
  PROVE  /\ StoreOK' /\ Len(store') = Len(store) + 1
         /\ store'[Len(store) + 1] = new
         /\ \A q \in 1..Len(store) : store'[q] = store[q]
<1> DEFINE n == Len(store)
           S == {store[q] : q \in 1..n} \cup {new}
           longer == Append(store, new)
<1>1. n \in Nat /\ store = [q \in 1..n |-> store[q]] /\ \A q \in 1..n : store[q] \in S
  BY DEF StoreOK
<1>2. new \in S
  OBVIOUS
<1> HIDE DEF S
<1>3. store \in Seq(S)
  BY <1>1, IsASeq
<1>4. longer \in Seq(S)
  BY <1>2, <1>3
<1>5. longer = [q \in 1..Len(longer) |-> longer[q]]
  <2> HIDE DEF longer
  <2>. QED  BY <1>4
<1>6. /\ Len(longer) = n + 1 /\ longer[n + 1] = new
      /\ \A q \in 1..n : longer[q] = store[q]
  BY <1>2, <1>3, Appended
<1>7. store' = longer
  OBVIOUS
<1> HIDE DEF longer
<1>8. \A q \in 1..n + 1 : FileOK(longer[q])
  BY <1>1, <1>6 DEF StoreOK
<1>9. store' = [q \in 1..Len(store') |-> store'[q]]
  BY <1>5, <1>7
<1>10. /\ Len(store') = n + 1 /\ store'[n + 1] = new
       /\ \A q \in 1..n : store'[q] = store[q]
  BY <1>6, <1>7
<1>11. \A q \in 1..Len(store') : FileOK(store'[q])
  BY <1>7, <1>8, <1>10
<1>12. cancels' \subseteq 1..Len(store')
  BY <1>1, <1>10 DEF StoreOK
<1>. QED  BY <1>1, <1>9, <1>10, <1>11, <1>12 DEF StoreOK, FileOK, Shape

\* The files that are finished stay as they are, and the others are covered.
Covered(h) ==
  \/ h = recv.handle /\ recv.rx # 0
  \/ h \in cancels
  \/ flush.pc = "cancel" /\ flush.handle = h
  \/ h \in orphans

LEMMA LeftOpenIs ==
  StoreOK => (NothingLeftOpen <=> \A h \in 1..Len(store) : store[h].state = "open" => Covered(h))
BY DEF StoreOK, NothingLeftOpen, IsOpen, Covered

LEMMA FinishedIs ==
  StoreOK => (FinishedIsWhole <=> \A h \in 1..Len(store) :
                 store[h].state = "finished" => store[h].blocks = Blocks(store[h].file))
BY DEF StoreOK, FinishedIsWhole

(***************************************************************************)
(* Steps outside the receiver.                                             *)
(***************************************************************************)
LEMMA ReceiverStutters ==
  ASSUME ReceiverInv, UNCHANGED <<setting, receiving>>, RemoteOK',
         remote'.mode = "sz" /\ remote'.last.kind # "none" =>
           remote.mode = "sz" /\ remote'.last = remote.last
  PROVE  ReceiverInv'
<1>1. PICK due : Stream(due, recv.input) /\ InSync(due[Len(recv.input)]) /\ At(due[0])
  BY DEF ReceiverInv, InStep
<1>2. At(due[0])'
  BY <1>1 DEF receiving, At, AtIdle, AtBegin, AtWrite, AtFinish, AtCancel, Has, Handle
<1>3. recv'.rx # 0 /\ remote'.mode = "sz" /\ remote'.last.kind # "none" =>
        due[Len(recv'.input)] = After(remote'.last)
  BY <1>1 DEF InSync, receiving
<1>4. InStep'
  BY <1>1, <1>2, <1>3, InStepNext DEF receiving
<1>. QED  BY <1>4
     DEF ReceiverInv, RecvOK, FlushOK, StoreOK, FileOK, Shape, FinishedIsWhole, NothingLeftOpen,
         IsOpen, receiving

\* What arrives is a piece; of sz it is what was due, or a header.
ComesIn(item) ==
  /\ item \in Pieces
  /\ item.kind \in FromSz =>
       /\ remote.mode = "sz" /\ remote.last.kind # "none"
       /\ item = After(remote.last)
  /\ remote'.mode = "sz" /\ remote'.last.kind # "none" =>
       \/ item.kind \in FromSz \cup {"ZRQINIT"} /\ After(remote'.last) = After(item)
       \/ /\ item.kind \notin FromSz \cup {"ZRQINIT"}
          /\ remote.mode = "sz" /\ remote'.last = remote.last

LEMMA ConsumeKeepsReceiver ==
  ASSUME ReceiverInv, Shapes, Muted, setting \in Settings, UNCHANGED setting, NEW item,
         Consume(item), ComesIn(item), RemoteOK'
  PROVE  ReceiverInv'
<1>1. PICK due : Stream(due, recv.input) /\ InSync(due[Len(recv.input)]) /\ At(due[0])
  BY DEF ReceiverInv, InStep
<1>2. UNCHANGED <<flush, store, cancels, orphans>>
  BY DEF Consume
<1>3. recv.input \in Seq(Pieces) /\ Len(recv.input) \in Nat
  BY DEF ReceiverInv, RecvOK
<1> USE DEF receiving
<1>4. CASE UNCHANGED recv /\ recv.rx = 0
  <2>1. At(due[0])'
    BY <1>1, <1>2, <1>4 DEF At, AtIdle, AtBegin, AtWrite, AtFinish, AtCancel, Has, Handle
  <2>2. InStep'
    BY <1>1, <1>4, <2>1, InStepNext
  <2>. QED  BY <1>2, <1>4, <2>2
       DEF ReceiverInv, RecvOK, FlushOK, StoreOK, FileOK, Shape, FinishedIsWhole,
           NothingLeftOpen, IsOpen
<1>5. CASE recv.rx # 0 /\ recv' = [recv EXCEPT !.input = Append(@, item)]
  <2>1. /\ recv'.input = Append(recv.input, item)
        /\ recv'.rx = recv.rx /\ recv'.made = recv.made /\ recv'.handle = recv.handle
        /\ recv'.gen = recv.gen /\ recv'.batch = recv.batch /\ recv'.name = recv.name
    BY <1>5 DEF Shapes, Shape, RecvFields
  <2> DEFINE d == due[Len(recv.input)]
             e == IF item.kind \in FromSz \cup {"ZRQINIT"} THEN After(item) ELSE d
  <2>2. Due(d)
    BY <1>1, <1>3 DEF Stream
  <2>3. item.kind \in FromSz => item = d
    BY <1>1, <1>5 DEF ComesIn, InSync
  <2>4. Due(e)
    BY <2>2, <2>3, AfterIsDue DEF FromSz
  <2>5. Follows(d, item, e)
    BY <2>3 DEF Follows
  <2>6. remote'.mode = "sz" /\ remote'.last.kind # "none" => e = After(remote'.last)
    BY <1>1, <1>5 DEF ComesIn, InSync
  <2> HIDE DEF e
  <2>7. PICK more : /\ Stream(more, Append(recv.input, item)) /\ more[0] = due[0]
                    /\ more[Len(Append(recv.input, item))] = e
    BY <1>1, <1>3, <2>4, <2>5, StreamGrows DEF ComesIn
  <2>8. At(more[0])'
    <3>1. flush.pc = "idle" => AtIdle(more[0])'
      BY <1>1, <1>2, <2>1, <2>7 DEF At, AtIdle, Has, Handle
    <3>2. flush.pc = "begin" => AtBegin(more[0])'
      BY <1>1, <1>2, <2>1, <2>7 DEF At, AtBegin
    <3>3. flush.pc \in {"encode", "write"} => AtWrite(more[0])'
      BY <1>1, <1>2, <2>1, <2>7 DEF At, AtWrite, Has, Handle
    <3>4. flush.pc = "finish" => AtFinish(more[0])'
      BY <1>1, <1>2, <2>1, <2>7 DEF At, AtFinish, Handle
    <3>5. flush.pc = "cancel" => AtCancel'
      BY <1>1, <1>2, <2>1 DEF At, AtCancel, Handle
    <3>6. recv'.rx # 0
      BY <1>5, <2>1
    <3>. QED  BY <1>2, <3>1, <3>2, <3>3, <3>4, <3>5, <3>6 DEF At
  <2>9. InStep'
    BY <2>1, <2>6, <2>7, <2>8, InStepNext
  <2>10. RecvOK'
    BY <1>2, <1>3, <2>1 DEF ReceiverInv, RecvOK, ComesIn
  <2>. QED  BY <1>2, <2>1, <2>9, <2>10
       DEF ReceiverInv, FlushOK, StoreOK, FileOK, Shape, FinishedIsWhole, NothingLeftOpen, IsOpen
<1>6. CASE /\ recv.rx = 0 /\ item.kind = "ZRQINIT"
           /\ recv' = [recv EXCEPT !.rx = recv.made + 1, !.made = @ + 1,
                                   !.input = Append(@, Plain("ZRQINIT"))]
  <2> DEFINE head == Plain("ZRQINIT")
             e == After(head)
  <2>1. /\ recv'.input = Append(recv.input, head)
        /\ recv'.rx = recv.made + 1 /\ recv'.made = recv.made + 1 /\ recv'.handle = recv.handle
        /\ recv'.gen = recv.gen /\ recv'.batch = recv.batch /\ recv'.name = recv.name
    BY <1>6 DEF Shapes, Shape, RecvFields
  <2>2. head \in Pieces /\ head.kind = "ZRQINIT"
    BY DEF Plain, Item, Pieces, Kinds
  <2>3. Due(e)
    BY <2>2, AfterIsDue
  <2>4. Follows(due[Len(recv.input)], head, e)
    BY <2>2 DEF Follows, FromSz
  <2>5. After(item) = e
    BY <1>6, <2>2, AfterKinds
  <2>6. remote'.mode = "sz" /\ remote'.last.kind # "none" => e = After(remote'.last)
    BY <1>6, <2>5 DEF ComesIn
  <2> HIDE DEF e, head
  <2>7. PICK more : /\ Stream(more, Append(recv.input, head)) /\ more[0] = due[0]
                    /\ more[Len(Append(recv.input, head))] = e
    BY <1>1, <1>3, <2>2, <2>3, <2>4, StreamGrows
  <2>8. At(more[0])'
    <3>1. recv.made \in Nat
      BY DEF ReceiverInv, RecvOK
    <3>2. due[0].kind = "none"
      BY <1>1, <1>6 DEF At
    <3>3. flush.pc = "idle" => AtIdle(more[0])'
      BY <2>7, <3>2 DEF AtIdle
    <3>4. flush.pc = "begin" => AtBegin(more[0])'
      BY <1>1, <1>2, <2>1, <2>7, <3>1, <3>2 DEF ReceiverInv, RecvOK, At, AtBegin
    <3>5. flush.pc \in {"encode", "write"} => AtWrite(more[0])'
      BY <1>1, <1>2, <1>6, <2>1, <2>7, <3>2 DEF At, AtWrite, Handle
    <3>6. flush.pc = "finish" => AtFinish(more[0])'
      BY <1>1, <1>2, <2>1, <2>7 DEF At, AtFinish, Handle
    <3>7. flush.pc = "cancel" => AtCancel'
      BY <1>1, <1>2, <2>1 DEF At, AtCancel, Handle
    <3>8. recv'.rx # 0
      BY <2>1 DEF ReceiverInv, RecvOK
    <3>. QED  BY <1>2, <3>3, <3>4, <3>5, <3>6, <3>7, <3>8 DEF At
  <2>9. InStep'
    BY <2>1, <2>6, <2>7, <2>8, InStepNext
  <2>10. RecvOK'
    <3>1. Append(recv.input, head) \in Seq(Pieces)
      BY <1>3, <2>2
    <3>. QED  BY <1>2, <2>1, <3>1 DEF ReceiverInv, RecvOK
  <2>11. recv'.rx # 0
    BY <2>1 DEF ReceiverInv, RecvOK
  <2>. QED  BY <1>2, <1>6, <2>9, <2>10, <2>11
       DEF ReceiverInv, FlushOK, StoreOK, FileOK, Shape, FinishedIsWhole, NothingLeftOpen, IsOpen
<1>7. UNCHANGED recv /\ recv.rx # 0 => FALSE
  <2> SUFFICES ASSUME UNCHANGED recv, recv.rx # 0
               PROVE  FALSE
    OBVIOUS
  <2>1. recv' = [recv EXCEPT !.input = Append(@, item)]
    BY DEF Muted, Consume
  <2>2. recv'.input = Append(recv.input, item)
    BY <2>1 DEF Shapes, Shape, RecvFields
  <2>3. Len(recv'.input) = Len(recv.input) + 1
    BY <1>3, <2>2, Appended DEF ComesIn
  <2>. QED  BY <1>3, <2>3
<1>. QED  BY <1>4, <1>5, <1>6, <1>7, ConsumeShapes

(***************************************************************************)
(* What drops the receiver, at once or when its file has been let go.      *)
(***************************************************************************)
LEMMA FailDoes ==
  ASSUME Shapes, NEW r, Shape(r, RecvFields), FailReceive(r)
  PROVE  /\ r.handle = 0 =>
              /\ recv'.rx = 0 /\ recv'.made = recv.made /\ recv'.input = <<>>
              /\ recv'.handle = 0 /\ recv'.gen = recv.gen + 1 /\ recv'.batch = <<>>
              /\ flush'.pc = "idle"
         /\ r.handle # 0 =>
              /\ recv'.rx = r.rx /\ recv'.made = r.made /\ recv'.input = r.input
              /\ recv'.handle = r.handle /\ recv'.gen = r.gen + 1 /\ recv'.batch = r.batch
              /\ flush'.pc = "cancel" /\ flush'.handle = r.handle
<1>1. CASE r.handle = 0
  <2>1. recv' = [Dropped EXCEPT !.gen = @ + 1] /\ flush' = Idle
    BY <1>1 DEF FailReceive
  <2>. QED  BY <1>1, <2>1 DEF Shapes, Shape, RecvFields, Dropped, Idle
<1>2. CASE r.handle # 0
  <2>1. recv' = [r EXCEPT !.gen = @ + 1]
    BY <1>2 DEF FailReceive
  <2>2. flush'.pc = "cancel" /\ flush'.handle = r.handle
    BY <1>2 DEF FailReceive, Idle
  <2>. QED  BY <1>2, <2>1, <2>2 DEF Shape, RecvFields
<1>. QED  BY <1>1, <1>2

LEMMA FailKeeps ==
  ASSUME ReceiverInv, Shapes, UNCHANGED <<setting, remote, cancels, orphans>>,
         flush.pc # "cancel", FailReceive(recv),
         StoreOK', Len(store') = Len(store), FinishedIsWhole',
         \A h \in 1..Len(store) : store'[h].state = "open" => store[h].state = "open"
  PROVE  ReceiverInv'
<1>1. PICK due : Stream(due, recv.input) /\ InSync(due[Len(recv.input)]) /\ At(due[0])
  BY DEF ReceiverInv, InStep
<1>2. RemoteOK'
  BY DEF ReceiverInv, RemoteOK, Due
<1>3. \A h \in 1..Len(store) : store[h].state = "open" => Covered(h)
  BY LeftOpenIs DEF ReceiverInv
<1>4. CASE recv.handle = 0
  <2>1. /\ recv'.rx = 0 /\ recv'.made = recv.made /\ recv'.input = <<>>
        /\ recv'.handle = 0 /\ recv'.gen = recv.gen + 1 /\ recv'.batch = <<>>
        /\ flush'.pc = "idle"
    BY <1>4, FailDoes DEF Shapes
  <2>2. RecvOK' /\ FlushOK'
    BY <2>1 DEF ReceiverInv, RecvOK, FlushOK, StoreOK
  <2>3. At(None)'
    BY <2>1, NoneIsDue DEF At, AtIdle
  <2>4. InStep'
    BY <2>1, <2>3, InStepDropped
  <2>5. \A h \in 1..Len(store) : Covered(h) => Covered(h)'
    BY <1>4 DEF Covered
  <2>6. NothingLeftOpen'
    BY <1>3, <2>5, LeftOpenIs DEF StoreOK, NothingLeftOpen, IsOpen, Covered
  <2>. QED  BY <1>2, <2>2, <2>4, <2>6 DEF ReceiverInv
<1>5. CASE recv.handle # 0
  <2>1. /\ recv'.rx = recv.rx /\ recv'.made = recv.made /\ recv'.input = recv.input
        /\ recv'.handle = recv.handle /\ recv'.gen = recv.gen + 1 /\ recv'.batch = recv.batch
        /\ flush'.pc = "cancel" /\ flush'.handle = recv.handle
    BY <1>5, FailDoes DEF Shapes
  <2>2. RecvOK' /\ FlushOK'
    BY <2>1 DEF ReceiverInv, RecvOK, FlushOK
  <2>3. At(due[0])'
    BY <1>1, <1>5, <2>1 DEF ReceiverInv, RecvOK, At, AtCancel, Handle
  <2>4. InStep'
    BY <1>1, <2>1, <2>3, InStepNext DEF InSync
  <2>5. \A h \in 1..Len(store) : Covered(h) => Covered(h)'
    BY <2>1 DEF Covered
  <2>6. NothingLeftOpen'
    BY <1>3, <2>5, LeftOpenIs DEF StoreOK, NothingLeftOpen, IsOpen, Covered
  <2>. QED  BY <1>2, <2>2, <2>4, <2>6 DEF ReceiverInv
<1>. QED  BY <1>4, <1>5

LEMMA FlushFailsKeeps ==
  ReceiverInv /\ Shapes /\ (FlushFails \/ BeginFails) => ReceiverInv'
<1> SUFFICES ASSUME ReceiverInv, Shapes, FlushFails \/ BeginFails
             PROVE  ReceiverInv'
  OBVIOUS
<1>1. /\ UNCHANGED <<setting, remote, cancels, orphans, store>> /\ FailReceive(recv)
      /\ flush.pc # "cancel"
  BY DEF FlushFails, BeginFails, FlushChanges
<1>2. StoreOK' /\ FinishedIsWhole'
  BY <1>1 DEF ReceiverInv, StoreOK, FileOK, Shape, FinishedIsWhole
<1>. QED  BY <1>1, <1>2, FailKeeps

LEMMA BeginDeclinedKeeps == ReceiverInv /\ Shapes /\ BeginDeclined => ReceiverInv'
<1> SUFFICES ASSUME ReceiverInv, Shapes, BeginDeclined
             PROVE  ReceiverInv'
  OBVIOUS
<1> DEFINE r == [recv EXCEPT !.handle = 0]
<1>1. Shape(r, RecvFields) /\ r.handle = 0
  BY DEF Shapes, Shape, RecvFields
<1>2. /\ FailReceive(r) /\ UNCHANGED <<setting, remote, cancels, store>>
      /\ orphans' = orphans \cup ({recv.handle} \ {0}) /\ flush.pc = "begin"
  BY DEF BeginDeclined, FlushChanges
<1> HIDE DEF r
<1>3. /\ recv'.rx = 0 /\ recv'.made = recv.made /\ recv'.input = <<>>
      /\ recv'.handle = 0 /\ recv'.gen = recv.gen + 1 /\ recv'.batch = <<>>
      /\ flush'.pc = "idle"
  BY <1>1, <1>2, FailDoes
<1>4. RemoteOK'
  BY <1>2 DEF ReceiverInv, RemoteOK, Due
<1>5. RecvOK' /\ FlushOK' /\ StoreOK' /\ FinishedIsWhole'
  BY <1>2, <1>3
     DEF ReceiverInv, RecvOK, FlushOK, StoreOK, FileOK, Shape, FinishedIsWhole
<1>6. At(None)'
  BY <1>3, NoneIsDue DEF At, AtIdle
<1>7. InStep'
  BY <1>2, <1>3, <1>6, InStepDropped
<1>8. NothingLeftOpen'
  <2>1. \A h \in 1..Len(store) : Covered(h) => Covered(h)'
    BY <1>2 DEF Covered
  <2>2. \A h \in 1..Len(store) : store[h].state = "open" => Covered(h)
    BY LeftOpenIs DEF ReceiverInv
  <2>. QED  BY <1>2, <1>5, <2>1, <2>2 DEF StoreOK, NothingLeftOpen, IsOpen, Covered
<1>. QED  BY <1>4, <1>5, <1>7, <1>8 DEF ReceiverInv

LEMMA FailCancelsKeeps == ReceiverInv /\ Shapes /\ FailCancels => ReceiverInv'
<1> SUFFICES ASSUME ReceiverInv, Shapes, FailCancels
             PROVE  ReceiverInv'
  OBVIOUS
<1> DEFINE h == flush.handle
           v == IF store[h].state = "open" THEN "gone" ELSE store[h].state
<1>1. PICK due : Stream(due, recv.input) /\ InSync(due[Len(recv.input)]) /\ At(due[0])
  BY DEF ReceiverInv, InStep
<1>2. h \in 1..Len(store) /\ recv.handle \in {0, h} /\ flush.pc = "cancel"
  BY <1>1 DEF FailCancels, At, AtCancel, Handle
<1>3. /\ UNCHANGED <<setting, remote, cancels, orphans>>
      /\ store' = [store EXCEPT ![h].state = v]
  BY <1>2 DEF FailCancels, FlushChanges, LetGo
<1>4. /\ recv'.rx = 0 /\ recv'.made = recv.made /\ recv'.input = <<>>
      /\ recv'.handle = 0 /\ recv'.gen = recv.gen /\ recv'.batch = <<>>
      /\ flush'.pc = "idle"
  BY DEF FailCancels, FailEnds, Dropped, Idle, Shapes, Shape, RecvFields
<1>5. /\ StoreOK' /\ Len(store') = Len(store)
      /\ store'[h].state = v
      /\ \A q \in 1..Len(store) :
           /\ store'[q].file = store[q].file /\ store'[q].blocks = store[q].blocks
           /\ q # h => store'[q] = store[q]
  <2> HIDE DEF v
  <2>. QED  BY <1>2, <1>3, StateChanges DEF ReceiverInv
<1>6. RemoteOK'
  BY <1>3 DEF ReceiverInv, RemoteOK, Due
<1>7. RecvOK' /\ FlushOK'
  BY <1>4, <1>5 DEF ReceiverInv, RecvOK, FlushOK, StoreOK
<1>8. At(None)'
  BY <1>4, NoneIsDue DEF At, AtIdle
<1>9. InStep'
  BY <1>3, <1>4, <1>8, InStepDropped
<1>10. FinishedIsWhole'
  <2>1. \A q \in 1..Len(store) : store'[q].state = "finished" => store[q].state = "finished"
    BY <1>5
  <2>. QED  BY <1>5, <2>1, FinishedIs DEF ReceiverInv, FinishedIsWhole, StoreOK
<1>11. NothingLeftOpen'
  <2>1. \A q \in 1..Len(store) : store[q].state = "open" => Covered(q)
    BY LeftOpenIs DEF ReceiverInv
  <2>2. store'[h].state # "open"
    BY <1>5
  <2>3. \A q \in 1..Len(store) : q # h /\ Covered(q) => q \in cancels \cup orphans
    BY <1>2 DEF Covered
  <2>4. \A q \in 1..Len(store) : store'[q].state = "open" => q \in cancels \cup orphans
    BY <1>5, <2>1, <2>2, <2>3
  <2>. QED  BY <1>3, <1>5, <2>4 DEF StoreOK, NothingLeftOpen, IsOpen
<1>. QED  BY <1>5, <1>6, <1>7, <1>9, <1>10, <1>11 DEF ReceiverInv

LEMMA CancelArrivesKeeps == ReceiverInv /\ CancelArrives => ReceiverInv'
<1> SUFFICES ASSUME ReceiverInv, CancelArrives
             PROVE  ReceiverInv'
  OBVIOUS
<1>1. PICK due : Stream(due, recv.input) /\ InSync(due[Len(recv.input)]) /\ At(due[0])
  BY DEF ReceiverInv, InStep
<1>2. PICK h \in cancels : cancels' = cancels \ {h} /\ LetGo(h)
  BY DEF CancelArrives
<1> DEFINE v == IF store[h].state = "open" THEN "gone" ELSE store[h].state
<1>3. h \in 1..Len(store) /\ cancels' \subseteq cancels
  BY <1>2 DEF ReceiverInv, StoreOK
<1>4. UNCHANGED <<setting, remote, recv, flush, orphans>>
  BY DEF CancelArrives
<1>5. /\ StoreOK' /\ Len(store') = Len(store)
      /\ store'[h].state = v
      /\ \A q \in 1..Len(store) :
           /\ store'[q].file = store[q].file /\ store'[q].blocks = store[q].blocks
           /\ q # h => store'[q] = store[q]
  <2>1. store' = [store EXCEPT ![h].state = v]
    BY <1>2, <1>3 DEF LetGo
  <2> HIDE DEF v
  <2>. QED  BY <1>3, <2>1, StateChanges DEF ReceiverInv
<1>6. RemoteOK' /\ FlushOK'
  BY <1>4 DEF ReceiverInv, RemoteOK, Due, FlushOK
<1>7. RecvOK'
  BY <1>4, <1>5 DEF ReceiverInv, RecvOK
<1>8. At(due[0])'
  <2>1. flush.pc = "idle" => AtIdle(due[0])'
    BY <1>1, <1>4, <1>5 DEF At, AtIdle, Has, Handle
  <2>2. flush.pc = "begin" => AtBegin(due[0])'
    BY <1>1, <1>4 DEF At, AtBegin
  <2>3. flush.pc \in {"encode", "write"} => AtWrite(due[0])'
    BY <1>1, <1>4, <1>5 DEF At, AtWrite, Has, Handle
  <2>4. flush.pc = "finish" => AtFinish(due[0])'
    BY <1>1, <1>4, <1>5 DEF At, AtFinish, Handle
  <2>5. flush.pc = "cancel" => AtCancel'
    BY <1>1, <1>4, <1>5 DEF At, AtCancel, Handle
  <2>. QED  BY <1>1, <1>4, <2>1, <2>2, <2>3, <2>4, <2>5 DEF At
<1>9. InStep'
  BY <1>1, <1>4, <1>8, InStepNext DEF InSync
<1>10. FinishedIsWhole'
  <2>1. \A q \in 1..Len(store) : store'[q].state = "finished" => store[q].state = "finished"
    BY <1>5
  <2>. QED  BY <1>5, <2>1, FinishedIs DEF ReceiverInv, FinishedIsWhole, StoreOK
<1>11. NothingLeftOpen'
  <2>1. \A q \in 1..Len(store) : store[q].state = "open" => Covered(q)
    BY LeftOpenIs DEF ReceiverInv
  <2>2. store'[h].state # "open"
    BY <1>5
  <2>3. \A q \in 1..Len(store) : store'[q].state = "open" => store[q].state = "open" /\ q # h
    BY <1>5, <2>2
  <2>. QED  BY <1>2, <1>4, <1>5, <2>1, <2>3 DEF StoreOK, NothingLeftOpen, IsOpen, Covered
<1>. QED  BY <1>5, <1>6, <1>7, <1>9, <1>10, <1>11 DEF ReceiverInv

LEMMA CancelKeepsReceiver ==
  ASSUME ReceiverInv, Shapes, NEW s, Cancel(s)
  PROVE  ReceiverInv'
<1>1. PICK due : Stream(due, recv.input) /\ InSync(due[Len(recv.input)]) /\ At(due[0])
  BY DEF ReceiverInv, InStep
<1>2. /\ recv'.rx = 0 /\ recv'.made = recv.made /\ recv'.input = <<>>
      /\ recv'.handle = 0 /\ recv'.gen = recv.gen + 1 /\ recv'.batch = <<>>
      /\ UNCHANGED <<setting, flush, store, orphans>>
      /\ cancels' = cancels \cup ({recv.handle} \ {0})
  BY DEF Cancel, Dropped, Shapes, Shape, RecvFields
<1>3. remote'.last = remote.last
  BY DEF Cancel, Shapes, Shape, RemoteFields
<1>4. RemoteOK'
  BY <1>2, <1>3 DEF ReceiverInv, RemoteOK, Due
<1>5. RecvOK' /\ FlushOK' /\ FinishedIsWhole'
  BY <1>2 DEF ReceiverInv, RecvOK, FlushOK, StoreOK, FinishedIsWhole
<1>6. StoreOK'
  BY <1>2 DEF ReceiverInv, RecvOK, StoreOK, FileOK, Shape
<1>7. At(None)'
  <2>1. recv.gen \in Nat
    BY DEF ReceiverInv, RecvOK
  <2>2. flush.pc = "begin" => AtBegin(None)'
    BY <1>1, <1>2, NoneIsDue DEF At, AtBegin
  <2>3. flush.pc \in {"encode", "write"} => AtWrite(None)'
    <3> SUFFICES ASSUME flush.pc \in {"encode", "write"}
                 PROVE  AtWrite(None)'
      OBVIOUS
    <3>1. AtWrite(due[0])
      BY <1>1 DEF At
    <3>2. recv'.gen # flush'.gen /\ flush'.gen <= recv'.gen
      BY <1>2, <2>1, <3>1 DEF AtWrite
    <3>. QED  BY <1>2, <3>1, <3>2, NoneIsDue DEF AtWrite, Handle
  <2>4. flush.pc = "finish" => AtFinish(None)'
    BY <1>1, <1>2, NoneIsDue DEF At, AtFinish, Handle
  <2>5. flush.pc = "cancel" => AtCancel'
    BY <1>1, <1>2 DEF At, AtCancel, Handle
  <2>6. AtIdle(None)'
    BY NoneIsDue DEF AtIdle
  <2>. QED  BY <1>2, <2>2, <2>3, <2>4, <2>5, <2>6, NoneIsDue DEF At
<1>8. InStep'
  BY <1>2, <1>7, InStepDropped
<1>9. NothingLeftOpen'
  <2>1. \A h \in 1..Len(store) : store[h].state = "open" => Covered(h)
    BY LeftOpenIs DEF ReceiverInv
  <2>2. \A h \in 1..Len(store) : Covered(h) => Covered(h)'
    BY <1>2 DEF Covered
  <2>. QED  BY <1>2, <1>6, <2>1, <2>2 DEF StoreOK, NothingLeftOpen, IsOpen, Covered
<1>. QED  BY <1>4, <1>5, <1>6, <1>8, <1>9 DEF ReceiverInv

(***************************************************************************)
(* A flush that goes on.                                                   *)
(***************************************************************************)
LEMMA BeginReturnsKeeps == ReceiverInv /\ Shapes /\ BeginReturns => ReceiverInv'
<1> SUFFICES ASSUME ReceiverInv, Shapes, BeginReturns
             PROVE  ReceiverInv'
  OBVIOUS
<1> DEFINE new == [file |-> flush.file, blocks |-> <<>>, state |-> "open"]
           n == Len(store)
<1>1. PICK due : Stream(due, recv.input) /\ InSync(due[Len(recv.input)]) /\ At(due[0])
  BY DEF ReceiverInv, InStep
<1>2. /\ FileOK(new) /\ new.file = flush.file /\ new.blocks = <<>> /\ new.state = "open"
  BY DEF FileOK, Shape
<1>3. store' = Append(store, new) /\ UNCHANGED <<setting, remote, cancels>> /\ flush.pc = "begin"
  BY DEF BeginReturns, FlushChanges
<1> HIDE DEF new
<1>4. /\ StoreOK' /\ Len(store') = n + 1
      /\ store'[n + 1] = new
      /\ \A q \in 1..n : store'[q] = store[q]
  BY <1>2, <1>3, FileAdded DEF ReceiverInv
<1>5. n \in Nat
  BY DEF ReceiverInv, StoreOK
<1>6. /\ recv'.rx = recv.rx /\ recv'.made = recv.made /\ recv'.input = recv.input
      /\ recv'.handle = n + 1 /\ recv'.gen = recv.gen /\ recv'.batch = recv.batch
      /\ recv'.name = recv.name
  <2>1. recv' = [recv EXCEPT !.handle = Len(store')]
    BY DEF BeginReturns
  <2>. QED  BY <1>4, <2>1 DEF Shapes, Shape, RecvFields
<1>7. /\ flush'.pc = "idle"
      /\ orphans' = orphans \cup ({recv.handle} \ {0})
                      \cup (IF recv.rx # flush.rx THEN {n + 1} ELSE {})
  BY <1>4 DEF BeginReturns, Idle
<1>8. RemoteOK'
  BY <1>3 DEF ReceiverInv, RemoteOK, Due
<1>9. RecvOK' /\ FlushOK'
  BY <1>4, <1>5, <1>6, <1>7 DEF ReceiverInv, RecvOK, FlushOK
<1>10. AtBegin(due[0])
  BY <1>1, <1>3 DEF At
<1>11. At(due[0])'
  <2>1. CASE recv.rx = flush.rx
    <3>1. /\ due[0] = Item("data", flush.file, 1) /\ recv.rx # 0
          /\ recv'.name = flush.file /\ recv'.batch = <<>>
      BY <1>6, <1>10, <2>1 DEF AtBegin
    <3>2. due[0].kind = "data" /\ due[0].file = flush.file /\ due[0].block = 1
      BY <3>1, ItemFields
    <3>3. Before(due[0]) = <<>>
      BY <3>2 DEF Before, Upto
    <3>4. store'[n + 1].blocks \o recv'.batch = <<>>
      BY <1>2, <1>4, <3>1
    <3>5. Has(due[0], recv.handle, recv.batch)'
      BY <1>2, <1>4, <1>5, <1>6, <3>1, <3>2, <3>3, <3>4 DEF Has, Handle, Before
    <3>. QED  BY <1>6, <1>7, <3>1, <3>2, <3>5 DEF At, AtIdle
  <2>2. CASE recv.rx # flush.rx
    <3>1. due[0].kind = "none" /\ n + 1 \in orphans'
      BY <1>7, <1>10, <2>2 DEF AtBegin
    <3>. QED  BY <1>6, <1>7, <3>1 DEF At, AtIdle
  <2>. QED  BY <2>1, <2>2
<1>12. InStep'
  BY <1>1, <1>3, <1>6, <1>11, InStepNext DEF InSync
<1>13. FinishedIsWhole'
  <2>1. \A q \in 1..n + 1 : store'[q].state = "finished" => q \in 1..n
    BY <1>2, <1>4, <1>5
  <2>2. \A q \in 1..n : store[q].state = "finished" => store[q].blocks = Blocks(store[q].file)
    BY FinishedIs DEF ReceiverInv
  <2>3. \A q \in 1..n + 1 :
          store'[q].state = "finished" => store'[q].blocks = Blocks(store'[q].file)
    BY <1>4, <2>1, <2>2
  <2>. QED  BY <1>4, <2>3 DEF StoreOK, FinishedIsWhole
<1>14. NothingLeftOpen'
  <2>1. \A q \in 1..n : store[q].state = "open" => Covered(q)
    BY LeftOpenIs DEF ReceiverInv
  <2>2. \A q \in 1..n : Covered(q) => Covered(q)'
    BY <1>3, <1>5, <1>7 DEF Covered
  <2>3. \A q : q = n + 1 => Covered(q)'
    <3>1. recv.rx = flush.rx => recv.rx # 0
      BY <1>10 DEF AtBegin
    <3>. QED  BY <1>6, <1>7, <3>1 DEF Covered
  <2>4. \A q \in 1..n + 1 : store'[q].state = "open" => Covered(q)'
    BY <1>4, <1>5, <2>1, <2>2, <2>3
  <2>. QED  BY <1>4, <2>4 DEF StoreOK, NothingLeftOpen, IsOpen, Covered
<1>. QED  BY <1>4, <1>8, <1>9, <1>12, <1>13, <1>14 DEF ReceiverInv

LEMMA EncodedKeeps == ReceiverInv /\ Shapes /\ Encoded => ReceiverInv'
<1> SUFFICES ASSUME ReceiverInv, Shapes, Encoded
             PROVE  ReceiverInv'
  OBVIOUS
<1>1. PICK due : Stream(due, recv.input) /\ InSync(due[Len(recv.input)]) /\ At(due[0])
  BY DEF ReceiverInv, InStep
<1>2. UNCHANGED <<setting, remote, recv, store, cancels, orphans>> /\ flush.pc = "encode"
  BY DEF Encoded, FlushChanges
<1>3. /\ flush'.pc = "write" /\ flush'.rx = flush.rx /\ flush'.gen = flush.gen
      /\ flush'.handle = flush.handle /\ flush'.blocks = flush.blocks /\ flush'.then = flush.then
  BY DEF Encoded, Shapes, Shape, FlushFields
<1>4. RemoteOK' /\ RecvOK' /\ FlushOK' /\ StoreOK' /\ FinishedIsWhole'
  BY <1>2, <1>3
     DEF ReceiverInv, RemoteOK, Due, RecvOK, FlushOK, StoreOK, FileOK, Shape, FinishedIsWhole
<1>5. AtWrite(due[0])'
  BY <1>1, <1>2, <1>3 DEF At, AtWrite, Has, Handle
<1>6. At(due[0])'
  BY <1>1, <1>2, <1>3, <1>5 DEF At
<1>7. InStep'
  BY <1>1, <1>2, <1>6, InStepNext DEF InSync
<1>8. NothingLeftOpen'
  BY <1>2, <1>3 DEF ReceiverInv, NothingLeftOpen, IsOpen
<1>. QED  BY <1>4, <1>7, <1>8 DEF ReceiverInv

\* What follows a batch, be it written or stale.
LEMMA GoOnKeeps ==
  ASSUME ReceiverInv, Shapes, UNCHANGED <<setting, remote, cancels, orphans>>, GoOn,
         flush.pc \in {"encode", "write"}, StoreOK', Len(store') = Len(store), FinishedIsWhole',
         \A h \in 1..Len(store) : store'[h].file = store[h].file,
         \A h \in 1..Len(store) : store'[h].state = store[h].state,
         recv.gen = flush.gen =>
           store'[flush.handle].blocks = store[flush.handle].blocks \o flush.blocks
  PROVE  ReceiverInv'
<1>1. PICK due : Stream(due, recv.input) /\ InSync(due[Len(recv.input)]) /\ At(due[0])
  BY DEF ReceiverInv, InStep
<1> DEFINE d == due[0]
<1>2. AtWrite(d)
  BY <1>1 DEF At
<1>3. UNCHANGED recv /\ flush'.pc \in {"idle", "finish"}
  <2>1. CASE Finish(recv)
    BY <2>1 DEF Finish, Idle
  <2>2. CASE flush' = Idle /\ UNCHANGED recv
    BY <2>2 DEF Idle
  <2>. QED  BY <2>1, <2>2 DEF GoOn
<1>4. RemoteOK' /\ RecvOK' /\ FlushOK'
  BY <1>3 DEF ReceiverInv, RemoteOK, Due, RecvOK, FlushOK
<1>5. recv.rx = 0 => d.kind = "none" /\ recv.handle \in {0} \cup orphans
  BY <1>1 DEF At
<1>6. At(d)'
  <2>1. CASE recv.gen # flush.gen
    <3>1. d.kind = "none" /\ flush'.pc = "idle"
      BY <1>2, <2>1 DEF AtWrite, GoOn, Idle
    <3>. QED  BY <1>3, <1>5, <3>1 DEF At, AtIdle
  <2>2. CASE recv.gen = flush.gen /\ flush.then = "data"
    <3>1. /\ d.kind \in {"data", "ZEOF"} /\ Has(d, flush.handle, flush.blocks)
          /\ recv.handle = flush.handle /\ recv.batch = <<>> /\ recv.rx # 0
      BY <1>2, <2>2 DEF AtWrite
    <3>2. flush'.pc = "idle"
      BY <2>2 DEF GoOn, Idle
    <3>3. store'[recv.handle].blocks = Before(d)
      BY <2>2, <3>1 DEF Has
    <3>4. store'[recv.handle].blocks \o recv.batch = Before(d)
      <4>1. flush.handle \in 1..Len(store')
        BY <3>1 DEF Has, Handle
      <4>2. store'[recv.handle].blocks \in Seq(Nat)
        BY <3>1, <4>1 DEF StoreOK, FileOK
      <4> DEFINE blocks == store'[recv.handle].blocks
      <4>3. blocks \o <<>> = blocks
        <5> HIDE DEF blocks
        <5>. QED  BY <4>2 DEF blocks
      <4>. QED  BY <3>1, <3>3, <4>3
    <3>5. Has(d, recv.handle, recv.batch)'
      BY <1>3, <3>1, <3>4 DEF Has, Handle, Before
    <3>. QED  BY <1>3, <3>1, <3>2, <3>5 DEF At, AtIdle
  <2>3. CASE recv.gen = flush.gen /\ flush.then = "complete"
    <3>1. /\ d.kind \in {"ZFILE", "ZFIN"}
          /\ store[flush.handle].blocks \o flush.blocks = Blocks(store[flush.handle].file)
          /\ recv.handle = flush.handle /\ recv.rx = flush.rx /\ recv.rx # 0
          /\ Handle(flush.handle)
      BY <1>2, <2>3 DEF AtWrite
    <3>2. recv.handle # 0
      BY <3>1 DEF Handle
    <3>3. flush'.pc = "finish" /\ flush'.handle = recv.handle
      BY <2>3, <3>1, <3>2 DEF GoOn, Finish, Idle
    <3>4. AtFinish(d)'
      BY <1>3, <2>3, <3>1, <3>3 DEF AtFinish, Handle
    <3>. QED  BY <1>3, <3>1, <3>3, <3>4 DEF At
  <2>. QED  BY <1>2, <2>1, <2>2, <2>3 DEF AtWrite
<1>7. InStep'
  BY <1>1, <1>3, <1>6, InStepNext DEF InSync
<1>8. NothingLeftOpen'
  <2>1. \A h \in 1..Len(store) : store[h].state = "open" => Covered(h)
    BY LeftOpenIs DEF ReceiverInv
  <2>2. \A h \in 1..Len(store) : Covered(h) => Covered(h)'
    BY <1>3 DEF Covered
  <2>3. \A h \in 1..Len(store') : store'[h].state = "open" => Covered(h)'
    BY <2>1, <2>2
  <2>. QED  BY <2>3 DEF StoreOK, NothingLeftOpen, IsOpen, Covered
<1>. QED  BY <1>4, <1>7, <1>8 DEF ReceiverInv

LEMMA BatchStaleKeeps == ReceiverInv /\ Shapes /\ BatchStale => ReceiverInv'
<1> SUFFICES ASSUME ReceiverInv, Shapes, BatchStale
             PROVE  ReceiverInv'
  OBVIOUS
<1>1. /\ UNCHANGED <<setting, remote, cancels, orphans, store>> /\ GoOn
      /\ flush.pc = "encode" /\ recv.gen # flush.gen
  BY DEF BatchStale, FlushChanges
<1>2. StoreOK' /\ FinishedIsWhole'
  BY <1>1 DEF ReceiverInv, StoreOK, FileOK, Shape, FinishedIsWhole
<1>. QED  BY <1>1, <1>2, GoOnKeeps

LEMMA WrittenKeeps == ReceiverInv /\ Shapes /\ Written => ReceiverInv'
<1> SUFFICES ASSUME ReceiverInv, Shapes, Written
             PROVE  ReceiverInv'
  OBVIOUS
<1> DEFINE h == flush.handle
<1>1. PICK due : Stream(due, recv.input) /\ InSync(due[Len(recv.input)]) /\ At(due[0])
  BY DEF ReceiverInv, InStep
<1>2. /\ UNCHANGED <<setting, remote, cancels, orphans>> /\ GoOn
      /\ flush.pc = "write" /\ store[h].state = "open"
      /\ store' = [store EXCEPT ![h].blocks = @ \o flush.blocks]
  BY DEF Written, FlushChanges, IsOpen
<1>3. h \in 1..Len(store) /\ flush.blocks \in Seq(Nat)
  BY <1>1, <1>2 DEF At, AtWrite, Handle
<1>4. /\ StoreOK' /\ Len(store') = Len(store)
      /\ store'[h].blocks = store[h].blocks \o flush.blocks
      /\ store'[h].state = store[h].state /\ store'[h].file = store[h].file
      /\ \A q \in 1..Len(store) : q # h => store'[q] = store[q]
  BY <1>2, <1>3, BlocksChange DEF ReceiverInv
<1>5. /\ \A q \in 1..Len(store) : store'[q].file = store[q].file
      /\ \A q \in 1..Len(store) : store'[q].state = store[q].state
  BY <1>4
<1>6. FinishedIsWhole'
  <2>1. \A q \in 1..Len(store) :
          store[q].state = "finished" => store[q].blocks = Blocks(store[q].file)
    BY FinishedIs DEF ReceiverInv
  <2>2. \A q \in 1..Len(store') : store'[q].state = "finished" => q # h /\ q \in 1..Len(store)
    BY <1>2, <1>4, <1>5
  <2>3. \A q \in 1..Len(store') :
          store'[q].state = "finished" => store'[q].blocks = Blocks(store'[q].file)
    BY <1>4, <2>1, <2>2
  <2>. QED  BY <1>4, <2>3 DEF StoreOK, FinishedIsWhole
<1>. QED  BY <1>2, <1>4, <1>5, <1>6, GoOnKeeps

LEMMA WriteFailsKeeps == ReceiverInv /\ Shapes /\ WriteFails => ReceiverInv'
<1> SUFFICES ASSUME ReceiverInv, Shapes, WriteFails
             PROVE  ReceiverInv'
  OBVIOUS
<1>1. UNCHANGED <<setting, remote, cancels, orphans, store>> /\ flush.pc = "write"
  BY DEF WriteFails, FlushChanges
<1>2. StoreOK' /\ FinishedIsWhole'
  BY <1>1 DEF ReceiverInv, StoreOK, FileOK, Shape, FinishedIsWhole
<1>3. CASE recv.gen = flush.gen
  <2>1. FailReceive(recv)
    BY <1>3 DEF WriteFails
  <2>. QED  BY <1>1, <1>2, <2>1, FailKeeps
<1>4. CASE recv.gen # flush.gen
  <2>1. GoOn
    BY <1>4 DEF WriteFails
  <2>. QED  BY <1>1, <1>2, <1>4, <2>1, GoOnKeeps
<1>. QED  BY <1>3, <1>4

LEMMA FinishReturnsKeeps == ReceiverInv /\ Shapes /\ FinishReturns => ReceiverInv'
<1> SUFFICES ASSUME ReceiverInv, Shapes, FinishReturns
             PROVE  ReceiverInv'
  OBVIOUS
<1> DEFINE h == flush.handle
<1>1. PICK due : Stream(due, recv.input) /\ InSync(due[Len(recv.input)]) /\ At(due[0])
  BY DEF ReceiverInv, InStep
<1>2. /\ UNCHANGED <<setting, remote, cancels, orphans>> /\ flush.pc = "finish"
      /\ store' = [store EXCEPT ![h].state = "finished"]
  BY DEF FinishReturns, FlushChanges
<1>3. AtFinish(due[0])
  BY <1>1, <1>2 DEF At
<1>4. /\ StoreOK' /\ Len(store') = Len(store)
      /\ store'[h].state = "finished"
      /\ \A q \in 1..Len(store) :
           /\ store'[q].file = store[q].file /\ store'[q].blocks = store[q].blocks
           /\ q # h => store'[q] = store[q]
  BY <1>2, <1>3, StateChanges DEF ReceiverInv, AtFinish, Handle
<1>5. /\ recv'.rx = recv.rx /\ recv'.made = recv.made /\ recv'.input = recv.input
      /\ recv'.handle = 0 /\ recv'.gen = recv.gen /\ recv'.batch = recv.batch
      /\ recv'.name = recv.name /\ flush'.pc = "idle"
  BY DEF FinishReturns, Idle, Shapes, Shape, RecvFields
<1>6. RemoteOK' /\ RecvOK' /\ FlushOK'
  BY <1>2, <1>4, <1>5 DEF ReceiverInv, RemoteOK, Due, RecvOK, FlushOK, StoreOK
<1>7. At(due[0])'
  BY <1>1, <1>3, <1>5 DEF At, AtIdle, AtFinish
<1>8. InStep'
  BY <1>1, <1>2, <1>5, <1>7, InStepNext DEF InSync
<1>9. FinishedIsWhole'
  <2>1. \A q \in 1..Len(store) :
          store[q].state = "finished" => store[q].blocks = Blocks(store[q].file)
    BY FinishedIs DEF ReceiverInv
  <2>2. \A q \in 1..Len(store') :
          store'[q].state = "finished" => store'[q].blocks = Blocks(store'[q].file)
    BY <1>3, <1>4, <2>1 DEF AtFinish
  <2>. QED  BY <1>4, <2>2 DEF StoreOK, FinishedIsWhole
<1>10. NothingLeftOpen'
  <2>1. \A q \in 1..Len(store) : store[q].state = "open" => Covered(q)
    BY LeftOpenIs DEF ReceiverInv
  <2>2. \A q \in 1..Len(store) : q # h /\ Covered(q) => q \in cancels \cup orphans
    BY <1>2, <1>3 DEF Covered, AtFinish, Handle
  <2>3. \A q \in 1..Len(store') : store'[q].state = "open" => q \in cancels \cup orphans
    BY <1>4, <2>1, <2>2
  <2>. QED  BY <1>2, <1>4, <2>3 DEF StoreOK, NothingLeftOpen, IsOpen
<1>. QED  BY <1>4, <1>6, <1>8, <1>9, <1>10 DEF ReceiverInv

LEMMA FinishFailsKeeps == ReceiverInv /\ Shapes /\ FinishFails => ReceiverInv'
<1> SUFFICES ASSUME ReceiverInv, Shapes, FinishFails
             PROVE  ReceiverInv'
  OBVIOUS
<1> DEFINE h == flush.handle
<1>1. PICK due : Stream(due, recv.input) /\ InSync(due[Len(recv.input)]) /\ At(due[0])
  BY DEF ReceiverInv, InStep
<1>2. /\ UNCHANGED <<setting, remote, cancels, orphans>> /\ flush.pc = "finish"
      /\ store' = [store EXCEPT ![h].state = "gone"] /\ FailReceive(recv)
  BY DEF FinishFails, FlushChanges
<1>3. h \in 1..Len(store)
  BY <1>1, <1>2 DEF At, AtFinish, Handle
<1>4. /\ StoreOK' /\ Len(store') = Len(store)
      /\ store'[h].state = "gone"
      /\ \A q \in 1..Len(store) :
           /\ store'[q].file = store[q].file /\ store'[q].blocks = store[q].blocks
           /\ q # h => store'[q] = store[q]
  BY <1>2, <1>3, StateChanges DEF ReceiverInv
<1>5. \A q \in 1..Len(store) : store'[q].state # "gone" => store'[q].state = store[q].state
  BY <1>4
<1>6. FinishedIsWhole'
  <2>1. \A q \in 1..Len(store) :
          store[q].state = "finished" => store[q].blocks = Blocks(store[q].file)
    BY FinishedIs DEF ReceiverInv
  <2>2. \A q \in 1..Len(store') :
          store'[q].state = "finished" => store'[q].blocks = Blocks(store'[q].file)
    BY <1>4, <1>5, <2>1
  <2>. QED  BY <1>4, <2>2 DEF StoreOK, FinishedIsWhole
<1>7. \A q \in 1..Len(store) : store'[q].state = "open" => store[q].state = "open"
  BY <1>5
<1>. QED  BY <1>2, <1>4, <1>6, <1>7, FailKeeps

(***************************************************************************)
(* The receiver takes an item.                                             *)
(***************************************************************************)
Taking ==
  /\ flush.pc = "idle" /\ recv.rx # 0 /\ recv.input # <<>>
  /\ remote' = Answered(Head(recv.input))
  /\ UNCHANGED <<setting, store, cancels, orphans>>
  /\ recv'.input = Tail(recv.input) /\ recv'.made = recv.made
  /\ recv'.handle = recv.handle /\ recv'.rx \in {recv.rx, 0}
  /\ recv'.rx = 0 => recv.handle \in {0} \cup orphans

LEMMA TakenKeeps ==
  ASSUME ReceiverInv, Shapes, Taking, recv'.gen \in Nat, recv'.batch \in Seq(Nat), FlushOK',
         NEW due, Stream(due, recv.input), InSync(due[Len(recv.input)]), At(due[1])'
  PROVE  ReceiverInv'
<1>1. recv.input \in Seq(Pieces)
  BY DEF ReceiverInv, RecvOK
<1>2. PICK rest : /\ Stream(rest, Tail(recv.input))
                  /\ rest[0] = due[1]
                  /\ rest[Len(Tail(recv.input))] = due[Len(recv.input)]
  BY <1>1, StreamMoves DEF Taking
<1>3. \/ remote'.mode = "shell" /\ remote'.last.kind = "none"
      \/ remote'.mode = remote.mode /\ remote'.last = remote.last
  BY DEF Taking, Answered, Shell, Plain, Item, Shapes, Shape, RemoteFields
<1>4. RemoteOK'
  BY <1>3 DEF ReceiverInv, RemoteOK, Due, Taking
<1>5. InStep'
  BY <1>2, <1>3, InStepNext DEF Taking, InSync
<1>6. Tail(recv.input) \in Seq(Pieces)
  BY <1>1 DEF Taking
<1>7. RecvOK'
  BY <1>6 DEF ReceiverInv, RecvOK, Taking
<1>8. StoreOK' /\ FinishedIsWhole'
  BY DEF Taking, ReceiverInv, StoreOK, FileOK, Shape, FinishedIsWhole
<1>9. NothingLeftOpen'
  <2>1. \A h \in 1..Len(store) : store[h].state = "open" => Covered(h)
    BY LeftOpenIs DEF ReceiverInv
  <2>2. \A h \in 1..Len(store) : Covered(h) => Covered(h)'
    BY DEF Covered, Taking
  <2>3. \A h \in 1..Len(store') : store'[h].state = "open" => Covered(h)'
    BY <2>1, <2>2 DEF Taking
  <2>. QED  BY <1>8, <2>3 DEF StoreOK, NothingLeftOpen, IsOpen, Covered
<1>. QED  BY <1>4, <1>5, <1>7, <1>8, <1>9 DEF ReceiverInv

\* A block that is taken follows those before it.
LEMMA BlocksGrow ==
  ASSUME NEW blocks \in Seq(Nat), NEW batch \in Seq(Nat), NEW b \in Nat \ {0},
         blocks \o batch = Upto(b - 1)
  PROVE  blocks \o Append(batch, b) = Upto(b)
<1> DEFINE m == Len(blocks)
           n == Len(batch)
           longer == Append(batch, b)
<1>1. m \in Nat /\ n \in Nat
  OBVIOUS
<1>2. /\ Len(longer) = n + 1 /\ longer[n + 1] = b /\ longer \in Seq(Nat)
      /\ \A i \in 1..n : longer[i] = batch[i]
  BY Appended
<1>3. /\ Len(blocks \o batch) = m + n
      /\ \A i \in 1..m : (blocks \o batch)[i] = blocks[i]
      /\ \A i \in m + 1..m + n : (blocks \o batch)[i] = batch[i - m]
  BY ConcatProperties
<1>4. m + n = b - 1
  <2>1. Upto(b - 1) = [i \in 1..b - 1 |-> i] /\ b - 1 \in Nat
    BY DEF Upto
  <2>2. Len(Upto(b - 1)) = b - 1
    BY <2>1, LenProperties
  <2>. QED  BY <1>3, <2>2
<1>5. \A i \in 1..b - 1 : (blocks \o batch)[i] = i
  BY DEF Upto
<1> HIDE DEF longer
<1>6. /\ Len(blocks \o longer) = m + n + 1 /\ blocks \o longer \in Seq(Nat)
      /\ \A i \in 1..m : (blocks \o longer)[i] = blocks[i]
      /\ \A i \in m + 1..m + n + 1 : (blocks \o longer)[i] = longer[i - m]
  <2>1. /\ Len(blocks \o longer) = m + Len(longer) /\ blocks \o longer \in Seq(Nat)
        /\ \A i \in 1..m : (blocks \o longer)[i] = blocks[i]
        /\ \A i \in m + 1..m + Len(longer) : (blocks \o longer)[i] = longer[i - m]
    <3>1. longer \in Seq(Nat)
      BY <1>2
    <3>. QED  BY <3>1, ConcatProperties
  <2>2. m + Len(longer) = m + n + 1
    BY <1>1, <1>2
  <2>. QED  BY <2>1, <2>2
<1>7. \A i \in 1..b : (blocks \o longer)[i] = i
  <2> SUFFICES ASSUME NEW i \in 1..b
               PROVE  (blocks \o longer)[i] = i
    OBVIOUS
  <2>1. CASE i \in 1..m
    <3>1. (blocks \o longer)[i] = (blocks \o batch)[i]
      BY <1>3, <1>6, <2>1
    <3>2. i \in 1..b - 1
      BY <1>1, <1>4, <2>1
    <3>. QED  BY <1>5, <3>1, <3>2
  <2>2. CASE i \in m + 1..m + n
    <3>1. i - m \in 1..n /\ i \in m + 1..m + n + 1 /\ i \in 1..b - 1
      BY <1>1, <1>4, <2>2
    <3>2. (blocks \o longer)[i] = batch[i - m]
      BY <1>2, <1>6, <3>1
    <3>. QED  BY <1>3, <1>5, <2>2, <3>1, <3>2
  <2>3. CASE i = b
    <3>1. i = m + n + 1 /\ i - m = n + 1 /\ i \in m + 1..m + n + 1
      BY <1>1, <1>4, <2>3
    <3>2. (blocks \o longer)[i] = longer[i - m]
      BY <1>6, <3>1
    <3>. QED  BY <1>2, <2>3, <3>1, <3>2
  <2>4. i \in 1..m \/ i \in m + 1..m + n \/ i = b
    <3> HIDE DEF m, n
    <3>. QED  BY <1>1, <1>4
  <2>. QED  BY <2>1, <2>2, <2>3, <2>4
<1>8. blocks \o longer = Upto(b)
  <2> DEFINE all == blocks \o longer
  <2>1. all = [i \in 1..Len(all) |-> all[i]]
    <3>1. all \in Seq(Nat)
      BY <1>6
    <3> HIDE DEF all
    <3>. QED  BY <3>1
  <2>2. Len(all) = b
    BY <1>1, <1>4, <1>6
  <2> HIDE DEF all
  <2>3. all = [i \in 1..b |-> all[i]]
    BY <2>1, <2>2
  <2>4. \A i \in 1..b : all[i] = i
    BY <1>7 DEF all
  <2>5. all = [i \in 1..b |-> i]
    BY <2>3, <2>4
  <2>. QED  BY <2>5 DEF Upto, all
<1>. QED  BY <1>8 DEF longer

LEMMA NothingFollows ==
  ASSUME NEW blocks \in Seq(Nat)
  PROVE  blocks \o <<>> = blocks
OBVIOUS

\* A block of the file that is received joins the batch, which may be flushed.
LEMMA BlockTaken ==
  ASSUME ReceiverInv, Shapes, setting \in Settings, recv.rx # 0, recv.input # <<>>,
         flush.pc = "idle", NEW item, item.kind = "data",
         NEW d, NEW e, Due(d), Due(e), item = d, e = After(item), AtIdle(d),
         UNCHANGED <<store, orphans>>,
         NEW grown,
         grown = [recv EXCEPT !.input = Tail(recv.input), !.batch = Append(@, item.block)],
         \/ FlushBatch(grown, "data")
         \/ recv' = grown /\ UNCHANGED flush
  PROVE  /\ recv'.input = Tail(recv.input) /\ recv'.made = recv.made
         /\ recv'.handle = recv.handle /\ recv'.rx = recv.rx
         /\ recv'.gen \in Nat /\ recv'.batch \in Seq(Nat) /\ FlushOK'
         /\ At(e)'
<1> DEFINE batch == Append(recv.batch, item.block)
           h == recv.handle
<1>1. /\ Shape(grown, RecvFields) /\ grown.input = Tail(recv.input) /\ grown.made = recv.made
      /\ grown.handle = h /\ grown.rx = recv.rx /\ grown.gen = recv.gen
      /\ grown.batch = batch /\ grown.name = recv.name
  BY DEF Shapes, Shape, RecvFields
<1>2. recv.gen \in Nat /\ recv.batch \in Seq(Nat)
  BY DEF ReceiverInv, RecvOK
<1>3. item.file \in Files /\ item.block \in 1..Size[item.file] /\ Size[item.file] \in Nat \ {0}
  BY DueIs, SizeIsPositive
<1>4. Has(d, h, recv.batch)
  BY DEF AtIdle
<1>5. /\ recv.name = item.file /\ Handle(h) /\ store[h].file = item.file
      /\ store[h].blocks \o recv.batch = Upto(item.block - 1)
  BY <1>4 DEF Has, Before
<1>6. store[h].blocks \in Seq(Nat)
  BY <1>5 DEF Handle, ReceiverInv, StoreOK, FileOK
<1>7. store[h].blocks \o batch = Upto(item.block)
  <2>1. item.block \in Nat \ {0}
    BY <1>3
  <2>. QED  BY <1>2, <1>5, <1>6, <2>1, BlocksGrow
<1>8. batch \in Seq(Nat)
  BY <1>2, <1>3
<1> HIDE DEF batch
<1>9. e.kind \in {"data", "ZEOF"} /\ e.file = item.file /\ Before(e) = Upto(item.block)
  <2>1. CASE item.block < Size[item.file]
    <3>1. e = Item("data", item.file, item.block + 1)
      BY <2>1, AfterKinds
    <3>2. (item.block + 1) - 1 = item.block
      BY <1>3
    <3>. QED  BY <3>1, <3>2, ItemFields DEF Before
  <2>2. CASE ~(item.block < Size[item.file])
    <3>1. e = Item("ZEOF", item.file, 0)
      BY <2>2, AfterKinds
    <3>2. Size[item.file] = item.block
      BY <1>3, <2>2
    <3>. QED  BY <3>1, <3>2, ItemFields DEF Before
  <2>. QED  BY <2>1, <2>2
<1>10. CASE FlushBatch(grown, "data")
  <2>1. recv' = [grown EXCEPT !.batch = <<>>]
    BY <1>10 DEF FlushBatch
  <2>2. /\ recv'.input = Tail(recv.input) /\ recv'.made = recv.made
        /\ recv'.handle = h /\ recv'.rx = recv.rx /\ recv'.gen = recv.gen
        /\ recv'.batch = <<>> /\ recv'.name = recv.name
    BY <1>1, <2>1 DEF Shape, RecvFields
  <2>3. /\ flush'.pc = "encode" /\ flush'.rx = recv.rx /\ flush'.gen = recv.gen
        /\ flush'.handle = h /\ flush'.blocks = batch /\ flush'.then = "data"
    BY <1>1, <1>10 DEF FlushBatch
  <2>4. Has(e, flush.handle, flush.blocks)'
    BY <1>5, <1>7, <1>9, <2>2, <2>3 DEF Has, Handle, Before
  <2>5. AtWrite(e)'
    BY <1>2, <1>5, <1>8, <1>9, <2>2, <2>3, <2>4 DEF AtWrite, Handle
  <2>6. At(e)'
    BY <2>2, <2>3, <2>5 DEF At
  <2>. QED  BY <1>2, <2>2, <2>3, <2>6 DEF FlushOK
<1>11. CASE recv' = grown /\ UNCHANGED flush
  <2>1. Has(e, recv.handle, recv.batch)'
    BY <1>1, <1>5, <1>7, <1>9, <1>11 DEF Has, Handle, Before
  <2>2. At(e)'
    BY <1>1, <1>9, <1>11, <2>1 DEF At, AtIdle
  <2>. QED  BY <1>1, <1>2, <1>8, <1>11, <2>2 DEF FlushOK
<1>. QED  BY <1>10, <1>11

\* At the end of the file, what is in the batch is written before it is finished.
LEMMA EndTaken ==
  ASSUME ReceiverInv, Shapes, setting \in Settings, recv.rx # 0, recv.input # <<>>,
         flush.pc = "idle", NEW item, item.kind = "ZEOF",
         NEW d, NEW e, Due(d), Due(e), item = d, e = After(item), AtIdle(d),
         UNCHANGED <<store, orphans>>,
         NEW rest, rest = [recv EXCEPT !.input = Tail(recv.input)],
         Complete(rest)
  PROVE  /\ recv'.input = Tail(recv.input) /\ recv'.made = recv.made
         /\ recv'.handle = recv.handle /\ recv'.rx = recv.rx
         /\ recv'.gen \in Nat /\ recv'.batch \in Seq(Nat) /\ FlushOK'
         /\ At(e)'
<1> DEFINE h == recv.handle
<1>1. /\ Shape(rest, RecvFields) /\ rest.input = Tail(recv.input) /\ rest.made = recv.made
      /\ rest.handle = h /\ rest.rx = recv.rx /\ rest.gen = recv.gen
      /\ rest.batch = recv.batch /\ rest.name = recv.name
  BY DEF Shapes, Shape, RecvFields
<1>2. recv.gen \in Nat /\ recv.batch \in Seq(Nat)
  BY DEF ReceiverInv, RecvOK
<1>3. Has(d, h, recv.batch)
  BY DEF AtIdle
<1>4. /\ Handle(h) /\ store[h].file = item.file
      /\ store[h].blocks \o recv.batch = Blocks(store[h].file)
  BY <1>3 DEF Has, Before, Upto, Blocks
<1>5. store[h].blocks \in Seq(Nat)
  BY <1>4 DEF Handle, ReceiverInv, StoreOK, FileOK
<1>6. e.kind \in {"ZFILE", "ZFIN"}
  <2>1. \/ e = Item("ZFILE", item.file + 1, 0)
        \/ e = Plain("ZFIN")
    BY AfterKinds
  <2>. QED  BY <2>1, ItemFields DEF Plain
<1>7. rest.handle # 0
  BY <1>1, <1>4 DEF Handle
<1>8. CASE rest.batch = <<>>
  <2>1. recv' = rest /\ flush'.pc = "finish" /\ flush'.handle = h
    BY <1>1, <1>7, <1>8 DEF Complete, Finish, Idle
  <2>2. store[h].blocks = Blocks(store[h].file)
    BY <1>1, <1>4, <1>5, <1>8, NothingFollows
  <2>3. AtFinish(e)'
    BY <1>1, <1>4, <1>6, <2>1, <2>2 DEF AtFinish, Handle
  <2>4. At(e)'
    BY <1>1, <2>1, <2>3 DEF At
  <2>. QED  BY <1>1, <1>2, <2>1, <2>4 DEF FlushOK
<1>9. CASE rest.batch # <<>>
  <2>1. FlushBatch(rest, "complete")
    BY <1>7, <1>9 DEF Complete
  <2>2. recv' = [rest EXCEPT !.batch = <<>>]
    BY <2>1 DEF FlushBatch
  <2>3. /\ recv'.input = Tail(recv.input) /\ recv'.made = recv.made
        /\ recv'.handle = h /\ recv'.rx = recv.rx /\ recv'.gen = recv.gen
        /\ recv'.batch = <<>> /\ recv'.name = recv.name
    BY <1>1, <2>2 DEF Shape, RecvFields
  <2>4. /\ flush'.pc = "encode" /\ flush'.rx = recv.rx /\ flush'.gen = recv.gen
        /\ flush'.handle = h /\ flush'.blocks = recv.batch /\ flush'.then = "complete"
    BY <1>1, <2>1 DEF FlushBatch
  <2>5. AtWrite(e)'
    <3>1. Handle(flush.handle)' /\ flush'.then = "complete"
      BY <1>4, <2>4 DEF Handle
    <3>2. store'[flush'.handle].blocks \o flush'.blocks = Blocks(store'[flush'.handle].file)
      BY <1>4, <2>4
    <3>3. /\ recv'.gen = flush'.gen /\ flush'.gen \in Nat /\ recv'.rx = flush'.rx
          /\ recv'.handle = flush'.handle /\ recv'.batch = <<>> /\ recv'.rx # 0
          /\ flush'.blocks \in Seq(Nat)
      BY <1>2, <2>3, <2>4
    <3>. QED  BY <1>6, <3>1, <3>2, <3>3 DEF AtWrite
  <2>6. At(e)'
    BY <2>3, <2>4, <2>5 DEF At
  <2>. QED  BY <1>2, <2>3, <2>4, <2>6 DEF FlushOK
<1>. QED  BY <1>8, <1>9

LEMMA FlushItemKeeps ==
  ReceiverInv /\ Shapes /\ setting \in Settings /\ FlushItem => ReceiverInv'
<1> SUFFICES ASSUME ReceiverInv, Shapes, setting \in Settings, FlushItem
             PROVE  ReceiverInv'
  OBVIOUS
<1> DEFINE item == Head(recv.input)
           rest == [recv EXCEPT !.input = Tail(@)]
<1>1. PICK due : Stream(due, recv.input) /\ InSync(due[Len(recv.input)]) /\ At(due[0])
  BY DEF ReceiverInv, InStep
<1>2. /\ flush.pc = "idle" /\ recv.rx # 0 /\ recv.input # <<>>
      /\ remote' = Answered(item)
      /\ UNCHANGED <<setting, store, cancels, orphans>>
  BY DEF FlushItem
<1>3. recv.input \in Seq(Pieces) /\ recv.gen \in Nat /\ recv.batch \in Seq(Nat)
  BY DEF ReceiverInv, RecvOK
<1>4. /\ item \in Pieces /\ Due(due[0]) /\ Due(due[1]) /\ Follows(due[0], item, due[1])
  BY <1>1, <1>2, <1>3, StreamHead
<1>5. AtIdle(due[0])
  BY <1>1, <1>2 DEF At
<1>6. /\ Shape(rest, RecvFields) /\ rest.input = Tail(recv.input) /\ rest.made = recv.made
      /\ rest.handle = recv.handle /\ rest.rx = recv.rx /\ rest.gen = recv.gen
      /\ rest.batch = recv.batch /\ rest.name = recv.name
  BY DEF Shapes, Shape, RecvFields
<1> SUFFICES /\ recv'.input = Tail(recv.input) /\ recv'.made = recv.made
             /\ recv'.handle = recv.handle /\ recv'.rx \in {recv.rx, 0}
             /\ recv'.rx = 0 => recv.handle \in {0} \cup orphans
             /\ recv'.gen \in Nat /\ recv'.batch \in Seq(Nat) /\ FlushOK'
             /\ At(due[1])'
  <2>1. Taking
    BY <1>2 DEF Taking
  <2>. QED  BY <1>1, <2>1, TakenKeeps
<1>7. CASE item.kind = "ZRQINIT"
  <2>1. recv' = [rest EXCEPT !.name = 0] /\ UNCHANGED flush
    BY <1>7 DEF FlushItem
  <2>2. due[1].kind = "ZFILE"
    BY <1>4, <1>7, AfterKinds, ItemFields DEF Follows
  <2> HIDE DEF rest
  <2>3. /\ recv'.input = Tail(recv.input) /\ recv'.made = recv.made
        /\ recv'.handle = recv.handle /\ recv'.rx = recv.rx
        /\ recv'.gen = recv.gen /\ recv'.batch = recv.batch
    BY <1>6, <2>1 DEF Shape, RecvFields
  <2>4. At(due[1])'
    BY <1>2, <2>1, <2>2, <2>3 DEF At, AtIdle
  <2>. QED  BY <1>2, <1>3, <2>1, <2>3, <2>4 DEF FlushOK
<1>8. CASE item.kind = "ZFILE"
  <2>1. /\ recv' = [rest EXCEPT !.gen = @ + 1, !.batch = <<>>, !.name = item.file]
        /\ flush'.pc = "begin" /\ flush'.rx = recv.rx /\ flush'.file = item.file
    BY <1>8 DEF FlushItem, Idle
  <2>2. due[1] = Item("data", item.file, 1)
    BY <1>4, <1>8, AfterKinds DEF Follows, FromSz
  <2> HIDE DEF rest, item
  <2>3. /\ recv'.input = Tail(recv.input) /\ recv'.made = recv.made
        /\ recv'.handle = recv.handle /\ recv'.rx = recv.rx
        /\ recv'.gen = recv.gen + 1 /\ recv'.batch = <<>> /\ recv'.name = item.file
    BY <1>6, <2>1 DEF Shape, RecvFields
  <2>4. recv.rx \in 1..recv.made
    BY <1>2 DEF ReceiverInv, RecvOK
  <2>5. At(due[1])'
    BY <1>2, <2>1, <2>2, <2>3, <2>4 DEF At, AtBegin
  <2>. QED  BY <1>2, <1>3, <2>1, <2>3, <2>5 DEF FlushOK
<1>9. CASE item.kind = "data"
  <2>1. item = due[0] /\ due[1] = After(item)
    BY <1>4, <1>9 DEF Follows, FromSz
  <2>2. Has(due[0], recv.handle, recv.batch)
    BY <1>5, <1>9, <2>1 DEF AtIdle
  <2>3. item.file = recv.name /\ recv.handle # 0
    BY <2>1, <2>2 DEF Has, Handle
  <2> DEFINE grown == [rest EXCEPT !.batch = Append(@, item.block)]
  <2>4. \/ FlushBatch(grown, "data")
        \/ recv' = grown /\ UNCHANGED flush
    BY <1>9, <2>3 DEF FlushItem
  <2>5. grown = [recv EXCEPT !.input = Tail(recv.input), !.batch = Append(@, item.block)]
    BY DEF Shapes, Shape, RecvFields
  <2> HIDE DEF grown, rest, item
  <2>. QED  BY <1>2, <1>4, <1>5, <1>9, <2>1, <2>4, <2>5, BlockTaken
<1>10. CASE item.kind = "ZEOF"
  <2>1. item = due[0] /\ due[1] = After(item)
    BY <1>4, <1>10 DEF Follows, FromSz
  <2>2. Has(due[0], recv.handle, recv.batch)
    BY <1>5, <1>10, <2>1 DEF AtIdle
  <2>3. item.file = recv.name
    BY <2>1, <2>2 DEF Has
  <2>4. Complete(rest)
    BY <1>10, <2>3 DEF FlushItem
  <2>5. rest = [recv EXCEPT !.input = Tail(recv.input)]
    OBVIOUS
  <2> HIDE DEF rest, item
  <2>. QED  BY <1>2, <1>4, <1>5, <1>10, <2>1, <2>4, <2>5, EndTaken
<1>11. CASE item.kind = "ZFIN"
  <2>1. recv' = [rest EXCEPT !.rx = 0] /\ UNCHANGED flush
    BY <1>11 DEF FlushItem
  <2>2. item = due[0] /\ due[1] = None
    BY <1>4, <1>11, AfterKinds DEF Follows, FromSz
  <2>3. recv.handle \in {0} \cup orphans
    BY <1>5, <1>11, <2>2 DEF AtIdle
  <2> HIDE DEF rest, item
  <2>4. /\ recv'.input = Tail(recv.input) /\ recv'.made = recv.made
        /\ recv'.handle = recv.handle /\ recv'.rx = 0
        /\ recv'.gen = recv.gen /\ recv'.batch = recv.batch
    BY <1>6, <2>1 DEF Shape, RecvFields
  <2>5. At(due[1])'
    BY <1>2, <2>1, <2>2, <2>3, <2>4, NoneIsDue DEF At, AtIdle
  <2>. QED  BY <1>2, <1>3, <2>1, <2>3, <2>4, <2>5 DEF FlushOK
<1>12. CASE item.kind \in {"text", "half", "ZRINIT", "ZRPOS"}
  <2>1. recv' = rest /\ UNCHANGED flush
    BY <1>12 DEF FlushItem
  <2>2. due[1] = due[0]
    BY <1>4, <1>12 DEF Follows, FromSz
  <2>3. AtIdle(due[1])'
    BY <1>2, <1>5, <1>6, <2>1, <2>2 DEF AtIdle, Has, Handle
  <2>4. At(due[1])'
    BY <1>2, <1>6, <2>1, <2>3 DEF At
  <2>. QED  BY <1>2, <1>3, <1>6, <2>1, <2>4 DEF FlushOK
<1>13. item.kind \in Kinds
  BY <1>4 DEF Pieces
<1>. QED  BY <1>7, <1>8, <1>9, <1>10, <1>11, <1>12, <1>13 DEF Kinds

(***************************************************************************)
(* What arrives.                                                           *)
(***************************************************************************)
LEMMA HeadersArrive ==
  ASSUME ReceiverInv, Shapes, HeaderBegins \/ HeaderArrives \/ ShellPrints
  PROVE  \E item : Consume(item) /\ ComesIn(item) /\ RemoteOK' /\ UNCHANGED setting
<1>1. CASE HeaderBegins
  <2>1. remote'.mode = remote.mode /\ remote'.last = remote.last /\ UNCHANGED setting
    BY <1>1 DEF HeaderBegins, Shapes, Shape, RemoteFields
  <2>2. RemoteOK'
    BY <2>1 DEF ReceiverInv, RemoteOK, Due
  <2>3. ComesIn(Plain("half"))
    BY <2>1 DEF ComesIn, Plain, Item, Pieces, Kinds, FromSz
  <2>. QED  BY <1>1, <2>1, <2>2, <2>3 DEF HeaderBegins
<1>2. CASE ShellPrints
  <2>1. PICK kind \in {"text", "half"} : Consume(Plain(kind))
    BY <1>2 DEF ShellPrints
  <2>2. UNCHANGED <<setting, remote>>
    BY <1>2 DEF ShellPrints
  <2>3. RemoteOK'
    BY <2>2 DEF ReceiverInv, RemoteOK, Due
  <2>4. ComesIn(Plain(kind))
    BY <2>2 DEF ComesIn, Plain, Item, Pieces, Kinds, FromSz
  <2>. QED  BY <2>1, <2>2, <2>3, <2>4
<1>3. CASE HeaderArrives
  <2> DEFINE item == Item(HeaderKind, 0, IF remote.cut THEN 1 ELSE 0)
  <2>1. Consume(item) /\ UNCHANGED setting
    BY <1>3 DEF HeaderArrives
  <2>2. item \in Pieces /\ item.kind = HeaderKind
    BY DEF Item, Pieces, Kinds, HeaderKind
  <2>3. /\ remote'.mode = remote.mode
        /\ remote'.last = IF remote.mode = "sz" THEN Plain("ZRQINIT") ELSE remote.last
    BY <1>3 DEF HeaderArrives, Shapes, Shape, RemoteFields
  <2>4. RemoteOK'
    <3>1. Plain("ZRQINIT").kind = "ZRQINIT"
      BY DEF Plain, Item
    <3>2. remote.last.kind \in {"none", "ZRQINIT"} \/ Due(remote.last)
      BY DEF ReceiverInv, RemoteOK
    <3>3. \/ remote'.last.kind \in {"none", "ZRQINIT"}
          \/ Due(remote'.last)
      BY <2>3, <3>1, <3>2
    <3>. QED  BY <2>1, <3>3 DEF RemoteOK, Due
  <2> HIDE DEF item
  <2>5. ComesIn(item)
    <3>1. CASE remote.mode = "sz"
      <4>1. /\ item.kind = "ZRQINIT" /\ remote'.last = Plain("ZRQINIT")
            /\ Plain("ZRQINIT").kind = "ZRQINIT"
        BY <2>2, <2>3, <3>1 DEF HeaderKind, Plain, Item
      <4>2. After(remote'.last) = After(item)
        BY <4>1, AfterKinds
      <4>. QED  BY <2>2, <4>1, <4>2 DEF ComesIn, FromSz
    <3>2. CASE remote.mode # "sz"
      BY <2>2, <2>3, <3>2 DEF HeaderKind, ComesIn, FromSz
    <3>. QED  BY <3>1, <3>2
  <2>. QED  BY <2>1, <2>4, <2>5
<1>. QED  BY <1>1, <1>2, <1>3

LEMMA PieceOfSz ==
  ASSUME setting \in Settings, NEW d, Due(d)
  PROVE  d.kind # "none" => d \in Pieces
<1>1. \A f \in Files : f \in Nat /\ Size[f] \in Nat
  BY SizeIsPositive
<1>. QED  BY <1>1, DueIs DEF FromSz, Pieces, Kinds, Plain, Item

LEMMA SzArrives ==
  ASSUME ReceiverInv, Shapes, setting \in Settings, SzSends
  PROVE  \E item : Consume(item) /\ ComesIn(item) /\ RemoteOK' /\ UNCHANGED setting
<1> DEFINE item == After(remote.last)
<1>1. /\ Consume(item) /\ UNCHANGED setting
      /\ remote.mode = "sz" /\ remote.last.kind \notin {"none", "ZFIN"}
  BY DEF SzSends
<1>2. remote'.last = item /\ remote'.mode = "sz"
  BY DEF SzSends, Shapes, Shape, RemoteFields
<1>3. remote.last.kind = "ZRQINIT" \/ Due(remote.last)
  BY <1>1 DEF ReceiverInv, RemoteOK
<1>4. Due(item)
  BY <1>1, <1>3, AfterIsDue
<1>5. item.kind \in FromSz
  <2>1. remote.last.kind \in {"ZRQINIT", "ZFILE", "data", "ZEOF"}
    BY <1>1, <1>3, DueIs DEF FromSz
  <2>2. \/ item.kind = "ZFILE" \/ item.kind = "data" \/ item.kind = "ZEOF" \/ item.kind = "ZFIN"
    BY <2>1, AfterKinds, ItemFields DEF Plain
  <2>. QED  BY <2>2 DEF FromSz
<1> HIDE DEF item
<1>6. item \in Pieces
  BY <1>4, <1>5, PieceOfSz DEF FromSz
<1>7. ComesIn(item)
  BY <1>1, <1>2, <1>5, <1>6 DEF ComesIn, item
<1>8. RemoteOK'
  BY <1>1, <1>2, <1>4 DEF RemoteOK, Due
<1>. QED  BY <1>1, <1>7, <1>8

LEMMA RzAnswersKeeps ==
  ReceiverInv /\ Shapes /\ Quiet /\ Muted /\ setting \in Settings /\ RzAnswers => ReceiverInv'
<1> SUFFICES ASSUME ReceiverInv, Shapes, Quiet, Muted, setting \in Settings, RzAnswers
             PROVE  ReceiverInv'
  OBVIOUS
<1> DEFINE item == Plain(remote.reply)
<1>1. /\ remote.mode = "rz" /\ remote.reply \in {"ZRPOS", "ZRINIT", "ZFIN"}
      /\ Consume(item) /\ UNCHANGED setting
  BY DEF RzAnswers
<1>2. item.kind = remote.reply /\ item \in Pieces
  BY <1>1 DEF Plain, Item, Pieces, Kinds
<1>3. CASE remote.reply = "ZFIN"
  <2>1. recv.rx = 0 /\ remote' = Shell
    BY <1>1, <1>3 DEF Quiet, RzAnswers
  <2> HIDE DEF item
  <2>2. UNCHANGED receiving
    BY <1>1, <1>2, <1>3, <2>1, ConsumeShapes DEF receiving
  <2>3. remote'.mode = "shell" /\ remote'.last.kind = "none"
    BY <2>1 DEF Shell, Plain, Item
  <2>4. RemoteOK'
    BY <2>3 DEF RemoteOK
  <2>. QED  BY <1>1, <2>2, <2>3, <2>4, ReceiverStutters
<1>4. CASE remote.reply # "ZFIN"
  <2>1. remote'.mode = "rz" /\ remote'.last = remote.last
    BY <1>1, <1>4 DEF RzAnswers, Shapes, Shape, RemoteFields
  <2> HIDE DEF item
  <2>2. ComesIn(item)
    BY <1>1, <1>2, <1>4, <2>1 DEF ComesIn, FromSz
  <2>3. RemoteOK'
    BY <1>1, <2>1 DEF ReceiverInv, RemoteOK, Due
  <2>. QED  BY <1>1, <2>2, <2>3, ConsumeKeepsReceiver
<1>. QED  BY <1>3, <1>4

LEMMA ElsewhereKeeps ==
  ASSUME ReceiverInv, Shapes,
         \/ RemoteStarts \/ RemoteGivesUp \/ WindowEnds
         \/ FilesChosen \/ FlushSender \/ BlockRead \/ AfterBlock \/ ReadFails
  PROVE  ReceiverInv'
<1>1. UNCHANGED <<setting, receiving>>
  BY DEF RemoteStarts, RemoteGivesUp, WindowEnds, FilesChosen, FlushSender, BlockRead,
         AfterBlock, ReadFails, SendChanges, receiving
<1>2. CASE RemoteStarts \/ RemoteGivesUp
  <2>1. remote'.last.kind = "none"
    <3>1. CASE RemoteStarts
      <4>1. PICK program, answered :
              remote' = [Shell EXCEPT !.mode = program, !.answered = answered,
                                      !.reply = IF program = "rz" THEN "header" ELSE "none"]
        BY <3>1 DEF RemoteStarts
      <4>. QED  BY <4>1 DEF Shell, Plain, Item
    <3>2. CASE RemoteGivesUp
      BY <3>2 DEF RemoteGivesUp, Shell, Plain, Item
    <3>. QED  BY <1>2, <3>1, <3>2
  <2>2. RemoteOK'
    BY <2>1 DEF RemoteOK
  <2>. QED  BY <1>1, <2>1, <2>2, ReceiverStutters
<1>3. CASE WindowEnds \/ FilesChosen \/ FlushSender \/ BlockRead \/ AfterBlock \/ ReadFails
  <2>1. UNCHANGED remote \/ \E items : remote' = RemoteGets(items)
    BY <1>3 DEF WindowEnds, FilesChosen, FlushSender, BlockRead, AfterBlock, ReadFails
  <2>2. remote'.mode = remote.mode /\ remote'.last = remote.last
    BY <2>1, GetsShape DEF Shapes
  <2>3. RemoteOK'
    BY <1>1, <2>2 DEF ReceiverInv, RemoteOK, Due
  <2>. QED  BY <1>1, <2>2, <2>3, ReceiverStutters
<1>. QED  BY <1>2, <1>3

-------------------------------------------------------------------------------
(***************************************************************************)
(* The invariant, and what follows from it.                                *)
(***************************************************************************)
AdapterInv == SelectionInv /\ Shapes /\ Quiet /\ Muted /\ ReceiverInv

LEMMA ReceiverKept == AdapterInv /\ [AdapterNext]_adapterVars => ReceiverInv'
<1> SUFFICES ASSUME AdapterInv, [AdapterNext]_adapterVars
             PROVE  ReceiverInv'
  OBVIOUS
<1>1. ReceiverInv /\ Shapes /\ Quiet /\ Muted /\ setting \in Settings
  BY DEF AdapterInv, SelectionInv
<1>2. CASE HeaderBegins \/ HeaderArrives \/ ShellPrints \/ SzSends
  <2>1. PICK item : Consume(item) /\ ComesIn(item) /\ RemoteOK' /\ UNCHANGED setting
    BY <1>1, <1>2, HeadersArrive, SzArrives
  <2>. QED  BY <1>1, <2>1, ConsumeKeepsReceiver
<1>3. CASE RzAnswers
  BY <1>1, <1>3, RzAnswersKeeps
<1>4. CASE \/ RemoteStarts \/ RemoteGivesUp \/ WindowEnds
           \/ FilesChosen \/ FlushSender \/ BlockRead \/ AfterBlock \/ ReadFails
  BY <1>1, <1>4, ElsewhereKeeps
<1>5. CASE FlushItem
  BY <1>1, <1>5, FlushItemKeeps
<1>6. CASE FlushFails \/ BeginFails
  BY <1>1, <1>6, FlushFailsKeeps
<1>7. CASE BeginReturns \/ BeginDeclined
  BY <1>1, <1>7, BeginReturnsKeeps, BeginDeclinedKeeps
<1>8. CASE Encoded \/ BatchStale \/ Written \/ WriteFails
  BY <1>1, <1>8, EncodedKeeps, BatchStaleKeeps, WrittenKeeps, WriteFailsKeeps
<1>9. CASE FinishReturns \/ FinishFails
  BY <1>1, <1>9, FinishReturnsKeeps, FinishFailsKeeps
<1>10. CASE FailCancels \/ CancelArrives
  BY <1>1, <1>10, FailCancelsKeeps, CancelArrivesKeeps
<1>11. CASE UserCancels \/ DialogCancelled
  <2>1. PICK s : Cancel(s)
    BY <1>11 DEF UserCancels, DialogCancelled
  <2>. QED  BY <1>1, <2>1, CancelKeepsReceiver
<1>12. CASE UNCHANGED adapterVars
  <2>1. UNCHANGED <<setting, receiving, remote>>
    BY <1>12 DEF adapterVars, receiving
  <2>2. RemoteOK'
    BY <1>1, <2>1 DEF ReceiverInv, RemoteOK, Due
  <2>. QED  BY <1>1, <2>1, <2>2, ReceiverStutters
<1>. QED  BY <1>2, <1>3, <1>4, <1>5, <1>6, <1>7, <1>8, <1>9, <1>10, <1>11, <1>12
          DEF AdapterNext

LEMMA ReceiverInit == AdapterInit => ReceiverInv
<1> SUFFICES ASSUME AdapterInit
             PROVE  ReceiverInv
  OBVIOUS
<1>1. RemoteOK
  BY DEF AdapterInit, RemoteOK, Shell, Plain, Item
<1>2. StoreOK /\ Len(store) = 0
  BY DEF AdapterInit, StoreOK
<1>3. RecvOK /\ FlushOK
  BY <1>2 DEF AdapterInit, RecvOK, FlushOK, Idle
<1>4. FinishedIsWhole /\ NothingLeftOpen
  BY DEF AdapterInit, FinishedIsWhole, NothingLeftOpen
<1>5. InStep
  <2> DEFINE due == [i \in 0..0 |-> None]
  <2>1. Stream(due, recv.input) /\ due[0] = None /\ recv.rx = 0 /\ Len(recv.input) = 0
    BY EmptyStream DEF AdapterInit
  <2> HIDE DEF due
  <2>2. At(due[0])
    BY <2>1, NoneIsDue DEF AdapterInit, At, AtIdle, Idle
  <2>. QED  BY <2>1, <2>2 DEF InStep, InSync
<1>. QED  BY <1>1, <1>2, <1>3, <1>4, <1>5 DEF ReceiverInv

\* The strengthening is an invariant: the sender has sent the files before the index, rz does
\* not end what sz has begun, and what the receiver, its batch and the flush under way hold is
\* what comes before that which is due along the input.
THEOREM InductiveAdapter == AdapterSpec => []AdapterInv
<1>1. AdapterInit => AdapterInv
  <2> SUFFICES ASSUME AdapterInit
               PROVE  AdapterInv
    OBVIOUS
  <2>1. Shapes /\ Quiet /\ Muted
    BY DEF AdapterInit, Shapes, Shape, RemoteFields, RecvFields, FlushFields, ScreenFields,
           Shell, Idle, Quiet, Muted
  <2>. QED  BY <2>1, SelectionInit, ReceiverInit DEF AdapterInv
<1>2. AdapterInv /\ [AdapterNext]_adapterVars => AdapterInv'
  BY SelectionKept, ShapesKept, QuietKept, MutedKept, ReceiverKept DEF AdapterInv
<1>. QED  BY <1>1, <1>2, PTL DEF AdapterSpec

\* A file that is finished is the file that was sent, whole, whatever was cancelled, failed or
\* resumed late while it was received.
THEOREM FilesAreWhole == AdapterSpec => []FinishedIsWhole
<1>1. AdapterInv => FinishedIsWhole
  BY DEF AdapterInv, ReceiverInv
<1>. QED  BY <1>1, InductiveAdapter, PTL

\* A file open in the backend is that of the transfer under way or is being cancelled, unless
\* the adapter had let go of it.
THEOREM OpenFilesBelong == AdapterSpec => []NothingLeftOpen
<1>1. AdapterInv => NothingLeftOpen
  BY DEF AdapterInv, ReceiverInv
<1>. QED  BY <1>1, InductiveAdapter, PTL

=============================================================================
