---------------------------- MODULE ZmodemAdapter ----------------------------
(***************************************************************************)
(* ZmodemAdapter (zmodem.ts): ZMODEM in the webview, between the socket of *)
(* a terminal and its screen.  It is asynchronous where the session of the *)
(* backend (ZmodemSession) is not: the dialogs, the writing and reading of *)
(* files, and the encoding of what is written are awaited, and meanwhile   *)
(* output arrives, the user cancels, and the next session begins.          *)
(*                                                                         *)
(* External are the Receiver and the Sender of the package zmodem2, which  *)
(* take the protocol apart and put it together, the remote programs sz and *)
(* rz, and the file dialogs.  The Receiver is taken to stop at each item,  *)
(* so that an event and the data before it are seen in their order.        *)
(*                                                                         *)
(* Output is a sequence of items, each of which arrives by itself: pieces  *)
(* of the protocol, text, and "half", which may be the beginning of a      *)
(* header.  What the adapter sends arrives at once; what has been sent to  *)
(* it may still arrive after that.                                         *)
(***************************************************************************)
EXTENDS Naturals, Sequences

CONSTANTS
  Size,       \* Size[f]: the blocks of file f, on either side
  Settings    \* the bounds considered, one of which every behaviour has

ASSUME SizeAssumption == Size \in Seq(Nat \ {0})

Files == DOMAIN Size

\* sz is given files, and chosen are files that exist.
ASSUME SettingsAssumption ==
  \A s \in Settings : s.szFiles \in Files /\ s.selections \subseteq Seq(Files)

VARIABLES
  setting,    \* one of Settings, the same throughout
  headers,    \* how many more headers the remote programs send
  remote,     \* the remote program
  screen,     \* the discarding of input, the detector, and the button to cancel
  recv,       \* the receiver: the object, its input, handle, generation and batch
  flush,      \* the flush of the receiver that is under way
  store,      \* the files of the backend, by handle
  cancels,    \* CancelZmodemReceive calls on their way, made by cancel()
  send,       \* the sender: the object, the files selected, and the dialogs open
  senders,    \* all Sender objects made, the last of which are in use
  sflush,     \* the flush of the sender that is under way, and whether one is due
  orphans     \* handles the adapter has let go of, see NothingLeftOpen

adapterVars == <<setting, headers, remote, screen, recv, flush, store, cancels, send, senders,
                 sflush, orphans>>
receiving == <<recv, flush, store, cancels, orphans>>
sending == <<send, senders, sflush>>

Item(kind, file, block) == [kind |-> kind, file |-> file, block |-> block]
Plain(kind) == Item(kind, 0, 0)

Blocks(file) == [b \in 1..Size[file] |-> b]

(***************************************************************************)
(* The remote programs.  sz sends its files one after the other, and waits *)
(* for the receiver where the protocol has it wait; rz answers.  Both send *)
(* their header again when nothing answers, and both may give up at any    *)
(* time.                                                                   *)
(***************************************************************************)
\* What sz sends after an item.
After(item) ==
  CASE item.kind = "ZRQINIT" -> Item("ZFILE", 1, 0)
    [] item.kind = "ZFILE" -> Item("data", item.file, 1)
    [] item.kind = "data" ->
         IF item.block < Size[item.file] THEN Item("data", item.file, item.block + 1)
         ELSE Item("ZEOF", item.file, 0)
    [] item.kind = "ZEOF" ->
         IF item.file < setting.szFiles THEN Item("ZFILE", item.file + 1, 0)
         ELSE Plain("ZFIN")
    [] OTHER -> Plain("none")

\* "last" is what sz has sent last.
Shell == [mode |-> "shell", last |-> Plain("none"), answered |-> TRUE, aborted |-> FALSE,
          cut |-> FALSE, reply |-> "none"]

\* The Receiver has dealt with an item of sz, which may have waited for that.
Answered(item) ==
  IF remote.mode # "sz" \/ remote.aborted \/ remote.last.kind # item.kind
     \/ remote.last.file # item.file THEN remote
  ELSE IF item.kind = "ZFIN" THEN Shell ELSE [remote EXCEPT !.answered = TRUE]

\* rz gets an item, in the course of a transfer; what it makes of blocks is its own affair.
RzGets(rz, item) ==
  CASE rz.mode # "rz" \/ rz.aborted -> rz
    [] item.kind = "ZFILE" -> [rz EXCEPT !.reply = "ZRPOS"]
    [] item.kind = "ZEOF"  -> [rz EXCEPT !.reply = "ZRINIT"]
    [] item.kind = "ZFIN"  -> [rz EXCEPT !.reply = "ZFIN"]
    [] OTHER -> rz

\* Of the items that go out together, it is the last that rz answers.
RemoteGets(items) == IF items = <<>> THEN remote ELSE RzGets(remote, items[Len(items)])

(***************************************************************************)
(* consume.  Within 1.2 s of a cancellation, and as long as output goes    *)
(* on, everything is dropped; then the receiver has it, or the sender, or  *)
(* the detector.                                                           *)
(***************************************************************************)
\* "whole" is a history variable: the index is at the beginning of the selection, because
\* no session is under way, and the one before has not failed.
NewSender(chosen) ==
  [phase |-> "made", file |-> 0, block |-> 0, out |-> <<>>, sent |-> <<>>,
   chosen |-> chosen, whole |-> ~send.failed /\ send.tx = 0]

\* What the Sender makes of an item.
Fed(sender, item) ==
  CASE item.kind = "ZRPOS" /\ sender.phase = "offer" ->
         [sender EXCEPT !.phase = "data", !.block = 1]
    [] item.kind = "ZRINIT" /\ sender.phase = "eof" -> [sender EXCEPT !.phase = "complete"]
    [] item.kind = "ZFIN" /\ sender.phase = "finish" -> [sender EXCEPT !.phase = "over"]
    [] OTHER -> sender

\* selectFiles, while a dialog is open: only one header opens a dialog.
SelectFiles ==
  send' = IF send.selecting THEN send
          ELSE [send EXCEPT !.selecting = TRUE, !.dialogs = @ + 1]

\* A header is an item, or the second half of one of which the first is held back.
IsHeader(item) ==
  item.kind \in {"ZRQINIT", "ZRINIT"} /\ (item.block = 0 \/ screen.held)

Detect(item) ==
  \/ /\ IsHeader(item) /\ item.kind = "ZRQINIT"
     /\ recv' = [recv EXCEPT !.rx = recv.made + 1, !.made = @ + 1,
                             !.input = Append(@, Plain("ZRQINIT"))]
     /\ screen' = [screen EXCEPT !.held = FALSE, !.active = TRUE]
     /\ UNCHANGED send
  \/ /\ IsHeader(item) /\ item.kind = "ZRINIT"
     /\ SelectFiles
     /\ screen' = [screen EXCEPT !.held = FALSE]
     /\ UNCHANGED recv
  \/ /\ ~IsHeader(item)
     /\ screen' = [screen EXCEPT !.held = item.kind = "half"]
     /\ UNCHANGED <<recv, send>>

Consume(item) ==
  /\ \/ /\ screen.discarding
        /\ UNCHANGED <<screen, recv, sending>>
     \/ /\ ~screen.discarding /\ recv.rx # 0
        /\ recv' = [recv EXCEPT !.input = Append(@, item)]
        /\ UNCHANGED <<screen, sending>>
     \/ /\ ~screen.discarding /\ recv.rx = 0 /\ send.tx # 0
        /\ senders' = [senders EXCEPT ![send.tx] = Fed(@, item)]
        /\ sflush' = [sflush EXCEPT !.due = TRUE]
        /\ UNCHANGED <<screen, recv, send>>
     \/ /\ ~screen.discarding /\ recv.rx = 0 /\ send.tx = 0
        /\ Detect(item)
        /\ UNCHANGED <<senders, sflush>>
  /\ UNCHANGED <<flush, store, cancels, orphans>>

RemoteStarts ==
  /\ remote.mode = "shell" /\ headers > 0
  /\ \E program \in setting.programs :
       remote' = [Shell EXCEPT !.mode = program,
                               !.answered = program = "rz",
                               !.reply = IF program = "rz" THEN "header" ELSE "none"]
  /\ UNCHANGED <<setting, headers, screen, receiving, sending>>

HeaderDue ==
  \/ /\ remote.mode = "sz"
     /\ \/ remote.last.kind = "none"
        \/ remote.last.kind = "ZRQINIT" /\ ~remote.answered
  \/ remote.mode = "rz" /\ remote.reply = "header"

HeaderKind == IF remote.mode = "sz" THEN "ZRQINIT" ELSE "ZRINIT"

\* The beginning of a header arrives by itself.
HeaderBegins ==
  /\ HeaderDue /\ headers > 0 /\ ~remote.cut /\ Len(recv.input) < setting.input
  /\ remote' = [remote EXCEPT !.cut = TRUE]
  /\ Consume(Plain("half"))
  /\ UNCHANGED <<setting, headers>>

HeaderArrives ==
  /\ HeaderDue /\ headers > 0
  /\ headers' = headers - 1
  /\ remote' = [remote EXCEPT !.cut = FALSE, !.answered = remote.mode = "rz",
                              !.last = IF remote.mode = "sz" THEN Plain("ZRQINIT") ELSE @]
  /\ Consume(Item(HeaderKind, 0, IF remote.cut THEN 1 ELSE 0))
  /\ UNCHANGED setting

SzSends ==
  /\ remote.mode = "sz" /\ remote.last.kind \notin {"none", "ZFIN"} /\ remote.answered
  /\ LET item == After(remote.last) IN
       /\ remote' = [remote EXCEPT !.last = item, !.answered = item.kind = "data",
                                   !.cut = FALSE]
       /\ Consume(item)
  /\ UNCHANGED <<setting, headers>>

RzAnswers ==
  /\ remote.mode = "rz" /\ remote.reply \in {"ZRPOS", "ZRINIT", "ZFIN"}
  /\ remote' = IF remote.reply = "ZFIN" THEN Shell
               ELSE [remote EXCEPT !.reply = "none"]
  /\ Consume(Plain(remote.reply))
  /\ UNCHANGED <<setting, headers>>

RemoteGivesUp ==
  /\ remote.mode # "shell"
  /\ remote' = Shell
  /\ UNCHANGED <<setting, headers, screen, receiving, sending>>

\* Output of the shell, which may end like the beginning of a header.  The input that
\* waits is bounded here and in HeaderBegins by setting.input.
ShellPrints ==
  /\ remote.mode = "shell" /\ Len(recv.input) < setting.input
  /\ \E kind \in {"text", "half"} : Consume(Plain(kind))
  /\ UNCHANGED <<setting, headers, remote>>

\* No output has arrived for 1.2 s.
WindowEnds ==
  /\ screen.discarding
  /\ screen' = [screen EXCEPT !.discarding = FALSE]
  /\ UNCHANGED <<setting, headers, remote, receiving, sending>>

(***************************************************************************)
(* The receiver.  Its flushes are chained: one is under way at a time,     *)
(* which goes on with whatever receiver there is when it resumes.          *)
(***************************************************************************)
Idle == [pc |-> "idle", rx |-> 0, gen |-> 0, file |-> 0, handle |-> 0, blocks |-> <<>>,
         then |-> "none"]

\* The receiver is gone; so are its input and its batch.
Dropped == [recv EXCEPT !.rx = 0, !.handle = 0, !.batch = <<>>, !.input = <<>>, !.name = 0]

\* The last part of failReceive, whatever receiver there is by now.
FailEnds ==
  /\ recv' = Dropped
  /\ screen' = [screen EXCEPT !.active = FALSE]
  /\ flush' = Idle

\* A bug in failReceive: the file of the backend stays open.
FailReceiveOpen(r) ==
  /\ recv' = [Dropped EXCEPT !.gen = @ + 1]
  /\ screen' = [screen EXCEPT !.active = FALSE]
  /\ flush' = Idle

FailReceive(r) ==
  IF r.handle = 0
  THEN /\ recv' = [Dropped EXCEPT !.gen = @ + 1]
       /\ screen' = [screen EXCEPT !.active = FALSE]
       /\ flush' = Idle
  ELSE /\ recv' = [r EXCEPT !.gen = @ + 1]
       /\ flush' = [Idle EXCEPT !.pc = "cancel", !.handle = r.handle]
       /\ UNCHANGED screen

\* flushReceiveBatch, for what has been taken from the batch; then it goes on as "then" says.
FlushBatch(r, then) ==
  /\ recv' = [r EXCEPT !.batch = <<>>]
  /\ flush' = [pc |-> "encode", rx |-> r.rx, gen |-> r.gen, file |-> r.name,
               handle |-> r.handle, blocks |-> r.batch, then |-> then]

Finish(r) ==
  /\ recv' = r
  /\ flush' = [Idle EXCEPT !.pc = "finish", !.handle = r.handle]

\* A bug in FileComplete: what is in the batch is not written any more.
CompleteUnflushed(r) == IF r.handle = 0 THEN recv' = r /\ UNCHANGED flush ELSE Finish(r)

Complete(r) ==
  IF r.handle = 0 THEN recv' = r /\ UNCHANGED flush
  ELSE IF r.batch = <<>> THEN Finish(r)
  ELSE FlushBatch(r, "complete")

\* The Receiver takes the next item; what belongs to no file it overlooks.
FlushItem ==
  /\ flush.pc = "idle" /\ recv.rx # 0 /\ recv.input # <<>>
  /\ LET item == Head(recv.input)
         rest == [recv EXCEPT !.input = Tail(@)]
     IN /\ remote' = Answered(item)
        /\ \/ /\ item.kind = "ZRQINIT"
              /\ recv' = [rest EXCEPT !.name = 0]
              /\ UNCHANGED <<flush, screen>>
           \/ /\ item.kind = "ZFILE"
              /\ recv' = [rest EXCEPT !.gen = @ + 1, !.batch = <<>>, !.name = item.file]
              /\ flush' = [Idle EXCEPT !.pc = "begin", !.rx = recv.rx, !.file = item.file]
              /\ UNCHANGED screen
           \/ /\ item.kind = "data" /\ item.file = recv.name /\ recv.handle # 0
              /\ LET grown == [rest EXCEPT !.batch = Append(@, item.block)] IN
                   \/ FlushBatch(grown, "data")
                   \/ recv' = grown /\ UNCHANGED flush
              /\ UNCHANGED screen
           \/ /\ item.kind = "ZEOF" /\ item.file = recv.name
              /\ Complete(rest)
              /\ UNCHANGED screen
           \/ /\ item.kind = "ZFIN"
              /\ recv' = [rest EXCEPT !.rx = 0]
              /\ screen' = [screen EXCEPT !.active = FALSE]
              /\ UNCHANGED flush
           \/ /\ \/ item.kind \in {"text", "half", "ZRINIT", "ZRPOS"}
                 \/ item.kind = "data" /\ (item.file # recv.name \/ recv.handle = 0)
                 \/ item.kind = "ZEOF" /\ item.file # recv.name
              /\ recv' = rest
              /\ UNCHANGED <<flush, screen>>
  /\ UNCHANGED <<setting, headers, store, cancels, orphans, sending>>

\* The Receiver finds an error in its input.
FlushFails ==
  /\ setting.failures
  /\ flush.pc = "idle" /\ recv.rx # 0 /\ recv.input # <<>>
  /\ FailReceive(recv)
  /\ UNCHANGED <<setting, headers, remote, store, cancels, orphans, sending>>

FlushChanges == UNCHANGED <<setting, headers, remote, cancels, sending>>

\* BeginZmodemReceive returns a handle, of which the adapter takes hold whatever has happened.
BeginReturns ==
  /\ flush.pc = "begin"
  /\ store' = Append(store, [file |-> flush.file, blocks |-> <<>>, state |-> "open"])
  /\ recv' = [recv EXCEPT !.handle = Len(store')]
  /\ orphans' = orphans \cup ({recv.handle} \ {0})
                         \cup IF recv.rx # flush.rx THEN {Len(store')} ELSE {}
  /\ flush' = Idle
  /\ FlushChanges /\ UNCHANGED screen

\* The user has chosen no file, or it fails: the former is a handle too, an empty one.
BeginDeclined ==
  /\ flush.pc = "begin"
  /\ FailReceive([recv EXCEPT !.handle = 0])
  /\ orphans' = orphans \cup ({recv.handle} \ {0})
  /\ FlushChanges /\ UNCHANGED store

BeginFails ==
  /\ setting.failures /\ flush.pc = "begin"
  /\ FailReceive(recv)
  /\ FlushChanges /\ UNCHANGED <<store, orphans>>

\* The batch is encoded; a stale one is dropped.
Encoded ==
  /\ flush.pc = "encode" /\ recv.gen = flush.gen
  /\ flush' = [flush EXCEPT !.pc = "write"]
  /\ FlushChanges /\ UNCHANGED <<store, orphans, recv, screen>>

\* What follows a batch, at the end of a file.
GoOn ==
  IF flush.then = "complete" /\ recv.rx = flush.rx /\ recv.gen = flush.gen /\ recv.handle # 0
  THEN Finish(recv)
  ELSE flush' = Idle /\ UNCHANGED recv

BatchStale ==
  /\ flush.pc = "encode" /\ recv.gen # flush.gen
  /\ GoOn
  /\ FlushChanges /\ UNCHANGED <<store, orphans, screen>>

IsOpen(h) == store[h].state = "open"

\* WriteZmodemReceiveBase64 succeeds.
Written ==
  /\ flush.pc = "write" /\ IsOpen(flush.handle)
  /\ store' = [store EXCEPT ![flush.handle].blocks = @ \o flush.blocks]
  /\ GoOn
  /\ FlushChanges /\ UNCHANGED <<orphans, screen>>

\* It fails, because the file is gone, or otherwise; only the flush of a stale batch goes on.
WriteFails ==
  /\ flush.pc = "write" /\ (setting.failures \/ ~IsOpen(flush.handle))
  /\ IF recv.gen = flush.gen THEN FailReceive(recv) ELSE GoOn /\ UNCHANGED screen
  /\ FlushChanges /\ UNCHANGED <<store, orphans>>

FinishReturns ==
  /\ flush.pc = "finish" /\ IsOpen(flush.handle)
  /\ store' = [store EXCEPT ![flush.handle].state = "finished"]
  /\ recv' = [recv EXCEPT !.handle = 0]
  /\ flush' = Idle
  /\ FlushChanges /\ UNCHANGED <<orphans, screen>>

\* In any case the backend has let go of the file.
FinishFails ==
  /\ flush.pc = "finish" /\ (setting.failures \/ ~IsOpen(flush.handle))
  /\ store' = [store EXCEPT ![flush.handle].state = "gone"]
  /\ FailReceive(recv)
  /\ FlushChanges /\ UNCHANGED orphans

LetGo(h) == store' = [store EXCEPT ![h].state = IF @ = "open" THEN "gone" ELSE @]

\* CancelZmodemReceive returns, to failReceive.
FailCancels ==
  /\ flush.pc = "cancel"
  /\ LetGo(flush.handle)
  /\ FailEnds
  /\ FlushChanges /\ UNCHANGED orphans

CancelArrives ==
  /\ \E h \in cancels :
       /\ cancels' = cancels \ {h}
       /\ LetGo(h)
  /\ UNCHANGED <<setting, headers, remote, screen, recv, flush, orphans, sending>>

(***************************************************************************)
(* cancel, by the button, which is there when a transfer is active, or by  *)
(* a dialog in which no file is chosen.                                    *)
(***************************************************************************)
\* A bug in cancel: the next selection begins where this one has ended.
CancelledIndexKept(s) == [s EXCEPT !.tx = 0, !.files = <<>>, !.selecting = FALSE, !.failed = FALSE]

Cancelled(s) ==
  [s EXCEPT !.tx = 0, !.files = <<>>, !.index = 1, !.selecting = FALSE, !.failed = FALSE]

Cancel(s) ==
  /\ remote' = [remote EXCEPT !.aborted = TRUE]
  /\ recv' = [Dropped EXCEPT !.gen = @ + 1]
  /\ cancels' = cancels \cup ({recv.handle} \ {0})
  /\ send' = Cancelled(s)
  /\ screen' = [screen EXCEPT !.discarding = TRUE, !.held = FALSE, !.active = FALSE]
  /\ UNCHANGED <<setting, headers, flush, store, orphans, senders, sflush>>

UserCancels == setting.cancels /\ screen.active /\ Cancel(send)

DialogCancelled ==
  /\ send.dialogs > 0
  /\ Cancel([send EXCEPT !.dialogs = @ - 1])

(***************************************************************************)
(* The sender.  Its flushes are chained too; the next of them begins with  *)
(* the sender there is then.                                               *)
(***************************************************************************)
\* startCurrentFile
Offer(sender, file) ==
  [sender EXCEPT !.phase = "offer", !.file = file, !.out = <<Item("ZFILE", file, 0)>>]

\* Files are chosen in a dialog, even of a session that has been cancelled.  Where the
\* index has been left beyond the selection, startCurrentFile fails, and nothing is flushed.
FilesChosen ==
  /\ send.dialogs > 0 /\ Len(senders) < setting.senders
  /\ \E chosen \in setting.selections :
       LET valid == send.index <= Len(chosen)
           sender == NewSender(chosen)
       IN /\ send' = [send EXCEPT !.tx = Len(senders) + 1, !.files = chosen,
                                  !.selecting = FALSE, !.dialogs = @ - 1]
          /\ senders' = Append(senders, IF valid THEN Offer(sender, chosen[send.index])
                                                 ELSE sender)
          /\ sflush' = [sflush EXCEPT !.due = @ \/ valid]
  /\ screen' = [screen EXCEPT !.active = TRUE]
  /\ UNCHANGED <<setting, headers, remote, receiving>>

\* A rejected flush: the sender there is by now is dropped, but not its files and its index.
SenderFails ==
  /\ send' = [send EXCEPT !.tx = 0, !.failed = TRUE]
  /\ sflush' = [sflush EXCEPT !.pc = "idle", !.due = FALSE]
  /\ screen' = [screen EXCEPT !.active = FALSE]

\* The Sender asks for a block: it is read from the file at the index.
ReadNext(s) ==
  IF send.index <= Len(send.files)
  THEN /\ sflush' = [pc |-> "read", tx |-> s, file |-> send.files[send.index],
                     due |-> sflush.pc = "sent" /\ sflush.due]
       /\ UNCHANGED <<send, screen>>
  ELSE SenderFails

SendChanges == UNCHANGED <<setting, headers, receiving>>

\* A flush begins with the sender s there is: what is ready goes out, and then a block is
\* asked for, or an event is dealt with and what comes of that goes out.
FlushSender ==
  LET s == send.tx IN
  /\ sflush.pc = "idle" /\ sflush.due /\ s # 0
  /\ LET sender == senders[s]
         sent == [sender EXCEPT !.sent = Append(@, sender.file)]
         next == IF send.index < Len(send.files) THEN Offer(sent, send.files[send.index + 1])
                 ELSE [sent EXCEPT !.phase = "finish", !.out = <<Plain("ZFIN")>>]
         after == IF sender.phase = "complete" THEN next ELSE sender
     IN /\ remote' = RemoteGets(after.out)
        /\ senders' = [senders EXCEPT ![s] = [after EXCEPT !.out = <<>>]]
        /\ IF sender.phase = "data" THEN ReadNext(s)
           ELSE /\ sflush' = [sflush EXCEPT !.due = FALSE]
                /\ send' = CASE sender.phase = "complete" -> [send EXCEPT !.index = @ + 1]
                             [] sender.phase = "over" ->
                                  [send EXCEPT !.tx = 0, !.files = <<>>, !.index = 1,
                                               !.failed = FALSE]
                             [] OTHER -> send
                /\ screen' = [screen EXCEPT !.active = @ /\ sender.phase # "over"]
  /\ SendChanges

\* A block has been read: it goes out, whether its sender is still the sender or not.
BlockRead ==
  /\ sflush.pc = "read"
  /\ LET s == sflush.tx
         sender == senders[s]
         last == sender.block = Size[sender.file]
     IN /\ remote' = RemoteGets(<<Item("data", sflush.file, sender.block)>>
                                \o IF last THEN <<Item("ZEOF", sender.file, 0)>> ELSE <<>>)
        /\ senders' = [senders EXCEPT ![s].block = @ + 1,
                                      ![s].phase = IF last THEN "eof" ELSE @]
  /\ sflush' = [sflush EXCEPT !.pc = "sent"]
  /\ SendChanges /\ UNCHANGED <<send, screen>>

\* The sender has been cancelled, or replaced.
IsStale(s) == send.tx # s

\* After a block, the flush may have waited for the socket and the browser.
AfterBlock ==
  /\ sflush.pc = "sent"
  /\ LET s == sflush.tx IN
       IF senders[s].phase = "data" /\ ~IsStale(s) THEN ReadNext(s)
       ELSE /\ sflush' = [sflush EXCEPT !.pc = "idle"]
            /\ UNCHANGED <<send, screen>>
  /\ SendChanges /\ UNCHANGED <<remote, senders>>

ReadFails ==
  /\ setting.failures /\ sflush.pc = "read"
  /\ SenderFails
  /\ SendChanges /\ UNCHANGED <<remote, senders>>

-----------------------------------------------------------------------------
AdapterInit ==
  /\ setting \in Settings
  /\ headers = setting.headers
  /\ remote = Shell
  /\ screen = [discarding |-> FALSE, held |-> FALSE, active |-> FALSE]
  /\ recv = [rx |-> 0, made |-> 0, input |-> <<>>, handle |-> 0, gen |-> 0, batch |-> <<>>,
             name |-> 0]
  /\ flush = Idle
  /\ store = <<>>
  /\ cancels = {}
  /\ send = [tx |-> 0, files |-> <<>>, index |-> 1, selecting |-> FALSE, dialogs |-> 0,
             failed |-> FALSE]
  /\ senders = <<>>
  /\ sflush = [pc |-> "idle", tx |-> 0, file |-> 0, due |-> FALSE]
  /\ orphans = {}

AdapterNext ==
  \/ RemoteStarts \/ HeaderBegins \/ HeaderArrives \/ SzSends \/ RzAnswers
  \/ RemoteGivesUp \/ ShellPrints \/ WindowEnds
  \/ FlushItem \/ FlushFails \/ BeginReturns \/ BeginDeclined \/ BeginFails \/ Encoded
  \/ BatchStale \/ Written \/ WriteFails \/ FinishReturns \/ FinishFails \/ FailCancels
  \/ CancelArrives
  \/ UserCancels \/ DialogCancelled
  \/ FilesChosen \/ FlushSender \/ BlockRead \/ AfterBlock \/ ReadFails

AdapterSpec == AdapterInit /\ [][AdapterNext]_adapterVars
-----------------------------------------------------------------------------
\* A file that is finished has all of its blocks, in their order and no others, whatever
\* was cancelled, failed or resumed late while it was received (zmodem.ts:128-143, 188-207).
FinishedIsWhole ==
  \A h \in DOMAIN store : store[h].state = "finished" => store[h].blocks = Blocks(store[h].file)

\* A file open in the backend is that of the transfer under way, or is being cancelled:
\* except where its dialog is answered after the transfer has been cancelled, or where the
\* remote program begins another file without ending it (zmodem.ts:126, 209-221, 346-366).
NothingLeftOpen ==
  \A h \in DOMAIN store :
    IsOpen(h) => \/ h = recv.handle /\ recv.rx # 0
                 \/ h \in cancels
                 \/ flush.pc = "cancel" /\ flush.handle = h
                 \/ h \in orphans

\* A session that comes to its end has sent each file of its selection, in their order,
\* unless the session before it has failed, or was still under way when its files were chosen
\* in a second dialog (zmodem.ts:263-274, 285-289, 317-327, 360); and the adapter is selecting
\* files only while a dialog for that is open, or no header of rz would be heeded any more
\* (zmodem.ts:224, 244, 347).
SelectionIsSent ==
  /\ \A s \in DOMAIN senders :
       senders[s].phase \in {"finish", "over"} /\ senders[s].whole
         => senders[s].sent = senders[s].chosen
  /\ send.selecting => send.dialogs > 0

=============================================================================
