---------------------------- MODULE ZmodemSession ----------------------------
(***************************************************************************)
(* ZMODEM in a terminal session: the routing of the terminal's output      *)
(* (internal/sshclient/zmodem.go), the receiver and the sender it drives   *)
(* (internal/zmodemproto), the files and the list of transfers             *)
(* (internal/zmodemstore, internal/app/zmodem_backend.go), and the dialogs *)
(* in which the user chooses.  The remote programs sz and rz, and the      *)
(* shell they are started from, are external.                              *)
(*                                                                         *)
(* What travels is a sequence of items: headers, subpackets, and text.  A  *)
(* subpacket carries one block of its file, and is its number; offsets are *)
(* counted in blocks.  Output arrives in chunks of any number of items:    *)
(* where the code drops the rest of a chunk, any number of items goes.     *)
(***************************************************************************)
EXTENDS Naturals, Sequences

CONSTANTS
  Size,       \* Size[f]: the blocks of file f, which are sent in the order of their numbers
  Settings,   \* the settings considered, one of which every behaviour has
  NoHandle

ASSUME SizeAssumption == Size \in Seq(Nat) /\ Size # <<>>
ASSUME HandleAssumption == NoHandle \notin Seq(Nat \X Nat)

Files == DOMAIN Size

VARIABLES
  setting,     \* one of Settings, the same throughout
  mode,        \* session.zmodem: "none", or the direction of the transfer
  rcv,         \* its Receiver: state, count and file
  snd,         \* its Sender, with sendIndex
  dialog,      \* a dialog is open, and zmodemMu held
  discard,     \* zmodemDiscardUntil has not passed
  reading,     \* the goroutine that copies the remote's output runs
  handle,      \* receiveFile: what has been written to it
  lost,        \* receive handles that nobody will finish or cancel
  committed,   \* received files that have been renamed to their destination
  sent,        \* files shown as sent by the last transfer
  listed,      \* files the list of transfers shows as running
  toDesk,      \* the remote's output
  toRemote,    \* its input
  remote,      \* what runs there: program, state, file and offset
  kept,        \* kept[f]: what rz has received of f
  commands,    \* programs started so far
  retries,     \* timeouts of them so far
  faults       \* local failures so far

desk == <<mode, rcv, snd, dialog, discard, reading>>
store == <<handle, lost, committed, sent, listed>>
wire == <<toDesk, toRemote>>
far == <<remote, kept, commands, retries>>
vars == <<setting, desk, store, wire, far, faults>>

(***************************************************************************)
(* A setting says which programs are started, how many (maxCommands), how  *)
(* many subpackets the sender may send per acknowledgement (perAck), in    *)
(* which of their states the programs time out and how often, whether they *)
(* abort, or skip a file they have, whether the user cancels, whether the  *)
(* discard window may close while output is under way or a command be      *)
(* typed before it does (slow), and what fails locally.                    *)
(***************************************************************************)
IsSetting(s) ==
  /\ s.programs \subseteq {"sz", "rz"} /\ s.perAck \in Nat \ {0}
  /\ s.timeouts \subseteq {"init", "file", "eof", "pos", "wait"}
  /\ {s.maxCommands, s.maxRetries, s.maxFaults} \subseteq Nat
  /\ {s.aborts, s.skips, s.slow, s.cancels} \subseteq BOOLEAN
  /\ s.faults \subseteq {"write", "read", "refuse"}

ASSUME SettingAssumption == \A s \in Settings : IsSetting(s)

Header(frame, count) == [kind |-> frame, count |-> count, file |-> 0, end |-> "-"]

\* A header does not name its file: where one is recorded, it is for the proofs.
Of(f, header) == [header EXCEPT !.file = f]

Meta(f) == [kind |-> "meta", count |-> 0, file |-> f, end |-> "-"]

\* Block 0 is an empty subpacket.
Data(f, b, end) == [kind |-> "data", count |-> b, file |-> f, end |-> end]

Text == Header("text", 0)
Cancel == Header("CAN", 0)
OverAndOut == Header("OO", 0)

Blocks(f, n) == [b \in 1..n |-> <<f, b>>]
Whole(f) == Blocks(f, Size[f])

NewReceiver == [st |-> "session", count |-> 0, file |-> 0, dirty |-> FALSE]
NewSender == [st |-> "init", index |-> 0]

Init ==
  /\ setting \in Settings
  /\ mode = "none" /\ rcv = NewReceiver /\ snd = NewSender
  /\ dialog = "none" /\ discard = FALSE /\ reading = TRUE
  /\ handle = NoHandle /\ lost = 0 /\ committed = <<>> /\ sent = {} /\ listed = {}
  /\ toDesk = <<>> /\ toRemote = <<>>
  /\ remote = [program |-> "shell", st |-> "prompt", file |-> 0, offset |-> 0]
  /\ kept = [f \in Files |-> <<>>]
  /\ commands = 0 /\ retries = 0 /\ faults = 0

-------------------------------------------------------------------------------
(***************************************************************************)
(* handleOutput.                                                           *)
(***************************************************************************)

\* The next item, when a goroutine can take zmodemMu and read it.
Hears(kinds) ==
  reading /\ dialog = "none" /\ toDesk # <<>> /\ Head(toDesk).kind \in kinds

Item == Head(toDesk)

Consume == toDesk' = Tail(toDesk)

\* The rest of the chunk goes unread.
ConsumeChunk == \E n \in DOMAIN toDesk : toDesk' = SubSeq(toDesk, n + 1, Len(toDesk))

Send(items) == toRemote' = toRemote \o items

\* cancelLocal, after which the session has no transfer.
CancelLocal ==
  /\ mode' = "none" /\ rcv' = NewReceiver /\ snd' = NewSender
  /\ handle' = NoHandle

\* (Mutated form: the transfer remains in the list.)
UnlistSilently == UNCHANGED listed

\* notifyTransfer with the status failed or cancelled, for the file in progress.
Unlist ==
  listed' = IF mode = "receive"
              THEN IF handle # NoHandle THEN listed \ {rcv.file} ELSE listed
              ELSE listed \ {snd.index}

\* (Mutated form: the remote is left waiting.)
CancelNothing == UNCHANGED toRemote

CancelRemote == Send(<<Cancel>>)

\* fail: give up, and discard what the remote still sends.
Fail ==
  /\ CancelLocal
  /\ Unlist
  /\ discard' = TRUE
  /\ CancelRemote
  /\ UNCHANGED <<lost, committed, sent>>

Discard ==
  /\ reading /\ dialog = "none" /\ toDesk # <<>>
  /\ discard
  /\ Consume
  /\ UNCHANGED <<setting, desk, store, toRemote, far, faults>>

\* Output that belongs to no transfer is shown, garbage left from one included.
Show ==
  /\ reading /\ dialog = "none" /\ toDesk # <<>>
  /\ ~discard /\ mode = "none"
  /\ Item.kind \notin {"ZRQINIT", "ZRINIT"}
  /\ Consume
  /\ UNCHANGED <<setting, desk, store, toRemote, far, faults>>

\* The header of a remote sz: the new receiver answers it.
DetectReceive ==
  /\ Hears({"ZRQINIT"}) /\ ~discard /\ mode = "none"
  /\ mode' = "receive" /\ rcv' = NewReceiver
  /\ Send(<<Header("ZRINIT", 0)>>)
  /\ Consume
  /\ UNCHANGED <<setting, snd, dialog, discard, reading, store, far, faults>>

\* The header of a remote rz: the user is asked what to send.  What came with it
\* reaches a sender that waits for StartFile and takes no notice.
DetectSend ==
  /\ Hears({"ZRINIT"}) /\ ~discard /\ mode = "none"
  /\ mode' = "send" /\ snd' = NewSender
  /\ sent' = {}
  /\ dialog' = "choose"
  /\ ConsumeChunk
  /\ UNCHANGED <<setting, rcv, discard, reading, handle, lost, committed, listed, toRemote,
                 far, faults>>

\* cancelZmodem, which waits for zmodemMu.
CancelZmodem ==
  /\ setting.cancels
  /\ mode # "none" /\ dialog = "none"
  /\ Fail
  /\ UNCHANGED <<setting, dialog, reading, toDesk, far, faults>>

\* The window of zmodemCancelDrainWindow is over.
WindowEnds ==
  /\ discard
  /\ setting.slow \/ (toDesk = <<>> /\ toRemote = <<>> /\ remote.program = "shell")
  /\ discard' = FALSE
  /\ UNCHANGED <<setting, mode, rcv, snd, dialog, reading, store, wire, far, faults>>

-------------------------------------------------------------------------------
(***************************************************************************)
(* The receiver.                                                           *)
(***************************************************************************)

\* An item reaches the receiver of a transfer in progress.
Receives(kinds) == Hears(kinds) /\ ~discard /\ mode = "receive"

\* The receiver reads a header, or else a subpacket.
Between == rcv.st \in {"session", "fileBegin", "waiting"}

\* What is left alone when the transfer goes on.
Goes == UNCHANGED <<setting, mode, snd, discard, reading, far, faults>>

\* The end of a transfer that failed.
Breaks ==
  /\ Fail
  /\ dialog' = "none"
  /\ UNCHANGED <<setting, reading, far>>

ReceiveInit ==
  /\ Receives({"ZRQINIT"}) /\ rcv.st = "session"
  /\ Send(<<Header("ZRINIT", 0)>>)
  /\ Consume
  /\ UNCHANGED <<rcv, dialog, store>> /\ Goes

ReceiveFile ==
  /\ Receives({"ZFILE"}) /\ rcv.st \in {"session", "fileBegin"}
  /\ rcv' = [rcv EXCEPT !.st = "meta", !.dirty = FALSE]
  /\ Consume
  /\ UNCHANGED <<dialog, store, toRemote>> /\ Goes

\* The file's name and size are complete (FileStart): the user is asked where to
\* save it, and only then is ZRPOS sent.
ReceiveMeta ==
  /\ Receives({"meta"}) /\ rcv.st = "meta" /\ ~rcv.dirty
  /\ rcv' = [rcv EXCEPT !.st = "fileBegin", !.count = 0, !.file = Item.file]
  /\ dialog' = "save"
  /\ Consume
  /\ UNCHANGED <<store, toRemote>> /\ Goes

\* BeginZmodemDownload: a file that was being received is forgotten.
SaveFile ==
  /\ dialog = "save"
  /\ dialog' = "none"
  /\ lost' = IF handle = NoHandle THEN lost ELSE lost + 1
  /\ handle' = <<>>
  /\ listed' = listed \cup {rcv.file}
  /\ Send(<<Header("ZRPOS", 0)>>)
  /\ UNCHANGED <<rcv, committed, sent, toDesk>> /\ Goes

Failing(what) ==
  /\ what \in setting.faults /\ faults < setting.maxFaults
  /\ faults' = faults + 1

RefuseFile ==
  /\ dialog = "save" /\ Failing("refuse")
  /\ Breaks
  /\ UNCHANGED toDesk

\* Is this where the receiver is?
BeginsHere(count) == count = rcv.count

ReceiveData ==
  /\ Receives({"ZDATA"}) /\ Between
  /\ IF rcv.st # "session" /\ BeginsHere(Item.count)
       THEN /\ rcv' = [rcv EXCEPT !.st = "data", !.dirty = FALSE]
            /\ UNCHANGED toRemote
       ELSE /\ Send(<<IF rcv.st = "session" THEN Header("ZRINIT", 0)
                                            ELSE Header("ZRPOS", rcv.count)>>)
            /\ UNCHANGED rcv
  /\ Consume
  /\ UNCHANGED <<dialog, store>> /\ Goes

\* A subpacket whose checksum is right: DrainFile and finishSubpacket.
ReceiveSubpacket ==
  /\ Receives({"data"}) /\ rcv.st = "data" /\ ~rcv.dirty
  /\ LET length == IF Item.count = 0 THEN 0 ELSE 1
         count == rcv.count + length
     IN  /\ rcv' = [rcv EXCEPT !.count = count,
                               !.st = IF Item.end \in {"W", "E"} THEN "waiting" ELSE "data"]
         /\ handle' = IF handle = NoHandle \/ length = 0 THEN handle
                      ELSE Append(handle, <<Item.file, Item.count>>)
         /\ Send(IF Item.end \in {"W", "Q"} THEN <<Header("ZACK", count)>> ELSE <<>>)
  /\ Consume
  /\ UNCHANGED <<dialog, lost, committed, sent, listed>> /\ Goes

\* The disk is full.
WriteFails ==
  /\ Receives({"data"}) /\ rcv.st = "data" /\ ~rcv.dirty
  /\ Item.count # 0 /\ handle # NoHandle
  /\ Failing("write")
  /\ Breaks
  /\ ConsumeChunk

\* (Mutated form: the end of a file is believed wherever it is.)
EndsAnywhere(count) == rcv.st = "waiting"

EndsHere(count) == rcv.st = "waiting" /\ count = rcv.count

\* FileComplete: the file is renamed to its destination.
ReceiveEof ==
  /\ Receives({"ZEOF"}) /\ EndsHere(Item.count)
  /\ rcv' = [rcv EXCEPT !.st = "fileBegin"]
  /\ committed' = IF handle = NoHandle THEN committed
                  ELSE Append(committed, [file |-> rcv.file, data |-> handle])
  /\ handle' = NoHandle
  /\ listed' = listed \ {rcv.file}
  /\ Send(<<Header("ZRINIT", 0)>>)
  /\ Consume
  /\ UNCHANGED <<dialog, lost, sent>> /\ Goes

\* It cannot be synced, closed or renamed.
FinishFails ==
  /\ Receives({"ZEOF"}) /\ EndsHere(Item.count) /\ handle # NoHandle
  /\ Failing("write")
  /\ Breaks
  /\ ConsumeChunk

\* SessionComplete: cancelLocal comes before DrainOutgoing, and the answer to ZFIN
\* is not sent.
ReceiveFin ==
  /\ Receives({"ZFIN"}) /\ rcv.st \in {"waiting", "fileBegin"}
  /\ CancelLocal
  /\ ConsumeChunk
  /\ UNCHANGED <<setting, dialog, discard, reading, lost, committed, sent, listed,
                 toRemote, far, faults>>

\* A header that means nothing here; and what is not a header, while one is expected.
ReceiveIgnored ==
  /\ mode = "receive" /\ Hears({Item.kind}) /\ ~discard /\ Between
  /\ \/ Item.kind = "ZRQINIT" /\ rcv.st # "session"
     \/ Item.kind = "ZFILE" /\ rcv.st = "waiting"
     \/ Item.kind = "ZEOF" /\ ~EndsHere(Item.count)
     \/ Item.kind = "ZFIN" /\ rcv.st = "session"
     \/ Item.kind \in {"ZRINIT", "ZRPOS", "ZACK", "ZSKIP", "meta", "data", "text", "CAN", "OO"}
  /\ Consume
  /\ UNCHANGED <<rcv, dialog, store, toRemote>> /\ Goes

\* Data with the beginnings of a header in it, where a header is expected.
ReceiveGarbage ==
  /\ Receives({"meta", "data"}) /\ Between
  /\ Breaks
  /\ ConsumeChunk
  /\ UNCHANGED faults

\* Anything else within a subpacket is taken for a part of it.
ReceiveDirt ==
  /\ mode = "receive" /\ Hears({Item.kind}) /\ ~discard /\ ~Between
  /\ Item.kind \notin {"meta", "data"}
  /\ rcv' = [rcv EXCEPT !.dirty = TRUE]
  /\ Consume
  /\ UNCHANGED <<dialog, store, toRemote>> /\ Goes

\* The subpacket overflows the buffer, or ends with a wrong checksum.
ReceiveBroken ==
  /\ Receives({"text", "meta", "data"}) /\ ~Between
  /\ Item.kind = "text" \/ rcv.dirty
  /\ Breaks
  /\ ConsumeChunk
  /\ UNCHANGED faults

-------------------------------------------------------------------------------
(***************************************************************************)
(* The sender.                                                             *)
(***************************************************************************)

Sends(kinds) == Hears(kinds) /\ ~discard /\ mode = "send"

\* The sender goes on with what it has answered.
Continues ==
  /\ ConsumeChunk
  /\ UNCHANGED <<setting, mode, rcv, dialog, discard, reading, handle, lost, committed,
                 far, faults>>

\* startCurrentFile: StartFile of a sender that is ready.
Offer(f) ==
  /\ snd' = [st |-> "pos", index |-> f]
  /\ Send(<<Of(f, Header("ZFILE", 0)), Meta(f)>>)

ChooseFiles ==
  /\ dialog = "choose"
  /\ dialog' = "none"
  /\ Offer(1)
  /\ listed' = listed \cup {1}
  /\ UNCHANGED <<setting, mode, rcv, discard, reading, handle, lost, committed, sent,
                 toDesk, far, faults>>

\* The first file cannot be opened.
OpenFails ==
  /\ dialog = "choose" /\ Failing("read")
  /\ Breaks
  /\ UNCHANGED toDesk

\* No file is chosen: unlike fail, this opens no discard window.
RefuseUpload ==
  /\ dialog = "choose" /\ Failing("refuse")
  /\ dialog' = "none"
  /\ CancelLocal
  /\ CancelRemote
  /\ UNCHANGED <<setting, discard, reading, lost, committed, sent, listed, toDesk, far>>

\* One frame of data from an offset on: a header and up to perAck subpackets, the last
\* of which asks for an acknowledgement.
Frame(f, offset) ==
  LET left == Size[f] - offset
      length == IF left < setting.perAck THEN left ELSE setting.perAck
  IN  <<Of(f, Header("ZDATA", offset))>> \o
      [k \in 1..length |-> Data(f, offset + k, IF k = length THEN "W" ELSE "G")]

\* (Mutated form: a file ends a block early.)
AllSentEarly(f, offset) == offset + 1 >= Size[f]

AllSent(f, offset) == offset >= Size[f]

\* ZRPOS and ZACK alike: the remote names the offset it wants.
SendFrom ==
  /\ Sends({"ZRPOS", "ZACK"}) /\ snd.st \in {"pos", "ack"}
  /\ IF AllSent(snd.index, Item.count)
       THEN /\ Send(<<Of(snd.index, Header("ZEOF", Item.count))>>)
            /\ snd' = [snd EXCEPT !.st = "done"]
       ELSE /\ Send(Frame(snd.index, Item.count))
            /\ snd' = [snd EXCEPT !.st = "ack"]
  /\ Continues
  /\ UNCHANGED <<sent, listed>>

\* The local file has become shorter, or cannot be read.  The error is returned by
\* handleOutput, and ends the goroutine that copies the output.
ReadFails ==
  /\ Sends({"ZRPOS", "ZACK"}) /\ snd.st \in {"pos", "ack"}
  /\ ~AllSent(snd.index, Item.count)
  /\ Failing("read")
  /\ reading' = FALSE
  /\ Consume
  /\ UNCHANGED <<setting, mode, rcv, snd, dialog, discard, store, toRemote, far>>

Last(f) == f = Len(Size)

\* The remote is ready for another file: the last one is there (FileComplete).
FileComplete ==
  /\ Sends({"ZRINIT"}) /\ snd.st = "done"
  /\ sent' = sent \cup {snd.index}
  /\ IF Last(snd.index)
       THEN /\ Send(<<Header("ZFIN", 0)>>)
            /\ snd' = [snd EXCEPT !.st = "finish"]
            /\ listed' = listed \ {snd.index}
       ELSE /\ Offer(snd.index + 1)
            /\ listed' = (listed \ {snd.index}) \cup {snd.index + 1}
  /\ Continues

\* The next file cannot be opened: as with ReadFails.
NextFails ==
  /\ Sends({"ZRINIT"}) /\ snd.st = "done" /\ ~Last(snd.index)
  /\ Failing("read")
  /\ sent' = sent \cup {snd.index}
  /\ snd' = [st |-> "init", index |-> snd.index + 1]
  /\ listed' = listed \ {snd.index}
  /\ reading' = FALSE
  /\ Consume
  /\ UNCHANGED <<setting, mode, rcv, dialog, discard, handle, lost, committed, toRemote,
                 far>>

\* ZFIN, or another ZRINIT, is taken for the end of the session.
SendFin ==
  /\ Sends({"ZFIN", "ZRINIT"}) /\ snd.st = "finish"
  /\ Send(<<OverAndOut>>)
  /\ CancelLocal
  /\ ConsumeChunk
  /\ UNCHANGED <<setting, dialog, discard, reading, lost, committed, sent, listed, far,
                 faults>>

\* ZSKIP and CAN are among what the sender does not know.
SendIgnored ==
  /\ mode = "send" /\ Hears({Item.kind}) /\ ~discard
  /\ \/ Item.kind \in {"ZRPOS", "ZACK"} /\ snd.st \notin {"pos", "ack"}
     \/ Item.kind = "ZRINIT" /\ snd.st \notin {"done", "finish"}
     \/ Item.kind = "ZFIN" /\ snd.st # "finish"
     \/ Item.kind \notin {"ZRPOS", "ZACK", "ZRINIT", "ZFIN"}
  /\ Consume
  /\ UNCHANGED <<setting, desk, store, toRemote, far, faults>>

Desktop ==
  \/ Discard \/ Show \/ DetectReceive \/ DetectSend
  \/ ReceiveInit \/ ReceiveFile \/ ReceiveMeta \/ SaveFile \/ ReceiveData
  \/ ReceiveSubpacket \/ ReceiveEof \/ ReceiveFin \/ ReceiveIgnored \/ ReceiveDirt
  \/ ReceiveGarbage \/ ReceiveBroken \/ WriteFails \/ FinishFails \/ RefuseFile
  \/ ChooseFiles \/ OpenFails \/ RefuseUpload \/ SendFrom \/ FileComplete \/ SendFin \/ SendIgnored
  \/ ReadFails \/ NextFails

-------------------------------------------------------------------------------
(***************************************************************************)
(* The remote (external).                                                  *)
(***************************************************************************)

Reply(items) == toDesk' = toDesk \o items

Become(program, st, file, offset) ==
  remote' = [program |-> program, st |-> st, file |-> file, offset |-> offset]

\* The program ends, and the shell shows its prompt.
Leave(items) == Become("shell", "prompt", 0, 0) /\ Reply(items \o <<Text>>)

\* The user types the next command when the output of the last one has been read.
Run(program) ==
  /\ remote.program = "shell" /\ commands < setting.maxCommands
  /\ toDesk = <<>> /\ toRemote = <<>> /\ (setting.slow \/ ~discard)
  /\ program \in setting.programs
  /\ Become(program, "init", 1, 0)
  /\ Reply(<<Header(IF program = "sz" THEN "ZRQINIT" ELSE "ZRINIT", 0)>>)
  /\ commands' = commands + 1
  /\ kept' = [f \in Files |-> <<>>]
  /\ UNCHANGED <<setting, desk, store, toRemote, retries, faults>>

Hosts(program) == remote.program = program /\ toRemote # <<>>

Told == Head(toRemote)

\* sz sends the first file, or the next one, or ends.
SzInit ==
  LET next == IF remote.st = "eof" THEN remote.file + 1 ELSE 1
  IN  /\ Told.kind = "ZRINIT" /\ remote.st \in {"init", "eof"}
      /\ IF next \in Files
           THEN Become("sz", "file", next, 0) /\ Reply(<<Of(next, Header("ZFILE", 0)), Meta(next)>>)
           ELSE Become("sz", "fin", remote.file, 0) /\ Reply(<<Header("ZFIN", 0)>>)

\* A frame that is under way is ended by an empty subpacket.
SzPos ==
  /\ Told.kind = "ZRPOS" /\ remote.st \in {"file", "data", "ack", "eof"}
  /\ Become("sz", "data", remote.file, Told.count)
  /\ Reply((IF remote.st = "data" THEN <<Data(remote.file, 0, "E")>> ELSE <<>>)
             \o <<Of(remote.file, Header("ZDATA", Told.count))>>)

SzAck ==
  /\ Told.kind = "ZACK" /\ remote.st = "ack" /\ Told.count = remote.offset
  /\ IF remote.offset = Size[remote.file]
       THEN Become("sz", "eof", remote.file, remote.offset)
            /\ Reply(<<Of(remote.file, Header("ZEOF", remote.offset))>>)
       ELSE Become("sz", "data", remote.file, remote.offset)
            /\ Reply(<<Of(remote.file, Header("ZDATA", remote.offset))>>)

Killed == Told.kind = "CAN" /\ Leave(<<>>)

SzIgnores ==
  /\ \/ Told.kind = "ZRINIT" /\ remote.st \notin {"init", "eof"}
     \/ Told.kind = "ZRPOS" /\ remote.st \notin {"file", "data", "ack", "eof"}
     \/ Told.kind = "ZACK" /\ ~(remote.st = "ack" /\ Told.count = remote.offset)
     \/ Told.kind \notin {"ZRINIT", "ZRPOS", "ZACK", "CAN"}
  /\ UNCHANGED <<remote, toDesk>>

SzHears ==
  /\ Hosts("sz")
  /\ SzInit \/ SzPos \/ SzAck \/ Killed \/ SzIgnores
  /\ toRemote' = Tail(toRemote)
  /\ UNCHANGED <<setting, desk, store, kept, commands, retries, faults>>

\* The next block, or the end of the file.
SzSends ==
  LET f == remote.file
      next == remote.offset + 1
  IN  /\ remote.program = "sz" /\ remote.st = "data"
      /\ \/ /\ next <= Size[f]
            /\ \E end \in {"G", "Q", "W"} :
                 /\ Become("sz", IF end = "W" THEN "ack" ELSE "data", f, next)
                 /\ Reply(<<Data(f, next, end)>>)
         \/ /\ next > Size[f]
            /\ Become("sz", "eof", f, Size[f])
            /\ Reply(<<Data(f, 0, "E"), Of(f, Header("ZEOF", Size[f]))>>)
      /\ UNCHANGED <<setting, desk, store, toRemote, kept, commands, retries, faults>>

\* A program that has waited too long says what it last said once more.
Repeated ==
  CASE remote.program = "sz" /\ remote.st = "init" -> <<Header("ZRQINIT", 0)>>
    [] remote.st = "file" -> <<Of(remote.file, Header("ZFILE", 0)), Meta(remote.file)>>
    [] remote.st = "eof" -> <<Of(remote.file, Header("ZEOF", remote.offset))>>
    [] remote.program = "rz" /\ remote.st = "init" -> <<Header("ZRINIT", 0)>>
    [] remote.st \in {"pos", "wait"} -> <<Header("ZRPOS", remote.offset)>>

Timeout ==
  /\ remote.program # "shell" /\ remote.st \in setting.timeouts
  /\ retries < setting.maxRetries
  /\ retries' = retries + 1
  /\ Reply(Repeated)
  /\ UNCHANGED <<setting, desk, store, toRemote, remote, kept, commands, faults>>

\* At the end, neither program waits for ever.  It is how sz always ends: the answer to
\* its ZFIN does not come (ReceiveFin).
GiveUpWaiting ==
  /\ remote.st \in {"fin", "oo"}
  /\ Leave(<<>>)
  /\ UNCHANGED <<setting, desk, store, toRemote, kept, commands, retries, faults>>

Abort ==
  /\ setting.aborts /\ remote.program # "shell"
  /\ Leave(<<Cancel>>)
  /\ UNCHANGED <<setting, desk, store, toRemote, kept, commands, retries, faults>>

Received == Len(kept[remote.file])

RzMeta ==
  /\ Told.kind = "meta" /\ remote.st \in {"init", "pos"}
  /\ \/ /\ kept' = [kept EXCEPT ![Told.file] = <<>>]
        /\ Become("rz", "pos", Told.file, 0)
        /\ Reply(<<Header("ZRPOS", 0)>>)
     \/ /\ setting.skips
        /\ Become("rz", "init", Told.file, 0)
        /\ Reply(<<Header("ZSKIP", 0)>>)
        /\ UNCHANGED kept

RzData ==
  /\ Told.kind = "ZDATA" /\ remote.st \in {"pos", "wait"}
  /\ IF Told.count = Received
       THEN Become("rz", "data", remote.file, remote.offset) /\ Reply(<<>>)
       ELSE Reply(<<Header("ZRPOS", Received)>>) /\ UNCHANGED remote
  /\ UNCHANGED kept

RzSubpacket ==
  /\ Told.kind = "data" /\ remote.st = "data"
  /\ kept' = [kept EXCEPT ![remote.file] = Append(@, <<Told.file, Told.count>>)]
  /\ Become("rz", IF Told.end = "W" THEN "wait" ELSE "data", remote.file, Received + 1)
  /\ Reply(IF Told.end = "W" THEN <<Header("ZACK", Received + 1)>> ELSE <<>>)

RzEof ==
  /\ Told.kind = "ZEOF" /\ remote.st \in {"pos", "wait"} /\ Told.count = Received
  /\ Become("rz", "init", remote.file, 0)
  /\ Reply(<<Header("ZRINIT", 0)>>)
  /\ UNCHANGED kept

RzFin ==
  /\ Told.kind = "ZFIN" /\ remote.st = "init"
  /\ Become("rz", "oo", remote.file, 0)
  /\ Reply(<<Header("ZFIN", 0)>>)
  /\ UNCHANGED kept

RzDone == Told.kind = "OO" /\ remote.st = "oo" /\ Leave(<<>>) /\ UNCHANGED kept

RzIgnores ==
  /\ \/ Told.kind = "meta" /\ remote.st \notin {"init", "pos"}
     \/ Told.kind = "ZDATA" /\ remote.st \notin {"pos", "wait"}
     \/ Told.kind = "data" /\ remote.st # "data"
     \/ Told.kind = "ZEOF" /\ ~(remote.st \in {"pos", "wait"} /\ Told.count = Received)
     \/ Told.kind = "ZFIN" /\ remote.st # "init"
     \/ Told.kind = "OO" /\ remote.st # "oo"
     \/ Told.kind \in {"ZFILE", "ZRINIT", "ZRPOS", "ZACK"}
  /\ UNCHANGED <<remote, kept, toDesk>>

RzHears ==
  /\ Hosts("rz")
  /\ \/ RzMeta \/ RzData \/ RzSubpacket \/ RzEof \/ RzFin \/ RzDone \/ RzIgnores
     \/ Killed /\ UNCHANGED kept
  /\ toRemote' = Tail(toRemote)
  /\ UNCHANGED <<setting, desk, store, commands, retries, faults>>

\* The shell is told what nobody reads any more.
ShellHears ==
  /\ Hosts("shell")
  /\ toRemote' = Tail(toRemote)
  /\ UNCHANGED <<setting, desk, store, toDesk, far, faults>>

Remote == SzHears \/ SzSends \/ RzHears \/ ShellHears \/ GiveUpWaiting

-------------------------------------------------------------------------------
Next ==
  \/ Desktop \/ Remote \/ CancelZmodem \/ WindowEnds \/ Timeout \/ Abort
  \/ \E program \in {"sz", "rz"} : Run(program)

Safety == Init /\ [][Next]_vars

\* The output is read and the user answers dialogs; the programs run; the discard
\* window passes.
Fairness == WF_vars(Desktop) /\ WF_vars(Remote) /\ WF_vars(WindowEnds)

Spec == Safety /\ Fairness

-------------------------------------------------------------------------------
(***************************************************************************)
(* Properties                                                              *)
(***************************************************************************)

\* A received file is put in its place only when it is complete and in order, however
\* often the remote repeats itself or goes back (BeginsHere, EndsHere); and what a transfer
\* shows as sent has arrived at an rz that is there to the end, which sends ZRINIT for a
\* file it has, and at no other time the sender expects one (SendFrom, FileComplete).
ReceivedIsWhole == \A k \in DOMAIN committed : committed[k].data = Whole(committed[k].file)

SentIsWhole ==
  ~setting.aborts /\ mode = "send" /\ remote.program = "rz" =>
    \A f \in sent : kept[f] = Whole(f)

TransferredIsWhole == ReceivedIsWhole /\ SentIsWhole

\* When the session has no transfer, no file is open (cancelLocal).  Unless a remote sz
\* sends a ZFILE again, none is listed as running then (the notifications of fail and
\* cancelZmodem, and of a file's end), and no handle is ever forgotten (SaveFile).  A ZFILE
\* sent again can do both: its late answer makes sz pass over a file that is open, and
\* the ZFIN that follows ends the transfer without a notification (ReceiveFin).
NothingLeftBehind ==
  /\ mode = "none" => handle = NoHandle
  /\ "file" \notin setting.timeouts => lost = 0 /\ (mode = "none" => listed = {})

\* Transfers end, on both sides, however they end: the programs do not die silently or
\* pass over a file, the user does not type ahead, and files can be read.
TransfersEnd ==
  ~setting.aborts /\ ~setting.skips /\ ~setting.slow /\ "read" \notin setting.faults =>
    <>[](mode = "none" /\ remote.program = "shell")

===============================================================================
