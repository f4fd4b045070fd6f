------------------------- MODULE ZmodemSessionProofs -------------------------
(***************************************************************************)
(* Proofs about ZmodemSession, for any files and blocks, any number of     *)
(* commands, retries and faults, and whatever the remote does.             *)
(*                                                                         *)
(* What is received.  The argument runs along the channel from sz: what is *)
(* under way is a sequence that sz can have said (WellFormed), all of it   *)
(* continues what the desktop has (Inbound), and what sz waits for is the  *)
(* answer the desktop has given or will give (Settled).  That needs a sz   *)
(* that does not repeat a ZFILE (Patient): its headers do not name the     *)
(* file they are about, and the answers to two of them cannot be told      *)
(* apart.  That no file stays open needs none of it.                       *)
(***************************************************************************)
EXTENDS ZmodemSession, SequenceTheorems, TLAPS

-------------------------------------------------------------------------------
(***************************************************************************)
(* Sequences: what is read from the front of a channel, and added behind.  *)
(***************************************************************************)

Rest(s, n) == SubSeq(s, n + 1, Len(s))

LEMMA RestIs ==
  ASSUME NEW S, NEW s \in Seq(S), NEW n \in DOMAIN s
  PROVE  /\ Rest(s, n) \in Seq(S)
         /\ Len(Rest(s, n)) = Len(s) - n
         /\ Len(Rest(s, n)) \in Nat
         /\ \A i \in 1..Len(Rest(s, n)) : i + n \in 1..Len(s) /\ Rest(s, n)[i] = s[i + n]
<1>1. Len(s) \in Nat /\ n \in 1..Len(s) /\ DOMAIN s = 1..Len(s)
  BY LenProperties
<1>2. \A i \in (n + 1)..Len(s) : s[i] \in S
  BY <1>1, ElementOfSeq
<1> DEFINE m == n + 1
           l == Len(s)
<1>3. m \in Int /\ l \in Int /\ \A i \in m..l : s[i] \in S
  BY <1>1, <1>2
<1> HIDE DEF m, l
<1>4. /\ SubSeq(s, m, l) \in Seq(S)
      /\ Len(SubSeq(s, m, l)) = IF m <= l THEN l - m + 1 ELSE 0
      /\ \A i \in 1..(l - m + 1) : SubSeq(s, m, l)[i] = s[m + i - 1]
  BY <1>3, SubSeqProperties
<1>5. (IF m <= l THEN l - m + 1 ELSE 0) = Len(s) - n /\ l - m + 1 = Len(s) - n
  BY <1>1 DEF m, l
<1>6. \A i \in 1..(Len(s) - n) : m + i - 1 = i + n /\ i + n \in 1..Len(s)
  BY <1>1 DEF m, l
<1>7. Rest(s, n) = SubSeq(s, m, l)
  BY Zenon DEF Rest, m, l
<1>8. Len(Rest(s, n)) = Len(s) - n /\ Len(s) - n \in Nat
  BY <1>1, <1>4, <1>5, <1>7
<1> QED
  BY <1>4, <1>5, <1>6, <1>7, <1>8, Zenon

LEMMA TailIs ==
  ASSUME NEW S, NEW s \in Seq(S), s # <<>>
  PROVE  /\ Tail(s) = Rest(s, 1)
         /\ 1 \in DOMAIN s
         /\ Head(s) = s[1]
         /\ Head(s) \in S
<1>1. Len(s) \in Nat \ {0} /\ DOMAIN s = 1..Len(s)
  BY EmptySeq, LenProperties
<1>2. 1 \in DOMAIN s /\ s[1] \in S
  BY <1>1, ElementOfSeq
<1> QED
  BY <1>1, <1>2, HeadTailProperties DEF Rest

LEMMA JoinedIs ==
  ASSUME NEW S, NEW s \in Seq(S), NEW t \in Seq(S)
  PROVE  /\ s \o t \in Seq(S)
         /\ Len(s) \in Nat /\ Len(t) \in Nat
         /\ Len(s \o t) = Len(s) + Len(t)
         /\ \A i \in 1..Len(s) : (s \o t)[i] = s[i]
         /\ \A i \in 1..Len(t) : (s \o t)[Len(s) + i] = t[i]
<1>1. /\ s \o t \in Seq(S)
      /\ Len(s) \in Nat /\ Len(t) \in Nat
      /\ Len(s \o t) = Len(s) + Len(t)
      /\ \A i \in 1..(Len(s) + Len(t)) :
           (s \o t)[i] = IF i <= Len(s) THEN s[i] ELSE t[i - Len(s)]
  BY ConcatProperties, LenProperties
<1>2. ASSUME NEW i \in 1..Len(t)
      PROVE  (s \o t)[Len(s) + i] = t[i]
  <2>1. Len(s) + i \in 1..(Len(s) + Len(t)) /\ ~(Len(s) + i <= Len(s)) /\ Len(s) + i - Len(s) = i
    BY <1>1
  <2> QED
    BY <1>1, <2>1
<1> QED
  BY <1>1, <1>2

\* Each place of a joined sequence is one of the first or of the second.
LEMMA JoinedPlaces ==
  ASSUME NEW S, NEW s \in Seq(S), NEW t \in Seq(S), NEW i \in 1..Len(s \o t)
  PROVE  \/ i \in 1..Len(s) /\ (s \o t)[i] = s[i]
         \/ /\ i - Len(s) \in 1..Len(t) /\ (s \o t)[i] = t[i - Len(s)]
            /\ i > Len(s)
<1>1. Len(s) \in Nat /\ Len(t) \in Nat /\ Len(s \o t) = Len(s) + Len(t)
  BY JoinedIs
<1>2. CASE i <= Len(s)
  BY <1>1, <1>2, JoinedIs
<1>3. CASE i > Len(s)
  <2>1. i - Len(s) \in 1..Len(t) /\ Len(s) + (i - Len(s)) = i
    BY <1>1, <1>3
  <2> QED
    BY <2>1, <1>3, JoinedIs
<1> QED
  BY <1>1, <1>2, <1>3

-------------------------------------------------------------------------------
(***************************************************************************)
(* Types.                                                                  *)
(***************************************************************************)

OfFile == {"ZFILE", "meta", "ZDATA", "data", "ZEOF"}

Others == {"ZRQINIT", "ZRINIT", "ZRPOS", "ZACK", "ZSKIP", "ZFIN", "CAN", "OO", "text"}
Ends == {"-", "G", "Q", "W", "E"}

\* What travels names its file, if it has one.
Entry ==
  {x \in [kind : OfFile \cup Others, count : Nat, file : Nat, end : Ends] :
     IF x.kind \in OfFile THEN x.file \in Files ELSE x.file = 0}

Block == Nat \X Nat

Programs ==
  [program : {"shell"}, st : {"prompt"}, file : Nat, offset : Nat]
    \cup [program : {"sz"}, st : {"init", "file", "data", "ack", "eof", "fin"},
          file : Files, offset : Nat]
    \cup [program : {"rz"}, st : {"init", "pos", "data", "wait", "oo"},
          file : Files, offset : Nat]

Senders ==
  [st : {"init"}, index : Nat]
    \cup [st : {"pos", "ack", "done", "finish"}, index : Files]

Receivers ==
  [st : {"session", "meta", "fileBegin", "data", "waiting"}, count : Nat,
   file : Nat, dirty : BOOLEAN]

Typed ==
  /\ setting \in Settings
  /\ mode \in {"none", "receive", "send"}
  /\ rcv \in Receivers /\ snd \in Senders
  /\ dialog \in {"none", "save", "choose"}
  /\ discard \in BOOLEAN /\ reading \in BOOLEAN
  /\ handle = NoHandle \/ handle \in Seq(Block)
  /\ lost \in Nat
  /\ committed \in Seq([file : Nat, data : Seq(Block)])
  /\ sent \subseteq Files /\ listed \subseteq Nat
  /\ toDesk \in Seq(Entry) /\ toRemote \in Seq(Entry)
  /\ remote \in Programs
  /\ kept \in [Files -> Seq(Block)]

LEMMA SizeIs ==
  /\ Files = 1..Len(Size) /\ Len(Size) \in Nat \ {0}
  /\ 1 \in Files /\ Len(Size) \in Files /\ 0 \notin Files /\ Files \subseteq Nat
  /\ \A f \in Files : Size[f] \in Nat
<1>1. Size \in Seq(Nat) /\ Size # <<>>
  BY SizeAssumption
<1>2. Len(Size) \in Nat \ {0} /\ DOMAIN Size = 1..Len(Size)
  BY <1>1, EmptySeq, LenProperties
<1>3. \A f \in 1..Len(Size) : Size[f] \in Nat
  BY <1>1, ElementOfSeq
<1> QED
  BY <1>2, <1>3 DEF Files

LEMMA SettingIs ==
  ASSUME Typed
  PROVE  /\ IsSetting(setting)
         /\ setting.perAck \in Nat \ {0}
         /\ setting.timeouts \subseteq {"init", "file", "eof", "pos", "wait"}
  BY SettingAssumption DEF Typed, IsSetting

\* The items.
LEMMA ItemsAre ==
  /\ \A frame \in Others, count \in Nat : Header(frame, count) \in Entry
  /\ \A f \in Files, frame \in OfFile, count \in Nat : Of(f, Header(frame, count)) \in Entry
  /\ \A f \in Files : Meta(f) \in Entry
  /\ \A f \in Files, b \in Nat, end \in Ends : Data(f, b, end) \in Entry
  /\ Text \in Entry /\ Cancel \in Entry /\ OverAndOut \in Entry
<1>1. ASSUME NEW frame \in Others, NEW count \in Nat
      PROVE  Header(frame, count) \in Entry
  <2>1. frame \notin OfFile /\ frame \in OfFile \cup Others
    BY DEF Others, OfFile
  <2> QED
    BY <2>1 DEF Entry, Header, Ends
<1>2. ASSUME NEW f \in Files, NEW frame \in OfFile, NEW count \in Nat
      PROVE  Of(f, Header(frame, count)) \in Entry
  <2>1. f \in Nat
    BY SizeIs
  <2>2. Of(f, Header(frame, count)) = [kind |-> frame, count |-> count, file |-> f, end |-> "-"]
    BY DEF Of, Header
  <2> QED
    BY <2>1, <2>2 DEF Entry, Ends
<1>3. ASSUME NEW f \in Files
      PROVE  Meta(f) \in Entry /\ \A b \in Nat, end \in Ends : Data(f, b, end) \in Entry
  <2>1. f \in Nat /\ {"meta", "data"} \subseteq OfFile
    BY SizeIs DEF OfFile
  <2> QED
    BY <2>1 DEF Entry, Meta, Data, Ends
<1>4. Text \in Entry /\ Cancel \in Entry /\ OverAndOut \in Entry
  BY <1>1 DEF Text, Cancel, OverAndOut, Others
<1> QED
  BY <1>1, <1>2, <1>3, <1>4

LEMMA Reads ==
  ASSUME Typed, toDesk # <<>>, Consume \/ ConsumeChunk
  PROVE  \E n \in DOMAIN toDesk :
            toDesk' = Rest(toDesk, n) /\ (Consume => n = 1) /\ toDesk' \in Seq(Entry)
<1>1. toDesk \in Seq(Entry)
  BY DEF Typed
<1>2. CASE Consume
  <2>1. toDesk' = Rest(toDesk, 1) /\ 1 \in DOMAIN toDesk
    BY <1>1, <1>2, TailIs DEF Consume
  <2>2. toDesk' \in Seq(Entry)
    BY <1>1, <2>1, RestIs
  <2> QED
    BY <2>1, <2>2
<1>3. CASE ConsumeChunk /\ ~Consume
  <2>1. PICK n \in DOMAIN toDesk : toDesk' = Rest(toDesk, n)
    BY <1>3 DEF ConsumeChunk, Rest
  <2>2. toDesk' \in Seq(Entry)
    BY <1>1, <2>1, RestIs
  <2> QED
    BY <2>1, <2>2, <1>3
<1> QED
  BY <1>2, <1>3

LEMMA Adds ==
  ASSUME Typed, NEW items \in Seq(Entry)
  PROVE  /\ Send(items) => toRemote' \in Seq(Entry)
         /\ Reply(items) => toDesk' \in Seq(Entry)
<1>1. toDesk \in Seq(Entry) /\ toRemote \in Seq(Entry)
  BY DEF Typed
<1>2. toDesk \o items \in Seq(Entry) /\ toRemote \o items \in Seq(Entry)
  BY <1>1, JoinedIs
<1> QED
  BY <1>2 DEF Send, Reply

LEMMA Head1 ==
  ASSUME Typed
  PROVE  /\ toDesk # <<>> => Item \in Entry /\ Item = toDesk[1] /\ 1 \in DOMAIN toDesk
         /\ toRemote # <<>> => Told \in Entry /\ Told = toRemote[1] /\ 1 \in DOMAIN toRemote
BY TailIs DEF Typed, Item, Told

LEMMA EntryIs ==
  ASSUME NEW x \in Entry
  PROVE  /\ x \in [kind : OfFile \cup Others, count : Nat, file : Nat, end : Ends]
         /\ x.kind \in OfFile => x.file \in Files
         /\ x.kind \notin OfFile => x.file = 0
BY DEF Entry

LEMMA FrameIs ==
  ASSUME NEW f \in Files, NEW offset \in Nat, setting.perAck \in Nat \ {0}, ~AllSent(f, offset)
  PROVE  /\ Frame(f, offset) \in Seq(Entry)
         /\ \E length \in Nat \ {0} :
              /\ offset + length <= Size[f]
              /\ Len(Frame(f, offset)) = length + 1
              /\ Frame(f, offset)[1] = Of(f, Header("ZDATA", offset))
              /\ \A k \in 1..length :
                   Frame(f, offset)[k + 1] =
                     Data(f, offset + k, IF k = length THEN "W" ELSE "G")
<1> DEFINE left == Size[f] - offset
           length == IF left < setting.perAck THEN left ELSE setting.perAck
           first == <<Of(f, Header("ZDATA", offset))>>
           blocks == [k \in 1..length |-> Data(f, offset + k, IF k = length THEN "W" ELSE "G")]
<1>1. left \in Nat \ {0} /\ length \in Nat \ {0} /\ offset + length <= Size[f]
  BY SizeIs DEF AllSent
<1>2. Frame(f, offset) = first \o blocks
  BY DEF Frame
<1>3. first \in Seq(Entry) /\ Len(first) = 1 /\ first[1] = Of(f, Header("ZDATA", offset))
  <2>1. Of(f, Header("ZDATA", offset)) \in Entry
    BY ItemsAre DEF OfFile
  <2> HIDE DEF Entry
  <2> QED
    BY <2>1
<1>4. blocks \in Seq(Entry) /\ Len(blocks) = length
  <2>1. \A k \in 1..length : Data(f, offset + k, IF k = length THEN "W" ELSE "G") \in Entry
    BY <1>1, ItemsAre DEF Ends
  <2>2. \A k \in 1..length : blocks[k] \in Entry
    BY <2>1
  <2>3. blocks \in [1..length -> Entry]
    BY <2>1
  <2> HIDE DEF blocks, length
  <2> QED
    BY <1>1, <2>3
<1> HIDE DEF first, blocks, length, left
<1>5. /\ first \o blocks \in Seq(Entry)
      /\ Len(first \o blocks) = 1 + length
      /\ (first \o blocks)[1] = first[1]
      /\ \A k \in 1..length : (first \o blocks)[1 + k] = blocks[k]
  <2>1. /\ first \o blocks \in Seq(Entry)
        /\ Len(first \o blocks) = Len(first) + Len(blocks)
        /\ \A k \in 1..Len(first) : (first \o blocks)[k] = first[k]
        /\ \A k \in 1..Len(blocks) : (first \o blocks)[Len(first) + k] = blocks[k]
    <3>1. first \in Seq(Entry) /\ blocks \in Seq(Entry)
      BY <1>3, <1>4
    <3> QED
      BY <3>1, JoinedIs
  <2>2. 1 \in 1..Len(first)
    BY <1>3
  <2>3. Len(first) = 1 /\ Len(blocks) = length
    BY <1>3, <1>4
  <2> DEFINE joined == first \o blocks
  <2>4. /\ joined \in Seq(Entry)
        /\ Len(joined) = Len(first) + Len(blocks)
        /\ \A k \in 1..Len(first) : joined[k] = first[k]
        /\ \A k \in 1..Len(blocks) : joined[Len(first) + k] = blocks[k]
    BY <2>1
  <2> HIDE DEF joined
  <2>5. joined[1] = first[1] /\ \A k \in 1..length : joined[1 + k] = blocks[k]
    BY <2>2, <2>3, <2>4
  <2> QED
    BY <2>3, <2>4, <2>5 DEF joined
<1>6. \A k \in 1..length : blocks[k] = Data(f, offset + k, IF k = length THEN "W" ELSE "G")
  BY DEF blocks
<1>7. 1 + length = length + 1 /\ \A k \in 1..length : 1 + k = k + 1
  BY <1>1
<1>8. /\ Len(Frame(f, offset)) = length + 1
      /\ Frame(f, offset)[1] = Of(f, Header("ZDATA", offset))
      /\ \A k \in 1..length :
           Frame(f, offset)[k + 1] = Data(f, offset + k, IF k = length THEN "W" ELSE "G")
  BY <1>2, <1>3, <1>5, <1>6, <1>7
<1> QED
  BY <1>1, <1>2, <1>5, <1>8, Zenon

-------------------------------------------------------------------------------
(***************************************************************************)
(* Type correctness.                                                       *)
(***************************************************************************)

\* A failure sends a CAN, and leaves no transfer.
LEMMA FailIs ==
  ASSUME Typed, Fail
  PROVE  /\ mode' = "none" /\ rcv' = NewReceiver /\ snd' = NewSender /\ handle' = NoHandle
         /\ discard' = TRUE
         /\ toRemote' = toRemote \o <<Cancel>> /\ toRemote' \in Seq(Entry)
         /\ UNCHANGED <<lost, committed, sent>>
         /\ listed' \subseteq listed
         /\ listed' = IF mode = "receive"
                        THEN IF handle # NoHandle THEN listed \ {rcv.file} ELSE listed
                        ELSE listed \ {snd.index}
<1>1. Cancel \in Entry
  BY ItemsAre
<1>2. <<Cancel>> \in Seq(Entry)
  BY <1>1
<1>3. toRemote' \in Seq(Entry)
  BY <1>2, Adds DEF Fail, CancelRemote
<1> QED
  BY <1>3 DEF Fail, CancelLocal, Unlist, CancelRemote, Send

\* The items that each action adds to a channel.
LEMMA AddedAre ==
  /\ \A frame \in Others, count \in Nat : <<Header(frame, count)>> \in Seq(Entry)
  /\ \A f \in Files, frame \in OfFile, count \in Nat :
       <<Of(f, Header(frame, count))>> \in Seq(Entry)
  /\ \A f \in Files : <<Of(f, Header("ZFILE", 0)), Meta(f)>> \in Seq(Entry)
  /\ \A f \in Files, b \in Nat, end \in Ends : <<Data(f, b, end)>> \in Seq(Entry)
  /\ \A f \in Files, c \in Nat, frame \in OfFile :
       <<Data(f, 0, "E"), Of(f, Header(frame, c))>> \in Seq(Entry)
  /\ <<Text>> \in Seq(Entry) /\ <<Cancel, Text>> \in Seq(Entry) /\ <<Cancel>> \in Seq(Entry)
  /\ <<OverAndOut>> \in Seq(Entry) /\ <<>> \in Seq(Entry)
<1>1. \A x \in Entry : <<x>> \in Seq(Entry)
  OBVIOUS
<1>2. \A x, y \in Entry : <<x, y>> \in Seq(Entry)
  OBVIOUS
<1>3. "ZFILE" \in OfFile /\ "E" \in Ends
  BY DEF OfFile, Ends
<1>4. <<>> \in Seq(Entry)
  OBVIOUS
<1> HIDE DEF Entry
<1> QED
  BY <1>1, <1>2, <1>3, <1>4, ItemsAre

LEMMA TypedInit == Init => Typed
<1> SUFFICES ASSUME Init
             PROVE  Typed
  OBVIOUS
<1>1. rcv \in Receivers /\ snd \in Senders /\ remote \in Programs
  BY DEF Init, NewReceiver, NewSender, Receivers, Senders, Programs
<1>2. kept \in [Files -> Seq(Block)]
  <2>1. <<>> \in Seq(Block) 
    OBVIOUS
  <2> QED
    BY <2>1 DEF Init
<1>3. /\ <<>> \in Seq(Entry)
      /\ <<>> \in Seq([file : Nat, data : Seq(Block)])
  OBVIOUS
<1>4. {} \subseteq Files /\ {} \subseteq Nat
  OBVIOUS
<1> HIDE DEF Entry
<1> QED
  BY <1>1, <1>2, <1>3, <1>4 DEF Init, Typed

LEMMA TypedDesk ==
  ASSUME Typed, Desktop \/ CancelZmodem \/ WindowEnds
  PROVE  Typed'
<1> USE DEF desk, store, wire, far
<1>0. /\ toDesk # <<>> => Item \in Entry
      /\ mode \in {"none", "receive", "send"} /\ snd \in Senders /\ rcv \in Receivers
      /\ setting.perAck \in Nat \ {0}
  BY Head1, SettingIs DEF Typed
<1>a. NewReceiver \in Receivers /\ NewSender \in Senders
  BY DEF NewReceiver, NewSender, Receivers, Senders
<1>1. CASE Discard
  <2>1. toDesk # <<>> /\ (Consume \/ ConsumeChunk)
    BY <1>1 DEF Discard
  <2>2. toDesk' \in Seq(Entry)
    BY <2>1, Reads
  <2>3. toRemote' \in Seq(Entry)
    BY <1>1 DEF Typed, Discard
  <2> QED
    BY <1>1, <1>a, <2>2, <2>3 DEF Typed, Discard
<1>2. CASE Show
  <2>1. toDesk # <<>> /\ (Consume \/ ConsumeChunk)
    BY <1>2 DEF Show
  <2>2. toDesk' \in Seq(Entry)
    BY <2>1, Reads
  <2>3. toRemote' \in Seq(Entry)
    BY <1>2 DEF Typed, Show
  <2> QED
    BY <1>2, <1>a, <2>2, <2>3 DEF Typed, Show
<1>3. CASE DetectReceive
  <2>1. toDesk # <<>> /\ (Consume \/ ConsumeChunk)
    BY <1>3 DEF DetectReceive, Hears, NewReceiver
  <2>2. toDesk' \in Seq(Entry)
    BY <2>1, Reads
  <2>3. toRemote' \in Seq(Entry)
    <3>1. <<Header("ZRINIT", 0)>> \in Seq(Entry)
      BY AddedAre DEF Others
    <3> QED
      BY <1>3, <3>1, Adds DEF DetectReceive
  <2> QED
    BY <1>3, <1>a, <2>2, <2>3 DEF Typed, DetectReceive, Hears
<1>4. CASE DetectSend
  <2>1. toDesk # <<>> /\ (Consume \/ ConsumeChunk)
    BY <1>4 DEF DetectSend, Hears, NewSender
  <2>2. toDesk' \in Seq(Entry)
    BY <2>1, Reads
  <2>3. toRemote' \in Seq(Entry)
    BY <1>4 DEF Typed, DetectSend, Hears, NewSender
  <2> QED
    BY <1>4, <1>a, <2>2, <2>3 DEF Typed, DetectSend, Hears
<1>5. CASE ReceiveInit
  <2>1. toDesk # <<>> /\ (Consume \/ ConsumeChunk)
    BY <1>5 DEF ReceiveInit, Receives, Hears, Goes
  <2>2. toDesk' \in Seq(Entry)
    BY <2>1, Reads
  <2>3. toRemote' \in Seq(Entry)
    <3>1. <<Header("ZRINIT", 0)>> \in Seq(Entry)
      BY AddedAre DEF Others
    <3> QED
      BY <1>5, <3>1, Adds DEF ReceiveInit
  <2> QED
    BY <1>5, <1>a, <2>2, <2>3 DEF Typed, ReceiveInit, Receives, Hears, Goes
<1>6. CASE ReceiveFile
  <2>1. toDesk # <<>> /\ (Consume \/ ConsumeChunk)
    BY <1>6 DEF ReceiveFile, Receives, Hears, Goes
  <2>2. toDesk' \in Seq(Entry)
    BY <2>1, Reads
  <2>3. toRemote' \in Seq(Entry)
    BY <1>6 DEF Typed, ReceiveFile, Receives, Hears, Goes
  <2>4. rcv' \in Receivers
    BY <1>0, <1>6 DEF ReceiveFile, Receivers
  <2> QED
    BY <1>6, <1>a, <2>2, <2>3, <2>4 DEF Typed, ReceiveFile, Receives, Hears, Goes
<1>7. CASE ReceiveMeta
  <2>1. toDesk # <<>> /\ (Consume \/ ConsumeChunk)
    BY <1>7 DEF ReceiveMeta, Receives, Hears, Goes
  <2>2. toDesk' \in Seq(Entry)
    BY <2>1, Reads
  <2>3. toRemote' \in Seq(Entry)
    BY <1>7 DEF Typed, ReceiveMeta, Receives, Hears, Goes
  <2>4. rcv' \in Receivers
    BY <1>0, <1>7, <2>1, EntryIs DEF ReceiveMeta, Receivers
  <2> QED
    BY <1>7, <1>a, <2>2, <2>3, <2>4, EntryIs DEF Typed, ReceiveMeta, Receives, Hears, Goes
<1>8. CASE SaveFile
  <2>2. toDesk' \in Seq(Entry)
    BY <1>8 DEF Typed, SaveFile, Goes
  <2>3. toRemote' \in Seq(Entry)
    <3>1. <<Header("ZRPOS", 0)>> \in Seq(Entry)
      BY AddedAre DEF Others
    <3> QED
      BY <1>8, <3>1, Adds DEF SaveFile
  <2>4. <<>> \in Seq(Block) /\ listed' \subseteq Nat
    <3>1. <<>> \in Seq(Block)
      OBVIOUS
    <3>2. rcv.file \in Nat /\ listed \subseteq Nat
      BY <1>0 DEF Typed, Receivers
    <3> QED
      BY <1>8, <3>1, <3>2 DEF SaveFile
  <2> QED
    BY <1>8, <2>2, <2>3, <2>4 DEF Typed, SaveFile, Goes
<1>9. CASE ReceiveData
  <2>1. toDesk # <<>> /\ (Consume \/ ConsumeChunk)
    BY <1>9 DEF ReceiveData, Receives, Hears, Goes
  <2>2. toDesk' \in Seq(Entry)
    BY <2>1, Reads
  <2>3. toRemote' \in Seq(Entry)
    <3>1. <<IF rcv.st = "session" THEN Header("ZRINIT", 0)
                                 ELSE Header("ZRPOS", rcv.count)>> \in Seq(Entry)
      BY <1>0, AddedAre DEF Others, Receivers
    <3>2. UNCHANGED toRemote => toRemote' \in Seq(Entry)
      BY DEF Typed
    <3> QED
      BY <1>9, <3>1, <3>2, Adds DEF ReceiveData
  <2>4. rcv' \in Receivers
    BY <1>0, <1>9 DEF ReceiveData, Receivers
  <2> QED
    BY <1>9, <1>a, <2>2, <2>3, <2>4 DEF Typed, ReceiveData, Receives, Hears, Goes
<1>10. CASE ReceiveSubpacket
  <2>1. toDesk # <<>> /\ (Consume \/ ConsumeChunk)
    BY <1>10 DEF ReceiveSubpacket, Receives, Hears, Goes
  <2>2. toDesk' \in Seq(Entry)
    BY <2>1, Reads
  <2>3. toRemote' \in Seq(Entry)
    <3> DEFINE count == rcv.count + (IF Item.count = 0 THEN 0 ELSE 1)
               items == IF Item.end \in {"W", "Q"} THEN <<Header("ZACK", count)>> ELSE <<>>
    <3>1. count \in Nat
      BY <1>0 DEF Receivers
    <3>2. items \in Seq(Entry)
      BY <3>1, AddedAre DEF Others
    <3>3. Send(items)
      BY <1>10 DEF ReceiveSubpacket
    <3> QED
      BY <3>2, <3>3, Adds
  <2>4. rcv' \in Receivers
    <3> DEFINE count == rcv.count + (IF Item.count = 0 THEN 0 ELSE 1)
               st == IF Item.end \in {"W", "E"} THEN "waiting" ELSE "data"
    <3>1. count \in Nat /\ st \in {"waiting", "data"}
      BY <1>0 DEF Receivers
    <3>2. rcv' = [rcv EXCEPT !.count = count, !.st = st]
      BY <1>10 DEF ReceiveSubpacket
    <3> HIDE DEF count, st
    <3> QED
      BY <1>0, <3>1, <3>2 DEF Receivers
  <2>5. handle' = NoHandle \/ handle' \in Seq(Block)
    <3>1. <<Item.file, Item.count>> \in Block
      BY <1>0, <2>1, EntryIs DEF Block
    <3>2. handle \in Seq(Block) => Append(handle, <<Item.file, Item.count>>) \in Seq(Block)
      BY <3>1, AppendProperties
    <3> QED
      BY <1>10, <3>2 DEF ReceiveSubpacket, Typed
  <2> QED
    BY <1>10, <2>2, <2>3, <2>4, <2>5 DEF Typed, ReceiveSubpacket, Receives, Hears, Goes
<1>11. CASE ReceiveEof
  <2>1. toDesk # <<>> /\ (Consume \/ ConsumeChunk)
    BY <1>11 DEF ReceiveEof, Receives, Hears, Goes
  <2>2. toDesk' \in Seq(Entry)
    BY <2>1, Reads
  <2>3. toRemote' \in Seq(Entry)
    <3>1. <<Header("ZRINIT", 0)>> \in Seq(Entry)
      BY AddedAre DEF Others
    <3> QED
      BY <1>11, <3>1, Adds DEF ReceiveEof
  <2>4. rcv' \in Receivers
    BY <1>0, <1>11 DEF ReceiveEof, Receivers
  <2>5. committed' \in Seq([file : Nat, data : Seq(Block)])
    <3>1. CASE handle = NoHandle
      BY <3>1, <1>11 DEF ReceiveEof, Typed
    <3>2. CASE handle # NoHandle
      <4>1. [file |-> rcv.file, data |-> handle] \in [file : Nat, data : Seq(Block)]
        BY <3>2, <1>0 DEF Typed, Receivers
      <4>2. committed \in Seq([file : Nat, data : Seq(Block)])
        BY DEF Typed
      <4>3. Append(committed, [file |-> rcv.file, data |-> handle])
              \in Seq([file : Nat, data : Seq(Block)])
        BY <4>1, <4>2, AppendProperties
      <4> QED
        BY <4>3, <3>2, <1>11 DEF ReceiveEof
    <3> QED
      BY <3>1, <3>2
  <2> QED
    BY <1>11, <2>2, <2>3, <2>4, <2>5 DEF Typed, ReceiveEof, Receives, Hears, Goes
<1>12. CASE ReceiveFin
  <2>1. toDesk # <<>> /\ (Consume \/ ConsumeChunk)
    BY <1>12 DEF ReceiveFin, Receives, Hears, CancelLocal, NewReceiver, NewSender
  <2>2. toDesk' \in Seq(Entry)
    BY <2>1, Reads
  <2>3. toRemote' \in Seq(Entry)
    BY <1>12 DEF Typed, ReceiveFin, Receives, Hears, CancelLocal, NewReceiver, NewSender
  <2> QED
    BY <1>12, <1>a, <2>2, <2>3 DEF Typed, ReceiveFin, Receives, Hears, CancelLocal
<1>13. CASE ReceiveIgnored
  <2>1. toDesk # <<>> /\ (Consume \/ ConsumeChunk)
    BY <1>13 DEF ReceiveIgnored, Hears, Goes
  <2>2. toDesk' \in Seq(Entry)
    BY <2>1, Reads
  <2>3. toRemote' \in Seq(Entry)
    BY <1>13 DEF Typed, ReceiveIgnored, Hears, Goes
  <2> QED
    BY <1>13, <1>a, <2>2, <2>3 DEF Typed, ReceiveIgnored, Hears, Goes
<1>14. CASE ReceiveDirt
  <2>1. toDesk # <<>> /\ (Consume \/ ConsumeChunk)
    BY <1>14 DEF ReceiveDirt, Hears, Goes
  <2>2. toDesk' \in Seq(Entry)
    BY <2>1, Reads
  <2>3. toRemote' \in Seq(Entry)
    BY <1>14 DEF Typed, ReceiveDirt, Hears, Goes
  <2>4. rcv' \in Receivers
    BY <1>0, <1>14 DEF ReceiveDirt, Receivers
  <2> QED
    BY <1>14, <1>a, <2>2, <2>3, <2>4 DEF Typed, ReceiveDirt, Hears, Goes
<1>15. CASE ReceiveGarbage
  <2>1. toDesk # <<>> /\ (Consume \/ ConsumeChunk)
    BY <1>15 DEF ReceiveGarbage, Receives, Hears, Goes, Breaks
  <2>2. toDesk' \in Seq(Entry)
    BY <2>1, Reads
  <2>a. Fail
    BY <1>15 DEF ReceiveGarbage, Receives, Hears, Goes, Breaks
  <2>3. toRemote' \in Seq(Entry)
    BY <2>a, FailIs
  <2> QED
    BY <1>15, <1>a, <2>2, <2>3, <2>a, FailIs DEF Typed, ReceiveGarbage, Breaks
<1>16. CASE ReceiveBroken
  <2>1. toDesk # <<>> /\ (Consume \/ ConsumeChunk)
    BY <1>16 DEF ReceiveBroken, Receives, Hears, Goes, Breaks
  <2>2. toDesk' \in Seq(Entry)
    BY <2>1, Reads
  <2>a. Fail
    BY <1>16 DEF ReceiveBroken, Receives, Hears, Goes, Breaks
  <2>3. toRemote' \in Seq(Entry)
    BY <2>a, FailIs
  <2> QED
    BY <1>16, <1>a, <2>2, <2>3, <2>a, FailIs DEF Typed, ReceiveBroken, Breaks
<1>17. CASE WriteFails
  <2>1. toDesk # <<>> /\ (Consume \/ ConsumeChunk)
    BY <1>17 DEF WriteFails, Receives, Hears, Goes, Breaks, Failing
  <2>2. toDesk' \in Seq(Entry)
    BY <2>1, Reads
  <2>a. Fail
    BY <1>17 DEF WriteFails, Receives, Hears, Goes, Breaks, Failing
  <2>3. toRemote' \in Seq(Entry)
    BY <2>a, FailIs
  <2> QED
    BY <1>17, <1>a, <2>2, <2>3, <2>a, FailIs DEF Typed, WriteFails, Breaks, Failing
<1>18. CASE FinishFails
  <2>1. toDesk # <<>> /\ (Consume \/ ConsumeChunk)
    BY <1>18 DEF FinishFails, Receives, Hears, Goes, Breaks, Failing
  <2>2. toDesk' \in Seq(Entry)
    BY <2>1, Reads
  <2>a. Fail
    BY <1>18 DEF FinishFails, Receives, Hears, Goes, Breaks, Failing
  <2>3. toRemote' \in Seq(Entry)
    BY <2>a, FailIs
  <2> QED
    BY <1>18, <1>a, <2>2, <2>3, <2>a, FailIs DEF Typed, FinishFails, Breaks, Failing
<1>19. CASE RefuseFile
  <2>2. toDesk' \in Seq(Entry)
    BY <1>19 DEF Typed, RefuseFile, Breaks, Failing
  <2>a. Fail
    BY <1>19 DEF RefuseFile, Breaks, Failing
  <2>3. toRemote' \in Seq(Entry)
    BY <2>a, FailIs
  <2> QED
    BY <1>19, <1>a, <2>2, <2>3, <2>a, FailIs DEF Typed, RefuseFile, Breaks, Failing
<1>20. CASE ChooseFiles
  <2>2. toDesk' \in Seq(Entry)
    BY <1>20 DEF Typed, ChooseFiles, Offer
  <2>3. toRemote' \in Seq(Entry)
    BY <1>20, SizeIs, AddedAre, Adds DEF ChooseFiles, Offer
  <2>4. snd' \in Senders /\ sent' \subseteq Files /\ listed' \subseteq Nat
    BY <1>0, <1>20, SizeIs DEF ChooseFiles, Senders, Typed, Offer
  <2> QED
    BY <1>20, <1>a, <2>2, <2>3, <2>4 DEF Typed, ChooseFiles, Offer
<1>21. CASE OpenFails
  <2>2. toDesk' \in Seq(Entry)
    BY <1>21 DEF Typed, OpenFails, Breaks, Failing
  <2>a. Fail
    BY <1>21 DEF OpenFails, Breaks, Failing
  <2>3. toRemote' \in Seq(Entry)
    BY <2>a, FailIs
  <2> QED
    BY <1>21, <1>a, <2>2, <2>3, <2>a, FailIs DEF Typed, OpenFails, Breaks, Failing
<1>22. CASE RefuseUpload
  <2>2. toDesk' \in Seq(Entry)
    BY <1>22 DEF Typed, RefuseUpload, CancelLocal, NewReceiver, NewSender, Failing, CancelRemote
  <2>3. toRemote' \in Seq(Entry)
    BY <1>22, AddedAre, Adds DEF RefuseUpload, CancelRemote
  <2> QED
    BY <1>22, <1>a, <2>2, <2>3 DEF Typed, RefuseUpload, CancelLocal, Failing, CancelRemote
<1>23. CASE SendFrom
  <2>1. toDesk # <<>> /\ (Consume \/ ConsumeChunk)
    BY <1>23 DEF SendFrom, Sends, Hears, Continues
  <2>2. toDesk' \in Seq(Entry)
    BY <2>1, Reads
  <2>a. snd.index \in Files /\ Item.count \in Nat
    BY <1>0, <1>23, EntryIs DEF SendFrom, Sends, Hears, Senders
  <2>3. toRemote' \in Seq(Entry)
    <3>1. <<Of(snd.index, Header("ZEOF", Item.count))>> \in Seq(Entry)
      BY <2>a, AddedAre DEF OfFile
    <3>2. ~AllSent(snd.index, Item.count) => Frame(snd.index, Item.count) \in Seq(Entry)
      BY <2>a, <1>0, FrameIs
    <3> QED
      BY <1>23, <3>1, <3>2, Adds DEF SendFrom
  <2>4. snd' \in Senders /\ sent' \subseteq Files /\ listed' \subseteq Nat
    BY <1>0, <1>23, SizeIs, <2>a DEF SendFrom, Senders, Typed, Sends, Hears, Continues
  <2> QED
    BY <1>23, <1>a, <2>2, <2>3, <2>4, <2>a DEF Typed, SendFrom, Sends, Hears, Continues
<1>24. CASE FileComplete
  <2>1. toDesk # <<>> /\ (Consume \/ ConsumeChunk)
    BY <1>24 DEF FileComplete, Sends, Hears, Continues, Offer, Last
  <2>2. toDesk' \in Seq(Entry)
    BY <2>1, Reads
  <2>a. snd.index \in Files /\ (~Last(snd.index) => snd.index + 1 \in Files)
    BY <1>0, <1>24, SizeIs DEF FileComplete, Senders, Last
  <2>3. toRemote' \in Seq(Entry)
    <3>1. <<Header("ZFIN", 0)>> \in Seq(Entry)
      BY AddedAre DEF Others
    <3>2. ~Last(snd.index) =>
            <<Of(snd.index + 1, Header("ZFILE", 0)), Meta(snd.index + 1)>> \in Seq(Entry)
      BY <2>a, AddedAre
    <3> QED
      BY <1>24, <3>1, <3>2, Adds DEF FileComplete, Offer
  <2>4. snd' \in Senders /\ sent' \subseteq Files /\ listed' \subseteq Nat
    BY <1>0, <1>24, SizeIs, <2>a DEF FileComplete, Senders, Typed, Sends, Hears,
       Continues, Offer, Last
  <2> QED
    BY <1>24, <1>a, <2>2, <2>3, <2>4, <2>a DEF Typed, FileComplete, Sends, Hears,
       Continues, Offer, Last
<1>25. CASE SendFin
  <2>1. toDesk # <<>> /\ (Consume \/ ConsumeChunk)
    BY <1>25 DEF SendFin, Sends, Hears, CancelLocal, NewReceiver, NewSender
  <2>2. toDesk' \in Seq(Entry)
    BY <2>1, Reads
  <2>3. toRemote' \in Seq(Entry)
    BY <1>25, AddedAre, Adds DEF SendFin
  <2> QED
    BY <1>25, <1>a, <2>2, <2>3 DEF Typed, SendFin, Sends, Hears, CancelLocal
<1>26. CASE SendIgnored
  <2>1. toDesk # <<>> /\ (Consume \/ ConsumeChunk)
    BY <1>26 DEF SendIgnored, Hears
  <2>2. toDesk' \in Seq(Entry)
    BY <2>1, Reads
  <2>3. toRemote' \in Seq(Entry)
    BY <1>26 DEF Typed, SendIgnored, Hears
  <2> QED
    BY <1>26, <1>a, <2>2, <2>3 DEF Typed, SendIgnored, Hears
<1>27. CASE ReadFails
  <2>1. toDesk # <<>> /\ (Consume \/ ConsumeChunk)
    BY <1>27 DEF ReadFails, Sends, Hears, Failing
  <2>2. toDesk' \in Seq(Entry)
    BY <2>1, Reads
  <2>3. toRemote' \in Seq(Entry)
    BY <1>27 DEF Typed, ReadFails, Sends, Hears, Failing
  <2> QED
    BY <1>27, <1>a, <2>2, <2>3 DEF Typed, ReadFails, Sends, Hears, Failing
<1>28. CASE NextFails
  <2>1. toDesk # <<>> /\ (Consume \/ ConsumeChunk)
    BY <1>28 DEF NextFails, Sends, Hears, Failing, Last
  <2>2. toDesk' \in Seq(Entry)
    BY <2>1, Reads
  <2>3. toRemote' \in Seq(Entry)
    BY <1>28 DEF Typed, NextFails, Sends, Hears, Failing, Last
  <2>a. snd.index \in Files /\ snd.index + 1 \in Nat
    BY <1>0, <1>28, SizeIs DEF NextFails, Senders
  <2>4. snd' \in Senders /\ sent' \subseteq Files /\ listed' \subseteq Nat
    BY <1>0, <1>28, SizeIs, <2>a DEF NextFails, Senders, Typed, Sends, Hears, Failing, Last
  <2> QED
    BY <1>28, <1>a, <2>2, <2>3, <2>4 DEF Typed, NextFails, Sends, Hears, Failing, Last
<1>29. CASE CancelZmodem
  <2>2. toDesk' \in Seq(Entry)
    BY <1>29 DEF Typed, CancelZmodem
  <2>a. Fail
    BY <1>29 DEF CancelZmodem
  <2>3. toRemote' \in Seq(Entry)
    BY <2>a, FailIs
  <2> QED
    BY <1>29, <1>a, <2>2, <2>3, <2>a, FailIs DEF Typed, CancelZmodem
<1>30. CASE WindowEnds
  <2>2. toDesk' \in Seq(Entry)
    BY <1>30 DEF Typed, WindowEnds
  <2>3. toRemote' \in Seq(Entry)
    BY <1>30 DEF Typed, WindowEnds
  <2> QED
    BY <1>30, <1>a, <2>2, <2>3 DEF Typed, WindowEnds
<1> QED
  BY <1>1, <1>2, <1>3, <1>4, <1>5, <1>6, <1>7, <1>8, <1>9, <1>10, <1>11, <1>12, <1>13,
     <1>14, <1>15, <1>16, <1>17, <1>18, <1>19, <1>20, <1>21, <1>22, <1>23, <1>24, <1>25,
     <1>26, <1>27, <1>28, <1>29, <1>30 DEF Desktop

LEMMA HearsRest ==
  ASSUME Typed, toRemote # <<>>, toRemote' = Tail(toRemote)
  PROVE  toRemote' = Rest(toRemote, 1) /\ 1 \in DOMAIN toRemote /\ toRemote' \in Seq(Entry)
<1>1. toRemote \in Seq(Entry)
  BY DEF Typed
<1>2. toRemote' = Rest(toRemote, 1) /\ 1 \in DOMAIN toRemote
  BY <1>1, TailIs
<1> QED
  BY <1>1, <1>2, RestIs

LEMMA RemoteIs ==
  ASSUME Typed
  PROVE  /\ remote.program = "sz" =>
              /\ remote.st \in {"init", "file", "data", "ack", "eof", "fin"}
              /\ remote.file \in Files /\ remote.offset \in Nat
              /\ remote \in [program : {"sz"}, st : {"init", "file", "data", "ack", "eof", "fin"},
                             file : Files, offset : Nat]
         /\ remote.program = "rz" =>
              /\ remote.st \in {"init", "pos", "data", "wait", "oo"}
              /\ remote.file \in Files /\ remote.offset \in Nat
              /\ kept[remote.file] \in Seq(Block) /\ Received \in Nat
         /\ remote.program = "shell" => remote.st = "prompt"
         /\ remote.program \in {"shell", "sz", "rz"}
<1>1. remote \in Programs /\ kept \in [Files -> Seq(Block)]
  BY DEF Typed
<1>2. remote.program = "rz" => remote.file \in Files
  BY <1>1 DEF Programs
<1>3. remote.program = "rz" => kept[remote.file] \in Seq(Block) /\ Received \in Nat
  BY <1>1, <1>2, LenProperties DEF Received
<1> QED
  BY <1>1, <1>2, <1>3 DEF Programs

LEMMA BecomesSz ==
  ASSUME NEW st \in {"init", "file", "data", "ack", "eof", "fin"}, NEW f \in Files,
         NEW offset \in Nat, Become("sz", st, f, offset)
  PROVE  /\ remote' \in Programs
         /\ remote'.program = "sz" /\ remote'.st = st /\ remote'.file = f
         /\ remote'.offset = offset
BY DEF Become, Programs

LEMMA BecomesRz ==
  ASSUME NEW st \in {"init", "pos", "data", "wait", "oo"}, NEW f \in Files,
         NEW offset \in Nat, Become("rz", st, f, offset)
  PROVE  /\ remote' \in Programs
         /\ remote'.program = "rz" /\ remote'.st = st /\ remote'.file = f
         /\ remote'.offset = offset
BY DEF Become, Programs

LEMMA Pairs ==
  ASSUME NEW S, NEW x \in S, NEW y \in S
  PROVE  <<x>> \o <<y>> = <<x, y>>
<1>1. <<x>> \in Seq(S) /\ <<y>> \in Seq(S) /\ <<x, y>> \in Seq(S)
  OBVIOUS
<1> DEFINE joined == <<x>> \o <<y>>
           pair == <<x, y>>
<1>2. joined \in Seq(S) /\ Len(joined) = 2 /\ joined[1] = x /\ joined[2] = y
  BY <1>1
<1>3. pair \in Seq(S) /\ Len(pair) = 2 /\ pair[1] = x /\ pair[2] = y
  BY <1>1
<1> HIDE DEF joined, pair
<1>4. \A i \in 1..Len(joined) : joined[i] = pair[i]
  BY <1>2, <1>3
<1>5. joined = pair
  BY <1>2, <1>3, <1>4, SeqEqual
<1> QED
  BY <1>5 DEF joined, pair

LEMMA Leaves ==
  ASSUME Typed, NEW items, items = <<>> \/ items = <<Cancel>>, Leave(items)
  PROVE  /\ toDesk' \in Seq(Entry)
         /\ remote' \in Programs /\ remote'.program = "shell" /\ remote'.st = "prompt"
         /\ toDesk' = toDesk \o (items \o <<Text>>)
         /\ items \o <<Text>> = IF items = <<>> THEN <<Text>> ELSE <<Cancel, Text>>
<1>1. items \o <<Text>> = IF items = <<>> THEN <<Text>> ELSE <<Cancel, Text>>
  <2> HIDE DEF Text, Cancel
  <2>1. <<>> \o <<Text>> = <<Text>>
    OBVIOUS
  <2>2. <<Cancel>> \o <<Text>> = <<Cancel, Text>>
    <3>1. Cancel \in Entry /\ Text \in Entry
      BY ItemsAre
    <3> QED
      BY <3>1, Pairs
  <2>3. <<Cancel>> # <<>>
    OBVIOUS
  <2> QED
    BY <2>1, <2>2, <2>3
<1>2. items \o <<Text>> \in Seq(Entry)
  BY <1>1, AddedAre
<1>3. toDesk' \in Seq(Entry)
  BY <1>2, Adds DEF Leave
<1> QED
  BY <1>1, <1>3 DEF Leave, Become, Reply, Programs

\* What sz and rz do when they hear something.
LEMMA TypedSz ==
  ASSUME Typed, SzHears
  PROVE  Typed'
<1>0. /\ toRemote # <<>> /\ Told \in Entry /\ Told.count \in Nat /\ remote.program = "sz"
      /\ toRemote' \in Seq(Entry)
  BY Head1, HearsRest, EntryIs DEF SzHears, Hosts
<1>1. /\ remote.file \in Files /\ remote.offset \in Nat
      /\ remote.st \in {"init", "file", "data", "ack", "eof", "fin"}
  BY <1>0, RemoteIs
<1>2. toDesk' \in Seq(Entry) /\ remote' \in Programs
  <2>1. CASE SzInit
    <3> DEFINE next == IF remote.st = "eof" THEN remote.file + 1 ELSE 1
    <3>1. CASE next \in Files
      <4>1. <<Of(next, Header("ZFILE", 0)), Meta(next)>> \in Seq(Entry)
        BY <3>1, AddedAre
      <4>2. /\ Become("sz", "file", next, 0)
            /\ Reply(<<Of(next, Header("ZFILE", 0)), Meta(next)>>)
        BY <2>1, <3>1 DEF SzInit
      <4> QED
        BY <3>1, <4>1, <4>2, Adds, BecomesSz
    <3>2. CASE next \notin Files
      <4>1. <<Header("ZFIN", 0)>> \in Seq(Entry)
        BY AddedAre DEF Others
      <4>2. Become("sz", "fin", remote.file, 0) /\ Reply(<<Header("ZFIN", 0)>>)
        BY <2>1, <3>2 DEF SzInit
      <4> QED
        BY <1>1, <4>1, <4>2, Adds, BecomesSz
    <3> QED
      BY <3>1, <3>2
  <2>2. CASE SzPos
    <3>1. <<Of(remote.file, Header("ZDATA", Told.count))>> \in Seq(Entry)
      BY <1>0, <1>1, AddedAre DEF OfFile
    <3>2. <<Data(remote.file, 0, "E")>> \in Seq(Entry) /\ <<>> \in Seq(Entry)
      BY <1>1, AddedAre DEF Ends
    <3>3. (IF remote.st = "data" THEN <<Data(remote.file, 0, "E")>> ELSE <<>>)
            \o <<Of(remote.file, Header("ZDATA", Told.count))>> \in Seq(Entry)
      BY <3>1, <3>2, JoinedIs
    <3>4. toDesk' \in Seq(Entry)
      BY <2>2, <3>3, Adds DEF SzPos
    <3> QED
      BY <1>0, <1>1, <2>2, <3>4, BecomesSz DEF SzPos
  <2>3. CASE SzAck
    <3>1. /\ <<Of(remote.file, Header("ZDATA", remote.offset))>> \in Seq(Entry)
          /\ <<Of(remote.file, Header("ZEOF", remote.offset))>> \in Seq(Entry)
      BY <1>1, AddedAre DEF OfFile
    <3>2. toDesk' \in Seq(Entry)
      BY <2>3, <3>1, Adds DEF SzAck
    <3> QED
      BY <1>0, <1>1, <2>3, <3>2, BecomesSz DEF SzAck
  <2>4. CASE Killed
    BY <2>4, Leaves DEF Killed
  <2>5. CASE SzIgnores
    BY <2>5 DEF SzIgnores, Typed
  <2> QED
    BY <2>1, <2>2, <2>3, <2>4, <2>5 DEF SzHears
<1> QED
  BY <1>0, <1>2 DEF SzHears, Typed, desk, store

LEMMA TypedRz ==
  ASSUME Typed, RzHears
  PROVE  Typed'
<1>0. /\ toRemote # <<>> /\ Told \in Entry /\ Told.count \in Nat /\ remote.program = "rz"
      /\ toRemote' \in Seq(Entry)
      /\ Told.kind \in OfFile => Told.file \in Files
  BY Head1, HearsRest, EntryIs DEF RzHears, Hosts
<1>1. /\ remote.file \in Files /\ remote.offset \in Nat
      /\ kept[remote.file] \in Seq(Block) /\ Received \in Nat
  BY <1>0, RemoteIs
<1>a. /\ toDesk \in Seq(Entry) /\ remote \in Programs
      /\ kept \in [Files -> Seq(Block)] /\ <<>> \in Seq(Block)
  BY DEF Typed
<1>2. toDesk' \in Seq(Entry) /\ remote' \in Programs /\ kept' \in [Files -> Seq(Block)]
  <2>1. CASE RzMeta
    <3>1. Told.file \in Files
      BY <1>0, <2>1 DEF RzMeta, OfFile
    <3>2. <<Header("ZRPOS", 0)>> \in Seq(Entry) /\ <<Header("ZSKIP", 0)>> \in Seq(Entry)
      BY AddedAre DEF Others
    <3>3. toDesk' \in Seq(Entry) /\ remote' \in Programs
      BY <2>1, <3>1, <3>2, Adds, BecomesRz DEF RzMeta
    <3>4. kept' \in [Files -> Seq(Block)]
      BY <2>1, <1>a DEF RzMeta
    <3> QED
      BY <3>3, <3>4
  <2>2. CASE RzData
    <3>1. <<Header("ZRPOS", Received)>> \in Seq(Entry) /\ <<>> \in Seq(Entry)
      BY <1>1, AddedAre DEF Others
    <3> QED
      BY <2>2, <3>1, <1>1, <1>a, Adds, BecomesRz DEF RzData
  <2>3. CASE RzSubpacket
    <3>1. <<Header("ZACK", Received + 1)>> \in Seq(Entry) /\ <<>> \in Seq(Entry)
          /\ Received + 1 \in Nat
      BY <1>1, AddedAre DEF Others
    <3>2. toDesk' \in Seq(Entry) /\ remote' \in Programs
      BY <2>3, <3>1, <1>1, Adds, BecomesRz DEF RzSubpacket
    <3>3. <<Told.file, Told.count>> \in Block
      BY <1>0, EntryIs DEF Block
    <3>4. Append(kept[remote.file], <<Told.file, Told.count>>) \in Seq(Block)
      BY <1>1, <3>3, AppendProperties
    <3>5. kept' \in [Files -> Seq(Block)]
      BY <2>3, <3>4, <1>a DEF RzSubpacket
    <3> QED
      BY <3>2, <3>5
  <2>4. CASE RzEof
    <3>1. <<Header("ZRINIT", 0)>> \in Seq(Entry)
      BY AddedAre DEF Others
    <3> QED
      BY <2>4, <3>1, <1>1, <1>a, Adds, BecomesRz DEF RzEof
  <2>5. CASE RzFin
    <3>1. <<Header("ZFIN", 0)>> \in Seq(Entry)
      BY AddedAre DEF Others
    <3> QED
      BY <2>5, <3>1, <1>1, <1>a, Adds, BecomesRz DEF RzFin
  <2>6. CASE RzDone
    BY <2>6, <1>a, Leaves DEF RzDone
  <2>7. CASE RzIgnores
    BY <2>7, <1>a DEF RzIgnores
  <2>8. CASE Killed /\ UNCHANGED kept
    BY <2>8, <1>a, Leaves DEF Killed
  <2> QED
    BY <2>1, <2>2, <2>3, <2>4, <2>5, <2>6, <2>7, <2>8 DEF RzHears
<1> QED
  BY <1>0, <1>2 DEF RzHears, Typed, desk, store

\* What a program says once more.
LEMMA RepeatedIs ==
  ASSUME Typed, remote.program # "shell", remote.st \in setting.timeouts
  PROVE  /\ Repeated \in Seq(Entry)
         /\ \/ /\ remote.program = "sz" /\ remote.st = "init"
               /\ Repeated = <<Header("ZRQINIT", 0)>>
            \/ /\ remote.program = "sz" /\ remote.st = "file"
               /\ Repeated = <<Of(remote.file, Header("ZFILE", 0)), Meta(remote.file)>>
            \/ /\ remote.program = "sz" /\ remote.st = "eof"
               /\ Repeated = <<Of(remote.file, Header("ZEOF", remote.offset))>>
            \/ /\ remote.program = "rz" /\ remote.st = "init"
               /\ Repeated = <<Header("ZRINIT", 0)>>
            \/ /\ remote.program = "rz" /\ remote.st \in {"pos", "wait"}
               /\ Repeated = <<Header("ZRPOS", remote.offset)>>
<1>1. /\ remote.program \in {"sz", "rz"} /\ remote.file \in Files /\ remote.offset \in Nat
      /\ remote.program = "sz" => remote.st \in {"init", "file", "eof"}
      /\ remote.program = "rz" => remote.st \in {"init", "pos", "wait"}
  BY RemoteIs, SettingIs
<1>2. /\ <<Header("ZRQINIT", 0)>> \in Seq(Entry) /\ <<Header("ZRINIT", 0)>> \in Seq(Entry)
      /\ <<Header("ZRPOS", remote.offset)>> \in Seq(Entry)
      /\ <<Of(remote.file, Header("ZFILE", 0)), Meta(remote.file)>> \in Seq(Entry)
      /\ <<Of(remote.file, Header("ZEOF", remote.offset))>> \in Seq(Entry)
  BY <1>1, AddedAre DEF Others, OfFile
<1>3. CASE remote.program = "sz" /\ remote.st = "init"
  BY <1>2, <1>3 DEF Repeated
<1>4. CASE remote.program = "sz" /\ remote.st = "file"
  BY <1>2, <1>4 DEF Repeated
<1>5. CASE remote.program = "sz" /\ remote.st = "eof"
  BY <1>2, <1>5 DEF Repeated
<1>6. CASE remote.program = "rz" /\ remote.st = "init"
  BY <1>2, <1>6 DEF Repeated
<1>7. CASE remote.program = "rz" /\ remote.st \in {"pos", "wait"}
  BY <1>2, <1>7 DEF Repeated
<1> QED
  BY <1>1, <1>3, <1>4, <1>5, <1>6, <1>7

LEMMA TypedRemote ==
  ASSUME Typed,
         \/ Remote \/ Timeout \/ Abort
         \/ \E program \in {"sz", "rz"} : Run(program)
  PROVE  Typed'
<1> USE DEF desk, store
<1>1. CASE SzSends
  <2>1. /\ remote.file \in Files /\ remote.offset \in Nat /\ Size[remote.file] \in Nat
        /\ remote.offset + 1 \in Nat
    BY <1>1, RemoteIs, SizeIs DEF SzSends
  <2>2. toDesk' \in Seq(Entry) /\ remote' \in Programs
    <3>1. CASE remote.offset + 1 <= Size[remote.file]
      <4>1. PICK end \in {"G", "Q", "W"} :
              /\ Become("sz", IF end = "W" THEN "ack" ELSE "data", remote.file,
                        remote.offset + 1)
              /\ Reply(<<Data(remote.file, remote.offset + 1, end)>>)
        BY <1>1, <3>1, <2>1 DEF SzSends
      <4>2. <<Data(remote.file, remote.offset + 1, end)>> \in Seq(Entry)
        BY <2>1, AddedAre DEF Ends
      <4> QED
        BY <2>1, <4>1, <4>2, Adds, BecomesSz
    <3>2. CASE remote.offset + 1 > Size[remote.file]
      <4>1. <<Data(remote.file, 0, "E"), Of(remote.file, Header("ZEOF", Size[remote.file]))>>
              \in Seq(Entry)
        BY <2>1, AddedAre DEF OfFile
      <4>2. /\ Become("sz", "eof", remote.file, Size[remote.file])
            /\ Reply(<<Data(remote.file, 0, "E"),
                        Of(remote.file, Header("ZEOF", Size[remote.file]))>>)
        BY <1>1, <3>2, <2>1 DEF SzSends
      <4> QED
        BY <2>1, <4>1, <4>2, Adds, BecomesSz
    <3> QED
      BY <2>1, <3>1, <3>2
  <2> QED
    BY <1>1, <2>2 DEF SzSends, Typed
<1>2. CASE GiveUpWaiting
  BY <1>2, Leaves DEF GiveUpWaiting, Typed
<1>3. CASE ShellHears
  BY <1>3, HearsRest DEF ShellHears, Hosts, Typed, far
<1>4. CASE Timeout
  <2>1. Repeated \in Seq(Entry)
    BY <1>4, RepeatedIs DEF Timeout
  <2> QED
    BY <1>4, <2>1, Adds DEF Timeout, Typed
<1>5. CASE Abort
  BY <1>5, Leaves DEF Abort, Typed
<1>6. ASSUME NEW program \in {"sz", "rz"}, Run(program)
      PROVE  Typed'
  <2>1. /\ <<Header("ZRQINIT", 0)>> \in Seq(Entry) /\ <<Header("ZRINIT", 0)>> \in Seq(Entry)
        /\ <<>> \in Seq(Block)
    BY AddedAre DEF Others
  <2>2. toDesk' \in Seq(Entry)
    BY <1>6, <2>1, Adds DEF Run
  <2>3. remote' \in Programs
    BY <1>6, SizeIs, BecomesSz, BecomesRz DEF Run
  <2>4. kept' \in [Files -> Seq(Block)]
    BY <1>6, <2>1 DEF Run
  <2> QED
    BY <1>6, <2>2, <2>3, <2>4 DEF Run, Typed
<1> QED
  BY <1>1, <1>2, <1>3, <1>4, <1>5, <1>6, TypedSz, TypedRz DEF Remote

LEMMA TypedStep ==
  ASSUME Typed, [Next]_vars
  PROVE  Typed'
<1>1. CASE UNCHANGED vars
  BY <1>1 DEF Typed, vars, desk, store, wire, far
<1> QED
  BY <1>1, TypedDesk, TypedRemote DEF Next

\* Type correctness of the desktop's session, of the two channels with what is under way in
\* them, and of the remote programs (handleZmodem and what it calls).
THEOREM TypesAreRight == Spec => []Typed
<1>1. Init => Typed
  BY TypedInit
<1>2. Typed /\ [Next]_vars => Typed'
  BY TypedStep
<1> QED
  BY <1>1, <1>2, PTL DEF Spec, Safety

-------------------------------------------------------------------------------
(***************************************************************************)
(* What sz sends to the desktop, when it does not repeat a ZFILE.          *)
(***************************************************************************)

Patient == "file" \notin setting.timeouts

Sz == remote.program = "sz"
Rz == remote.program = "rz"

\* The last subpacket of a frame.
Closing(x) == x.kind = "data" /\ x.end \in {"W", "E"}

Parting == {"text", "CAN"}

\* The kinds that may come after an item, at any distance.  None is ZDATA, which sz sends
\* only when all it has said before has been read.
Followers(x) ==
  CASE x.kind = "ZRQINIT" -> {"ZRQINIT", "ZFILE", "meta"} \cup Parting
    [] x.kind = "ZFILE" -> {"meta"} \cup Parting
    [] x.kind \in {"meta", "ZFIN"} -> Parting
    [] Closing(x) \/ x.kind = "ZEOF" -> {"ZEOF", "ZFILE", "meta", "ZFIN"} \cup Parting
    [] x.kind \in {"ZDATA", "data"} /\ ~Closing(x) -> (OfFile \cup Others) \ {"ZDATA"}
    [] OTHER -> Others

WellFormed(s) ==
  /\ \A i, j \in DOMAIN s : i < j => s[j].kind \in Followers(s[i])
  /\ \A i \in DOMAIN s :
       /\ s[i].kind = "ZFILE" => i + 1 \in DOMAIN s /\ s[i + 1].kind = "meta"
       /\ s[i].kind = "ZEOF" => s[i].count = Size[s[i].file]
       /\ s[i].kind = "data" /\ s[i].count = 0 => s[i].end = "E"

Says(kinds) == \A i \in DOMAIN toDesk : toDesk[i].kind \in kinds

SaysOf(f) == \A i \in DOMAIN toDesk : toDesk[i].file = f

\* The end of a ZFILE is what sz has said last.
EndsWithMeta ==
  toDesk # <<>> =>
    LET n == Len(toDesk)
    IN  /\ toDesk[n].kind = "meta" /\ toDesk[n].file = remote.file
        /\ n > 1 => toDesk[n - 1].kind = "ZFILE"

Said ==
  /\ Sz =>
       /\ remote.st = "init" => Says({"ZRQINIT"})
       /\ remote.st = "file" => Says({"ZRQINIT", "ZEOF", "ZFILE", "meta"}) /\ EndsWithMeta
       /\ remote.st \in {"data", "ack"} =>
            /\ Says({"ZDATA", "data"}) /\ SaysOf(remote.file)
            /\ \A i \in DOMAIN toDesk : toDesk[i].kind = "data" => toDesk[i].count # 0
       /\ remote.st = "data" => \A i \in DOMAIN toDesk : ~Closing(toDesk[i])
       /\ remote.st = "eof" =>
            /\ Says({"ZDATA", "data", "ZEOF"}) /\ SaysOf(remote.file)
            /\ remote.offset = Size[remote.file]
       /\ remote.st = "fin" => Says({"ZEOF", "ZFIN"})
  /\ Rz => Says({"ZRINIT", "ZRPOS", "ZACK", "ZSKIP", "ZFIN"})
  /\ ~Sz /\ toDesk # <<>> => toDesk[Len(toDesk)].kind # "meta"

-------------------------------------------------------------------------------
(***************************************************************************)
(* What sz is told.                                                        *)
(***************************************************************************)

\* A program hears what comes before the first CAN.
Heeded(i) == \A j \in 1..i : toRemote[j].kind # "CAN"
Doomed == \E i \in DOMAIN toRemote : toRemote[i].kind = "CAN"

Orders(kinds) == \A i \in DOMAIN toRemote : Heeded(i) => toRemote[i].kind \in kinds

\* The last thing it hears.
Final(i) == \A j \in DOMAIN toRemote : j > i => ~Heeded(j)

Told1 ==
  Sz =>
    /\ remote.st = "init" => Orders({"ZRINIT", "ZFILE", "meta"})
    /\ remote.st = "file" => Orders({"ZRINIT", "ZRPOS"})
    /\ remote.st \in {"data", "ack"} => Orders({"ZACK"})
    /\ remote.st = "eof" => Orders({"ZACK", "ZRINIT"})
    /\ \A i \in DOMAIN toRemote : Heeded(i) =>
         /\ remote.st = "file" /\ toRemote[i].kind = "ZRPOS" =>
              toRemote[i].count = 0 /\ toDesk = <<>> /\ Final(i)
         /\ remote.st = "eof" /\ toRemote[i].kind = "ZRINIT" => Says({"ZEOF"}) /\ Final(i)
         /\ remote.st = "data" => toRemote[i].count <= remote.offset
         /\ remote.st = "ack" =>
              \/ toRemote[i].count < remote.offset
              \/ toRemote[i].count = remote.offset /\ toDesk = <<>> /\ Final(i)

-------------------------------------------------------------------------------
(***************************************************************************)
(* What the receiver makes of it.                                          *)
(***************************************************************************)

Open == mode = "receive" /\ handle # NoHandle
Closed == mode = "receive" /\ handle = NoHandle

\* A ZDATA that has not been read is not a block.
Lead == IF toDesk # <<>> /\ toDesk[1].kind = "ZDATA" THEN 1 ELSE 0

Opened ==
  Open =>
    /\ dialog = "none" /\ rcv.st \in {"fileBegin", "data", "waiting"}
    /\ handle = Blocks(rcv.file, rcv.count)
    /\ \A i \in DOMAIN toDesk :
         /\ toDesk[i].kind \notin {"ZFILE", "meta", "ZFIN"}
         /\ toDesk[i].kind \in OfFile => toDesk[i].file = rcv.file
         /\ toDesk[i].kind = "ZDATA" => rcv.st # "data" /\ toDesk[i].count = rcv.count
         /\ toDesk[i].kind = "data" /\ toDesk[i].count # 0 =>
              /\ toDesk[i].count = rcv.count + i - Lead
              /\ i = 1 => rcv.st = "data" /\ ~rcv.dirty

ClosedIs ==
  Closed =>
    /\ rcv.st \in {"session", "meta", "fileBegin"}
    /\ dialog # "choose"
    /\ \A i \in DOMAIN toDesk : toDesk[i].kind \notin {"ZDATA", "data"}
    /\ rcv.st = "meta" =>
         dialog = "none" /\ ~rcv.dirty /\ toDesk # <<>> /\ toDesk[1].kind = "meta"
    /\ dialog = "save" =>
         /\ rcv.st = "fileBegin" /\ rcv.count = 0
         /\ \A i \in DOMAIN toDesk : toDesk[i].kind \in Parting
         /\ Sz \/ toDesk # <<>>

\* The receiver and sz, while they talk to each other.
Together ==
  mode = "receive" /\ Sz =>
    /\ remote.st = "init" =>
         dialog = "none" /\ (rcv.st = "session" \/ Orders({"ZFILE", "meta"}))
    /\ remote.st = "file" =>
         /\ Closed /\ dialog = "save" =>
              toDesk = <<>> /\ rcv.file = remote.file /\ Orders({"ZRINIT"})
         /\ Closed /\ rcv.st = "meta" => Len(toDesk) = 1
         /\ Closed /\ dialog # "save" /\ rcv.st # "meta" => Len(toDesk) > 1
         /\ Open => toDesk = <<>> /\ rcv.file = remote.file /\ rcv.count = 0
                      /\ rcv.st = "fileBegin"
    /\ remote.st \in {"data", "ack"} =>
         /\ Open /\ ~Doomed /\ rcv.file = remote.file
         /\ remote.offset = rcv.count + Len(toDesk) - Lead
    /\ remote.st \in {"data", "ack", "eof"} /\ rcv.st = "data" => ~rcv.dirty
    /\ remote.st = "data" => rcv.st = "data" \/ Lead = 1
    /\ remote.st \in {"ack", "eof"} /\ Open /\ (rcv.st = "data" \/ Lead = 1) =>
         \E i \in DOMAIN toDesk : Closing(toDesk[i])
    /\ remote.st = "eof" =>
         /\ ~Doomed
         /\ Open => rcv.file = remote.file /\ Orders({"ZACK"})
         /\ Closed => dialog = "none" /\ rcv.st = "fileBegin" /\ Says({"ZEOF"})
    /\ remote.st = "fin" => Closed /\ dialog = "none" /\ rcv.st = "fileBegin"

Apart ==
  /\ mode = "send" /\ Sz => remote.st = "init" /\ Orders({"ZFILE", "meta"})
  /\ mode = "receive" /\ Rz => remote.st = "init" /\ Orders({"ZRINIT", "ZRPOS", "ZACK"})
  /\ mode # "receive" => handle = NoHandle

Listing ==
  /\ lost = 0
  /\ mode = "none" => listed = {}
  /\ mode = "receive" => listed = IF handle = NoHandle THEN {} ELSE {rcv.file}
  /\ mode = "send" =>
       listed = IF snd.st \in {"init", "finish"} THEN {} ELSE {snd.index}

Dialogs ==
  /\ dialog = "save" => mode = "receive"
  /\ dialog = "choose" => mode = "send" /\ snd.st = "init"
  /\ discard => mode = "none"

Inbound ==
  /\ WellFormed(toDesk) /\ Said /\ Told1
  /\ Opened /\ ClosedIs /\ Together /\ Apart /\ Listing /\ Dialogs

-------------------------------------------------------------------------------
(***************************************************************************)
(* The channels.                                                           *)
(***************************************************************************)

LEMMA Shifted ==
  ASSUME NEW s \in Seq(Entry), NEW n \in DOMAIN s, NEW t, t = Rest(s, n)
  PROVE  /\ t \in Seq(Entry) /\ Len(s) \in Nat \ {0} /\ Len(t) \in Nat
         /\ DOMAIN s = 1..Len(s) /\ DOMAIN t = 1..Len(t)
         /\ n \in 1..Len(s) /\ Len(t) = Len(s) - n
         /\ s # <<>> /\ (t = <<>> <=> Len(t) = 0)
         /\ \A i \in DOMAIN t : i + n \in DOMAIN s /\ t[i] = s[i + n]
         /\ \A i \in DOMAIN s : s[i] \in Entry
<1> HIDE DEF Entry
<1>1. /\ t \in Seq(Entry) /\ Len(t) = Len(s) - n /\ Len(t) \in Nat
      /\ \A i \in 1..Len(t) : i + n \in 1..Len(s) /\ t[i] = s[i + n]
  BY RestIs
<1>2. /\ DOMAIN s = 1..Len(s) /\ DOMAIN t = 1..Len(t) /\ Len(s) \in Nat
      /\ \A i \in 1..Len(s) : s[i] \in Entry
  BY <1>1, LenProperties, ElementOfSeq
<1>3. (t = <<>> <=> Len(t) = 0) /\ (s = <<>> <=> Len(s) = 0)
  BY <1>1, EmptySeq
<1>4. n \in 1..Len(s) /\ Len(s) # 0
  BY <1>2
<1> QED
  BY <1>1, <1>2, <1>3, <1>4

LEMMA Appended ==
  ASSUME NEW s \in Seq(Entry), NEW t \in Seq(Entry), NEW u, u = s \o t
  PROVE  /\ u \in Seq(Entry) /\ Len(s) \in Nat /\ Len(t) \in Nat /\ Len(u) \in Nat
         /\ DOMAIN s = 1..Len(s) /\ DOMAIN t = 1..Len(t) /\ DOMAIN u = 1..Len(u)
         /\ Len(u) = Len(s) + Len(t)
         /\ (s = <<>> <=> Len(s) = 0) /\ (t = <<>> <=> Len(t) = 0) /\ (u = <<>> <=> Len(u) = 0)
         /\ \A i \in DOMAIN s : i \in DOMAIN u /\ u[i] = s[i]
         /\ \A i \in DOMAIN t : Len(s) + i \in DOMAIN u /\ u[Len(s) + i] = t[i]
         /\ \A i \in DOMAIN u :
              \/ i \in DOMAIN s /\ u[i] = s[i]
              \/ i > Len(s) /\ i - Len(s) \in DOMAIN t /\ u[i] = t[i - Len(s)]
<1> HIDE DEF Entry
<1>1. /\ u \in Seq(Entry) /\ Len(s) \in Nat /\ Len(t) \in Nat /\ Len(u) = Len(s) + Len(t)
      /\ \A i \in 1..Len(s) : u[i] = s[i]
      /\ \A i \in 1..Len(t) : u[Len(s) + i] = t[i]
  BY JoinedIs
<1>2. DOMAIN s = 1..Len(s) /\ DOMAIN t = 1..Len(t) /\ DOMAIN u = 1..Len(u)
  BY <1>1, LenProperties
<1>3. (s = <<>> <=> Len(s) = 0) /\ (t = <<>> <=> Len(t) = 0) /\ (u = <<>> <=> Len(u) = 0)
  BY <1>1, EmptySeq
<1>4. \A i \in 1..Len(u) :
         \/ i \in 1..Len(s) /\ u[i] = s[i]
         \/ i > Len(s) /\ i - Len(s) \in 1..Len(t) /\ u[i] = t[i - Len(s)]
  BY JoinedPlaces
<1>5. /\ \A i \in 1..Len(s) : i \in 1..Len(u)
      /\ \A i \in 1..Len(t) : Len(s) + i \in 1..Len(u)
      /\ Len(u) \in Nat
  BY <1>1
<1> HIDE DEF Rest
<1> QED
  BY <1>1, <1>2, <1>3, <1>4, <1>5

\* What has been read stays well-formed; what is added must fit.
LEMMA WellFormedRest ==
  ASSUME NEW s \in Seq(Entry), NEW n \in DOMAIN s, WellFormed(s)
  PROVE  WellFormed(Rest(s, n))
<1> DEFINE t == Rest(s, n)
<1>1. /\ Len(s) \in Nat /\ Len(t) \in Nat /\ DOMAIN s = 1..Len(s) /\ DOMAIN t = 1..Len(t)
      /\ n \in 1..Len(s) /\ Len(t) = Len(s) - n
      /\ \A i \in DOMAIN t : i + n \in DOMAIN s /\ t[i] = s[i + n]
  BY Shifted
<1> HIDE DEF t
<1>2. ASSUME NEW i \in DOMAIN t, NEW j \in DOMAIN t, i < j
      PROVE  t[j].kind \in Followers(t[i])
  <2>1. i + n < j + n
    BY <1>1, <1>2
  <2> QED
    BY <1>1, <2>1 DEF WellFormed
<1>3. ASSUME NEW i \in DOMAIN t
      PROVE  /\ t[i].kind = "ZFILE" => i + 1 \in DOMAIN t /\ t[i + 1].kind = "meta"
             /\ t[i].kind = "ZEOF" => t[i].count = Size[t[i].file]
             /\ t[i].kind = "data" /\ t[i].count = 0 => t[i].end = "E"
  <2>1. ASSUME t[i].kind = "ZFILE"
        PROVE  i + 1 \in DOMAIN t /\ t[i + 1].kind = "meta"
    <3>1. i + n + 1 \in DOMAIN s /\ s[i + n + 1].kind = "meta"
      BY <1>1, <2>1 DEF WellFormed
    <3>2. i + 1 \in DOMAIN t /\ i + 1 + n = i + n + 1
      BY <1>1, <3>1
    <3> QED
      BY <1>1, <3>1, <3>2
  <2> QED
    BY <1>1, <2>1 DEF WellFormed
<1> QED
  BY <1>2, <1>3 DEF WellFormed, t

LEMMA WellFormedAdded ==
  ASSUME NEW s \in Seq(Entry), NEW t \in Seq(Entry), WellFormed(s), WellFormed(t),
         \A i \in DOMAIN s, j \in DOMAIN t : t[j].kind \in Followers(s[i])
  PROVE  WellFormed(s \o t)
<1> DEFINE u == s \o t
<1>1. /\ Len(s) \in Nat /\ Len(t) \in Nat /\ Len(u) \in Nat
      /\ DOMAIN s = 1..Len(s) /\ DOMAIN t = 1..Len(t) /\ DOMAIN u = 1..Len(u)
      /\ Len(u) = Len(s) + Len(t)
      /\ \A i \in DOMAIN s : i \in DOMAIN u /\ u[i] = s[i]
      /\ \A i \in DOMAIN t : Len(s) + i \in DOMAIN u /\ u[Len(s) + i] = t[i]
      /\ \A i \in DOMAIN u :
           \/ i \in DOMAIN s /\ u[i] = s[i]
           \/ i > Len(s) /\ i - Len(s) \in DOMAIN t /\ u[i] = t[i - Len(s)]
  BY Appended
<1> HIDE DEF u
<1>2. ASSUME NEW i \in DOMAIN u, NEW j \in DOMAIN u, i < j
      PROVE  u[j].kind \in Followers(u[i])
  <2>1. CASE i \in DOMAIN s /\ u[i] = s[i] /\ j \in DOMAIN s /\ u[j] = s[j]
    BY <1>2, <2>1 DEF WellFormed
  <2>2. CASE i \in DOMAIN s /\ u[i] = s[i] /\ j - Len(s) \in DOMAIN t /\ u[j] = t[j - Len(s)]
    BY <2>2
  <2>3. CASE /\ i > Len(s) /\ i - Len(s) \in DOMAIN t /\ u[i] = t[i - Len(s)]
             /\ j - Len(s) \in DOMAIN t /\ u[j] = t[j - Len(s)]
    <3>1. i - Len(s) < j - Len(s)
      BY <1>1, <1>2
    <3> QED
      BY <2>3, <3>1 DEF WellFormed
  <2> QED
    BY <1>1, <1>2, <2>1, <2>2, <2>3
<1>3. ASSUME NEW i \in DOMAIN u
      PROVE  /\ u[i].kind = "ZFILE" => i + 1 \in DOMAIN u /\ u[i + 1].kind = "meta"
             /\ u[i].kind = "ZEOF" => u[i].count = Size[u[i].file]
             /\ u[i].kind = "data" /\ u[i].count = 0 => u[i].end = "E"
  <2>1. CASE i \in DOMAIN s /\ u[i] = s[i]
    BY <1>1, <2>1 DEF WellFormed
  <2>2. CASE i > Len(s) /\ i - Len(s) \in DOMAIN t /\ u[i] = t[i - Len(s)]
    <3>1. ASSUME u[i].kind = "ZFILE"
          PROVE  i + 1 \in DOMAIN u /\ u[i + 1].kind = "meta"
      <4>1. i - Len(s) + 1 \in DOMAIN t /\ t[i - Len(s) + 1].kind = "meta"
        BY <2>2, <3>1 DEF WellFormed
      <4>2. Len(s) + (i - Len(s) + 1) = i + 1
        BY <1>1
      <4> QED
        BY <1>1, <4>1, <4>2
    <3> QED
      BY <2>2, <3>1 DEF WellFormed
  <2> QED
    BY <1>1, <2>1, <2>2
<1> QED
  BY <1>2, <1>3 DEF WellFormed, u

\* What is read of the remote's output does not change what is left of it.
LEMMA ReadIs ==
  ASSUME Typed, NEW n \in DOMAIN toDesk, toDesk' = Rest(toDesk, n)
  PROVE  /\ Len(toDesk) \in Nat \ {0} /\ Len(toDesk') \in Nat
         /\ DOMAIN toDesk = 1..Len(toDesk) /\ DOMAIN toDesk' = 1..Len(toDesk')
         /\ n \in 1..Len(toDesk) /\ Len(toDesk') = Len(toDesk) - n
         /\ toDesk # <<>> /\ (toDesk' = <<>> <=> Len(toDesk') = 0)
         /\ \A i \in DOMAIN toDesk' : i + n \in DOMAIN toDesk /\ toDesk'[i] = toDesk[i + n]
<1>1. toDesk \in Seq(Entry)
  BY DEF Typed
<1> QED
  BY <1>1, Shifted

LEMMA SaysLess ==
  ASSUME Typed, NEW n \in DOMAIN toDesk, toDesk' = Rest(toDesk, n)
  PROVE  /\ \A kinds : Says(kinds) => Says(kinds)'
         /\ \A f : SaysOf(f) => SaysOf(f)'
<1> HIDE DEF Typed
<1>1. \A i \in DOMAIN toDesk' : i + n \in DOMAIN toDesk /\ toDesk'[i] = toDesk[i + n]
  BY ReadIs
<1> QED
  BY <1>1 DEF Says, SaysOf

LEMMA SaidLess ==
  ASSUME Typed, Said, WellFormed(toDesk), remote' = remote,
         toDesk' = toDesk \/ (\E n \in DOMAIN toDesk : toDesk' = Rest(toDesk, n))
  PROVE  Said' /\ WellFormed(toDesk)'
<1>1. CASE toDesk' = toDesk
  BY <1>1 DEF Said, WellFormed, Says, SaysOf, EndsWithMeta, Sz, Rz
<1>2. ASSUME NEW n \in DOMAIN toDesk, toDesk' = Rest(toDesk, n)
      PROVE  Said' /\ WellFormed(toDesk)'
  <2>1. /\ Len(toDesk) \in Nat \ {0} /\ Len(toDesk') \in Nat
        /\ DOMAIN toDesk = 1..Len(toDesk) /\ DOMAIN toDesk' = 1..Len(toDesk')
        /\ n \in 1..Len(toDesk) /\ Len(toDesk') = Len(toDesk) - n
        /\ toDesk # <<>> /\ (toDesk' = <<>> <=> Len(toDesk') = 0)
        /\ \A i \in DOMAIN toDesk' : i + n \in DOMAIN toDesk /\ toDesk'[i] = toDesk[i + n]
    BY <1>2, ReadIs
  <2>2. /\ \A kinds : Says(kinds) => Says(kinds)'
        /\ \A f : SaysOf(f) => SaysOf(f)'
    BY <1>2, SaysLess
  <2>3. ASSUME toDesk' # <<>>
        PROVE  /\ toDesk'[Len(toDesk')] = toDesk[Len(toDesk)]
               /\ Len(toDesk') > 1 =>
                     Len(toDesk) > 1 /\ toDesk'[Len(toDesk') - 1] = toDesk[Len(toDesk) - 1]
    <3>1. Len(toDesk') \in DOMAIN toDesk' /\ Len(toDesk') + n = Len(toDesk)
      BY <2>1, <2>3
    <3>2. Len(toDesk') > 1 => /\ Len(toDesk') - 1 \in DOMAIN toDesk'
                              /\ Len(toDesk') - 1 + n = Len(toDesk) - 1 /\ Len(toDesk) > 1
      BY <2>1, <2>3
    <3> QED
      BY <2>1, <3>1, <3>2
  <2>4. EndsWithMeta => EndsWithMeta'
    BY <1>2, <2>1, <2>3 DEF EndsWithMeta
  <2>5. /\ (\A i \in DOMAIN toDesk : ~Closing(toDesk[i])) =>
             (\A i \in DOMAIN toDesk : ~Closing(toDesk[i]))'
        /\ (\A i \in DOMAIN toDesk : toDesk[i].kind = "data" => toDesk[i].count # 0) =>
             (\A i \in DOMAIN toDesk : toDesk[i].kind = "data" => toDesk[i].count # 0)'
    BY <2>1
  <2>6. ASSUME ~Sz, toDesk' # <<>>
        PROVE  toDesk'[Len(toDesk')].kind # "meta"
    BY <2>1, <2>3, <2>6 DEF Said
  <2>7. toDesk \in Seq(Entry)
    BY DEF Typed
  <2>8. WellFormed(Rest(toDesk, n))
    BY <2>7, WellFormedRest
  <2>9. /\ (Sz <=> Sz') /\ (Rz <=> Rz')
    BY DEF Sz, Rz
  <2> QED
    BY <1>2, <2>2, <2>4, <2>5, <2>6, <2>8, <2>9 DEF Said
<1> QED
  BY <1>1, <1>2

\* Nothing that comes after a CAN is heard.
LEMMA ToldMore ==
  ASSUME Typed, NEW items \in Seq(Entry), toRemote' = toRemote \o items
  PROVE  /\ Len(toRemote) \in Nat /\ Len(toRemote') = Len(toRemote) + Len(items)
         /\ DOMAIN toRemote = 1..Len(toRemote) /\ DOMAIN toRemote' = 1..Len(toRemote')
         /\ Len(items) \in Nat /\ DOMAIN items = 1..Len(items)
         /\ \A i \in DOMAIN toRemote : i \in DOMAIN toRemote' /\ toRemote'[i] = toRemote[i]
                                       /\ (Heeded(i)' <=> Heeded(i))
         /\ \A i \in DOMAIN toRemote' : i \in DOMAIN toRemote \/
              /\ i > Len(toRemote) /\ i - Len(toRemote) \in DOMAIN items
              /\ toRemote'[i] = items[i - Len(toRemote)]
              /\ Heeded(i)' => ~Doomed /\ \A j \in 1..(i - Len(toRemote)) : items[j].kind # "CAN"
         /\ Doomed => Doomed'
<1>1. toRemote \in Seq(Entry)
  BY DEF Typed
<1>2. /\ Len(toRemote) \in Nat /\ Len(items) \in Nat
      /\ DOMAIN toRemote = 1..Len(toRemote) /\ DOMAIN items = 1..Len(items)
      /\ DOMAIN toRemote' = 1..Len(toRemote')
      /\ Len(toRemote') = Len(toRemote) + Len(items)
      /\ \A i \in DOMAIN toRemote : i \in DOMAIN toRemote' /\ toRemote'[i] = toRemote[i]
      /\ \A i \in DOMAIN items : Len(toRemote) + i \in DOMAIN toRemote'
                                 /\ toRemote'[Len(toRemote) + i] = items[i]
      /\ \A i \in DOMAIN toRemote' :
           \/ i \in DOMAIN toRemote /\ toRemote'[i] = toRemote[i]
           \/ /\ i > Len(toRemote) /\ i - Len(toRemote) \in DOMAIN items
              /\ toRemote'[i] = items[i - Len(toRemote)]
  BY <1>1, Appended
<1>3. ASSUME NEW i \in DOMAIN toRemote
      PROVE  Heeded(i)' <=> Heeded(i)
  <2>1. \A j \in 1..i : j \in DOMAIN toRemote /\ toRemote'[j] = toRemote[j]
    BY <1>2
  <2> QED
    BY <2>1 DEF Heeded
<1>4. ASSUME NEW i \in DOMAIN toRemote', i > Len(toRemote), Heeded(i)'
      PROVE  ~Doomed /\ \A j \in 1..(i - Len(toRemote)) : items[j].kind # "CAN"
  <2>1. \A j \in DOMAIN toRemote : j \in 1..i
    BY <1>2, <1>4
  <2>2. \A j \in DOMAIN toRemote : toRemote[j].kind # "CAN"
    BY <1>2, <1>4, <2>1 DEF Heeded
  <2>3. ASSUME NEW j \in 1..(i - Len(toRemote))
        PROVE  items[j].kind # "CAN"
    <3>1. Len(toRemote) + j \in 1..i /\ j \in DOMAIN items
      BY <1>2, <1>4
    <3> QED
      BY <1>2, <1>4, <3>1 DEF Heeded
  <2> QED
    BY <2>2, <2>3 DEF Doomed
<1>5. Doomed => Doomed'
  BY <1>2 DEF Doomed
<1> QED
  BY <1>2, <1>3, <1>4, <1>5

\* The desktop reads some of the output, or none.
DeskReads == toDesk' = toDesk \/ \E n \in DOMAIN toDesk : toDesk' = Rest(toDesk, n)

LEMMA DeskReadsIs ==
  ASSUME Typed, DeskReads
  PROVE  /\ toDesk = <<>> => toDesk' = <<>>
         /\ \A kinds : Says(kinds) => Says(kinds)'
<1>1. CASE toDesk' = toDesk
  BY <1>1 DEF Says
<1>2. ASSUME NEW n \in DOMAIN toDesk, toDesk' = Rest(toDesk, n)
      PROVE  toDesk # <<>> /\ \A kinds : Says(kinds) => Says(kinds)'
  BY <1>2, ReadIs, SaysLess
<1> QED
  BY <1>1, <1>2 DEF DeskReads

LEMMA OrdersMore ==
  ASSUME Typed, NEW items \in Seq(Entry), toRemote' = toRemote \o items, NEW kinds, Orders(kinds),
         ~Doomed => items = <<Cancel>> \/ \A i \in DOMAIN items : items[i].kind \in kinds
  PROVE  Orders(kinds)'
<1>1. /\ \A i \in DOMAIN toRemote : toRemote'[i] = toRemote[i] /\ (Heeded(i)' <=> Heeded(i))
      /\ \A i \in DOMAIN toRemote' : i \in DOMAIN toRemote \/
           /\ i - Len(toRemote) \in DOMAIN items
           /\ toRemote'[i] = items[i - Len(toRemote)]
           /\ Heeded(i)' => ~Doomed /\ \A j \in 1..(i - Len(toRemote)) : items[j].kind # "CAN"
      /\ DOMAIN items = 1..Len(items) /\ Len(items) \in Nat
  BY ToldMore
<1>2. ASSUME NEW i \in DOMAIN toRemote', Heeded(i)'
      PROVE  toRemote'[i].kind \in kinds
  <2>1. CASE i \in DOMAIN toRemote
    BY <1>1, <1>2, <2>1 DEF Orders
  <2>2. CASE i \notin DOMAIN toRemote
    <3>1. /\ i - Len(toRemote) \in DOMAIN items /\ ~Doomed
          /\ toRemote'[i] = items[i - Len(toRemote)]
          /\ i - Len(toRemote) \in 1..(i - Len(toRemote))
          /\ items[i - Len(toRemote)].kind # "CAN"
      BY <1>1, <1>2, <2>2
    <3>2. CASE items = <<Cancel>>
      <4>1. Cancel.kind = "CAN" /\ items[i - Len(toRemote)] = Cancel
        BY <3>1, <3>2 DEF Cancel, Header
      <4> QED
        BY <3>1, <4>1
    <3> QED
      BY <3>1, <3>2
  <2> QED
    BY <2>1, <2>2
<1> QED
  BY <1>2 DEF Orders

LEMMA ToldSame ==
  ASSUME Typed, Told1, DeskReads, remote' = remote, toRemote' = toRemote
  PROVE  Told1'
<1>1. /\ toDesk = <<>> => toDesk' = <<>>
      /\ \A kinds : Says(kinds) => Says(kinds)'
  BY DeskReadsIs
<1>2. /\ Sz <=> Sz'
      /\ \A i : (Heeded(i) <=> Heeded(i)') /\ (Final(i) <=> Final(i)')
      /\ \A kinds : Orders(kinds) <=> Orders(kinds)'
  BY DEF Sz, Heeded, Final, Orders
<1> QED
  BY <1>1, <1>2 DEF Told1

LEMMA ToldCancel ==
  ASSUME Typed, Told1, DeskReads, remote' = remote, NEW items \in Seq(Entry),
         toRemote' = toRemote \o items,
         Sz /\ ~Doomed => items = <<Cancel>> \/ remote.st = "fin" \/
           (/\ remote.st = "init"
            /\ \A i \in DOMAIN items : items[i].kind \in {"ZRINIT", "ZFILE", "meta"})
  PROVE  Told1'
<1>1. /\ toDesk = <<>> => toDesk' = <<>>
      /\ \A kinds : Says(kinds) => Says(kinds)'
  BY DeskReadsIs
<1>2. Sz <=> Sz'
  BY DEF Sz
<1>3. /\ \A i \in DOMAIN toRemote : toRemote'[i] = toRemote[i] /\ (Heeded(i)' <=> Heeded(i))
      /\ \A i \in DOMAIN toRemote' : i \in DOMAIN toRemote \/
           /\ i - Len(toRemote) \in DOMAIN items
           /\ toRemote'[i] = items[i - Len(toRemote)]
           /\ Heeded(i)' => ~Doomed /\ \A j \in 1..(i - Len(toRemote)) : items[j].kind # "CAN"
      /\ DOMAIN items = 1..Len(items) /\ Len(items) \in Nat
  BY ToldMore
<1> SUFFICES ASSUME Sz
             PROVE  Told1'
  BY <1>2 DEF Told1
<1>4. CASE remote.st = "fin"
  BY <1>4 DEF Told1
<1>5. CASE remote.st = "init"
  <2>1. Orders({"ZRINIT", "ZFILE", "meta"})'
    BY <1>5, OrdersMore DEF Told1
  <2> QED
    BY <1>5, <2>1 DEF Told1
<1>6. CASE remote.st \notin {"fin", "init"}
  <2>1. \A kinds : Orders(kinds) => Orders(kinds)'
    BY <1>6, OrdersMore
  <2>2. ASSUME NEW i \in DOMAIN toRemote', Heeded(i)'
        PROVE  i \in DOMAIN toRemote /\ Heeded(i) /\ toRemote'[i] = toRemote[i]
    <3>1. ASSUME i \notin DOMAIN toRemote
          PROVE  FALSE
      <4>1. /\ i - Len(toRemote) \in DOMAIN items /\ ~Doomed
            /\ i - Len(toRemote) \in 1..(i - Len(toRemote))
            /\ items[i - Len(toRemote)].kind # "CAN"
        BY <1>3, <2>2, <3>1
      <4>2. items = <<Cancel>> /\ Cancel.kind = "CAN"
        BY <1>6, <4>1 DEF Cancel, Header
      <4>3. items[i - Len(toRemote)] = Cancel
        BY <4>1, <4>2
      <4> QED
        BY <4>1, <4>2, <4>3
    <3> QED
      BY <1>3, <2>2, <3>1
  <2>3. \A i \in DOMAIN toRemote : Final(i) => Final(i)'
    BY <2>2 DEF Final
  <2> QED
    BY <1>1, <1>6, <2>1, <2>2, <2>3 DEF Told1
<1> QED
  BY <1>4, <1>5, <1>6

\* The answers of a receiver.
LEMMA ToldAlso ==
  ASSUME Typed, Told1, DeskReads, remote' = remote, NEW x \in Entry,
         toRemote' = toRemote \o <<x>>,
         Sz /\ ~Doomed =>
           /\ remote.st = "init" => x.kind \in {"ZRINIT", "ZFILE", "meta"}
           /\ remote.st = "file" =>
                /\ x.kind = "ZRINIT" \/ (x.kind = "ZRPOS" /\ x.count = 0 /\ toDesk' = <<>>)
                /\ \A j \in DOMAIN toRemote : toRemote[j].kind # "ZRPOS"
           /\ remote.st \in {"data", "ack"} => x.kind = "ZACK" /\ x.count <= remote.offset
           /\ remote.st = "ack" =>
                /\ x.count = remote.offset => toDesk' = <<>>
                /\ \A j \in DOMAIN toRemote : toRemote[j].count < remote.offset
           /\ remote.st = "eof" =>
                /\ x.kind = "ZACK" \/ (x.kind = "ZRINIT" /\ Says({"ZEOF"})')
                /\ \A j \in DOMAIN toRemote : toRemote[j].kind # "ZRINIT"
  PROVE  Told1'
<1>0. <<x>> \in Seq(Entry) /\ Len(<<x>>) = 1 /\ <<x>>[1] = x
  BY DEF Typed
<1>1. /\ toDesk = <<>> => toDesk' = <<>>
      /\ \A kinds : Says(kinds) => Says(kinds)'
  BY DeskReadsIs
<1>2. /\ Sz <=> Sz'
      /\ Sz => remote.offset \in Nat
      /\ x.count \in Nat
  BY RemoteIs, EntryIs DEF Sz
<1>3. /\ \A i \in DOMAIN toRemote :
           i \in DOMAIN toRemote' /\ toRemote'[i] = toRemote[i] /\ (Heeded(i)' <=> Heeded(i))
      /\ Len(toRemote) \in Nat /\ DOMAIN toRemote = 1..Len(toRemote)
      /\ Len(toRemote') = Len(toRemote) + 1 /\ DOMAIN toRemote' = 1..Len(toRemote')
      /\ \A i \in DOMAIN toRemote' : i \in DOMAIN toRemote \/
           /\ i = Len(toRemote')
           /\ toRemote'[i] = x
           /\ Heeded(i)' => ~Doomed
  <2> DEFINE items == <<x>>
  <2>1. items \in Seq(Entry) /\ Len(items) = 1 /\ items[1] = x /\ toRemote' = toRemote \o items
    BY <1>0
  <2> HIDE DEF items
  <2>2. /\ Len(toRemote) \in Nat /\ Len(toRemote') = Len(toRemote) + Len(items)
        /\ DOMAIN toRemote = 1..Len(toRemote) /\ DOMAIN toRemote' = 1..Len(toRemote')
        /\ DOMAIN items = 1..Len(items)
        /\ \A i \in DOMAIN toRemote : i \in DOMAIN toRemote' /\ toRemote'[i] = toRemote[i]
                                      /\ (Heeded(i)' <=> Heeded(i))
        /\ \A i \in DOMAIN toRemote' : i \in DOMAIN toRemote \/
             /\ i > Len(toRemote) /\ i - Len(toRemote) \in DOMAIN items
             /\ toRemote'[i] = items[i - Len(toRemote)]
             /\ Heeded(i)' => ~Doomed
    BY <2>1, ToldMore
  <2>3. ASSUME NEW i \in DOMAIN toRemote', i \notin DOMAIN toRemote
        PROVE  i = Len(toRemote') /\ toRemote'[i] = x /\ (Heeded(i)' => ~Doomed)
    <3>1. i - Len(toRemote) = 1 /\ i = Len(toRemote) + 1
      BY <2>1, <2>2, <2>3
    <3> QED
      BY <2>1, <2>2, <2>3, <3>1
  <2> QED
    BY <2>1, <2>2, <2>3
<1> SUFFICES ASSUME Sz
             PROVE  Told1'
  BY <1>2 DEF Told1
<1>4. \A i \in DOMAIN toRemote' : i = Len(toRemote') => Final(i)'
  BY <1>3 DEF Final
<1>5. ASSUME Doomed
      PROVE  Told1'
  <2>1. \A i \in DOMAIN toRemote' : Heeded(i)' => i \in DOMAIN toRemote
    BY <1>3, <1>5
  <2>2. \A i \in DOMAIN toRemote : Final(i) => Final(i)'
    BY <1>3, <2>1 DEF Final
  <2>3. \A kinds : Orders(kinds) => Orders(kinds)'
    BY <1>3, <2>1 DEF Orders
  <2> QED
    BY <1>1, <1>2, <1>3, <2>1, <2>2, <2>3 DEF Told1
<1>6. ASSUME ~Doomed
      PROVE  Told1'
  <2>1. \A kinds : Orders(kinds) /\ x.kind \in kinds => Orders(kinds)'
    BY <1>3 DEF Orders
  <2>2. CASE remote.st = "init"
    BY <1>2, <1>6, <2>1, <2>2 DEF Told1
  <2>3. CASE remote.st = "file"
    <3>1. Orders({"ZRINIT", "ZRPOS"})'
      BY <1>6, <2>1, <2>3 DEF Told1
    <3>2. ASSUME NEW i \in DOMAIN toRemote', Heeded(i)', toRemote'[i].kind = "ZRPOS"
          PROVE  toRemote'[i].count = 0 /\ toDesk' = <<>> /\ Final(i)'
      BY <1>3, <1>4, <1>6, <2>3, <3>2
    <3> QED
      BY <2>3, <3>1, <3>2 DEF Told1
  <2>4. CASE remote.st = "data"
    <3>1. Orders({"ZACK"})'
      BY <1>6, <2>1, <2>4 DEF Told1
    <3>2. ASSUME NEW i \in DOMAIN toRemote', Heeded(i)'
          PROVE  toRemote'[i].count <= remote.offset
      BY <1>3, <1>6, <2>4, <3>2 DEF Told1
    <3> QED
      BY <2>4, <3>1, <3>2 DEF Told1
  <2>5. CASE remote.st = "ack"
    <3>1. Orders({"ZACK"})'
      BY <1>6, <2>1, <2>5 DEF Told1
    <3>2. ASSUME NEW i \in DOMAIN toRemote', Heeded(i)'
          PROVE  \/ toRemote'[i].count < remote.offset
                 \/ toRemote'[i].count = remote.offset /\ toDesk' = <<>> /\ Final(i)'
      BY <1>2, <1>3, <1>4, <1>6, <2>5, <3>2
    <3> QED
      BY <2>5, <3>1, <3>2 DEF Told1
  <2>6. CASE remote.st = "eof"
    <3>1. Orders({"ZACK", "ZRINIT"})'
      BY <1>6, <2>1, <2>6 DEF Told1
    <3>2. ASSUME NEW i \in DOMAIN toRemote', Heeded(i)', toRemote'[i].kind = "ZRINIT"
          PROVE  Says({"ZEOF"})' /\ Final(i)'
      BY <1>3, <1>4, <1>6, <2>6, <3>2
    <3> QED
      BY <2>6, <3>1, <3>2 DEF Told1
  <2> QED
    BY <2>2, <2>3, <2>4, <2>5, <2>6 DEF Told1
<1> QED
  BY <1>5, <1>6

-------------------------------------------------------------------------------
(***************************************************************************)
(* Steps of the desktop after which it receives nothing.                   *)
(***************************************************************************)

LEMMA NotReceiving ==
  ASSUME Typed, Inbound, DeskReads, remote' = remote,
         mode' # "receive", handle' = NoHandle, Told1', Dialogs', Listing',
         mode' = "send" /\ Sz => remote.st = "init" /\ Orders({"ZFILE", "meta"})'
  PROVE  Inbound'
<1>1. Said' /\ WellFormed(toDesk)'
  BY SaidLess DEF Inbound, DeskReads
<1>2. Sz <=> Sz'
  BY DEF Sz
<1>3. Opened' /\ ClosedIs' /\ Together' /\ Apart'
  BY <1>2 DEF Opened, ClosedIs, Together, Apart, Open, Closed
<1> QED
  BY <1>1, <1>3 DEF Inbound

LEMMA Failed ==
  ASSUME Typed, Inbound, Fail, DeskReads, remote' = remote, dialog' = "none"
  PROVE  Inbound'
<1>1. /\ mode' = "none" /\ handle' = NoHandle
      /\ toRemote' = toRemote \o <<Cancel>> /\ lost' = lost
      /\ listed' = IF mode = "receive"
                        THEN IF handle # NoHandle THEN listed \ {rcv.file} ELSE listed
                        ELSE listed \ {snd.index}
  BY FailIs
<1>2. <<Cancel>> \in Seq(Entry)
  BY AddedAre
<1>3. Told1'
  BY <1>1, <1>2, ToldCancel DEF Inbound
<1>4. listed' = {} /\ lost' = 0
  BY <1>1 DEF Inbound, Listing, Typed
<1>5. Listing' /\ Dialogs'
  BY <1>1, <1>4 DEF Listing, Dialogs
<1> QED
  BY <1>1, <1>3, <1>5, NotReceiving

\* A transfer ends without a failure: nothing is in progress.
LEMMA Ended ==
  ASSUME Typed, Inbound, CancelLocal, DeskReads, remote' = remote,
         dialog' = "none", listed = {}, UNCHANGED <<listed, lost>>,
         toRemote' = toRemote \/ toRemote' = toRemote \o <<Cancel>>
           \/ (~Sz /\ toRemote' = toRemote \o <<OverAndOut>>)
  PROVE  Inbound'
<1>1. <<Cancel>> \in Seq(Entry) /\ <<OverAndOut>> \in Seq(Entry)
  BY AddedAre
<1>2. Told1'
  BY <1>1, ToldSame, ToldCancel DEF Inbound
<1>3. mode' = "none" /\ handle' = NoHandle
  BY DEF CancelLocal
<1>4. Listing' /\ Dialogs'
  BY <1>3 DEF Listing, Dialogs, Inbound
<1> QED
  BY <1>2, <1>3, <1>4, NotReceiving

\* While it sends, a remote sz has only said that it is there.
LEMMA SzHead ==
  ASSUME Typed, Inbound, mode = "send", Sz
  PROVE  /\ remote.st = "init" /\ Orders({"ZFILE", "meta"})
         /\ toDesk # <<>> => Item.kind = "ZRQINIT"
<1>1. remote.st = "init" /\ Orders({"ZFILE", "meta"}) /\ Says({"ZRQINIT"})
  BY DEF Inbound, Apart, Said
<1> QED
  BY <1>1, Head1 DEF Says

LEMMA Sending ==
  ASSUME Typed, Inbound, DeskReads, remote' = remote, mode = "send", mode' = "send",
         handle' = handle, Dialogs', Listing',
         \/ toRemote' = toRemote
         \/ \E items \in Seq(Entry) :
              /\ toRemote' = toRemote \o items
              /\ Sz => \A i \in DOMAIN items : items[i].kind \in {"ZFILE", "meta"}
  PROVE  Inbound'
<1>1. handle' = NoHandle
  BY DEF Inbound, Apart
<1>2. Sz => remote.st = "init" /\ Orders({"ZFILE", "meta"})
  BY SzHead
<1>3. CASE toRemote' = toRemote
  <2>1. Told1'
    BY <1>3, ToldSame DEF Inbound
  <2>2. Orders({"ZFILE", "meta"}) => Orders({"ZFILE", "meta"})'
    BY <1>3 DEF Orders, Heeded
  <2> QED
    BY <1>1, <1>2, <2>1, <2>2, NotReceiving
<1>4. ASSUME NEW items \in Seq(Entry), toRemote' = toRemote \o items,
             Sz => \A i \in DOMAIN items : items[i].kind \in {"ZFILE", "meta"}
      PROVE  Inbound'
  <2>1. Told1'
    BY <1>2, <1>4, ToldCancel DEF Inbound
  <2>2. Sz => Orders({"ZFILE", "meta"})'
    BY <1>2, <1>4, OrdersMore
  <2> QED
    BY <1>1, <1>2, <2>1, <2>2, NotReceiving
<1> QED
  BY <1>3, <1>4

\* What the desktop reads.
LEMMA ReadsAre ==
  ASSUME Typed, toDesk # <<>>, Consume \/ ConsumeChunk
  PROVE  DeskReads
BY Reads DEF DeskReads

LEMMA InboundSends ==
  ASSUME Typed, Inbound,
         Discard \/ Show \/ DetectSend \/ ChooseFiles \/ OpenFails \/ RefuseUpload \/ SendFrom
           \/ ReadFails \/ FileComplete \/ NextFails \/ SendFin \/ SendIgnored
  PROVE  Inbound'
<1> USE DEF desk, store, wire, far
<1>0. /\ toDesk # <<>> => Item \in Entry /\ Item.count \in Nat
      /\ snd \in Senders /\ mode \in {"none", "receive", "send"}
      /\ mode = "send" /\ snd.st # "init" => snd.index \in Files
      /\ Files \subseteq Nat
  BY Head1, EntryIs, SizeIs DEF Typed, Senders
<1>1. CASE Discard \/ Show
  <2>1. DeskReads
    BY <1>1, ReadsAre DEF Discard, Show
  <2>2. Told1'
    BY <1>1, <2>1, ToldSame DEF Discard, Show, Inbound
  <2>3. mode = "none" /\ handle = NoHandle
    BY <1>1 DEF Discard, Show, Inbound, Dialogs, Apart
  <2>4. Listing' /\ Dialogs' /\ mode' = mode /\ handle' = handle /\ remote' = remote
    BY <1>1 DEF Discard, Show, Inbound, Listing, Dialogs
  <2> QED
    BY <2>1, <2>2, <2>3, <2>4, NotReceiving
<1>2. CASE DetectSend
  <2>1. toDesk # <<>> /\ Item.kind = "ZRINIT" /\ mode = "none" /\ ~discard
    BY <1>2 DEF DetectSend, Hears, Item
  <2>2. ~Sz
    <3>1. ASSUME Sz
          PROVE  remote.st \in {"init", "file", "data", "ack", "eof", "fin"}
      BY <3>1, RemoteIs DEF Sz
    <3>2. 1 \in DOMAIN toDesk /\ toDesk[1].kind = "ZRINIT"
      BY <2>1, Head1
    <3> QED
      BY <3>1, <3>2 DEF Inbound, Said, Says
  <2>3. DeskReads
    BY <1>2, <2>1, ReadsAre DEF DetectSend
  <2>4. Told1'
    BY <1>2, <2>3, ToldSame DEF DetectSend, Inbound
  <2>5. Listing' /\ Dialogs' /\ mode' = "send" /\ handle' = NoHandle /\ remote' = remote
    BY <1>2, <2>1 DEF DetectSend, Inbound, Listing, Dialogs, Apart, NewSender
  <2> QED
    BY <2>2, <2>3, <2>4, <2>5, NotReceiving
<1>3. CASE ChooseFiles
  <2>1. mode = "send" /\ snd.st = "init" /\ listed = {} /\ lost = 0 /\ ~discard
    BY <1>3 DEF ChooseFiles, Inbound, Dialogs, Listing
  <2>2. <<Of(1, Header("ZFILE", 0)), Meta(1)>> \in Seq(Entry)
    BY SizeIs, AddedAre
  <2> DEFINE items == <<Of(1, Header("ZFILE", 0)), Meta(1)>>
  <2>3. \A i \in DOMAIN items : items[i].kind \in {"ZFILE", "meta"}
    <3>1. items[1].kind = "ZFILE" /\ items[2].kind = "meta" /\ DOMAIN items = 1..2
      BY DEF Of, Header, Meta
    <3> HIDE DEF items
    <3> QED
      BY <3>1
  <2>4. toRemote' = toRemote \o items /\ snd' = [st |-> "pos", index |-> 1]
    BY <1>3 DEF ChooseFiles, Offer, Send
  <2> HIDE DEF items
  <2>5. /\ mode' = "send" /\ remote' = remote /\ handle' = handle /\ toDesk' = toDesk
        /\ lost' = 0 /\ listed' = {1} /\ dialog' = "none" /\ ~discard'
    BY <1>3, <2>1 DEF ChooseFiles
  <2>6. Listing' /\ Dialogs'
    BY <2>4, <2>5 DEF Listing, Dialogs
  <2>7. items \in Seq(Entry) /\ DeskReads
    BY <2>2, <2>5 DEF items, DeskReads
  <2> QED
    BY <2>1, <2>3, <2>4, <2>5, <2>6, <2>7, Sending
<1>4. CASE OpenFails
  <2>1. Fail /\ DeskReads /\ remote' = remote /\ dialog' = "none"
    BY <1>4 DEF OpenFails, Breaks, DeskReads
  <2> QED
    BY <2>1, Failed
<1>5. CASE RefuseUpload
  <2>1. /\ CancelLocal /\ DeskReads
        /\ remote' = remote /\ dialog' = "none" /\ UNCHANGED <<listed, lost>>
    BY <1>5 DEF RefuseUpload, DeskReads
  <2>2. listed = {}
    BY <1>5 DEF RefuseUpload, Inbound, Dialogs, Listing
  <2>3. toRemote' = toRemote \o <<Cancel>>
    BY <1>5 DEF RefuseUpload, CancelRemote, Send
  <2> QED
    BY <2>1, <2>2, <2>3, Ended
<1>6. CASE SendFrom
  <2>1. /\ toDesk # <<>> /\ Item.kind \in {"ZRPOS", "ZACK"} /\ mode = "send" /\ ~discard
        /\ dialog = "none" /\ snd.st \in {"pos", "ack"}
    BY <1>6 DEF SendFrom, Sends, Hears, Item
  <2>2. ~Sz
    BY <2>1, SzHead
  <2>3. DeskReads
    BY <1>6, <2>1, ReadsAre DEF SendFrom, Continues
  <2>4. snd.index \in Files /\ Item.count \in Nat /\ setting.perAck \in Nat \ {0}
    BY <1>0, <2>1, SettingIs
  <2>5. <<Of(snd.index, Header("ZEOF", Item.count))>> \in Seq(Entry)
    BY <2>4, AddedAre DEF OfFile
  <2>6. ~AllSent(snd.index, Item.count) => Frame(snd.index, Item.count) \in Seq(Entry)
    BY <2>4, FrameIs
  <2>7. \E items \in Seq(Entry) : toRemote' = toRemote \o items
    BY <1>6, <2>5, <2>6 DEF SendFrom, Send
  <2>8. /\ mode' = "send" /\ remote' = remote /\ handle' = handle
        /\ lost' = lost /\ listed' = listed /\ dialog' = "none" /\ discard' = discard
        /\ snd'.st \notin {"init", "finish"} /\ snd'.index = snd.index
    BY <1>0, <1>6, <2>1 DEF SendFrom, Continues, Senders
  <2>9. Listing' /\ Dialogs'
    BY <2>1, <2>8 DEF Listing, Dialogs, Inbound
  <2> QED
    BY <2>1, <2>2, <2>3, <2>7, <2>8, <2>9, Sending
<1>7. CASE ReadFails \/ SendIgnored
  <2>1. toDesk # <<>> /\ mode = "send" /\ (Consume \/ ConsumeChunk)
    BY <1>7 DEF ReadFails, SendIgnored, Sends, Hears
  <2>2. DeskReads
    BY <2>1, ReadsAre
  <2>3. /\ mode' = "send" /\ remote' = remote /\ handle' = handle /\ snd' = snd
        /\ lost' = lost /\ listed' = listed /\ dialog' = dialog /\ discard' = discard
        /\ toRemote' = toRemote
    BY <1>7, <2>1 DEF ReadFails, SendIgnored
  <2>4. Listing' /\ Dialogs'
    BY <2>1, <2>3 DEF Listing, Dialogs, Inbound
  <2> QED
    BY <2>1, <2>2, <2>3, <2>4, Sending
<1>8. CASE FileComplete
  <2>1. /\ toDesk # <<>> /\ Item.kind = "ZRINIT" /\ mode = "send" /\ ~discard
        /\ dialog = "none" /\ snd.st = "done"
    BY <1>8 DEF FileComplete, Sends, Hears, Item
  <2>2. ~Sz
    BY <2>1, SzHead
  <2>3. DeskReads
    BY <1>8, <2>1, ReadsAre DEF FileComplete, Continues
  <2>4. /\ mode' = "send" /\ remote' = remote /\ handle' = handle
        /\ lost' = lost /\ dialog' = "none" /\ discard' = discard
    BY <1>8, <2>1 DEF FileComplete, Continues
  <2>5. listed = {snd.index} /\ snd.index \in Files /\ lost = 0
    BY <1>0, <2>1 DEF Inbound, Listing
  <2>6. CASE Last(snd.index)
    <3>1. /\ toRemote' = toRemote \o <<Header("ZFIN", 0)>>
          /\ snd'.st = "finish" /\ listed' = {}
      BY <1>0, <1>8, <2>5, <2>6 DEF FileComplete, Send, Senders
    <3>2. <<Header("ZFIN", 0)>> \in Seq(Entry)
      BY AddedAre DEF Others
    <3>3. Listing' /\ Dialogs'
      BY <2>1, <2>4, <2>5, <3>1 DEF Listing, Dialogs
    <3> QED
      BY <2>1, <2>2, <2>3, <2>4, <3>1, <3>2, <3>3, Sending
  <2>7. CASE ~Last(snd.index)
    <3>1. /\ toRemote' = toRemote \o <<Of(snd.index + 1, Header("ZFILE", 0)), Meta(snd.index + 1)>>
          /\ snd' = [st |-> "pos", index |-> snd.index + 1] /\ listed' = {snd.index + 1}
      BY <1>8, <2>5, <2>7 DEF FileComplete, Send, Offer
    <3>2. snd.index + 1 \in Files
      BY <2>5, <2>7, SizeIs DEF Last
    <3>3. <<Of(snd.index + 1, Header("ZFILE", 0)), Meta(snd.index + 1)>> \in Seq(Entry)
      BY <3>2, AddedAre
    <3>4. Listing' /\ Dialogs'
      BY <2>1, <2>4, <2>5, <3>1 DEF Listing, Dialogs
    <3> QED
      BY <2>1, <2>2, <2>3, <2>4, <3>1, <3>3, <3>4, Sending
  <2> QED
    BY <2>6, <2>7
<1>9. CASE NextFails
  <2>1. /\ toDesk # <<>> /\ Item.kind = "ZRINIT" /\ mode = "send" /\ ~discard
        /\ dialog = "none" /\ snd.st = "done" /\ Consume
    BY <1>9 DEF NextFails, Sends, Hears, Item
  <2>2. DeskReads
    BY <2>1, ReadsAre
  <2>3. /\ mode' = "send" /\ remote' = remote /\ handle' = handle
        /\ lost' = lost /\ dialog' = "none" /\ discard' = discard /\ toRemote' = toRemote
        /\ snd' = [st |-> "init", index |-> snd.index + 1] /\ listed' = listed \ {snd.index}
    BY <1>9, <2>1 DEF NextFails
  <2>4. listed = {snd.index} /\ lost = 0
    BY <2>1 DEF Inbound, Listing
  <2>5. Listing' /\ Dialogs'
    BY <2>1, <2>3, <2>4 DEF Listing, Dialogs
  <2> QED
    BY <2>1, <2>2, <2>3, <2>5, Sending
<1>10. CASE SendFin
  <2>1. /\ toDesk # <<>> /\ Item.kind \in {"ZFIN", "ZRINIT"} /\ mode = "send" /\ ~discard
        /\ dialog = "none" /\ snd.st = "finish" /\ ConsumeChunk /\ CancelLocal
    BY <1>10 DEF SendFin, Sends, Hears, Item
  <2>2. ~Sz
    BY <2>1, SzHead
  <2>3. DeskReads
    BY <2>1, ReadsAre
  <2>4. /\ remote' = remote /\ dialog' = "none" /\ UNCHANGED <<listed, lost>>
        /\ toRemote' = toRemote \o <<OverAndOut>>
    BY <1>10, <2>1 DEF SendFin, Send
  <2>5. listed = {}
    BY <2>1 DEF Inbound, Listing
  <2> QED
    BY <2>1, <2>2, <2>3, <2>4, <2>5, Ended
<1> QED
  BY <1>1, <1>2, <1>3, <1>4, <1>5, <1>6, <1>7, <1>8, <1>9, <1>10

\* Steps that give a transfer up.
LEMMA InboundBreaks ==
  ASSUME Typed, Inbound,
         RefuseFile \/ WriteFails \/ FinishFails \/ ReceiveGarbage \/ ReceiveBroken
           \/ CancelZmodem \/ ReceiveFin \/ WindowEnds
  PROVE  Inbound'
<1> USE DEF desk, store, wire, far
<1>1. CASE RefuseFile \/ WriteFails \/ FinishFails \/ ReceiveGarbage \/ ReceiveBroken
  <2>1. /\ Fail /\ dialog' = "none" /\ remote' = remote
        /\ toDesk' = toDesk \/ (toDesk # <<>> /\ ConsumeChunk)
    BY <1>1 DEF RefuseFile, WriteFails, FinishFails, ReceiveGarbage, ReceiveBroken, Breaks,
                Receives, Hears
  <2>2. DeskReads
    BY <2>1, ReadsAre DEF DeskReads
  <2> QED
    BY <2>1, <2>2, Failed
<1>2. CASE CancelZmodem
  <2>1. Fail /\ dialog' = "none" /\ remote' = remote /\ DeskReads
    BY <1>2 DEF CancelZmodem, DeskReads
  <2> QED
    BY <2>1, Failed
<1>3. CASE ReceiveFin
  <2>1. /\ toDesk # <<>> /\ Item.kind = "ZFIN" /\ mode = "receive" /\ dialog = "none"
        /\ rcv.st \in {"waiting", "fileBegin"} /\ CancelLocal /\ ConsumeChunk
    BY <1>3 DEF ReceiveFin, Receives, Hears, Item
  <2>2. DeskReads
    BY <2>1, ReadsAre
  <2>3. 1 \in DOMAIN toDesk /\ toDesk[1].kind = "ZFIN"
    BY <2>1, Head1
  <2>4. listed = {}
    BY <2>1, <2>3 DEF Inbound, Opened, Open, Listing
  <2>5. /\ remote' = remote /\ dialog' = "none" /\ UNCHANGED <<listed, lost>>
        /\ toRemote' = toRemote
    BY <1>3, <2>1 DEF ReceiveFin
  <2> QED
    BY <2>1, <2>2, <2>4, <2>5, Ended
<1>4. CASE WindowEnds
  <2>1. mode = "none" /\ handle = NoHandle
    BY <1>4 DEF WindowEnds, Inbound, Dialogs, Apart
  <2>2. /\ mode' = mode /\ handle' = handle /\ remote' = remote /\ toRemote' = toRemote
        /\ DeskReads /\ Listing' /\ Dialogs'
    BY <1>4, <2>1 DEF WindowEnds, DeskReads, Inbound, Listing, Dialogs
  <2>3. Told1'
    BY <2>2, ToldSame DEF Inbound
  <2> QED
    BY <2>1, <2>2, <2>3, NotReceiving
<1> QED
  BY <1>1, <1>2, <1>3, <1>4

-------------------------------------------------------------------------------
(***************************************************************************)
(* Steps of the receiver.                                                  *)
(***************************************************************************)

\* The first item is gone, and the others have moved up.
LEMMA FirstGone ==
  ASSUME Typed, toDesk # <<>>, Consume
  PROVE  /\ Len(toDesk) \in Nat \ {0} /\ Len(toDesk') = Len(toDesk) - 1 /\ Len(toDesk') \in Nat
         /\ DOMAIN toDesk = 1..Len(toDesk) /\ DOMAIN toDesk' = 1..Len(toDesk')
         /\ (toDesk' = <<>> <=> Len(toDesk') = 0)
         /\ 1 \in DOMAIN toDesk /\ Item = toDesk[1] /\ Item \in Entry
         /\ \A i \in DOMAIN toDesk' : i + 1 \in DOMAIN toDesk /\ toDesk'[i] = toDesk[i + 1]
         /\ DeskReads
<1>1. PICK n \in DOMAIN toDesk : toDesk' = Rest(toDesk, n) /\ n = 1
  BY Reads
<1>2. /\ Len(toDesk) \in Nat \ {0} /\ Len(toDesk') \in Nat
      /\ DOMAIN toDesk = 1..Len(toDesk) /\ DOMAIN toDesk' = 1..Len(toDesk')
      /\ n \in 1..Len(toDesk) /\ Len(toDesk') = Len(toDesk) - n
      /\ (toDesk' = <<>> <=> Len(toDesk') = 0)
      /\ \A i \in DOMAIN toDesk' : i + n \in DOMAIN toDesk /\ toDesk'[i] = toDesk[i + n]
  BY <1>1, ReadIs
<1>3. DeskReads
  BY <1>1 DEF DeskReads
<1> QED
  BY <1>1, <1>2, <1>3, Head1

\* The kinds of what comes after it.
LEMMA KindsAfter ==
  ASSUME Typed, WellFormed(toDesk), toDesk # <<>>, Consume
  PROVE  /\ \A i \in DOMAIN toDesk' :
              toDesk'[i].kind \in Followers(Item) /\ toDesk'[i].kind # "ZDATA"
         /\ Item.kind \notin {"ZDATA", "data"} \/ Closing(Item) =>
              \A i \in DOMAIN toDesk' : toDesk'[i].kind # "data"
         /\ Lead' = 0
<1>1. /\ Len(toDesk) \in Nat \ {0} /\ Len(toDesk') = Len(toDesk) - 1 /\ Len(toDesk') \in Nat
      /\ DOMAIN toDesk = 1..Len(toDesk) /\ DOMAIN toDesk' = 1..Len(toDesk')
      /\ (toDesk' = <<>> <=> Len(toDesk') = 0)
      /\ 1 \in DOMAIN toDesk /\ Item = toDesk[1]
      /\ \A i \in DOMAIN toDesk' : i + 1 \in DOMAIN toDesk /\ toDesk'[i] = toDesk[i + 1]
  BY FirstGone
<1>2. \A i \in DOMAIN toDesk' : toDesk'[i].kind \in Followers(Item)
  <2>1. ASSUME NEW i \in DOMAIN toDesk'
        PROVE  toDesk[i + 1].kind \in Followers(toDesk[1])
    <3>1. 1 < i + 1 /\ i + 1 \in DOMAIN toDesk
      BY <1>1
    <3> QED
      BY <1>1, <3>1 DEF WellFormed
  <2> QED
    BY <1>1, <2>1
<1>3. "ZDATA" \notin Followers(Item)
  BY DEF Followers, Others, Parting
<1>4. Item.kind \notin {"ZDATA", "data"} \/ Closing(Item) => "data" \notin Followers(Item)
  BY DEF Followers, Others, Parting, Closing
<1>5. Lead' = 0
  <2>1. toDesk' # <<>> => 1 \in DOMAIN toDesk'
    BY <1>1
  <2> QED
    BY <1>2, <1>3, <2>1 DEF Lead
<1> QED
  BY <1>2, <1>3, <1>4, <1>5

\* Who has said what is read first.
LEMMA FirstSaid ==
  ASSUME Typed, Said, toDesk # <<>>
  PROVE  /\ Sz => /\ remote.st \in {"init", "file", "data", "ack", "eof", "fin"}
                  /\ remote.st = "init" => Item.kind = "ZRQINIT"
                  /\ remote.st = "file" => Item.kind \in {"ZRQINIT", "ZEOF", "ZFILE", "meta"}
                  /\ remote.st \in {"data", "ack"} =>
                       /\ Item.kind \in {"ZDATA", "data"} /\ Item.file = remote.file
                       /\ Item.kind = "data" => Item.count # 0
                  /\ remote.st = "data" => ~Closing(Item)
                  /\ remote.st = "eof" =>
                       Item.kind \in {"ZDATA", "data", "ZEOF"} /\ Item.file = remote.file
                  /\ remote.st = "fin" => Item.kind \in {"ZEOF", "ZFIN"}
         /\ Rz => Item.kind \in {"ZRINIT", "ZRPOS", "ZACK", "ZSKIP", "ZFIN"}
         /\ ~(Sz /\ Rz)
<1>1. 1 \in DOMAIN toDesk /\ Item = toDesk[1]
  BY Head1
<1>2. Sz => remote.st \in {"init", "file", "data", "ack", "eof", "fin"}
  BY RemoteIs DEF Sz
<1> QED
  BY <1>1, <1>2 DEF Said, Says, SaysOf, Sz, Rz

\* The answer to ZRQINIT, of a new receiver or not.
LEMMA InboundInit ==
  ASSUME Typed, Inbound, DetectReceive \/ ReceiveInit
  PROVE  Inbound'
<1> USE DEF desk, store, wire, far
<1>1. /\ toDesk # <<>> /\ Item.kind = "ZRQINIT" /\ dialog = "none" /\ Consume /\ ~discard
      /\ mode' = "receive" /\ remote' = remote /\ dialog' = "none" /\ ~discard'
      /\ rcv'.st = "session" /\ handle' = handle /\ lost' = lost /\ listed' = listed
      /\ toRemote' = toRemote \o <<Header("ZRINIT", 0)>>
      /\ mode = "none" \/ (mode = "receive" /\ rcv.st = "session")
  BY DEF DetectReceive, ReceiveInit, Receives, Hears, Item, NewReceiver, Send, Goes
<1>2. handle = NoHandle /\ listed = {} /\ lost = 0
  BY <1>1 DEF Inbound, Apart, Opened, Open, Listing
<1>3. WellFormed(toDesk) /\ Said /\ Told1
  BY DEF Inbound
<1>4. DeskReads
  BY <1>1, FirstGone
<1>5. WellFormed(toDesk)' /\ Said'
  BY <1>1, <1>3, <1>4, SaidLess DEF DeskReads
<1>6. ~Rz /\ (Sz => remote.st \in {"init", "file"}) /\ (Sz <=> Sz') /\ (Rz <=> Rz')
  BY <1>1, <1>3, FirstSaid DEF Sz, Rz
<1>7. Told1'
  <2>1. Header("ZRINIT", 0) \in Entry /\ Header("ZRINIT", 0).kind = "ZRINIT"
    BY ItemsAre DEF Others, Header
  <2>2. ASSUME Sz, ~Doomed, remote.st = "file", NEW j \in DOMAIN toRemote
        PROVE  toRemote[j].kind # "ZRPOS"
    <3>1. Heeded(j)
      <4>1. \A k \in 1..j : k \in DOMAIN toRemote
        BY <1>1, ToldMore, AddedAre DEF Others
      <4> QED
        BY <2>2, <4>1 DEF Heeded, Doomed
    <3> QED
      BY <1>1, <1>3, <2>2, <3>1 DEF Told1
  <2> DEFINE x == Header("ZRINIT", 0)
  <2>3. x \in Entry /\ x.kind = "ZRINIT" /\ toRemote' = toRemote \o <<x>>
    BY <1>1, <2>1
  <2> HIDE DEF x
  <2> QED
    BY <1>1, <1>3, <1>4, <1>6, <2>2, <2>3, ToldAlso
<1>8. Opened' /\ Apart' /\ Listing' /\ Dialogs'
  BY <1>1, <1>2, <1>6 DEF Opened, Open, Apart, Listing, Dialogs
<1>9. ClosedIs'
  <2>1. \A i \in DOMAIN toDesk' : toDesk'[i].kind \notin {"ZDATA", "data"}
    BY <1>1, <1>3, KindsAfter
  <2> QED
    BY <1>1, <2>1 DEF ClosedIs
<1>10. Together'
  <2>1. ASSUME Sz, remote.st = "file"
        PROVE  Len(toDesk') > 1
    <3>1. /\ Len(toDesk) \in Nat \ {0} /\ Len(toDesk') = Len(toDesk) - 1
          /\ Item = toDesk[1]
      BY <1>1, FirstGone
    <3>2. /\ toDesk[Len(toDesk)].kind = "meta"
          /\ Len(toDesk) > 1 => toDesk[Len(toDesk) - 1].kind = "ZFILE"
      BY <1>1, <1>3, <2>1 DEF Said, EndsWithMeta
    <3>3. Len(toDesk) # 1
      BY <1>1, <3>1, <3>2
    <3>4. Len(toDesk) # 2
      <4>1. Len(toDesk) = 2 => Len(toDesk) - 1 = 1
        OBVIOUS
      <4> QED
        BY <1>1, <3>1, <3>2, <4>1
    <3> QED
      BY <3>1, <3>3, <3>4
  <2> QED
    BY <1>1, <1>2, <1>6, <2>1 DEF Together, Open, Closed
<1> QED
  BY <1>5, <1>7, <1>8, <1>9, <1>10 DEF Inbound

\* Nothing is sent, and the receiver has no file.
LEMMA ClosedGoesOn ==
  ASSUME Typed, Inbound, mode = "receive", toDesk # <<>>, Consume, dialog = "none",
         mode' = "receive", handle = NoHandle,
         UNCHANGED <<toRemote, remote, handle, lost, listed, discard>>,
         dialog' # "choose"
  PROVE  /\ WellFormed(toDesk)' /\ Said' /\ Told1' /\ Opened' /\ Apart' /\ Listing' /\ Dialogs'
         /\ (Sz <=> Sz') /\ (Rz <=> Rz')
         /\ \A kinds : (Orders(kinds) <=> Orders(kinds)') /\ (Says(kinds) => Says(kinds)')
         /\ (Doomed <=> Doomed')
<1>1. DeskReads
  BY FirstGone
<1>2. WellFormed(toDesk)' /\ Said'
  BY <1>1, SaidLess DEF Inbound, DeskReads
<1>3. Told1'
  BY <1>1, ToldSame DEF Inbound
<1>4. /\ (Sz <=> Sz') /\ (Rz <=> Rz')
      /\ \A kinds : Orders(kinds) <=> Orders(kinds)'
      /\ (Doomed <=> Doomed')
  BY DEF Sz, Rz, Orders, Heeded, Doomed
<1>5. \A kinds : Says(kinds) => Says(kinds)'
  BY <1>1, DeskReadsIs
<1>6. Opened' /\ Apart'
  BY <1>4 DEF Inbound, Opened, Apart, Open
<1>7. Listing' /\ Dialogs'
  BY DEF Inbound, Listing, Dialogs
<1> QED
  BY <1>2, <1>3, <1>4, <1>5, <1>6, <1>7

LEMMA InboundFile ==
  ASSUME Typed, Inbound, ReceiveFile
  PROVE  Inbound'
<1> USE DEF desk, store, wire, far
<1>1. /\ toDesk # <<>> /\ Item.kind = "ZFILE" /\ dialog = "none" /\ Consume
      /\ mode = "receive" /\ mode' = "receive" /\ dialog' = "none"
      /\ rcv.st \in {"session", "fileBegin"} /\ rcv \in Receivers
      /\ rcv'.st = "meta" /\ ~rcv'.dirty
      /\ UNCHANGED <<toRemote, remote, handle, lost, listed, discard>>
  BY DEF ReceiveFile, Receives, Hears, Item, Goes, Typed, Receivers
<1>2. 1 \in DOMAIN toDesk /\ Item = toDesk[1]
  BY <1>1, Head1
<1>3. handle = NoHandle
  BY <1>1, <1>2 DEF Inbound, Opened, Open
<1>4. /\ WellFormed(toDesk)' /\ Said' /\ Told1' /\ Opened' /\ Apart' /\ Listing' /\ Dialogs'
      /\ (Sz <=> Sz') /\ (Rz <=> Rz')
  BY <1>1, <1>3, ClosedGoesOn
<1>5. toDesk' # <<>> /\ toDesk'[1].kind = "meta"
  <2>1. 2 \in DOMAIN toDesk /\ toDesk[2].kind = "meta"
    <3>1. 1 + 1 \in DOMAIN toDesk /\ toDesk[1 + 1].kind = "meta"
      BY <1>1, <1>2 DEF Inbound, WellFormed
    <3> QED
      BY <3>1
  <2>2. /\ Len(toDesk') = Len(toDesk) - 1 /\ Len(toDesk) \in Nat
        /\ DOMAIN toDesk = 1..Len(toDesk) /\ DOMAIN toDesk' = 1..Len(toDesk')
        /\ (toDesk' = <<>> <=> Len(toDesk') = 0)
        /\ \A i \in DOMAIN toDesk' : i + 1 \in DOMAIN toDesk /\ toDesk'[i] = toDesk[i + 1]
    BY <1>1, FirstGone
  <2>3. 1 \in DOMAIN toDesk' /\ 1 + 1 = 2
    BY <2>1, <2>2
  <2> QED
    BY <2>1, <2>2, <2>3
<1>6. ClosedIs'
  <2>1. \A i \in DOMAIN toDesk' : toDesk'[i].kind \notin {"ZDATA", "data"}
    BY <1>1, KindsAfter DEF Inbound
  <2> QED
    BY <1>1, <1>5, <2>1 DEF ClosedIs
<1>7. Together'
  <2>1. Sz => remote.st = "file"
    BY <1>1, FirstSaid DEF Inbound
  <2>2. ASSUME Sz
        PROVE  Len(toDesk') = 1
    <3>1. /\ Len(toDesk') \in Nat /\ DOMAIN toDesk' = 1..Len(toDesk')
          /\ (toDesk' = <<>> <=> Len(toDesk') = 0)
      BY <1>1, FirstGone
    <3>2. Says({"ZRQINIT", "ZEOF", "ZFILE", "meta"})'
      BY <1>4, <2>1, <2>2, <1>1 DEF Said
    <3>3. ASSUME Len(toDesk') > 1
          PROVE  FALSE
      <4>1. 1 \in DOMAIN toDesk' /\ 2 \in DOMAIN toDesk' /\ 1 < 2
        BY <3>1, <3>3
      <4>2. toDesk'[2].kind \in Followers(toDesk'[1])
        BY <1>4, <4>1 DEF WellFormed
      <4>3. toDesk'[2].kind \in Parting
        BY <1>5, <4>2 DEF Followers, Closing
      <4> QED
        BY <3>2, <4>1, <4>3 DEF Says, Parting
    <3> QED
      BY <1>5, <3>1, <3>3
  <2> QED
    BY <1>1, <1>3, <1>4, <2>1, <2>2 DEF Together, Open, Closed
<1> QED
  BY <1>4, <1>6, <1>7 DEF Inbound

LEMMA InboundMeta ==
  ASSUME Typed, Inbound, ReceiveMeta
  PROVE  Inbound'
<1> USE DEF desk, store, wire, far
<1>1. /\ toDesk # <<>> /\ Item.kind = "meta" /\ dialog = "none" /\ Consume /\ ~discard
      /\ mode = "receive" /\ mode' = "receive" /\ dialog' = "save"
      /\ rcv.st = "meta" /\ rcv \in Receivers
      /\ rcv'.st = "fileBegin" /\ rcv'.count = 0 /\ rcv'.file = Item.file
      /\ UNCHANGED <<toRemote, remote, handle, lost, listed, discard>>
  BY DEF ReceiveMeta, Receives, Hears, Item, Goes, Typed, Receivers
<1>2. 1 \in DOMAIN toDesk /\ Item = toDesk[1]
  BY <1>1, Head1
<1>3. handle = NoHandle
  BY <1>1, <1>2 DEF Inbound, Opened, Open
<1>4. /\ WellFormed(toDesk)' /\ Said' /\ Told1' /\ Opened' /\ Apart' /\ Listing' /\ Dialogs'
      /\ (Sz <=> Sz') /\ (Rz <=> Rz')
      /\ \A kinds : Orders(kinds) <=> Orders(kinds)'
  BY <1>1, <1>3, ClosedGoesOn
<1>5. \A i \in DOMAIN toDesk' : toDesk'[i].kind \in Parting
  <2>1. Followers(Item) = Parting
    BY <1>1 DEF Followers, Closing
  <2> QED
    BY <1>1, <2>1, KindsAfter DEF Inbound
<1>6. /\ Len(toDesk') = Len(toDesk) - 1 /\ Len(toDesk) \in Nat /\ Len(toDesk') \in Nat
      /\ DOMAIN toDesk' = 1..Len(toDesk')
      /\ (toDesk' = <<>> <=> Len(toDesk') = 0)
  BY <1>1, FirstGone
<1>7. ASSUME Sz
      PROVE  /\ remote.st = "file" /\ toDesk' = <<>> /\ rcv'.file = remote.file
             /\ Orders({"ZRINIT"})
  <2>1. remote.st = "file"
    BY <1>1, <1>7, FirstSaid DEF Inbound
  <2>2. Says({"ZRQINIT", "ZEOF", "ZFILE", "meta"})' /\ toDesk[Len(toDesk)].file = remote.file
    BY <1>1, <1>4, <1>7, <2>1 DEF Inbound, Said, EndsWithMeta
  <2>3. toDesk' = <<>>
    <3>1. ASSUME toDesk' # <<>>
          PROVE  FALSE
      <4>1. 1 \in DOMAIN toDesk'
        BY <1>6, <3>1
      <4> QED
        BY <1>5, <2>2, <4>1 DEF Says, Parting
    <3> QED
      BY <3>1
  <2>4. Len(toDesk) = 1
    BY <1>6, <2>3
  <2>5. Orders({"ZRINIT"})
    BY <1>1, <1>7, <2>1 DEF Inbound, Told1, Orders
  <2> QED
    BY <1>1, <1>2, <2>1, <2>2, <2>3, <2>4, <2>5
<1>8. ASSUME ~Sz
      PROVE  toDesk' # <<>>
  <2>1. toDesk[Len(toDesk)].kind # "meta"
    BY <1>1, <1>8 DEF Inbound, Said
  <2>2. Len(toDesk) # 1
    BY <1>1, <1>2, <2>1
  <2>3. Len(toDesk) # 0
    BY <1>1, FirstGone
  <2> QED
    BY <1>6, <2>2, <2>3
<1>9. ClosedIs'
  BY <1>1, <1>4, <1>5, <1>8 DEF ClosedIs, Parting
<1>10. Together'
  BY <1>1, <1>3, <1>4, <1>7 DEF Together, Open, Closed
<1> QED
  BY <1>4, <1>9, <1>10 DEF Inbound

LEMMA InboundSave ==
  ASSUME Typed, Inbound, SaveFile
  PROVE  Inbound'
<1> USE DEF desk, store, wire, far
<1>1. /\ dialog = "save" /\ dialog' = "none" /\ mode = "receive" /\ mode' = "receive"
      /\ handle' = <<>> /\ rcv' = rcv /\ listed' = listed \cup {rcv.file}
      /\ toRemote' = toRemote \o <<Header("ZRPOS", 0)>>
      /\ UNCHANGED <<toDesk, remote, discard>>
      /\ lost' = IF handle = NoHandle THEN lost ELSE lost + 1
  BY DEF SaveFile, Send, Goes, Inbound, Dialogs
<1>2. handle = NoHandle /\ lost' = 0 /\ listed' = {rcv.file}
  BY <1>1 DEF Inbound, Opened, Open, Listing
<1>3. Closed /\ rcv.st = "fileBegin" /\ rcv.count = 0
      /\ \A i \in DOMAIN toDesk : toDesk[i].kind \in Parting
  BY <1>1, <1>2 DEF Inbound, ClosedIs, Closed
<1>4. handle' # NoHandle
  <2>1. handle' \in Seq(Nat \X Nat)
    BY <1>1
  <2> QED
    BY <2>1, HandleAssumption
<1>5. DeskReads
  BY <1>1 DEF DeskReads
<1>6. WellFormed(toDesk)' /\ Said'
  BY <1>1, <1>5, SaidLess DEF Inbound, DeskReads
<1>7. (Sz <=> Sz') /\ (Rz <=> Rz')
  BY <1>1 DEF Sz, Rz
<1>8. ASSUME Sz
      PROVE  /\ remote.st = "file" /\ toDesk = <<>> /\ rcv.file = remote.file
             /\ Orders({"ZRINIT"})
  <2>1. remote.st \in {"init", "file", "data", "ack", "eof", "fin"}
    BY <1>8, RemoteIs DEF Sz
  <2>2. remote.st = "file"
    BY <1>1, <1>3, <1>8, <2>1 DEF Inbound, Together, Open, Closed
  <2> QED
    BY <1>1, <1>3, <1>8, <2>2 DEF Inbound, Together
<1>9. Told1'
  <2> DEFINE x == Header("ZRPOS", 0)
  <2>1. x \in Entry /\ x.kind = "ZRPOS" /\ x.count = 0 /\ toRemote' = toRemote \o <<x>>
    BY <1>1, ItemsAre DEF Others, Header
  <2> HIDE DEF x
  <2>2. ASSUME Sz, ~Doomed, NEW j \in DOMAIN toRemote
        PROVE  toRemote[j].kind # "ZRPOS"
    <3>1. Heeded(j)
      <4>1. \A k \in 1..j : k \in DOMAIN toRemote
        BY <1>1, ToldMore, AddedAre DEF Others
      <4> QED
        BY <2>2, <4>1 DEF Heeded, Doomed
    <3> QED
      BY <1>8, <2>2, <3>1 DEF Orders
  <2>3. Told1
    BY DEF Inbound
  <2> QED
    BY <1>1, <1>5, <1>8, <2>1, <2>2, <2>3, ToldAlso
<1>10. Opened'
  <2>1. handle' = Blocks(rcv.file, 0)
    <3>1. Blocks(rcv.file, 0) = <<>>
      BY DEF Blocks
    <3> QED
      BY <1>1, <3>1
  <2> QED
    BY <1>1, <1>3, <2>1 DEF Opened, Parting, OfFile
<1>11. ClosedIs' /\ Listing' /\ Dialogs'
  BY <1>1, <1>2, <1>4 DEF ClosedIs, Closed, Listing, Inbound, Dialogs
<1>12. Together'
  BY <1>1, <1>3, <1>4, <1>7, <1>8 DEF Together, Open, Closed
<1>13. Apart'
  <2>1. Rz => Orders({"ZRINIT", "ZRPOS", "ZACK"})'
    <3>1. Rz => remote.st = "init" /\ Orders({"ZRINIT", "ZRPOS", "ZACK"})
      BY <1>1 DEF Inbound, Apart
    <3>2. <<Header("ZRPOS", 0)>> \in Seq(Entry)
      BY AddedAre DEF Others
    <3> DEFINE items == <<Header("ZRPOS", 0)>>
    <3>3. \A i \in DOMAIN items : items[i].kind \in {"ZRINIT", "ZRPOS", "ZACK"}
      BY DEF Header
    <3>4. items \in Seq(Entry) /\ toRemote' = toRemote \o items
      BY <1>1, <3>2
    <3> HIDE DEF items
    <3> QED
      BY <3>1, <3>3, <3>4, OrdersMore
  <2> QED
    BY <1>1, <1>7, <2>1 DEF Inbound, Apart
<1> QED
  BY <1>6, <1>9, <1>10, <1>11, <1>12, <1>13 DEF Inbound

LEMMA OpenGoesOn ==
  ASSUME Typed, Inbound, mode = "receive", toDesk # <<>>, Consume, handle # NoHandle,
         mode' = "receive", handle' # NoHandle, rcv'.file = rcv.file,
         UNCHANGED <<dialog, remote, lost, listed, discard>>
  PROVE  /\ WellFormed(toDesk)' /\ Said' /\ ClosedIs' /\ Listing' /\ Dialogs'
         /\ (Sz <=> Sz') /\ (Rz <=> Rz')
         /\ \A kinds : Says(kinds) => Says(kinds)'
         /\ DeskReads
         /\ toRemote' = toRemote => /\ Told1' /\ Apart'
                                    /\ \A kinds : Orders(kinds) <=> Orders(kinds)'
                                    /\ (Doomed <=> Doomed')
<1>1. DeskReads
  BY FirstGone
<1>2. WellFormed(toDesk)' /\ Said'
  BY <1>1, SaidLess DEF Inbound, DeskReads
<1>3. toRemote' = toRemote => Told1'
  BY <1>1, ToldSame DEF Inbound
<1>4. /\ (Sz <=> Sz') /\ (Rz <=> Rz')
      /\ toRemote' = toRemote =>
           /\ \A kinds : Orders(kinds) <=> Orders(kinds)'
           /\ (Doomed <=> Doomed')
  BY DEF Sz, Rz, Orders, Heeded, Doomed
<1>5. \A kinds : Says(kinds) => Says(kinds)'
  BY <1>1, DeskReadsIs
<1>6. ClosedIs' /\ (toRemote' = toRemote => Apart')
  BY <1>4 DEF Inbound, ClosedIs, Apart, Closed
<1>7. Listing' /\ Dialogs'
  BY DEF Inbound, Listing, Dialogs
<1> QED
  BY <1>1, <1>2, <1>3, <1>4, <1>5, <1>6, <1>7

\* The subpacket that is open when sz is there, and the last of what it has said.
LEMMA ClosingStays ==
  ASSUME Typed, toDesk # <<>>, Consume, ~Closing(Item),
         \E i \in DOMAIN toDesk : Closing(toDesk[i])
  PROVE  (\E i \in DOMAIN toDesk : Closing(toDesk[i]))'
<1>1. PICK i \in DOMAIN toDesk : Closing(toDesk[i])
  OBVIOUS
<1>2. /\ Len(toDesk) \in Nat \ {0} /\ Len(toDesk') = Len(toDesk) - 1 /\ Len(toDesk') \in Nat
      /\ DOMAIN toDesk = 1..Len(toDesk) /\ DOMAIN toDesk' = 1..Len(toDesk')
      /\ Item = toDesk[1]
      /\ \A j \in DOMAIN toDesk' : j + 1 \in DOMAIN toDesk /\ toDesk'[j] = toDesk[j + 1]
  BY FirstGone
<1>3. i # 1
  BY <1>1, <1>2
<1>4. i - 1 \in DOMAIN toDesk' /\ i - 1 + 1 = i
  BY <1>2, <1>3
<1> QED
  BY <1>1, <1>2, <1>4

LEMMA InboundZdata ==
  ASSUME Typed, Inbound, ReceiveData
  PROVE  Inbound'
<1> USE DEF desk, store, wire, far
<1>1. /\ toDesk # <<>> /\ Item.kind = "ZDATA" /\ dialog = "none" /\ Consume
      /\ mode = "receive" /\ mode' = "receive" /\ rcv \in Receivers
      /\ UNCHANGED <<dialog, remote, handle, lost, listed, discard>>
  BY DEF ReceiveData, Receives, Hears, Item, Goes, Typed
<1>2. 1 \in DOMAIN toDesk /\ Item = toDesk[1] /\ Lead = 1
  BY <1>1, Head1 DEF Lead
<1>3. handle # NoHandle /\ Open
  BY <1>1, <1>2 DEF Inbound, ClosedIs, Closed, Open
<1>4. rcv.st \in {"fileBegin", "waiting"} /\ Item.count = rcv.count
  BY <1>1, <1>2, <1>3 DEF Inbound, Opened
<1>5. /\ rcv' = [rcv EXCEPT !.st = "data", !.dirty = FALSE]
      /\ toRemote' = toRemote
  BY <1>1, <1>4 DEF ReceiveData, BeginsHere
<1>6. rcv'.st = "data" /\ ~rcv'.dirty /\ rcv'.file = rcv.file /\ rcv'.count = rcv.count
      /\ rcv.count \in Nat
  BY <1>1, <1>5 DEF Receivers
<1>7. /\ WellFormed(toDesk)' /\ Said' /\ ClosedIs' /\ Listing' /\ Dialogs'
      /\ (Sz <=> Sz') /\ (Rz <=> Rz')
      /\ \A kinds : Says(kinds) => Says(kinds)'
      /\ Told1' /\ Apart'
      /\ \A kinds : Orders(kinds) <=> Orders(kinds)'
      /\ (Doomed <=> Doomed')
  BY <1>1, <1>3, <1>5, <1>6, OpenGoesOn
<1>8. /\ Len(toDesk) \in Nat \ {0} /\ Len(toDesk') = Len(toDesk) - 1 /\ Len(toDesk') \in Nat
      /\ DOMAIN toDesk = 1..Len(toDesk) /\ DOMAIN toDesk' = 1..Len(toDesk')
      /\ \A i \in DOMAIN toDesk' : i + 1 \in DOMAIN toDesk /\ toDesk'[i] = toDesk[i + 1]
  BY <1>1, FirstGone
<1>9. Lead' = 0 /\ \A i \in DOMAIN toDesk' : toDesk'[i].kind # "ZDATA"
  BY <1>1, KindsAfter DEF Inbound
<1>10. Opened'
  <2>1. ASSUME NEW i \in DOMAIN toDesk'
        PROVE  /\ toDesk'[i].kind \notin {"ZFILE", "meta", "ZFIN"}
               /\ toDesk'[i].kind \in OfFile => toDesk'[i].file = rcv.file
               /\ toDesk'[i].kind = "data" /\ toDesk'[i].count # 0 =>
                    toDesk'[i].count = rcv.count + i
    <3>1. i + 1 \in DOMAIN toDesk /\ toDesk'[i] = toDesk[i + 1] /\ i \in Nat
      BY <1>8
    <3>2. toDesk'[i].kind = "data" /\ toDesk'[i].count # 0 =>
            toDesk'[i].count = rcv.count + (i + 1) - 1
      BY <1>2, <1>3, <3>1 DEF Inbound, Opened
    <3>3. rcv.count + (i + 1) - 1 = rcv.count + i
      BY <1>6, <3>1
    <3> QED
      BY <1>3, <3>1, <3>2, <3>3 DEF Inbound, Opened
  <2>2. \A i \in DOMAIN toDesk' : rcv.count + i = rcv.count + i - 0
    BY <1>6, <1>8
  <2> QED
    BY <1>1, <1>3, <1>6, <1>9, <2>1, <2>2 DEF Inbound, Opened
<1>11. Together'
  <2> SUFFICES ASSUME Sz
               PROVE  Together'
    BY <1>7 DEF Together
  <2>1. remote.st \in {"data", "ack", "eof"} /\ ~Closing(Item)
    BY <1>1, FirstSaid DEF Inbound, Closing
  <2>2. Open'
    BY <1>1, <1>3 DEF Open
  <2>3. CASE remote.st \in {"data", "ack"}
    <3>1. remote.offset = rcv.count + Len(toDesk) - 1
      BY <1>1, <1>2, <2>3 DEF Inbound, Together
    <3>2. remote.offset = rcv.count + Len(toDesk') - 0
      BY <1>6, <1>8, <3>1
    <3>3. remote.st = "ack" => (\E i \in DOMAIN toDesk : Closing(toDesk[i]))'
      BY <1>1, <1>2, <1>3, <2>1, ClosingStays DEF Inbound, Together
    <3> QED
      BY <1>1, <1>2, <1>6, <1>7, <1>9, <2>2, <2>3, <3>2, <3>3 DEF Inbound, Together
  <2>4. CASE remote.st = "eof"
    <3>1. (\E i \in DOMAIN toDesk : Closing(toDesk[i]))'
      BY <1>1, <1>2, <1>3, <2>1, <2>4, ClosingStays DEF Inbound, Together
    <3> QED
      BY <1>1, <1>3, <1>6, <1>7, <2>2, <2>4, <3>1 DEF Inbound, Together, Open, Closed
  <2> QED
    BY <2>1, <2>3, <2>4
<1> QED
  BY <1>7, <1>10, <1>11 DEF Inbound

LEMMA BlocksMore ==
  ASSUME NEW f \in Nat, NEW n \in Nat
  PROVE  /\ Blocks(f, n) \in Seq(Block)
         /\ Append(Blocks(f, n), <<f, n + 1>>) = Blocks(f, n + 1)
<1> DEFINE s == Blocks(f, n)
           t == Blocks(f, n + 1)
           x == <<f, n + 1>>
<1>1. s \in Seq(Block) /\ Len(s) = n /\ \A i \in 1..n : s[i] = <<f, i>>
  BY DEF Blocks, Block
<1>2. t \in Seq(Block) /\ Len(t) = n + 1 /\ \A i \in 1..(n + 1) : t[i] = <<f, i>>
  BY DEF Blocks, Block
<1>3. x \in Block
  BY DEF Block
<1> HIDE DEF s, t, x
<1>4. /\ Append(s, x) \in Seq(Block) /\ Len(Append(s, x)) = n + 1
      /\ \A i \in 1..n : Append(s, x)[i] = s[i]
      /\ Append(s, x)[n + 1] = x
  BY <1>1, <1>3, AppendProperties
<1> DEFINE u == Append(s, x)
<1>5. u \in Seq(Block) /\ Len(u) = n + 1 /\ u[n + 1] = x /\ \A i \in 1..n : u[i] = s[i]
  BY <1>4
<1> HIDE DEF u
<1>6. ASSUME NEW i \in 1..(n + 1)
      PROVE  u[i] = t[i]
  <2>1. CASE i = n + 1
    BY <1>2, <1>5, <2>1 DEF x
  <2>2. CASE i # n + 1
    <3>1. i \in 1..n
      BY <2>2
    <3> QED
      BY <1>1, <1>2, <1>5, <3>1
  <2> QED
    BY <2>1, <2>2
<1>7. u = t
  BY <1>2, <1>5, <1>6, SeqEqual
<1> QED
  BY <1>1, <1>7 DEF s, t, u, x

LEMMA NotDoomedMore ==
  ASSUME Typed, NEW items \in Seq(Entry), toRemote' = toRemote \o items, ~Doomed,
         \A i \in DOMAIN items : items[i].kind # "CAN"
  PROVE  ~Doomed' /\ \A j \in DOMAIN toRemote : Heeded(j)
<1>1. /\ DOMAIN toRemote = 1..Len(toRemote)
      /\ \A i \in DOMAIN toRemote : toRemote'[i] = toRemote[i]
      /\ \A i \in DOMAIN toRemote' : i \in DOMAIN toRemote \/
           /\ i - Len(toRemote) \in DOMAIN items
           /\ toRemote'[i] = items[i - Len(toRemote)]
  BY ToldMore
<1>2. ~Doomed'
  BY <1>1 DEF Doomed
<1>3. ASSUME NEW j \in DOMAIN toRemote
      PROVE  Heeded(j)
  <2>1. \A k \in 1..j : k \in DOMAIN toRemote
    BY <1>1
  <2> QED
    BY <2>1 DEF Heeded, Doomed
<1> QED
  BY <1>2, <1>3

\* A block is written where it belongs.
LEMMA InboundSubpacket ==
  ASSUME Typed, Inbound, ReceiveSubpacket
  PROVE  Inbound'
<1> USE DEF desk, store, wire, far
<1> DEFINE length == IF Item.count = 0 THEN 0 ELSE 1
           count == rcv.count + length
           x == Header("ZACK", count)
<1>1. /\ toDesk # <<>> /\ Item.kind = "data" /\ dialog = "none" /\ Consume
      /\ mode = "receive" /\ mode' = "receive" /\ rcv \in Receivers
      /\ rcv.st = "data" /\ ~rcv.dirty
      /\ rcv' = [rcv EXCEPT !.count = count,
                            !.st = IF Item.end \in {"W", "E"} THEN "waiting" ELSE "data"]
      /\ handle' = IF handle = NoHandle \/ length = 0 THEN handle
                      ELSE Append(handle, <<Item.file, Item.count>>)
      /\ Send(IF Item.end \in {"W", "Q"} THEN <<x>> ELSE <<>>)
      /\ UNCHANGED <<dialog, remote, lost, listed, discard>>
  BY DEF ReceiveSubpacket, Receives, Hears, Item, Goes, Typed
<1>2. 1 \in DOMAIN toDesk /\ Item = toDesk[1] /\ Lead = 0 /\ Item \in Entry
  BY <1>1, Head1 DEF Lead
<1>3. handle # NoHandle /\ Open /\ handle \in Seq(Block)
  BY <1>1, <1>2 DEF Inbound, ClosedIs, Closed, Open, Typed
<1>4. /\ rcv.count \in Nat /\ rcv.file \in Nat /\ length \in {0, 1} /\ count \in Nat
      /\ rcv'.count = count /\ rcv'.file = rcv.file /\ ~rcv'.dirty
      /\ rcv'.st = IF Closing(Item) THEN "waiting" ELSE "data"
  BY <1>1 DEF Receivers, Closing
<1>5. /\ Item.file = rcv.file
      /\ Item.count # 0 => Item.count = rcv.count + 1
      /\ Item.count = 0 => Closing(Item)
      /\ handle = Blocks(rcv.file, rcv.count)
  <2>1. Item.count # 0 => Item.count = rcv.count + 1 - 0
    BY <1>1, <1>2, <1>3 DEF Inbound, Opened
  <2> QED
    BY <1>1, <1>2, <1>3, <1>4, <2>1 DEF Inbound, Opened, OfFile, WellFormed, Closing
<1>6. handle' = Blocks(rcv.file, count) /\ handle' # NoHandle
  <2>1. CASE Item.count = 0
    BY <1>1, <1>3, <1>4, <1>5, <2>1
  <2>2. CASE Item.count # 0
    <3>1. handle' = Append(Blocks(rcv.file, rcv.count), <<rcv.file, rcv.count + 1>>)
      BY <1>1, <1>3, <1>5, <2>2
    <3>2. handle' = Blocks(rcv.file, rcv.count + 1)
      BY <1>4, <3>1, BlocksMore
    <3>3. rcv.count + 1 \in Nat
      BY <1>4
    <3>4. handle' \in Seq(Block)
      BY <1>4, <3>2, <3>3, BlocksMore
    <3> QED
      BY <2>2, <3>2, <3>4, HandleAssumption DEF Block
  <2> QED
    BY <2>1, <2>2
<1>7. x \in Entry /\ x.kind = "ZACK" /\ x.count = count
  <2>1. "ZACK" \in Others
    BY DEF Others
  <2> QED
    BY <1>4, <2>1, ItemsAre DEF Header
<1> HIDE DEF length, count, x
<1>8. /\ WellFormed(toDesk)' /\ Said' /\ ClosedIs' /\ Listing' /\ Dialogs'
      /\ (Sz <=> Sz') /\ (Rz <=> Rz') /\ DeskReads
      /\ \A kinds : Says(kinds) => Says(kinds)'
      /\ toRemote' = toRemote => /\ Told1' /\ Apart'
                                 /\ \A kinds : Orders(kinds) <=> Orders(kinds)'
                                 /\ (Doomed <=> Doomed')
  BY <1>1, <1>3, <1>4, <1>6, OpenGoesOn
<1>9. /\ Len(toDesk) \in Nat \ {0} /\ Len(toDesk') = Len(toDesk) - 1 /\ Len(toDesk') \in Nat
      /\ DOMAIN toDesk = 1..Len(toDesk) /\ DOMAIN toDesk' = 1..Len(toDesk')
      /\ (toDesk' = <<>> <=> Len(toDesk') = 0)
      /\ \A i \in DOMAIN toDesk' : i + 1 \in DOMAIN toDesk /\ toDesk'[i] = toDesk[i + 1]
  BY <1>1, FirstGone
<1>10. /\ Lead' = 0 /\ \A i \in DOMAIN toDesk' : toDesk'[i].kind # "ZDATA"
       /\ Closing(Item) => \A i \in DOMAIN toDesk' : toDesk'[i].kind # "data"
  BY <1>1, KindsAfter DEF Inbound
<1>11. Opened'
  <2>1. ASSUME NEW i \in DOMAIN toDesk'
        PROVE  /\ toDesk'[i].kind \notin {"ZFILE", "meta", "ZFIN"}
               /\ toDesk'[i].kind \in OfFile => toDesk'[i].file = rcv.file
               /\ toDesk'[i].kind = "data" /\ toDesk'[i].count # 0 =>
                    toDesk'[i].count = count + i - 0 /\ rcv'.st = "data"
    <3>1. i + 1 \in DOMAIN toDesk /\ toDesk'[i] = toDesk[i + 1] /\ i \in Nat
      BY <1>9
    <3>2. toDesk'[i].kind = "data" /\ toDesk'[i].count # 0 =>
            toDesk'[i].count = rcv.count + (i + 1) - 0
      BY <1>2, <1>3, <3>1 DEF Inbound, Opened
    <3>3. toDesk'[i].kind = "data" => ~Closing(Item) /\ count = rcv.count + 1
      BY <1>5, <1>10 DEF count, length
    <3>4. rcv.count + (i + 1) - 0 = rcv.count + 1 + i - 0
      BY <1>4, <3>1
    <3> QED
      BY <1>3, <1>4, <3>1, <3>2, <3>3, <3>4 DEF Inbound, Opened
  <2>2. rcv'.st \in {"data", "waiting"}
    BY <1>4
  <2> QED
    BY <1>1, <1>4, <1>6, <1>10, <2>1, <2>2 DEF Opened
<1>12. /\ ~Rz
       /\ Sz => /\ remote.st \in {"data", "ack", "eof"} /\ ~Doomed /\ remote.offset \in Nat
                /\ remote.st \in {"data", "ack"} =>
                     /\ count + Len(toDesk') = remote.offset /\ count <= remote.offset
                     /\ count = remote.offset => toDesk' = <<>>
  <2>1. ASSUME Sz
        PROVE  remote.st \in {"data", "ack", "eof"} /\ ~Doomed /\ remote.offset \in Nat
    BY <1>1, <2>1, FirstSaid, RemoteIs DEF Inbound, Together, Sz
  <2>2. ASSUME Sz, remote.st \in {"data", "ack"}
        PROVE  /\ count + Len(toDesk') = remote.offset /\ count <= remote.offset
               /\ count = remote.offset => toDesk' = <<>>
    <3>1. Item.count # 0
      BY <1>1, <2>2, FirstSaid DEF Inbound
    <3>2. remote.offset = rcv.count + Len(toDesk) - 0
      BY <1>1, <1>2, <2>2 DEF Inbound, Together
    <3>3. count = rcv.count + 1
      BY <3>1 DEF count, length
    <3>4. Len(toDesk) \in Nat \ {0} /\ Len(toDesk') = Len(toDesk) - 1 /\ Len(toDesk') \in Nat
      BY <1>9
    <3>5. count + Len(toDesk') = remote.offset /\ count <= remote.offset
      BY <1>4, <3>2, <3>3, <3>4
    <3>6. count = remote.offset => Len(toDesk') = 0
      BY <1>4, <3>4, <3>5
    <3> QED
      BY <1>9, <3>5, <3>6
  <2> QED
    BY <1>1, <2>1, <2>2, FirstSaid DEF Inbound
<1>13. ASSUME toRemote' = toRemote \o <<x>>
       PROVE  /\ Told1'
              /\ \A kinds : "ZACK" \in kinds /\ Orders(kinds) => Orders(kinds)'
              /\ ~Doomed => ~Doomed'
  <2> DEFINE items == <<x>>
  <2>1. items \in Seq(Entry) /\ (\A i \in DOMAIN items : items[i].kind = "ZACK")
        /\ toRemote' = toRemote \o items
    BY <1>7, <1>13
  <2> HIDE DEF items
  <2>2. \A kinds : "ZACK" \in kinds /\ Orders(kinds) => Orders(kinds)'
    BY <2>1, OrdersMore
  <2>3. ~Doomed => ~Doomed' /\ \A j \in DOMAIN toRemote : Heeded(j)
    BY <2>1, NotDoomedMore
  <2>4. ASSUME Sz, ~Doomed, NEW j \in DOMAIN toRemote
        PROVE  /\ remote.st = "ack" => toRemote[j].count < remote.offset
               /\ remote.st = "eof" => toRemote[j].kind # "ZRINIT"
    BY <1>1, <1>2, <2>3, <2>4 DEF Inbound, Told1, Says
  <2>5. Told1
    BY DEF Inbound
  <2>6. Told1'
    BY <1>1, <1>7, <1>8, <1>12, <1>13, <2>4, <2>5, ToldAlso
  <2> QED
    BY <2>2, <2>3, <2>6
<1>14. toRemote' = toRemote \/ toRemote' = toRemote \o <<x>>
  <2>1. toRemote \in Seq(Entry)
    BY DEF Typed
  <2>2. toRemote \o <<>> = toRemote
    BY <2>1
  <2> QED
    BY <1>1, <2>2 DEF Send
<1>15. Told1' /\ Apart' /\ (~Doomed => ~Doomed') /\ (Orders({"ZACK"}) => Orders({"ZACK"})')
  <2>1. Told1' /\ (~Doomed => ~Doomed') /\ (Orders({"ZACK"}) => Orders({"ZACK"})')
    BY <1>8, <1>13, <1>14
  <2>2. Apart'
    BY <1>1, <1>8, <1>12 DEF Apart
  <2> QED
    BY <2>1, <2>2
<1>16. Together'
  <2> SUFFICES ASSUME Sz
               PROVE  Together'
    BY <1>8 DEF Together
  <2>1. Open' /\ ~Closed'
    BY <1>1, <1>6 DEF Open, Closed
  <2>2. remote.st \in {"ack", "eof"} /\ ~Closing(Item) =>
          (\E i \in DOMAIN toDesk : Closing(toDesk[i]))'
    BY <1>1, <1>3, ClosingStays DEF Inbound, Together
  <2>3. CASE remote.st \in {"data", "ack"}
    <3>1. remote.offset = count + Len(toDesk') - 0 /\ rcv.file = remote.file /\ ~Doomed'
      BY <1>1, <1>4, <1>9, <1>12, <1>15, <2>3 DEF Inbound, Together
    <3>2. remote.st = "data" => rcv'.st = "data"
      BY <1>1, <1>4, <2>3, FirstSaid DEF Inbound
    <3> QED
      BY <1>1, <1>4, <1>10, <2>1, <2>2, <2>3, <3>1, <3>2 DEF Together
  <2>4. CASE remote.st = "eof"
    <3>1. rcv.file = remote.file /\ ~Doomed' /\ Orders({"ZACK"})'
      BY <1>1, <1>3, <1>12, <1>15, <2>4 DEF Inbound, Together
    <3> QED
      BY <1>1, <1>4, <1>10, <2>1, <2>2, <2>4, <3>1 DEF Together
  <2> QED
    BY <1>12, <2>3, <2>4
<1> QED
  BY <1>8, <1>11, <1>15, <1>16 DEF Inbound

\* The end of a file, and of what is known of it.
LEMMA InboundEof ==
  ASSUME Typed, Inbound, ReceiveEof
  PROVE  /\ Inbound'
         /\ committed' = Append(committed, [file |-> rcv.file, data |-> handle])
         /\ handle = Whole(rcv.file) /\ handle \in Seq(Block) /\ rcv.file \in Nat
<1> USE DEF desk, store, wire, far
<1> DEFINE x == Header("ZRINIT", 0)
<1>1. /\ toDesk # <<>> /\ Item.kind = "ZEOF" /\ dialog = "none" /\ Consume
      /\ mode = "receive" /\ mode' = "receive" /\ rcv \in Receivers
      /\ rcv.st = "waiting" /\ Item.count = rcv.count
      /\ rcv' = [rcv EXCEPT !.st = "fileBegin"]
      /\ committed' = IF handle = NoHandle THEN committed
                      ELSE Append(committed, [file |-> rcv.file, data |-> handle])
      /\ handle' = NoHandle
      /\ listed' = listed \ {rcv.file}
      /\ toRemote' = toRemote \o <<x>>
      /\ UNCHANGED <<dialog, remote, lost, discard>>
  BY DEF ReceiveEof, Receives, Hears, Item, Goes, Typed, EndsHere, Send
<1>2. 1 \in DOMAIN toDesk /\ Item = toDesk[1] /\ Item \in Entry
  BY <1>1, Head1
<1>3. handle # NoHandle /\ Open /\ handle \in Seq(Block) /\ rcv.file \in Nat
  BY <1>1, <1>2 DEF Inbound, ClosedIs, Closed, Open, Typed, Receivers
<1>4. handle = Whole(rcv.file)
  BY <1>1, <1>2, <1>3 DEF Inbound, Opened, OfFile, WellFormed, Whole
<1>5. x \in Entry /\ x.kind = "ZRINIT" /\ x.count = 0
  BY ItemsAre DEF Header, Others
<1> HIDE DEF x
<1>6. DeskReads
  BY <1>1, FirstGone
<1>7. WellFormed(toDesk)' /\ Said' /\ (Sz <=> Sz') /\ (Rz <=> Rz')
  BY <1>1, <1>6, SaidLess DEF Inbound, DeskReads, Sz, Rz
<1>8. Listing' /\ Dialogs'
  BY <1>1, <1>3 DEF Inbound, Listing, Dialogs
<1>9. Opened' /\ rcv'.st = "fileBegin"
  BY <1>1 DEF Opened, Open, Receivers
<1>10. ClosedIs'
  <2>1. \A i \in DOMAIN toDesk' : toDesk'[i].kind \notin {"ZDATA", "data"}
    BY <1>1, KindsAfter DEF Inbound
  <2> QED
    BY <1>1, <1>9, <2>1 DEF ClosedIs
<1>11. ~Rz /\ (Sz => remote.st = "eof" /\ ~Doomed /\ Says({"ZEOF"})')
  <2>1. ASSUME Sz
        PROVE  remote.st = "eof" /\ ~Doomed
    BY <1>1, <1>3, <2>1, FirstSaid DEF Inbound, Together, Open, Closed
  <2>2. ASSUME Sz
        PROVE  Says({"ZEOF"})'
    <3>1. Says({"ZDATA", "data", "ZEOF"})'
      BY <1>1, <1>7, <2>1, <2>2 DEF Said
    <3>2. \A i \in DOMAIN toDesk' : toDesk'[i].kind \notin {"ZDATA", "data"}
      BY <1>1, KindsAfter DEF Inbound
    <3> QED
      BY <3>1, <3>2 DEF Says
  <2> QED
    BY <1>1, <2>1, <2>2, FirstSaid DEF Inbound
<1>12. Told1' /\ (~Doomed => ~Doomed')
  <2> DEFINE items == <<x>>
  <2>1. items \in Seq(Entry) /\ (\A i \in DOMAIN items : items[i].kind = "ZRINIT")
        /\ toRemote' = toRemote \o items
    BY <1>1, <1>5
  <2> HIDE DEF items
  <2>2. ~Doomed => ~Doomed' /\ \A j \in DOMAIN toRemote : Heeded(j)
    BY <2>1, NotDoomedMore
  <2>3. ASSUME Sz, NEW j \in DOMAIN toRemote
        PROVE  toRemote[j].kind # "ZRINIT"
    BY <1>1, <1>3, <1>11, <2>2, <2>3 DEF Inbound, Together, Orders
  <2>4. Told1
    BY DEF Inbound
  <2>5. Told1'
    BY <1>1, <1>5, <1>6, <1>11, <2>3, <2>4, ToldAlso
  <2> QED
    BY <2>2, <2>5
<1>13. Together'
  BY <1>1, <1>7, <1>9, <1>11, <1>12 DEF Together, Open, Closed
<1>14. Apart'
  BY <1>1, <1>7, <1>11 DEF Apart
<1>15. committed' = Append(committed, [file |-> rcv.file, data |-> handle])
  BY <1>1, <1>3
<1> QED
  BY <1>3, <1>4, <1>7, <1>8, <1>9, <1>10, <1>12, <1>13, <1>14, <1>15 DEF Inbound

\* What is not understood is skipped, or taken for a part of a subpacket.
LEMMA InboundIgnored ==
  ASSUME Typed, Inbound, ReceiveIgnored \/ ReceiveDirt
  PROVE  Inbound'
<1> USE DEF desk, store, wire, far
<1>1. /\ toDesk # <<>> /\ dialog = "none" /\ Consume
      /\ mode = "receive" /\ mode' = "receive" /\ rcv \in Receivers
      /\ UNCHANGED <<dialog, remote, handle, lost, listed, discard, toRemote>>
      /\ rcv'.st = rcv.st /\ rcv'.count = rcv.count /\ rcv'.file = rcv.file
      /\ rcv.st \in {"session", "meta", "fileBegin", "data", "waiting"}
      /\ rcv.count \in Nat
  BY DEF ReceiveIgnored, ReceiveDirt, Hears, Item, Goes, Typed, Receivers
<1>2. 1 \in DOMAIN toDesk /\ Item = toDesk[1]
  BY <1>1, Head1
<1>3. /\ ReceiveIgnored => /\ rcv' = rcv /\ Between /\ Item.kind # "ZDATA"
                           /\ Item.kind = "ZFILE" => rcv.st = "waiting"
      /\ ReceiveDirt => ~Between /\ Item.kind \notin {"meta", "data"}
  BY DEF ReceiveIgnored, ReceiveDirt
<1>4. /\ Len(toDesk) \in Nat \ {0} /\ Len(toDesk') = Len(toDesk) - 1 /\ Len(toDesk') \in Nat
      /\ DOMAIN toDesk = 1..Len(toDesk) /\ DOMAIN toDesk' = 1..Len(toDesk')
      /\ (toDesk' = <<>> <=> Len(toDesk') = 0)
      /\ \A i \in DOMAIN toDesk' : i + 1 \in DOMAIN toDesk /\ toDesk'[i] = toDesk[i + 1]
  BY <1>1, FirstGone
<1>5. Lead' = 0 /\ \A i \in DOMAIN toDesk' : toDesk'[i].kind # "ZDATA"
  BY <1>1, KindsAfter DEF Inbound
<1>6. CASE handle # NoHandle
  <2>1. /\ WellFormed(toDesk)' /\ Said' /\ ClosedIs' /\ Listing' /\ Dialogs'
        /\ (Sz <=> Sz') /\ (Rz <=> Rz')
        /\ \A kinds : Says(kinds) => Says(kinds)'
        /\ Told1' /\ Apart'
        /\ \A kinds : Orders(kinds) <=> Orders(kinds)'
        /\ (Doomed <=> Doomed')
    BY <1>1, <1>6, OpenGoesOn
  <2>2. Open /\ Open' /\ rcv.st \in {"fileBegin", "data", "waiting"}
    BY <1>1, <1>6 DEF Open, Inbound, Opened
  <2>3. Item.kind # "ZDATA" /\ (Item.kind = "data" => Closing(Item))
    <3>1. ReceiveDirt => rcv.st = "data"
      BY <1>3, <2>2 DEF Between
    <3>2. ReceiveDirt => Item.kind # "ZDATA" /\ Item.kind # "data"
      BY <1>2, <1>3, <2>2, <3>1 DEF Inbound, Opened
    <3>3. ReceiveIgnored /\ Item.kind = "data" => Item.count = 0
      BY <1>2, <1>3, <2>2 DEF Inbound, Opened, Between
    <3>4. Item.kind = "data" /\ Item.count = 0 => Closing(Item)
      BY <1>2 DEF Inbound, WellFormed, Closing
    <3> QED
      BY <1>3, <3>2, <3>3, <3>4
  <2>4. \A i \in DOMAIN toDesk' : toDesk'[i].kind # "data"
    BY <1>1, <2>3, KindsAfter DEF Inbound
  <2>5. Opened'
    <3>1. ASSUME NEW i \in DOMAIN toDesk'
          PROVE  /\ toDesk'[i].kind \notin {"ZFILE", "meta", "ZFIN"}
                 /\ toDesk'[i].kind \in OfFile => toDesk'[i].file = rcv.file
      BY <1>4, <2>2 DEF Inbound, Opened
    <3> QED
      BY <1>1, <1>5, <2>2, <2>4, <3>1 DEF Inbound, Opened
  <2>6. Together'
    <3> SUFFICES ASSUME Sz
                 PROVE  Together'
      BY <2>1 DEF Together
    <3>1. remote.st \in {"init", "file", "data", "ack", "eof", "fin"}
      BY RemoteIs DEF Sz
    <3>2. remote.st \notin {"file", "fin"}
      BY <1>1, <2>2 DEF Inbound, Together, Open, Closed
    <3>3. remote.st \in {"data", "ack"} => Item.kind \in {"ZDATA", "data"} /\ Item.count # 0
      BY <1>1, <2>3, FirstSaid DEF Inbound
    <3>4. remote.st \notin {"data", "ack"}
      <4>1. ASSUME remote.st \in {"data", "ack"}
            PROVE  FALSE
        <5>1. Item.kind = "data" /\ Item.count # 0
          BY <2>3, <3>3, <4>1
        <5>2. rcv.st = "data"
          BY <1>2, <2>2, <5>1 DEF Inbound, Opened
        <5> QED
          BY <1>3, <5>1, <5>2 DEF Between
      <4> QED
        BY <4>1
    <3>5. CASE remote.st = "eof"
      <4>1. rcv.st # "data"
        <5>1. ASSUME rcv.st = "data"
              PROVE  FALSE
          <6>1. ReceiveDirt
            BY <1>3, <5>1 DEF Between
          <6>2. Item.kind = "ZEOF"
            BY <1>1, <1>3, <2>3, <3>5, <6>1, FirstSaid DEF Inbound
          <6>3. PICK i \in DOMAIN toDesk : Closing(toDesk[i])
            BY <1>1, <2>2, <3>5, <5>1 DEF Inbound, Together
          <6>4. i # 1
            BY <1>2, <6>2, <6>3 DEF Closing
          <6>5. i - 1 \in DOMAIN toDesk' /\ i - 1 + 1 = i
            BY <1>4, <6>4
          <6>6. toDesk'[i - 1] = toDesk[i]
            BY <1>4, <6>5
          <6> QED
            BY <2>4, <6>3, <6>5, <6>6 DEF Closing
        <5> QED
          BY <5>1
      <4> QED
        BY <1>1, <1>5, <2>1, <2>2, <3>5, <4>1 DEF Inbound, Together, Open, Closed
    <3>6. CASE remote.st = "init"
      BY <1>1, <2>1, <3>6 DEF Inbound, Together
    <3> QED
      BY <3>1, <3>2, <3>4, <3>5, <3>6
  <2> QED
    BY <2>1, <2>5, <2>6 DEF Inbound
<1>7. CASE handle = NoHandle
  <2>1. /\ WellFormed(toDesk)' /\ Said' /\ Told1' /\ Opened' /\ Apart' /\ Listing' /\ Dialogs'
        /\ (Sz <=> Sz') /\ (Rz <=> Rz')
        /\ \A kinds : (Orders(kinds) <=> Orders(kinds)') /\ (Says(kinds) => Says(kinds)')
        /\ (Doomed <=> Doomed')
    BY <1>1, <1>7, ClosedGoesOn
  <2>2. Closed /\ Closed' /\ rcv.st \in {"session", "meta", "fileBegin"}
    BY <1>1, <1>7 DEF Closed, Inbound, ClosedIs
  <2>3. /\ ReceiveIgnored /\ rcv' = rcv /\ rcv.st \in {"session", "fileBegin"}
        /\ Item.kind \notin {"ZFILE", "ZDATA"}
    <3>1. rcv.st = "meta" => Item.kind = "meta"
      BY <1>2, <2>2 DEF Inbound, ClosedIs
    <3> QED
      BY <1>3, <2>2, <3>1 DEF Between
  <2>4. ClosedIs'
    BY <1>1, <1>4, <2>2, <2>3 DEF Inbound, ClosedIs
  <2>5. Together'
    <3> SUFFICES ASSUME Sz
                 PROVE  Together'
      BY <2>1 DEF Together
    <3>1. remote.st \in {"init", "file", "data", "ack", "eof", "fin"}
      BY RemoteIs DEF Sz
    <3>2. ASSUME remote.st = "file"
          PROVE  Len(toDesk') > 1
      <4>1. /\ Len(toDesk) > 1
            /\ toDesk[Len(toDesk) - 1].kind = "ZFILE"
        BY <1>1, <2>2, <2>3, <3>2 DEF Inbound, Together, Said, EndsWithMeta
      <4>2. Len(toDesk) # 2
        <5>1. Len(toDesk) = 2 => Len(toDesk) - 1 = 1
          OBVIOUS
        <5> QED
          BY <1>2, <2>3, <4>1, <5>1
      <4> QED
        BY <1>4, <4>1, <4>2
    <3> QED
      BY <1>1, <2>1, <2>2, <2>3, <3>1, <3>2 DEF Inbound, Together, Open, Closed
  <2> QED
    BY <2>1, <2>4, <2>5 DEF Inbound
<1> QED
  BY <1>6, <1>7

-------------------------------------------------------------------------------
(***************************************************************************)
(* What else is true of the remote programs.                               *)
(***************************************************************************)

\* What sz is told first is the answer to its ZRQINIT, or meant for another program.
Asked ==
  Sz /\ remote.st = "init" =>
    /\ Orders({"ZRINIT"}) \/ Orders({"ZFILE", "meta"})
    /\ mode # "send" => Doomed \/ Orders({"ZRINIT"})

\* A transfer whose ZRPOS will be heard has not been cancelled.
Living ==
  mode = "receive" /\ Sz /\ remote.st = "file" => ~Doomed \/ Orders({"ZRINIT"})

Answering == Rz /\ remote.st # "oo" => Says({"ZRINIT", "ZRPOS", "ZACK", "ZSKIP"})

Settled == Asked /\ Living /\ Answering

\* The remote hears what comes first.
LEMMA HeardIs ==
  ASSUME Typed, toRemote # <<>>, toRemote' = Tail(toRemote)
  PROVE  /\ Told \in Entry /\ Told = toRemote[1] /\ 1 \in DOMAIN toRemote
         /\ Heeded(1) <=> Told.kind # "CAN"
         /\ \A i \in DOMAIN toRemote' : i + 1 \in DOMAIN toRemote /\ toRemote'[i] = toRemote[i + 1]
                                          /\ i + 1 > 1
         /\ Told.kind # "CAN" => \A i \in DOMAIN toRemote' : Heeded(i)' <=> Heeded(i + 1)
<1>1. /\ toRemote' = Rest(toRemote, 1) /\ 1 \in DOMAIN toRemote /\ toRemote \in Seq(Entry)
      /\ Told \in Entry /\ Told = toRemote[1]
  BY HearsRest, Head1 DEF Typed
<1>2. /\ Len(toRemote) \in Nat \ {0} /\ Len(toRemote') \in Nat
      /\ DOMAIN toRemote = 1..Len(toRemote) /\ DOMAIN toRemote' = 1..Len(toRemote')
      /\ Len(toRemote') = Len(toRemote) - 1
      /\ \A i \in DOMAIN toRemote' : i + 1 \in DOMAIN toRemote /\ toRemote'[i] = toRemote[i + 1]
  BY <1>1, Shifted
<1>3. Heeded(1) <=> Told.kind # "CAN"
  BY <1>1 DEF Heeded
<1>4. ASSUME Told.kind # "CAN", NEW i \in DOMAIN toRemote'
      PROVE  Heeded(i)' <=> Heeded(i + 1)
  <2>1. \A j \in 1..i : toRemote'[j] = toRemote[j + 1] /\ j + 1 \in 1..(i + 1)
    BY <1>2, <1>4
  <2>2. \A j \in 1..(i + 1) : j = 1 \/ (j - 1 \in 1..i /\ j = (j - 1) + 1)
    BY <1>2, <1>4
  <2>3. Heeded(i)' => Heeded(i + 1)
    <3>1. ASSUME Heeded(i)', NEW j \in 1..(i + 1)
          PROVE  toRemote[j].kind # "CAN"
      BY <1>1, <1>4, <2>1, <2>2, <3>1 DEF Heeded
    <3> QED
      BY <3>1 DEF Heeded
  <2>4. Heeded(i + 1) => Heeded(i)'
    BY <2>1 DEF Heeded
  <2> QED
    BY <2>3, <2>4
<1>5. \A i \in DOMAIN toRemote' : i + 1 > 1
  BY <1>2
<1> QED
  BY <1>1, <1>2, <1>3, <1>4, <1>5

LEMMA OrdersLess ==
  ASSUME Typed, toRemote # <<>>, toRemote' = Tail(toRemote)
  PROVE  /\ Told.kind # "CAN" =>
              /\ \A kinds : Orders(kinds) => Told.kind \in kinds /\ Orders(kinds)'
              /\ Final(1) => \A kinds : Orders(kinds)'
              /\ Doomed => Doomed'
         /\ ~Doomed => ~Doomed'
<1>1. /\ Told \in Entry /\ Told = toRemote[1] /\ 1 \in DOMAIN toRemote
      /\ Heeded(1) <=> Told.kind # "CAN"
      /\ \A i \in DOMAIN toRemote' : i + 1 \in DOMAIN toRemote /\ toRemote'[i] = toRemote[i + 1]
                                       /\ i + 1 > 1
      /\ Told.kind # "CAN" => \A i \in DOMAIN toRemote' : Heeded(i)' <=> Heeded(i + 1)
  BY HeardIs
<1>2. ASSUME Told.kind # "CAN", NEW kinds, Orders(kinds)
      PROVE  Told.kind \in kinds /\ Orders(kinds)'
  BY <1>1, <1>2 DEF Orders
<1>3. ASSUME Told.kind # "CAN", Final(1), NEW kinds
      PROVE  Orders(kinds)'
  BY <1>1, <1>3 DEF Orders, Final
<1>4. ASSUME Told.kind # "CAN", Doomed
      PROVE  Doomed'
  <2>1. PICK i \in DOMAIN toRemote : toRemote[i].kind = "CAN"
    BY <1>4 DEF Doomed
  <2>2. /\ toRemote' = Rest(toRemote, 1) /\ toRemote \in Seq(Entry)
    BY HearsRest DEF Typed
  <2>3. /\ Len(toRemote) \in Nat \ {0} /\ Len(toRemote') \in Nat
        /\ DOMAIN toRemote = 1..Len(toRemote) /\ DOMAIN toRemote' = 1..Len(toRemote')
        /\ Len(toRemote') = Len(toRemote) - 1
    BY <1>1, <2>2, Shifted
  <2>4. i # 1
    BY <1>1, <1>4, <2>1
  <2>5. i - 1 \in DOMAIN toRemote' /\ i - 1 + 1 = i
    BY <2>3, <2>4
  <2>6. toRemote'[i - 1] = toRemote[i]
    BY <1>1, <2>5
  <2> QED
    BY <2>1, <2>5, <2>6 DEF Doomed
<1>5. ~Doomed => ~Doomed'
  BY <1>1 DEF Doomed
<1> QED
  BY <1>2, <1>3, <1>4, <1>5

-------------------------------------------------------------------------------
(***************************************************************************)
(* The steps of the remote.                                                *)
(***************************************************************************)

\* An item that may travel alone.
Alone(x) ==
  /\ x.kind # "ZFILE"
  /\ x.kind = "ZEOF" => x.count = Size[x.file]
  /\ x.kind = "data" /\ x.count = 0 => x.end = "E"

LEMMA OneItem ==
  ASSUME NEW x \in Entry, Alone(x), NEW t, t = <<x>>
  PROVE  /\ t \in Seq(Entry) /\ Len(t) = 1 /\ DOMAIN t = 1..1 /\ t[1] = x /\ WellFormed(t)
         /\ \A i \in DOMAIN t : t[i] = x
<1>1. t \in Seq(Entry) /\ Len(t) = 1 /\ DOMAIN t = 1..1 /\ t[1] = x
  BY DEF Entry
<1>2. \A i \in DOMAIN t : i = 1
  BY <1>1
<1>3. WellFormed(t)
  <2>1. \A i, j \in DOMAIN t : ~(i < j)
    BY <1>2
  <2> QED
    BY <1>1, <1>2, <2>1 DEF WellFormed, Alone
<1> QED
  BY <1>1, <1>2, <1>3

LEMMA TwoItems ==
  ASSUME NEW x \in Entry, NEW y \in Entry, Alone(x) \/ (x.kind = "ZFILE" /\ y.kind = "meta"),
         Alone(y), y.kind \in Followers(x), NEW t, t = <<x, y>>
  PROVE  /\ t \in Seq(Entry) /\ Len(t) = 2 /\ DOMAIN t = 1..2 /\ t[1] = x /\ t[2] = y
         /\ WellFormed(t)
         /\ \A i \in DOMAIN t : t[i] = x \/ t[i] = y
<1>1. t \in Seq(Entry) /\ Len(t) = 2 /\ DOMAIN t = 1..2 /\ t[1] = x /\ t[2] = y
  <2> HIDE DEF Entry
  <2> QED
    OBVIOUS
<1>2. \A i \in DOMAIN t : i = 1 \/ i = 2
  BY <1>1
<1>3. \A i, j \in DOMAIN t : i < j => i = 1 /\ j = 2
  BY <1>2
<1>4. \A i, j \in DOMAIN t : i < j => t[j].kind \in Followers(t[i])
  BY <1>1, <1>3
<1>5. ASSUME NEW i \in DOMAIN t
      PROVE  /\ t[i].kind = "ZFILE" => i + 1 \in DOMAIN t /\ t[i + 1].kind = "meta"
             /\ t[i].kind = "ZEOF" => t[i].count = Size[t[i].file]
             /\ t[i].kind = "data" /\ t[i].count = 0 => t[i].end = "E"
  <2>1. CASE i = 1
    <3>1. i + 1 = 2 /\ 2 \in DOMAIN t
      BY <1>1, <2>1
    <3>2. x.kind = "ZFILE" => y.kind = "meta"
      BY DEF Alone
    <3> QED
      BY <1>1, <2>1, <3>1, <3>2 DEF Alone
  <2>2. CASE i = 2
    BY <1>1, <2>2 DEF Alone
  <2> QED
    BY <1>2, <2>1, <2>2
<1>6. WellFormed(t)
  BY <1>4, <1>5 DEF WellFormed
<1> QED
  BY <1>1, <1>2, <1>6

\* Every item may be followed by the prompt, or by the end of a program.
LEMMA PartingFollows ==
  ASSUME NEW x \in Entry
  PROVE  Parting \subseteq Followers(x)
<1>1. x.kind \in OfFile \cup Others
  BY EntryIs
<1> QED
  BY <1>1 DEF Followers, Closing, Parting, OfFile, Others

\* What a program says when it leaves.
LEMMA PartingIs ==
  ASSUME NEW t, t = <<Text>> \/ t = <<Cancel, Text>>
  PROVE  /\ t \in Seq(Entry) /\ t # <<>> /\ WellFormed(t)
         /\ \A i \in DOMAIN t : t[i].kind \in Parting
         /\ Len(t) \in DOMAIN t
<1>1. /\ Text \in Entry /\ Cancel \in Entry /\ Alone(Text) /\ Alone(Cancel)
      /\ Text.kind \in Parting /\ Cancel.kind \in Parting
  BY ItemsAre DEF Text, Cancel, Header, Alone, Parting
<1>2. Text.kind \in Followers(Cancel)
  BY <1>1, PartingFollows
<1> HIDE DEF Entry, Text, Cancel
<1>3. CASE t = <<Text>>
  <2>1. /\ t \in Seq(Entry) /\ Len(t) = 1 /\ DOMAIN t = 1..1 /\ WellFormed(t)
        /\ \A i \in DOMAIN t : t[i] = Text
    BY <1>1, <1>3, OneItem
  <2> QED
    BY <1>1, <1>3, <2>1
<1>4. CASE t = <<Cancel, Text>>
  <2>1. /\ t \in Seq(Entry) /\ Len(t) = 2 /\ DOMAIN t = 1..2 /\ WellFormed(t)
        /\ \A i \in DOMAIN t : t[i] = Cancel \/ t[i] = Text
    BY <1>1, <1>2, <1>4, TwoItems
  <2> QED
    BY <1>1, <1>4, <2>1
<1> QED
  BY <1>3, <1>4

LEMMA InboundLeave ==
  ASSUME Typed, Inbound, UNCHANGED <<desk, store>>,
         NEW items, items = <<>> \/ items = <<Cancel>>, Leave(items)
  PROVE  Inbound' /\ Settled'
<1> USE DEF desk, store
<1> DEFINE t == items \o <<Text>>
<1>1. /\ remote'.program = "shell" /\ toDesk' = toDesk \o t
      /\ t = <<Text>> \/ t = <<Cancel, Text>>
  BY Leaves
<1> HIDE DEF t
<1>2. /\ t \in Seq(Entry) /\ t # <<>> /\ WellFormed(t) /\ Len(t) \in DOMAIN t
      /\ \A i \in DOMAIN t : t[i].kind \in Parting
  BY <1>1, PartingIs
<1>3. toDesk \in Seq(Entry) /\ \A i \in DOMAIN toDesk : toDesk[i] \in Entry
  BY Shifted, ElementOfSeq, LenProperties DEF Typed
<1>4. /\ Len(toDesk) \in Nat /\ Len(t) \in Nat /\ Len(toDesk') \in Nat
      /\ DOMAIN toDesk = 1..Len(toDesk) /\ DOMAIN t = 1..Len(t) /\ DOMAIN toDesk' = 1..Len(toDesk')
      /\ Len(toDesk') = Len(toDesk) + Len(t) /\ (toDesk' = <<>> <=> Len(toDesk') = 0)
      /\ \A i \in DOMAIN toDesk : i \in DOMAIN toDesk' /\ toDesk'[i] = toDesk[i]
      /\ \A i \in DOMAIN t : Len(toDesk) + i \in DOMAIN toDesk' /\ toDesk'[Len(toDesk) + i] = t[i]
      /\ \A i \in DOMAIN toDesk' :
           \/ i \in DOMAIN toDesk /\ toDesk'[i] = toDesk[i]
           \/ i - Len(toDesk) \in DOMAIN t /\ toDesk'[i] = t[i - Len(toDesk)]
  BY <1>1, <1>2, <1>3, Appended
<1>5. WellFormed(toDesk)'
  BY <1>1, <1>2, <1>3, PartingFollows, WellFormedAdded DEF Inbound
<1>6. ~Sz' /\ ~Rz'
  BY <1>1 DEF Sz, Rz
<1>7. toDesk' # <<>> /\ toDesk'[Len(toDesk')].kind \in Parting
  BY <1>2, <1>4
<1>8. Said'
  BY <1>6, <1>7 DEF Said, Parting
<1>9. \A i \in DOMAIN toDesk' :
        (i \in DOMAIN toDesk /\ toDesk'[i] = toDesk[i]) \/ toDesk'[i].kind \in Parting
  BY <1>2, <1>4
<1>10. Opened'
  <2>1. ASSUME Open
        PROVE  \A i \in DOMAIN toDesk' : toDesk'[i].kind \in OfFile =>
                 /\ i \in DOMAIN toDesk /\ toDesk'[i] = toDesk[i]
                 /\ Lead' = Lead
    <3>1. ASSUME NEW i \in DOMAIN toDesk', toDesk'[i].kind \in OfFile
          PROVE  i \in DOMAIN toDesk /\ toDesk'[i] = toDesk[i]
      BY <1>9, <3>1 DEF Parting, OfFile
    <3>2. ASSUME NEW i \in DOMAIN toDesk
          PROVE  Lead' = Lead
      <4>1. 1 \in DOMAIN toDesk /\ toDesk # <<>>
        BY <1>4, <3>2
      <4> QED
        BY <1>4, <1>7, <4>1 DEF Lead
    <3> QED
      BY <3>1, <3>2
  <2>2. ASSUME Open, NEW i \in DOMAIN toDesk'
        PROVE  toDesk'[i].kind \notin {"ZFILE", "meta", "ZFIN"}
    BY <1>9, <2>2 DEF Inbound, Opened, Parting
  <2>3. Open <=> Open'
    BY DEF Open
  <2> QED
    BY <2>1, <2>2, <2>3 DEF Inbound, Opened, OfFile
<1>11. ClosedIs'
  <2>1. Closed <=> Closed'
    BY DEF Closed
  <2>2. ASSUME Closed, NEW i \in DOMAIN toDesk'
        PROVE  /\ toDesk'[i].kind \notin {"ZDATA", "data"}
               /\ dialog = "save" => toDesk'[i].kind \in Parting
    BY <1>9, <2>2 DEF Inbound, ClosedIs, Parting
  <2>3. toDesk # <<>> => toDesk'[1] = toDesk[1]
    BY <1>3, <1>4, TailIs
  <2> QED
    BY <1>7, <2>1, <2>2, <2>3 DEF Inbound, ClosedIs
<1>12. Told1' /\ Together' /\ Apart' /\ Listing' /\ Dialogs' /\ Settled'
  BY <1>6 DEF Told1, Together, Apart, Listing, Dialogs, Settled, Asked, Living, Answering, Inbound
<1> QED
  BY <1>5, <1>8, <1>10, <1>11, <1>12 DEF Inbound

\* What is told first makes no difference.
LEMMA InboundHears ==
  ASSUME Typed, Inbound, Settled, UNCHANGED <<desk, store, remote, toDesk>>,
         toRemote # <<>>, toRemote' = Tail(toRemote), Sz \/ Rz => Told.kind # "CAN"
  PROVE  Inbound' /\ Settled'
<1> USE DEF desk, store
<1>1. /\ Sz <=> Sz'
      /\ Rz <=> Rz'
      /\ \A kinds : Says(kinds) <=> Says(kinds)'
  BY DEF Sz, Rz, Says
<1>2. WellFormed(toDesk)' /\ Said'
  BY <1>1 DEF Inbound, Said, WellFormed, SaysOf, EndsWithMeta
<1>3. ASSUME Told.kind # "CAN"
      PROVE  /\ \A kinds : Orders(kinds) => Orders(kinds)'
             /\ Doomed <=> Doomed'
  BY <1>3, OrdersLess
<1>4. ASSUME Sz
      PROVE  Told1'
  <2>1. /\ \A i \in DOMAIN toRemote' : i + 1 \in DOMAIN toRemote /\ toRemote'[i] = toRemote[i + 1]
        /\ \A i \in DOMAIN toRemote' : Heeded(i)' <=> Heeded(i + 1)
    BY <1>4, HeardIs
  <2>2. ASSUME NEW i \in DOMAIN toRemote', Final(i + 1)
        PROVE  Final(i)'
    <3>1. ASSUME NEW j \in DOMAIN toRemote', j > i
          PROVE  ~Heeded(j)'
      <4>1. j + 1 > i + 1 /\ j + 1 \in DOMAIN toRemote
        <5>1. i \in Int /\ j \in Int
          <6>1. toRemote' \in Seq(Entry)
            BY HearsRest
          <6> QED
            BY <2>2, <3>1, <6>1, LenProperties
        <5> QED
          BY <2>1, <3>1, <5>1
      <4> QED
        BY <2>1, <2>2, <3>1, <4>1 DEF Final
    <3> QED
      BY <3>1 DEF Final
  <2>3. Told1
    BY DEF Inbound
  <2>4. \A i \in DOMAIN toRemote' : Heeded(i)' =>
          /\ remote.st = "file" /\ toRemote'[i].kind = "ZRPOS" =>
               toRemote'[i].count = 0 /\ toDesk = <<>> /\ Final(i)'
          /\ remote.st = "eof" /\ toRemote'[i].kind = "ZRINIT" => Says({"ZEOF"}) /\ Final(i)'
          /\ remote.st = "data" => toRemote'[i].count <= remote.offset
          /\ remote.st = "ack" =>
               \/ toRemote'[i].count < remote.offset
               \/ toRemote'[i].count = remote.offset /\ toDesk = <<>> /\ Final(i)'
    BY <1>4, <2>1, <2>2, <2>3 DEF Told1
  <2> QED
    BY <1>1, <1>3, <1>4, <2>3, <2>4 DEF Told1
<1>5. Told1'
  BY <1>1, <1>4 DEF Told1
<1>6. Opened' /\ ClosedIs' /\ Listing' /\ Dialogs'
  BY <1>1 DEF Inbound, Opened, ClosedIs, Listing, Dialogs, Open, Closed, Lead
<1>7. Together'
  BY <1>1, <1>3 DEF Inbound, Together, Open, Closed, Lead
<1>8. Apart' /\ Settled'
  BY <1>1, <1>3 DEF Inbound, Apart, Settled, Asked, Living, Answering
<1> QED
  BY <1>2, <1>5, <1>6, <1>7, <1>8 DEF Inbound

LEMMA InboundRun ==
  ASSUME Typed, Inbound, NEW program \in {"sz", "rz"}, Run(program)
  PROVE  Inbound' /\ Settled'
<1> USE DEF desk, store
<1> DEFINE x == Header(IF program = "sz" THEN "ZRQINIT" ELSE "ZRINIT", 0)
<1>1. /\ toDesk = <<>> /\ toRemote = <<>> /\ toRemote' = <<>> /\ toDesk' = <<>> \o <<x>>
      /\ ~Sz /\ ~Rz /\ remote'.program = program /\ remote'.st = "init"
      /\ UNCHANGED <<desk, store>>
  BY DEF Run, Sz, Rz, Become, Reply
<1>2. x \in Entry /\ x.kind = (IF program = "sz" THEN "ZRQINIT" ELSE "ZRINIT")
  BY ItemsAre DEF Header, Others
<1> HIDE DEF x
<1>3. Alone(x)
  BY <1>2 DEF Alone
<1>4. toDesk' = <<x>>
  BY <1>1, <1>2
<1>5. /\ toDesk' \in Seq(Entry) /\ Len(toDesk') = 1 /\ DOMAIN toDesk' = 1..1 /\ toDesk'[1] = x
      /\ WellFormed(toDesk)' /\ \A i \in DOMAIN toDesk' : toDesk'[i] = x
  <2> DEFINE t == <<x>>
  <2>1. /\ t \in Seq(Entry) /\ Len(t) = 1 /\ DOMAIN t = 1..1 /\ t[1] = x
        /\ WellFormed(t) /\ \A i \in DOMAIN t : t[i] = x
    BY <1>2, <1>3, OneItem
  <2>2. toDesk' = t
    BY <1>4
  <2>3. WellFormed(t) <=> WellFormed(toDesk)'
    BY <2>2 DEF WellFormed
  <2> HIDE DEF t
  <2> QED
    BY <2>1, <2>2, <2>3
<1>6. toDesk' # <<>>
  BY <1>4
<1>7. /\ Sz' <=> program = "sz"
      /\ Rz' <=> program = "rz"
  BY <1>1 DEF Sz, Rz
<1>8. Said' /\ Answering'
  BY <1>1, <1>2, <1>5, <1>7 DEF Said, Says, Answering
<1>9. (\A kinds : Orders(kinds)') /\ ~Doomed'
  BY <1>1 DEF Orders, Doomed
<1>10. Told1'
  BY <1>1, <1>9 DEF Told1
<1>11. Opened'
  BY <1>1, <1>2, <1>5 DEF Inbound, Opened, Open, OfFile
<1>12. ClosedIs' /\ (mode = "receive" => dialog = "none")
  <2>1. Closed => dialog # "save" /\ rcv.st # "meta"
    BY <1>1 DEF Inbound, ClosedIs
  <2>2. ClosedIs'
    BY <1>1, <1>2, <1>5, <2>1 DEF Inbound, ClosedIs, Closed
  <2> QED
    BY <2>1, <2>2 DEF Inbound, ClosedIs, Opened, Open, Closed, Typed
<1>13. Together'
  BY <1>1, <1>9, <1>12 DEF Together
<1>14. Apart' /\ Listing' /\ Dialogs' /\ Asked' /\ Living'
  BY <1>1, <1>9 DEF Inbound, Apart, Listing, Dialogs, Asked, Living
<1> QED
  BY <1>5, <1>8, <1>10, <1>11, <1>12, <1>13, <1>14 DEF Inbound, Settled

LEMMA Replies ==
  ASSUME Typed, NEW t \in Seq(Entry), toDesk' = toDesk \o t, WellFormed(toDesk), WellFormed(t),
         \A i \in DOMAIN toDesk, j \in DOMAIN t : t[j].kind \in Followers(toDesk[i])
  PROVE  /\ toDesk' \in Seq(Entry) /\ WellFormed(toDesk)'
         /\ Len(toDesk) \in Nat /\ Len(t) \in Nat /\ Len(toDesk') \in Nat
         /\ DOMAIN toDesk = 1..Len(toDesk) /\ DOMAIN t = 1..Len(t)
         /\ DOMAIN toDesk' = 1..Len(toDesk')
         /\ Len(toDesk') = Len(toDesk) + Len(t)
         /\ (toDesk = <<>> <=> Len(toDesk) = 0) /\ (toDesk' = <<>> <=> Len(toDesk') = 0)
         /\ \A i \in DOMAIN toDesk : i \in DOMAIN toDesk' /\ toDesk'[i] = toDesk[i]
         /\ \A i \in DOMAIN t :
              Len(toDesk) + i \in DOMAIN toDesk' /\ toDesk'[Len(toDesk) + i] = t[i]
         /\ \A i \in DOMAIN toDesk' :
              \/ i \in DOMAIN toDesk /\ toDesk'[i] = toDesk[i]
              \/ i > Len(toDesk) /\ i - Len(toDesk) \in DOMAIN t /\ toDesk'[i] = t[i - Len(toDesk)]
         /\ \A kinds : Says(kinds) /\ (\A i \in DOMAIN t : t[i].kind \in kinds) => Says(kinds)'
         /\ \A f : SaysOf(f) /\ (\A i \in DOMAIN t : t[i].file = f) => SaysOf(f)'
         /\ toDesk # <<>> => Lead' = Lead
<1>1. toDesk \in Seq(Entry)
  BY DEF Typed
<1>2. WellFormed(toDesk \o t)
  BY <1>1, WellFormedAdded
<1> DEFINE u == toDesk'
<1>3. /\ u \in Seq(Entry)
      /\ Len(toDesk) \in Nat /\ Len(t) \in Nat /\ Len(u) \in Nat
      /\ DOMAIN toDesk = 1..Len(toDesk) /\ DOMAIN t = 1..Len(t) /\ DOMAIN u = 1..Len(u)
      /\ Len(u) = Len(toDesk) + Len(t)
      /\ (toDesk = <<>> <=> Len(toDesk) = 0) /\ (u = <<>> <=> Len(u) = 0)
      /\ \A i \in DOMAIN toDesk : i \in DOMAIN u /\ u[i] = toDesk[i]
      /\ \A i \in DOMAIN t : Len(toDesk) + i \in DOMAIN u /\ u[Len(toDesk) + i] = t[i]
      /\ \A i \in DOMAIN u :
           \/ i \in DOMAIN toDesk /\ u[i] = toDesk[i]
           \/ i > Len(toDesk) /\ i - Len(toDesk) \in DOMAIN t /\ u[i] = t[i - Len(toDesk)]
  BY <1>1, Appended
<1>4. /\ \A kinds : Says(kinds) /\ (\A i \in DOMAIN t : t[i].kind \in kinds) => Says(kinds)'
      /\ \A f : SaysOf(f) /\ (\A i \in DOMAIN t : t[i].file = f) => SaysOf(f)'
  BY <1>3 DEF Says, SaysOf
<1>5. toDesk # <<>> => Lead' = Lead
  <2>1. toDesk # <<>> => 1 \in DOMAIN toDesk
    BY <1>3
  <2> QED
    BY <1>3, <2>1 DEF Lead
<1>6. WellFormed(toDesk)'
  BY <1>2 DEF WellFormed
<1> QED
  BY <1>3, <1>4, <1>5, <1>6

\* rz answers, or says its ZRINIT again.
LEMMA RzSays ==
  ASSUME Typed, Inbound, Settled, UNCHANGED <<desk, store>>, Rz, Rz', remote.st # "oo",
         NEW x \in Entry, NEW t, t = <<>> \/ t = <<x>>, toDesk' = toDesk \o t,
         \/ x.kind \in {"ZRINIT", "ZRPOS", "ZACK", "ZSKIP"}
         \/ x.kind = "ZFIN" /\ remote'.st = "oo",
         mode = "receive" => remote'.st = "init" /\ toRemote' = toRemote
  PROVE  Inbound' /\ Settled'
<1> USE DEF desk, store
<1>1. Alone(x)
  BY DEF Alone
<1>2. /\ t \in Seq(Entry) /\ WellFormed(t)
      /\ \A i \in DOMAIN t : t[i] = x
  <2>1. CASE t = <<x>>
    BY <1>1, <2>1, OneItem
  <2>2. CASE t = <<>>
    <3>1. t \in Seq(Entry) /\ DOMAIN t = {}
      BY <2>2
    <3> QED
      BY <3>1 DEF WellFormed
  <2> QED
    BY <2>1, <2>2
<1>3. Says({"ZRINIT", "ZRPOS", "ZACK", "ZSKIP"}) /\ WellFormed(toDesk)
  BY DEF Settled, Answering, Inbound
<1>4. x.kind \in Others \ {"ZRQINIT", "text", "CAN"} /\ x.kind \notin OfFile
  BY DEF Others, OfFile
<1>5. ASSUME NEW i \in DOMAIN toDesk, NEW j \in DOMAIN t
      PROVE  t[j].kind \in Followers(toDesk[i])
  <2>1. toDesk[i].kind \in {"ZRINIT", "ZRPOS", "ZACK", "ZSKIP"}
    BY <1>3 DEF Says
  <2>2. Followers(toDesk[i]) = Others
    BY <2>1 DEF Followers, Closing
  <2> QED
    BY <1>2, <1>4, <2>2
<1> HIDE DEF Entry
<1>6. /\ toDesk' \in Seq(Entry) /\ WellFormed(toDesk)'
      /\ Len(toDesk) \in Nat /\ Len(t) \in Nat /\ Len(toDesk') \in Nat
      /\ DOMAIN toDesk = 1..Len(toDesk) /\ DOMAIN t = 1..Len(t)
      /\ DOMAIN toDesk' = 1..Len(toDesk')
      /\ (toDesk' = <<>> <=> Len(toDesk') = 0)
      /\ \A i \in DOMAIN toDesk' :
           \/ i \in DOMAIN toDesk /\ toDesk'[i] = toDesk[i]
           \/ i > Len(toDesk) /\ i - Len(toDesk) \in DOMAIN t /\ toDesk'[i] = t[i - Len(toDesk)]
      /\ \A kinds : Says(kinds) /\ (\A i \in DOMAIN t : t[i].kind \in kinds) => Says(kinds)'
  BY <1>2, <1>3, <1>5, Replies
<1>7. ~Sz /\ ~Sz'
  BY DEF Sz, Rz
<1>8. Says({"ZRINIT", "ZRPOS", "ZACK", "ZSKIP", "ZFIN"})'
  <2>1. Says({"ZRINIT", "ZRPOS", "ZACK", "ZSKIP", "ZFIN"})
    BY <1>3 DEF Says
  <2>2. \A i \in DOMAIN t : t[i].kind \in {"ZRINIT", "ZRPOS", "ZACK", "ZSKIP", "ZFIN"}
    BY <1>2
  <2> QED
    BY <1>6, <2>1, <2>2
<1>9. Answering'
  BY <1>2, <1>3, <1>6 DEF Answering
<1>10. Said'
  <2>1. toDesk' # <<>> => Len(toDesk') \in DOMAIN toDesk'
    BY <1>6
  <2> QED
    BY <1>7, <1>8, <2>1 DEF Said, Says
<1>11. \A i \in DOMAIN toDesk' : toDesk'[i].kind \notin OfFile /\ toDesk'[i].kind \notin Parting
  BY <1>8 DEF Says, OfFile, Parting
<1>12. mode = "receive" => \A i \in DOMAIN toDesk' : toDesk'[i].kind # "ZFIN"
  <2>1. mode = "receive" => remote'.st # "oo"
    OBVIOUS
  <2> QED
    BY <1>9, <2>1 DEF Answering, Says
<1>13. Opened'
  <2>1. \A i \in DOMAIN toDesk' : toDesk'[i].kind \notin {"ZFILE", "meta", "ZDATA", "data"}
    BY <1>11 DEF OfFile
  <2> QED
    BY <1>11, <1>12, <2>1 DEF Inbound, Opened, Open
<1>14. ClosedIs'
  <2>1. Closed => dialog # "save" /\ rcv.st # "meta"
    <3>1. ASSUME toDesk # <<>>
          PROVE  /\ 1 \in DOMAIN toDesk
                 /\ toDesk[1].kind \in {"ZRINIT", "ZRPOS", "ZACK", "ZSKIP"}
      <4>1. 1 \in DOMAIN toDesk
        BY <3>1, Head1
      <4> QED
        BY <1>3, <4>1 DEF Says
    <3> QED
      BY <1>7, <3>1 DEF Inbound, ClosedIs, Parting
  <2>2. \A i \in DOMAIN toDesk' : toDesk'[i].kind \notin {"ZDATA", "data"}
    BY <1>11 DEF OfFile
  <2> QED
    BY <2>1, <2>2 DEF Inbound, ClosedIs, Closed
<1>15. Told1' /\ Together' /\ Asked' /\ Living' /\ Listing' /\ Dialogs'
  BY <1>7 DEF Told1, Together, Asked, Living, Listing, Dialogs, Inbound
<1>16. Apart'
  <2>1. mode = "receive" => \A kinds : Orders(kinds) <=> Orders(kinds)'
    BY DEF Orders, Heeded
  <2> QED
    BY <1>7, <2>1 DEF Inbound, Apart
<1> QED
  BY <1>6, <1>9, <1>10, <1>13, <1>14, <1>15, <1>16 DEF Inbound, Settled

LEMMA InboundRz ==
  ASSUME Typed, Inbound, Settled, RzHears
  PROVE  Inbound' /\ Settled'
<1> USE DEF desk, store
<1>1. /\ Rz /\ ~Sz /\ toRemote # <<>> /\ toRemote' = Tail(toRemote) /\ UNCHANGED <<desk, store>>
      /\ remote.file \in Files /\ remote.offset \in Nat /\ Received \in Nat /\ Received + 1 \in Nat
      /\ Told \in Entry /\ Told.count \in Nat
  BY Head1, RemoteIs, EntryIs DEF RzHears, Hosts, Rz, Sz
<1>2. CASE Killed \/ RzDone
  BY <1>1, <1>2, InboundLeave DEF Killed, RzDone
<1>3. CASE RzIgnores
  <2>1. Told.kind # "CAN"
    BY <1>3 DEF RzIgnores
  <2> QED
    BY <1>1, <1>3, <2>1, InboundHears DEF RzIgnores
<1>4. ASSUME Told.kind \notin {"ZRINIT", "ZRPOS", "ZACK", "CAN"}
      PROVE  mode # "receive"
  BY <1>1, <1>4, OrdersLess DEF Inbound, Apart
<1>5. toDesk \o <<>> = toDesk
  BY DEF Typed
<1>6. CASE RzMeta
  <2>1. Told.file \in Files
    BY <1>1, <1>6, EntryIs DEF RzMeta, OfFile
  <2>2. PICK x \in Entry : x.kind \in {"ZRPOS", "ZSKIP"} /\ Reply(<<x>>)
    BY <1>6, ItemsAre DEF RzMeta, Header, Others
  <2>3. Rz' /\ remote.st # "oo" /\ mode # "receive"
    BY <1>1, <1>4, <1>6 DEF RzMeta, Become, Rz
  <2> QED
    BY <1>1, <2>2, <2>3, RzSays DEF Reply
<1>7. CASE RzData
  <2>1. Header("ZRPOS", Received) \in Entry /\ Header("ZRPOS", Received).kind = "ZRPOS"
    BY <1>1, ItemsAre DEF Header, Others
  <2>2. Rz' /\ remote.st # "oo" /\ mode # "receive"
    BY <1>1, <1>4, <1>7 DEF RzData, Become, Rz
  <2>3. toDesk' = toDesk \o <<>> \/ toDesk' = toDesk \o <<Header("ZRPOS", Received)>>
    BY <1>7 DEF RzData, Reply
  <2> QED
    BY <1>1, <2>1, <2>2, <2>3, RzSays
<1>8. CASE RzSubpacket
  <2> DEFINE x == Header("ZACK", Received + 1)
  <2>1. x \in Entry /\ x.kind = "ZACK"
    BY <1>1, ItemsAre DEF Header, Others
  <2>2. Rz' /\ remote.st # "oo" /\ mode # "receive"
    BY <1>1, <1>4, <1>8 DEF RzSubpacket, Become, Rz
  <2> HIDE DEF x
  <2>3. toDesk' = toDesk \o <<>> \/ toDesk' = toDesk \o <<x>>
    BY <1>8 DEF RzSubpacket, Reply, x
  <2> QED
    BY <1>1, <2>1, <2>2, <2>3, RzSays
<1>9. CASE RzEof \/ RzFin
  <2>1. PICK x \in Entry :
          /\ x.kind = "ZRINIT" \/ (x.kind = "ZFIN" /\ remote'.st = "oo")
          /\ Reply(<<x>>)
    <3>1. CASE RzEof
      <4>1. Header("ZRINIT", 0) \in Entry /\ Header("ZRINIT", 0).kind = "ZRINIT"
        BY ItemsAre DEF Header, Others
      <4> QED
        BY <3>1, <4>1 DEF RzEof
    <3>2. CASE RzFin
      <4>1. Header("ZFIN", 0) \in Entry /\ Header("ZFIN", 0).kind = "ZFIN"
        BY ItemsAre DEF Header, Others
      <4> QED
        BY <3>2, <4>1 DEF RzFin, Become
    <3> QED
      BY <1>9, <3>1, <3>2
  <2>2. Rz' /\ remote.st # "oo" /\ mode # "receive"
    BY <1>1, <1>4, <1>9 DEF RzEof, RzFin, Become, Rz
  <2> QED
    BY <1>1, <2>1, <2>2, RzSays DEF Reply
<1> QED
  BY <1>2, <1>3, <1>6, <1>7, <1>8, <1>9 DEF RzHears

\* sz says its ZRQINIT or its ZEOF again.
LEMMA InboundTimeout ==
  ASSUME Typed, Inbound, Settled, Patient, Timeout
  PROVE  Inbound' /\ Settled'
<1> USE DEF desk, store
<1>1. /\ UNCHANGED <<desk, store, remote, toRemote>> /\ toDesk' = toDesk \o Repeated
      /\ remote.program \in {"sz", "rz"} /\ remote.st \in {"init", "eof", "pos", "wait"}
  BY RemoteIs, SettingIs DEF Timeout, Patient, Reply
<1>2. CASE Rz
  <2>1. remote.st \in {"init", "pos", "wait"} /\ remote.offset \in Nat
    BY <1>1, <1>2, RemoteIs DEF Rz
  <2> DEFINE x == IF remote.st = "init" THEN Header("ZRINIT", 0)
                                        ELSE Header("ZRPOS", remote.offset)
  <2>2. Repeated = <<x>>
    BY <1>2, <2>1 DEF Repeated, Rz
  <2>3. x \in Entry /\ x.kind \in {"ZRINIT", "ZRPOS"}
    BY <2>1, ItemsAre DEF Header, Others
  <2> HIDE DEF x
  <2>4. mode = "receive" => remote.st = "init"
    BY <1>2 DEF Inbound, Apart
  <2>5. Rz' /\ remote.st # "oo"
    BY <1>1, <1>2, <2>1 DEF Rz
  <2> QED
    BY <1>1, <1>2, <2>2, <2>3, <2>4, <2>5, RzSays
<1>3. CASE Sz
  <2>1. remote.st \in {"init", "eof"} /\ remote.offset \in Nat /\ remote.file \in Files
    BY <1>1, <1>3, RemoteIs DEF Sz
  <2> DEFINE x == IF remote.st = "init" THEN Header("ZRQINIT", 0)
                                        ELSE Of(remote.file, Header("ZEOF", remote.offset))
  <2>2. Repeated = <<x>>
    BY <1>3, <2>1 DEF Repeated, Sz
  <2>3. /\ x \in Entry
        /\ remote.st = "init" => x.kind = "ZRQINIT"
        /\ remote.st = "eof" =>
             x.kind = "ZEOF" /\ x.file = remote.file /\ x.count = remote.offset
    BY <2>1, ItemsAre DEF Header, Others, Of, OfFile
  <2> HIDE DEF x
  <2> DEFINE t == <<x>>
  <2>4. /\ remote.st = "init" => Says({"ZRQINIT"})
        /\ remote.st = "eof" => /\ Says({"ZDATA", "data", "ZEOF"}) /\ SaysOf(remote.file)
                                /\ remote.offset = Size[remote.file]
    BY <1>3 DEF Inbound, Said
  <2>5. Alone(x)
    BY <2>1, <2>3, <2>4 DEF Alone
  <2>6. t \in Seq(Entry) /\ WellFormed(t) /\ Len(t) = 1 /\ \A i \in DOMAIN t : t[i] = x
    BY <2>3, <2>5, OneItem
  <2>7. toDesk' = toDesk \o t
    BY <1>1, <2>2
  <2> HIDE DEF t
  <2>8. ASSUME NEW i \in DOMAIN toDesk, NEW j \in DOMAIN t
        PROVE  t[j].kind \in Followers(toDesk[i])
    <3>1. CASE remote.st = "init"
      BY <2>3, <2>4, <2>6, <2>8, <3>1 DEF Says, Followers, Closing
    <3>2. CASE remote.st = "eof"
      <4>1. toDesk[i].kind \in {"ZDATA", "data", "ZEOF"} /\ t[j].kind = "ZEOF"
        BY <2>3, <2>4, <2>6, <2>8, <3>2 DEF Says
      <4> QED
        BY <4>1 DEF Followers, Closing, OfFile, Others
    <3> QED
      BY <2>1, <3>1, <3>2
  <2> HIDE DEF Entry
  <2>9. /\ WellFormed(toDesk)'
        /\ Len(toDesk) \in Nat /\ Len(t) \in Nat /\ Len(toDesk') \in Nat
        /\ DOMAIN toDesk = 1..Len(toDesk) /\ DOMAIN t = 1..Len(t)
        /\ DOMAIN toDesk' = 1..Len(toDesk')
        /\ (toDesk = <<>> <=> Len(toDesk) = 0)
        /\ \A i \in DOMAIN toDesk : i \in DOMAIN toDesk' /\ toDesk'[i] = toDesk[i]
        /\ \A i \in DOMAIN toDesk' :
             \/ i \in DOMAIN toDesk /\ toDesk'[i] = toDesk[i]
             \/ i > Len(toDesk) /\ i - Len(toDesk) \in DOMAIN t
                  /\ toDesk'[i] = t[i - Len(toDesk)]
        /\ \A kinds : Says(kinds) /\ (\A i \in DOMAIN t : t[i].kind \in kinds) => Says(kinds)'
        /\ \A f : SaysOf(f) /\ (\A i \in DOMAIN t : t[i].file = f) => SaysOf(f)'
        /\ toDesk # <<>> => Lead' = Lead
    BY <2>6, <2>7, <2>8, Replies DEF Inbound
  <2>10. \A i \in DOMAIN toDesk' :
           \/ i \in DOMAIN toDesk /\ toDesk'[i] = toDesk[i]
           \/ toDesk'[i] = x
    BY <2>6, <2>9
  <2>11. Sz' /\ ~Rz /\ ~Rz'
    BY <1>1, <1>3 DEF Sz, Rz
  <2>12. /\ remote.st = "init" => Says({"ZRQINIT"})'
         /\ remote.st = "eof" => Says({"ZDATA", "data", "ZEOF"})' /\ SaysOf(remote.file)'
         /\ Says({"ZEOF"}) /\ remote.st = "eof" => Says({"ZEOF"})'
    <3>1. CASE remote.st = "init"
      <4>1. \A i \in DOMAIN t : t[i].kind \in {"ZRQINIT"}
        BY <2>3, <2>6, <3>1
      <4> QED
        BY <2>4, <2>9, <3>1, <4>1
    <3>2. CASE remote.st = "eof"
      <4>1. \A i \in DOMAIN t : /\ t[i].kind \in {"ZEOF"} /\ t[i].file = remote.file
                                /\ t[i].kind \in {"ZDATA", "data", "ZEOF"}
        BY <2>3, <2>6, <3>2
      <4>2. \A f : f = remote.file => SaysOf(f)'
        BY <2>4, <2>9, <3>2, <4>1
      <4>3. SaysOf(remote.file)'
        BY <1>1, <4>2 DEF SaysOf
      <4>4. Says({"ZDATA", "data", "ZEOF"})' /\ (Says({"ZEOF"}) => Says({"ZEOF"})')
        BY <2>4, <2>9, <3>2, <4>1
      <4> QED
        BY <3>2, <4>3, <4>4
    <3> QED
      BY <2>1, <3>1, <3>2
  <2>13. Said'
    BY <1>1, <2>1, <2>4, <2>11, <2>12 DEF Said
  <2>14. Told1'
    <3>1. /\ \A i : (Heeded(i) <=> Heeded(i)') /\ (Final(i) <=> Final(i)')
          /\ \A kinds : Orders(kinds) <=> Orders(kinds)'
      BY <1>1 DEF Heeded, Final, Orders
    <3> QED
      BY <1>1, <1>3, <2>1, <2>12, <3>1 DEF Inbound, Told1, Sz
  <2>15. Lead' = Lead
    <3>1. ASSUME toDesk = <<>>
          PROVE  Lead' = 0
      <4>1. 1 \in DOMAIN toDesk' => toDesk'[1] = x
        BY <2>9, <2>10, <3>1
      <4>2. toDesk' # <<>> => 1 \in DOMAIN toDesk'
        <5>1. toDesk' \in Seq(Entry)
          BY TypedRemote DEF Typed
        <5> QED
          BY <5>1, TailIs
      <4> QED
        BY <2>1, <2>3, <4>1, <4>2 DEF Lead
    <3>2. toDesk = <<>> => Lead = 0
      BY DEF Lead
    <3> QED
      BY <2>9, <3>1, <3>2
  <2>16. Open => rcv.file = remote.file \/ remote.st = "init"
    BY <1>3, <2>1 DEF Inbound, Together, Open
  <2>17. Opened'
    <3>1. ASSUME Open, NEW i \in DOMAIN toDesk', toDesk'[i] = x
          PROVE  /\ toDesk'[i].kind \notin {"ZFILE", "meta", "ZFIN", "ZDATA", "data"}
                 /\ toDesk'[i].kind \in OfFile => toDesk'[i].file = rcv.file
      <4>1. "ZRQINIT" \notin OfFile
        BY DEF OfFile
      <4> QED
        BY <2>1, <2>3, <2>16, <3>1, <4>1
    <3> QED
      BY <1>1, <2>10, <2>15, <3>1 DEF Inbound, Opened, Open
  <2>18. ClosedIs'
    <3>1. Closed => dialog = "none" /\ rcv.st # "meta"
      <4>1. ASSUME Closed, remote.st = "init"
            PROVE  dialog = "none" /\ rcv.st # "meta"
        <5>1. dialog = "none"
          BY <1>3, <4>1 DEF Inbound, Together, Closed
        <5>2. toDesk # <<>> => toDesk[1].kind = "ZRQINIT"
          BY <2>4, <4>1, Head1 DEF Says
        <5> QED
          BY <4>1, <5>1, <5>2 DEF Inbound, ClosedIs
      <4> QED
        BY <1>3, <2>1, <4>1 DEF Inbound, Together, Closed
    <3>2. ASSUME Closed, NEW i \in DOMAIN toDesk'
          PROVE  toDesk'[i].kind \notin {"ZDATA", "data"}
      BY <2>1, <2>3, <2>10, <3>2 DEF Inbound, ClosedIs
    <3> QED
      BY <1>1, <3>1, <3>2 DEF Inbound, ClosedIs, Closed
  <2>19. /\ \A kinds : Orders(kinds) <=> Orders(kinds)'
         /\ Doomed <=> Doomed'
    BY <1>1 DEF Orders, Heeded, Doomed
  <2>20. (\E i \in DOMAIN toDesk : Closing(toDesk[i])) =>
           (\E i \in DOMAIN toDesk : Closing(toDesk[i]))'
    BY <2>9
  <2>21. Together'
    <3>1. CASE remote.st = "init"
      BY <1>1, <1>3, <2>19, <3>1 DEF Inbound, Together
    <3>2. CASE remote.st = "eof"
      BY <1>1, <1>3, <2>12, <2>15, <2>19, <2>20, <3>2 DEF Inbound, Together, Open, Closed
    <3> QED
      BY <2>1, <3>1, <3>2
  <2>22. Apart' /\ Listing' /\ Dialogs' /\ Asked' /\ Living' /\ Answering'
    BY <1>1, <1>3, <2>11, <2>19
       DEF Inbound, Apart, Listing, Dialogs, Settled, Asked, Living, Answering
  <2> QED
    BY <2>9, <2>13, <2>14, <2>17, <2>18, <2>21, <2>22 DEF Inbound, Settled
<1> QED
  BY <1>1, <1>2, <1>3 DEF Sz, Rz

\* What sz offers, or its end.
LEMMA InboundSzInit ==
  ASSUME Typed, Inbound, Settled, UNCHANGED <<desk, store>>, Sz,
         toRemote # <<>>, toRemote' = Tail(toRemote), SzInit
  PROVE  Inbound' /\ Settled'
<1> USE DEF desk, store
<1> DEFINE next == IF remote.st = "eof" THEN remote.file + 1 ELSE 1
<1>1. /\ Told.kind = "ZRINIT" /\ remote.st \in {"init", "eof"}
      /\ IF next \in Files
           THEN /\ Become("sz", "file", next, 0)
                /\ Reply(<<Of(next, Header("ZFILE", 0)), Meta(next)>>)
           ELSE /\ Become("sz", "fin", remote.file, 0) /\ Reply(<<Header("ZFIN", 0)>>)
  BY DEF SzInit
<1> HIDE DEF next
<1>2. Told \in Entry /\ Told = toRemote[1] /\ 1 \in DOMAIN toRemote /\ Heeded(1)
  BY <1>1, HeardIs
<1>3. /\ \A kinds : Orders(kinds) => "ZRINIT" \in kinds /\ Orders(kinds)'
      /\ Final(1) => \A kinds : Orders(kinds)'
      /\ ~Doomed => ~Doomed'
  BY <1>1, OrdersLess
<1>4. mode # "send"
  BY <1>3 DEF Inbound, Apart
<1>5. Orders({"ZRINIT"})' /\ (remote.st = "eof" => Says({"ZEOF"}) /\ \A kinds : Orders(kinds)')
  <2>1. remote.st = "init" => Orders({"ZRINIT"})'
    BY <1>3 DEF Settled, Asked
  <2>2. remote.st = "eof" => Says({"ZEOF"}) /\ Final(1)
    BY <1>1, <1>2 DEF Inbound, Told1
  <2> QED
    BY <1>1, <1>3, <2>1, <2>2
<1>6. mode = "receive" =>
        /\ handle = NoHandle /\ Closed /\ dialog = "none" /\ rcv.st \in {"session", "fileBegin"}
        /\ remote.st = "eof" => rcv.st = "fileBegin"
  <2>1. ASSUME mode = "receive", remote.st = "init"
        PROVE  dialog = "none" /\ rcv.st = "session"
    BY <1>3, <2>1 DEF Inbound, Together
  <2>2. ASSUME mode = "receive", remote.st = "eof"
        PROVE  handle = NoHandle /\ dialog = "none" /\ rcv.st = "fileBegin"
    BY <1>3, <2>2 DEF Inbound, Together, Open, Closed
  <2> QED
    BY <1>1, <2>1, <2>2 DEF Inbound, Opened, Open, Closed
<1>7. Says(IF remote.st = "init" THEN {"ZRQINIT"} ELSE {"ZEOF"}) /\ WellFormed(toDesk)
  BY <1>1, <1>5 DEF Inbound, Said
<1>8. CASE next \in Files
  <2> DEFINE x == Of(next, Header("ZFILE", 0))
             y == Meta(next)
             t == <<x, y>>
  <2>1. /\ x \in Entry /\ y \in Entry /\ x.kind = "ZFILE" /\ y.kind = "meta"
        /\ x.file = next /\ y.file = next
    BY <1>8, ItemsAre DEF OfFile, Of, Header, Meta
  <2>2. remote'.program = "sz" /\ remote'.st = "file" /\ remote'.file = next
    BY <1>1, <1>8 DEF Become
  <2>3. toDesk' = toDesk \o t
    BY <1>1, <1>8 DEF Reply
  <2> HIDE DEF x, y
  <2>4. Alone(y) /\ y.kind \in Followers(x)
    BY <2>1 DEF Alone, Followers
  <2> HIDE DEF Entry
  <2>5. /\ t \in Seq(Entry) /\ Len(t) = 2 /\ DOMAIN t = 1..2 /\ t[1] = x /\ t[2] = y
        /\ WellFormed(t) /\ \A i \in DOMAIN t : t[i] = x \/ t[i] = y
    BY <2>1, <2>4, TwoItems
  <2> HIDE DEF t
  <2>6. ASSUME NEW i \in DOMAIN toDesk, NEW j \in DOMAIN t
        PROVE  t[j].kind \in Followers(toDesk[i])
    <3>1. toDesk[i].kind \in {"ZRQINIT", "ZEOF"} /\ t[j].kind \in {"ZFILE", "meta"}
      BY <1>7, <2>1, <2>5, <2>6 DEF Says
    <3> QED
      BY <3>1 DEF Followers, Closing
  <2>7. /\ WellFormed(toDesk)'
        /\ Len(toDesk) \in Nat /\ Len(t) \in Nat /\ Len(toDesk') \in Nat
        /\ DOMAIN toDesk' = 1..Len(toDesk')
        /\ Len(toDesk') = Len(toDesk) + Len(t)
        /\ \A i \in DOMAIN t :
             Len(toDesk) + i \in DOMAIN toDesk' /\ toDesk'[Len(toDesk) + i] = t[i]
        /\ \A i \in DOMAIN toDesk' :
             \/ i \in DOMAIN toDesk /\ toDesk'[i] = toDesk[i]
             \/ i > Len(toDesk) /\ i - Len(toDesk) \in DOMAIN t
                  /\ toDesk'[i] = t[i - Len(toDesk)]
    BY <1>7, <2>3, <2>5, <2>6, Replies
  <2>8. Says({"ZRQINIT", "ZEOF", "ZFILE", "meta"})'
    <3> DEFINE kinds == {"ZRQINIT", "ZEOF", "ZFILE", "meta"}
    <3>1. Says(kinds)
      BY <1>7 DEF Says
    <3>2. \A i \in DOMAIN t : t[i].kind \in kinds
      BY <2>1, <2>5
    <3> HIDE DEF kinds
    <3>3. Says(kinds)'
      BY <1>7, <2>3, <2>5, <2>6, <3>1, <3>2, Replies
    <3> QED
      BY <3>3 DEF kinds
  <2>9. EndsWithMeta' /\ Len(toDesk') > 1
    <3>1. Len(toDesk') = Len(toDesk) + 2 /\ Len(toDesk') - 1 = Len(toDesk) + 1
      BY <2>5, <2>7
    <3>2. toDesk'[Len(toDesk')] = y /\ toDesk'[Len(toDesk') - 1] = x
      <4>1. 1 \in DOMAIN t /\ 2 \in DOMAIN t
        BY <2>5
      <4> QED
        BY <2>5, <2>7, <3>1, <4>1
    <3> QED
      BY <2>1, <2>2, <2>7, <3>1, <3>2 DEF EndsWithMeta
  <2>10. Sz' /\ ~Rz'
    BY <2>2 DEF Sz, Rz
  <2>11. Said' /\ Answering'
    BY <2>2, <2>8, <2>9, <2>10 DEF Said, Answering
  <2>12. Told1' /\ Asked' /\ Living'
    <3>1. Orders({"ZRINIT", "ZRPOS"})' /\ \A i \in DOMAIN toRemote' : Heeded(i)' =>
            toRemote'[i].kind = "ZRINIT"
      BY <1>5 DEF Orders
    <3> QED
      BY <1>5, <2>2, <2>10, <3>1 DEF Told1, Asked, Living
  <2>13. Opened' /\ Listing' /\ Dialogs' /\ Apart'
    BY <1>4, <1>6, <2>2, <2>10 DEF Inbound, Opened, Open, Listing, Dialogs, Apart
  <2>14. ClosedIs'
    BY <1>6, <2>8 DEF ClosedIs, Closed, Says
  <2>15. Together'
    BY <1>6, <2>2, <2>9, <2>10 DEF Together, Open, Closed
  <2> QED
    BY <2>7, <2>11, <2>12, <2>13, <2>14, <2>15 DEF Inbound, Settled
<1>9. CASE next \notin Files
  <2> DEFINE x == Header("ZFIN", 0)
             t == <<x>>
  <2>1. x \in Entry /\ x.kind = "ZFIN" /\ Alone(x)
    BY ItemsAre DEF Others, Header, Alone
  <2>2. remote'.program = "sz" /\ remote'.st = "fin" /\ remote.st = "eof"
    BY <1>1, <1>9, SizeIs DEF Become, next
  <2>3. toDesk' = toDesk \o t
    BY <1>1, <1>9 DEF Reply
  <2> HIDE DEF x
  <2> HIDE DEF Entry
  <2>4. t \in Seq(Entry) /\ WellFormed(t) /\ \A i \in DOMAIN t : t[i] = x
    BY <2>1, OneItem
  <2> HIDE DEF t
  <2>5. ASSUME NEW i \in DOMAIN toDesk, NEW j \in DOMAIN t
        PROVE  t[j].kind \in Followers(toDesk[i])
    BY <1>7, <2>1, <2>2, <2>4, <2>5 DEF Says, Followers, Closing
  <2>6. /\ WellFormed(toDesk)' /\ Len(toDesk') \in Nat /\ DOMAIN toDesk' = 1..Len(toDesk')
        /\ \A i \in DOMAIN toDesk' :
             \/ i \in DOMAIN toDesk /\ toDesk'[i] = toDesk[i]
             \/ i > Len(toDesk) /\ i - Len(toDesk) \in DOMAIN t
                  /\ toDesk'[i] = t[i - Len(toDesk)]
    BY <1>7, <2>3, <2>4, <2>5, Replies
  <2>7. Says({"ZEOF", "ZFIN"})'
    BY <1>7, <2>1, <2>2, <2>4, <2>6 DEF Says
  <2>8. Sz' /\ ~Rz'
    BY <2>2 DEF Sz, Rz
  <2>9. Said' /\ Told1' /\ Settled'
    BY <2>2, <2>7, <2>8 DEF Said, Told1, Settled, Asked, Living, Answering
  <2>10. Opened' /\ Listing' /\ Dialogs' /\ Apart'
    BY <1>4, <1>6, <2>2, <2>8 DEF Inbound, Opened, Open, Listing, Dialogs, Apart
  <2>11. ClosedIs'
    BY <1>6, <2>7 DEF ClosedIs, Closed, Says
  <2>12. Together'
    BY <1>6, <2>2, <2>8 DEF Together, Open, Closed
  <2> QED
    BY <2>6, <2>9, <2>10, <2>11, <2>12 DEF Inbound
<1> QED
  BY <1>8, <1>9

\* sz, told where the receiver is, says where it goes on, or that this is the end.
LEMMA SzSays ==
  ASSUME Typed, Inbound, UNCHANGED <<desk, store>>, Sz,
         toRemote # <<>>, toRemote' = Tail(toRemote), Told.kind # "CAN", Final(1),
         toDesk = <<>>, remote.st \in {"file", "ack"}, NEW x \in Entry,
         NEW st, NEW offset \in Nat, Become("sz", st, remote.file, offset),
         toDesk' = toDesk \o <<x>>, x.file = remote.file, x.count = offset,
         \/ st = "data" /\ x.kind = "ZDATA"
         \/ st = "eof" /\ x.kind = "ZEOF" /\ offset = Size[remote.file],
         mode = "receive" =>
           /\ handle # NoHandle /\ ~Doomed /\ rcv.file = remote.file /\ rcv.count = offset
           /\ rcv.st \in {"fileBegin", "waiting"}
  PROVE  Inbound' /\ Settled'
<1> USE DEF desk, store
<1>1. Alone(x)
  BY DEF Alone
<1>2. toDesk' = <<x>>
  BY DEF Typed
<1>3. /\ Len(toDesk') = 1 /\ DOMAIN toDesk' = 1..1 /\ toDesk'[1] = x /\ WellFormed(toDesk)'
      /\ \A i \in DOMAIN toDesk' : toDesk'[i] = x
  <2> DEFINE t == <<x>>
  <2>1. /\ Len(t) = 1 /\ DOMAIN t = 1..1 /\ t[1] = x /\ WellFormed(t)
        /\ \A i \in DOMAIN t : t[i] = x
    BY <1>1, OneItem
  <2>2. toDesk' = t
    BY <1>2
  <2>3. WellFormed(t) <=> WellFormed(toDesk)'
    BY <2>2 DEF WellFormed
  <2> HIDE DEF t
  <2> QED
    BY <2>1, <2>2, <2>3
<1>4. toDesk' # <<>>
  BY <1>2
<1>5. /\ remote'.program = "sz" /\ remote'.st = st /\ remote'.file = remote.file
      /\ remote'.offset = offset
  BY DEF Become
<1>6. Sz' /\ ~Rz'
  BY <1>5 DEF Sz, Rz
<1>7. (\A kinds : Orders(kinds)') /\ (~Doomed => ~Doomed')
  BY OrdersLess
<1>8. Told1'
  <2>1. ASSUME NEW i \in DOMAIN toRemote'
        PROVE  ~Heeded(i)'
    <3>1. Orders({})'
      BY <1>7
    <3> QED
      BY <3>1 DEF Orders
  <2>2. Orders({"ZACK"})' /\ Orders({"ZACK", "ZRINIT"})'
    BY <1>7
  <2> QED
    BY <1>5, <2>1, <2>2 DEF Told1
<1>9. Said' /\ Settled'
  <2>1. SaysOf(remote.file)'
    BY <1>3, <1>5 DEF SaysOf
  <2>2. Says({"ZDATA", "data"})' \/ st = "eof"
    BY <1>3 DEF Says
  <2>3. Says({"ZDATA", "data", "ZEOF"})'
    BY <1>3 DEF Says
  <2>4. \A i \in DOMAIN toDesk' : toDesk'[i].kind # "data"
    BY <1>3
  <2>5. st = "eof" => remote'.offset = Size[remote'.file]
    BY <1>5
  <2>6. Said'
    BY <1>5, <1>6, <2>1, <2>2, <2>3, <2>4, <2>5 DEF Said, Closing
  <2> QED
    BY <1>5, <1>6, <2>6 DEF Settled, Asked, Living, Answering
<1>10. mode # "send" /\ Apart' /\ Listing' /\ Dialogs'
  BY <1>5, <1>6 DEF Inbound, Apart, Listing, Dialogs
<1>11. Lead' = IF x.kind = "ZDATA" THEN 1 ELSE 0
  BY <1>3, <1>4 DEF Lead
<1>12. Opened' /\ ClosedIs'
  BY <1>3, <1>11 DEF Inbound, Opened, ClosedIs, Open, Closed
<1>13. Together'
  <2> SUFFICES ASSUME mode = "receive"
               PROVE  Together'
    BY DEF Together
  <2>1. Open' /\ ~Closed' /\ rcv.count \in Nat
    BY DEF Open, Closed, Typed, Receivers
  <2>2. CASE st = "data"
    <3>1. remote'.offset = rcv.count + Len(toDesk') - Lead'
      BY <1>3, <1>5, <1>11, <2>1, <2>2
    <3> QED
      BY <1>5, <1>6, <1>7, <1>11, <2>1, <2>2, <3>1 DEF Together
  <2>3. CASE st = "eof"
    BY <1>5, <1>6, <1>7, <1>11, <2>1, <2>3 DEF Together
  <2> QED
    BY <2>2, <2>3
<1> QED
  BY <1>3, <1>8, <1>9, <1>10, <1>12, <1>13 DEF Inbound

LEMMA InboundSzPos ==
  ASSUME Typed, Inbound, Settled, UNCHANGED <<desk, store>>, Sz,
         toRemote # <<>>, toRemote' = Tail(toRemote), SzPos
  PROVE  Inbound' /\ Settled'
<1>1. Told.kind = "ZRPOS" /\ remote.st \in {"file", "data", "ack", "eof"}
  BY DEF SzPos
<1>2. Told = toRemote[1] /\ 1 \in DOMAIN toRemote /\ Heeded(1)
  BY <1>1, HeardIs
<1>3. \A kinds : Orders(kinds) => "ZRPOS" \in kinds
  BY <1>1, OrdersLess
<1>4. remote.st = "file"
  BY <1>1, <1>3 DEF Inbound, Told1
<1>5. Told.count = 0 /\ toDesk = <<>> /\ Final(1)
  BY <1>1, <1>2, <1>4 DEF Inbound, Told1
<1> DEFINE x == Of(remote.file, Header("ZDATA", 0))
           empty == <<>>
<1>6. Become("sz", "data", remote.file, 0) /\ toDesk' = toDesk \o <<x>>
  <2>1. x \in Entry
    BY RemoteIs, ItemsAre DEF Sz, OfFile
  <2> HIDE DEF x
  <2>2. <<>> \o <<x>> = <<x>>
    BY <2>1
  <2> QED
    BY <1>4, <1>5, <2>2 DEF SzPos, Reply, x
<1>7. x \in Entry /\ x.kind = "ZDATA" /\ x.count = 0 /\ x.file = remote.file
  BY RemoteIs, ItemsAre DEF Sz, OfFile, Of, Header
<1> HIDE DEF x
<1>8. ASSUME mode = "receive"
      PROVE  /\ handle # NoHandle /\ ~Doomed /\ rcv.file = remote.file /\ rcv.count = 0
             /\ rcv.st \in {"fileBegin", "waiting"}
  <2>1. ~Doomed
    BY <1>3, <1>4, <1>8 DEF Settled, Living
  <2>2. ~Orders({"ZRINIT"})
    BY <1>3
  <2>3. Open
    <3>1. Len(toDesk) = 0
      BY <1>5
    <3> QED
      BY <1>4, <1>8, <2>2, <3>1 DEF Inbound, Together, Open, Closed
  <2> QED
    BY <1>4, <1>8, <2>1, <2>3 DEF Inbound, Together, Open
<1> QED
  BY <1>1, <1>4, <1>5, <1>6, <1>7, <1>8, SzSays

LEMMA InboundSzAck ==
  ASSUME Typed, Inbound, Settled, UNCHANGED <<desk, store>>, Sz,
         toRemote # <<>>, toRemote' = Tail(toRemote), SzAck
  PROVE  Inbound' /\ Settled'
<1>1. Told.kind = "ZACK" /\ remote.st = "ack" /\ Told.count = remote.offset
  BY DEF SzAck
<1>2. Told = toRemote[1] /\ 1 \in DOMAIN toRemote /\ Heeded(1)
  BY <1>1, HeardIs
<1>3. remote.offset \in Nat /\ remote.file \in Files
  BY RemoteIs DEF Sz
<1>4. toDesk = <<>> /\ Final(1)
  BY <1>1, <1>2, <1>3 DEF Inbound, Told1
<1>5. PICK st \in {"data", "eof"} :
        /\ Become("sz", st, remote.file, remote.offset)
        /\ st = "eof" => remote.offset = Size[remote.file]
        /\ toDesk' = toDesk \o
             <<Of(remote.file, Header(IF st = "eof" THEN "ZEOF" ELSE "ZDATA", remote.offset))>>
  <2>1. CASE remote.offset = Size[remote.file]
    BY <2>1 DEF SzAck, Reply
  <2>2. CASE remote.offset # Size[remote.file]
    BY <2>2 DEF SzAck, Reply
  <2> QED
    BY <2>1, <2>2
<1> DEFINE x == Of(remote.file, Header(IF st = "eof" THEN "ZEOF" ELSE "ZDATA", remote.offset))
<1>6. /\ x \in Entry /\ x.kind = (IF st = "eof" THEN "ZEOF" ELSE "ZDATA")
      /\ x.count = remote.offset /\ x.file = remote.file
  BY <1>3, ItemsAre DEF OfFile, Of, Header
<1> HIDE DEF x
<1>7. toDesk' = toDesk \o <<x>>
  BY <1>5 DEF x
<1>8. ASSUME mode = "receive"
      PROVE  /\ handle # NoHandle /\ ~Doomed /\ rcv.file = remote.file
             /\ rcv.count = remote.offset /\ rcv.st \in {"fileBegin", "waiting"}
  <2>1. Open /\ ~Doomed /\ rcv.file = remote.file
        /\ remote.offset = rcv.count + Len(toDesk) - Lead
    BY <1>1, <1>8 DEF Inbound, Together
  <2>2. Len(toDesk) = 0 /\ Lead = 0 /\ rcv.count \in Nat /\ DOMAIN toDesk = {}
    BY <1>4 DEF Lead, Typed, Receivers
  <2>3. rcv.st # "data"
    BY <1>1, <1>8, <2>1, <2>2 DEF Inbound, Together
  <2> QED
    BY <2>1, <2>2, <2>3 DEF Inbound, Opened, Open
<1> QED
  BY <1>1, <1>3, <1>4, <1>5, <1>6, <1>7, <1>8, SzSays

\* What is under way before sz sends, and what it may be followed by.
LEMMA BeforeSzSends ==
  ASSUME Typed, Inbound, Sz, remote.st = "data", NEW x \in Entry, x.kind = "data"
  PROVE  /\ WellFormed(toDesk) /\ Says({"ZDATA", "data"}) /\ SaysOf(remote.file)
         /\ \A i \in DOMAIN toDesk :
              x.kind \in Followers(toDesk[i]) /\ "ZEOF" \in Followers(toDesk[i])
         /\ \A i \in DOMAIN toDesk : toDesk[i].kind = "data" => toDesk[i].count # 0
         /\ \A i \in DOMAIN toDesk : ~Closing(toDesk[i])
         /\ Orders({"ZACK"})
         /\ mode # "send"
         /\ mode = "receive" =>
              /\ Open /\ ~Doomed /\ rcv.file = remote.file /\ rcv.count \in Nat
              /\ remote.offset = rcv.count + Len(toDesk) - Lead
              /\ rcv.st = "data" \/ Lead = 1
              /\ rcv.st = "data" => ~rcv.dirty
              /\ Lead \in {0, 1} /\ (Lead = 1 => toDesk # <<>>)
<1>1. /\ WellFormed(toDesk) /\ Says({"ZDATA", "data"}) /\ SaysOf(remote.file)
      /\ \A i \in DOMAIN toDesk : toDesk[i].kind = "data" => toDesk[i].count # 0
      /\ \A i \in DOMAIN toDesk : ~Closing(toDesk[i])
      /\ Orders({"ZACK"})
  BY DEF Inbound, Said, Told1
<1>2. ASSUME NEW i \in DOMAIN toDesk
      PROVE  x.kind \in Followers(toDesk[i]) /\ "ZEOF" \in Followers(toDesk[i])
  <2>1. toDesk[i].kind \in {"ZDATA", "data"} /\ ~Closing(toDesk[i])
    BY <1>1 DEF Says
  <2>2. Followers(toDesk[i]) = (OfFile \cup Others) \ {"ZDATA"}
    BY <2>1 DEF Followers
  <2> QED
    BY <2>2 DEF OfFile
<1>3. mode # "send"
  BY DEF Inbound, Apart
<1>4. rcv.count \in Nat /\ Lead \in {0, 1} /\ (Lead = 1 => toDesk # <<>>)
  BY DEF Typed, Receivers, Lead
<1> QED
  BY <1>1, <1>2, <1>3, <1>4 DEF Inbound, Together

\* sz sends a block.
LEMMA InboundBlock ==
  ASSUME Typed, Inbound, UNCHANGED <<desk, store, toRemote>>, Sz, remote.st = "data",
         NEW end \in {"G", "Q", "W"},
         Become("sz", IF end = "W" THEN "ack" ELSE "data", remote.file, remote.offset + 1),
         Reply(<<Data(remote.file, remote.offset + 1, end)>>)
  PROVE  Inbound' /\ Settled'
<1> USE DEF desk, store
<1> DEFINE x == Data(remote.file, remote.offset + 1, end)
           t == <<x>>
<1>1. remote.file \in Files /\ remote.offset \in Nat /\ remote.offset + 1 \in Nat
  BY RemoteIs DEF Sz
<1>2. /\ x \in Entry /\ x.kind = "data" /\ x.count = remote.offset + 1 /\ x.file = remote.file
      /\ x.end = end
  BY <1>1, ItemsAre DEF Data, Ends
<1>3. toDesk' = toDesk \o t
  BY DEF Reply
<1>4. /\ remote'.program = "sz" /\ remote'.st = (IF end = "W" THEN "ack" ELSE "data")
      /\ remote'.file = remote.file /\ remote'.offset = remote.offset + 1
  BY DEF Become
<1> HIDE DEF x
<1>5. Alone(x) /\ (Closing(x) <=> end = "W")
  BY <1>1, <1>2 DEF Alone, Closing
<1> HIDE DEF Entry
<1>6. t \in Seq(Entry) /\ Len(t) = 1 /\ WellFormed(t) /\ \A i \in DOMAIN t : t[i] = x
  BY <1>2, <1>5, OneItem
<1> HIDE DEF t
<1>7. /\ WellFormed(toDesk) /\ Says({"ZDATA", "data"}) /\ SaysOf(remote.file)
      /\ \A i \in DOMAIN toDesk : x.kind \in Followers(toDesk[i])
      /\ \A i \in DOMAIN toDesk : toDesk[i].kind = "data" => toDesk[i].count # 0
      /\ \A i \in DOMAIN toDesk : ~Closing(toDesk[i])
      /\ Orders({"ZACK"})
      /\ mode # "send"
      /\ mode = "receive" =>
           /\ Open /\ ~Doomed /\ rcv.file = remote.file /\ rcv.count \in Nat
           /\ remote.offset = rcv.count + Len(toDesk) - Lead
           /\ rcv.st = "data" \/ Lead = 1
           /\ rcv.st = "data" => ~rcv.dirty
           /\ Lead \in {0, 1} /\ (Lead = 1 => toDesk # <<>>)
  BY <1>2, BeforeSzSends
<1>8. /\ WellFormed(toDesk)'
      /\ Len(toDesk) \in Nat /\ Len(t) \in Nat /\ Len(toDesk') \in Nat
      /\ DOMAIN toDesk = 1..Len(toDesk) /\ DOMAIN t = 1..Len(t)
      /\ DOMAIN toDesk' = 1..Len(toDesk')
      /\ Len(toDesk') = Len(toDesk) + Len(t)
      /\ (toDesk = <<>> <=> Len(toDesk) = 0)
      /\ \A i \in DOMAIN t : Len(toDesk) + i \in DOMAIN toDesk' /\ toDesk'[Len(toDesk) + i] = t[i]
      /\ \A i \in DOMAIN toDesk' :
           \/ i \in DOMAIN toDesk /\ toDesk'[i] = toDesk[i]
           \/ i > Len(toDesk) /\ i - Len(toDesk) \in DOMAIN t /\ toDesk'[i] = t[i - Len(toDesk)]
      /\ \A kinds : Says(kinds) /\ (\A i \in DOMAIN t : t[i].kind \in kinds) => Says(kinds)'
      /\ \A f : SaysOf(f) /\ (\A i \in DOMAIN t : t[i].file = f) => SaysOf(f)'
      /\ toDesk # <<>> => Lead' = Lead
  BY <1>3, <1>6, <1>7, Replies
<1>9. /\ \A i \in DOMAIN toDesk' :
           \/ i \in DOMAIN toDesk /\ toDesk'[i] = toDesk[i]
           \/ i = Len(toDesk) + 1 /\ toDesk'[i] = x
      /\ Len(toDesk') = Len(toDesk) + 1
      /\ Len(toDesk) + 1 \in DOMAIN toDesk' /\ toDesk'[Len(toDesk) + 1] = x
  <2>1. 1 \in DOMAIN t /\ t[1] = x
    BY <1>6, <1>8
  <2>2. \A i \in DOMAIN toDesk' : i - Len(toDesk) \in DOMAIN t => i = Len(toDesk) + 1
    BY <1>6, <1>8
  <2> QED
    BY <1>6, <1>8, <2>1, <2>2
<1>10. Sz' /\ ~Rz'
  BY <1>4 DEF Sz, Rz
<1>11. Lead' = Lead
  <2>1. ASSUME toDesk = <<>>
        PROVE  Lead' = 0 /\ Lead = 0
    <3>1. toDesk'[1] = x
      BY <1>8, <1>9, <2>1
    <3> QED
      BY <1>2, <2>1, <3>1 DEF Lead
  <2> QED
    BY <1>8, <2>1
<1>12. Said'
  <2>1. \A i \in DOMAIN toDesk' :
          /\ toDesk'[i].kind = "data" => toDesk'[i].count # 0
          /\ Closing(toDesk'[i]) => end = "W"
    BY <1>1, <1>2, <1>5, <1>7, <1>9
  <2>2. Says({"ZDATA", "data"})'
    BY <1>2, <1>7, <1>9 DEF Says
  <2>3. SaysOf(remote.file)'
    BY <1>2, <1>4, <1>7, <1>9 DEF SaysOf
  <2>4. (\A i \in DOMAIN toDesk : Closing(toDesk[i]) => end = "W")'
    BY <2>1
  <2> QED
    BY <1>4, <1>10, <2>1, <2>2, <2>3, <2>4 DEF Said
<1>13. Told1'
  <2>1. /\ \A i : Heeded(i) <=> Heeded(i)'
        /\ Orders({"ZACK"})'
    BY <1>7 DEF Heeded, Orders
  <2>2. \A i \in DOMAIN toRemote' : Heeded(i)' =>
          toRemote'[i].count <= remote.offset /\ toRemote'[i].count \in Nat
    <3>1. \A i \in DOMAIN toRemote : toRemote[i].count \in Nat
      BY ElementOfSeq, LenProperties, EntryIs DEF Typed
    <3> QED
      BY <2>1, <3>1 DEF Inbound, Told1
  <2>3. \A i \in DOMAIN toRemote' : Heeded(i)' =>
          toRemote'[i].count <= remote'.offset /\ toRemote'[i].count < remote'.offset
    BY <1>1, <1>4, <2>2
  <2> QED
    BY <1>4, <2>1, <2>3 DEF Told1
<1>14. Apart' /\ Listing' /\ Dialogs' /\ Settled'
  BY <1>4, <1>7, <1>10
     DEF Inbound, Apart, Listing, Dialogs, Settled, Asked, Living, Answering
<1>15. Opened'
  <2> SUFFICES ASSUME mode = "receive", handle # NoHandle
               PROVE  Opened'
    BY DEF Opened, Open
  <2>1. x.count = rcv.count + (Len(toDesk) + 1) - Lead
    <3>1. /\ x.count = remote.offset + 1 /\ remote.offset = rcv.count + Len(toDesk) - Lead
          /\ rcv.count \in Nat /\ Len(toDesk) \in Nat /\ Lead \in Nat
      BY <1>2, <1>7, <1>8
    <3> QED
      BY <3>1
  <2>2. Len(toDesk) + 1 = 1 => rcv.st = "data" /\ ~rcv.dirty
    BY <1>7, <1>8
  <2>3. x.kind \in OfFile /\ x.file = rcv.file
    BY <1>2, <1>7 DEF OfFile
  <2>4. /\ dialog = "none" /\ rcv.st \in {"fileBegin", "data", "waiting"}
        /\ handle = Blocks(rcv.file, rcv.count)
        /\ \A i \in DOMAIN toDesk :
             /\ toDesk[i].kind \notin {"ZFILE", "meta", "ZFIN"}
             /\ toDesk[i].kind \in OfFile => toDesk[i].file = rcv.file
             /\ toDesk[i].kind = "ZDATA" => rcv.st # "data" /\ toDesk[i].count = rcv.count
             /\ toDesk[i].kind = "data" /\ toDesk[i].count # 0 =>
                  /\ toDesk[i].count = rcv.count + i - Lead
                  /\ i = 1 => rcv.st = "data" /\ ~rcv.dirty
    BY DEF Inbound, Opened, Open
  <2>5. \A i \in DOMAIN toDesk' :
             /\ toDesk'[i].kind \notin {"ZFILE", "meta", "ZFIN"}
             /\ toDesk'[i].kind \in OfFile => toDesk'[i].file = rcv.file
             /\ toDesk'[i].kind = "ZDATA" => rcv.st # "data" /\ toDesk'[i].count = rcv.count
             /\ toDesk'[i].kind = "data" /\ toDesk'[i].count # 0 =>
                  /\ toDesk'[i].count = rcv.count + i - Lead
                  /\ i = 1 => rcv.st = "data" /\ ~rcv.dirty
    BY <1>2, <1>9, <2>1, <2>2, <2>3, <2>4
  <2> QED
    BY <1>11, <2>4, <2>5 DEF Opened
<1>16. ClosedIs'
  BY <1>7 DEF ClosedIs, Closed, Open
<1>17. Together'
  <2> SUFFICES ASSUME mode = "receive"
               PROVE  Together'
    BY DEF Together
  <2>1. Open' /\ ~Closed' /\ ~Doomed'
    BY <1>7 DEF Open, Closed, Doomed
  <2>2. remote'.offset = rcv.count + Len(toDesk') - Lead
    <3>1. /\ remote'.offset = remote.offset + 1
          /\ remote.offset = rcv.count + Len(toDesk) - Lead
          /\ Len(toDesk') = Len(toDesk) + 1
          /\ rcv.count \in Nat /\ Len(toDesk) \in Nat /\ Lead \in Nat
      BY <1>4, <1>7, <1>8, <1>9
    <3> QED
      BY <3>1
  <2>3. end = "W" => (\E i \in DOMAIN toDesk : Closing(toDesk[i]))'
    BY <1>5, <1>9
  <2> QED
    BY <1>4, <1>7, <1>10, <1>11, <2>1, <2>2, <2>3 DEF Together
<1> QED
  BY <1>8, <1>12, <1>13, <1>14, <1>15, <1>16, <1>17 DEF Inbound

\* sz ends the frame and the file.
LEMMA InboundLastBlock ==
  ASSUME Typed, Inbound, UNCHANGED <<desk, store, toRemote>>, Sz, remote.st = "data",
         Become("sz", "eof", remote.file, Size[remote.file]),
         Reply(<<Data(remote.file, 0, "E"), Of(remote.file, Header("ZEOF", Size[remote.file]))>>)
  PROVE  Inbound' /\ Settled'
<1> USE DEF desk, store
<1> DEFINE x == Data(remote.file, 0, "E")
           y == Of(remote.file, Header("ZEOF", Size[remote.file]))
           t == <<x, y>>
<1>1. remote.file \in Files /\ Size[remote.file] \in Nat
  BY RemoteIs, SizeIs DEF Sz
<1>2. /\ x \in Entry /\ x.kind = "data" /\ x.count = 0 /\ x.file = remote.file /\ x.end = "E"
      /\ y \in Entry /\ y.kind = "ZEOF" /\ y.count = Size[remote.file] /\ y.file = remote.file
  BY <1>1, ItemsAre DEF Data, Ends, OfFile, Of, Header
<1>3. toDesk' = toDesk \o t
  BY DEF Reply
<1>4. /\ remote'.program = "sz" /\ remote'.st = "eof"
      /\ remote'.file = remote.file /\ remote'.offset = Size[remote.file]
  BY DEF Become
<1> HIDE DEF x, y
<1>5. Alone(x) /\ Alone(y) /\ Closing(x) /\ y.kind \in Followers(x)
  BY <1>2 DEF Alone, Closing, Followers
<1> HIDE DEF Entry
<1>6. /\ t \in Seq(Entry) /\ Len(t) = 2 /\ WellFormed(t) /\ t[1] = x
      /\ \A i \in DOMAIN t : t[i] = x \/ t[i] = y
  BY <1>2, <1>5, TwoItems
<1> HIDE DEF t
<1>7. /\ WellFormed(toDesk) /\ Says({"ZDATA", "data"}) /\ SaysOf(remote.file)
      /\ \A i \in DOMAIN toDesk : x.kind \in Followers(toDesk[i]) /\ "ZEOF" \in Followers(toDesk[i])
      /\ Orders({"ZACK"})
      /\ mode # "send"
      /\ mode = "receive" =>
           /\ Open /\ ~Doomed /\ rcv.file = remote.file
           /\ rcv.st = "data" => ~rcv.dirty
  BY <1>2, BeforeSzSends
<1>8. /\ WellFormed(toDesk)'
      /\ Len(toDesk) \in Nat /\ Len(t) \in Nat /\ Len(toDesk') \in Nat
      /\ DOMAIN toDesk = 1..Len(toDesk) /\ DOMAIN t = 1..Len(t)
      /\ (toDesk = <<>> <=> Len(toDesk) = 0)
      /\ \A i \in DOMAIN t : Len(toDesk) + i \in DOMAIN toDesk' /\ toDesk'[Len(toDesk) + i] = t[i]
      /\ \A i \in DOMAIN toDesk' :
           \/ i \in DOMAIN toDesk /\ toDesk'[i] = toDesk[i]
           \/ i > Len(toDesk) /\ i - Len(toDesk) \in DOMAIN t /\ toDesk'[i] = t[i - Len(toDesk)]
      /\ toDesk # <<>> => Lead' = Lead
  BY <1>2, <1>3, <1>6, <1>7, Replies
<1>9. /\ \A i \in DOMAIN toDesk' :
           \/ i \in DOMAIN toDesk /\ toDesk'[i] = toDesk[i]
           \/ toDesk'[i] = x \/ toDesk'[i] = y
      /\ Len(toDesk) + 1 \in DOMAIN toDesk' /\ toDesk'[Len(toDesk) + 1] = x
  <2>1. 1 \in DOMAIN t /\ t[1] = x
    BY <1>6, <1>8
  <2> QED
    BY <1>6, <1>8, <2>1
<1>10. Sz' /\ ~Rz'
  BY <1>4 DEF Sz, Rz
<1>11. Lead' = Lead
  <2>1. ASSUME toDesk = <<>>
        PROVE  Lead' = 0 /\ Lead = 0
    <3>1. toDesk'[1] = x
      BY <1>8, <1>9, <2>1
    <3> QED
      BY <1>2, <2>1, <3>1 DEF Lead
  <2> QED
    BY <1>8, <2>1
<1>12. Said'
  <2>1. Says({"ZDATA", "data", "ZEOF"})'
    BY <1>2, <1>7, <1>9 DEF Says
  <2>2. SaysOf(remote.file)'
    BY <1>2, <1>4, <1>7, <1>9 DEF SaysOf
  <2>3. remote'.offset = Size[remote'.file]
    BY <1>4
  <2> QED
    BY <1>4, <1>10, <2>1, <2>2, <2>3 DEF Said
<1>13. Orders({"ZACK"})' /\ Told1'
  <2>1. Orders({"ZACK"})'
    BY <1>7 DEF Heeded, Orders
  <2>2. Orders({"ZACK", "ZRINIT"})' /\
          \A i \in DOMAIN toRemote' : Heeded(i)' => toRemote'[i].kind = "ZACK"
    BY <2>1 DEF Orders
  <2> QED
    BY <1>4, <2>1, <2>2 DEF Told1
<1>14. Apart' /\ Listing' /\ Dialogs' /\ Settled'
  BY <1>4, <1>7, <1>10
     DEF Inbound, Apart, Listing, Dialogs, Settled, Asked, Living, Answering
<1>15. Opened'
  <2> SUFFICES ASSUME mode = "receive", handle # NoHandle
               PROVE  Opened'
    BY DEF Opened, Open
  <2>1. /\ dialog = "none" /\ rcv.st \in {"fileBegin", "data", "waiting"}
        /\ handle = Blocks(rcv.file, rcv.count)
        /\ \A i \in DOMAIN toDesk :
             /\ toDesk[i].kind \notin {"ZFILE", "meta", "ZFIN"}
             /\ toDesk[i].kind \in OfFile => toDesk[i].file = rcv.file
             /\ toDesk[i].kind = "ZDATA" => rcv.st # "data" /\ toDesk[i].count = rcv.count
             /\ toDesk[i].kind = "data" /\ toDesk[i].count # 0 =>
                  /\ toDesk[i].count = rcv.count + i - Lead
                  /\ i = 1 => rcv.st = "data" /\ ~rcv.dirty
    BY DEF Inbound, Opened, Open
  <2>2. \A i \in DOMAIN toDesk' :
             /\ toDesk'[i].kind \notin {"ZFILE", "meta", "ZFIN"}
             /\ toDesk'[i].kind \in OfFile => toDesk'[i].file = rcv.file
             /\ toDesk'[i].kind = "ZDATA" => rcv.st # "data" /\ toDesk'[i].count = rcv.count
             /\ toDesk'[i].kind = "data" /\ toDesk'[i].count # 0 =>
                  /\ toDesk'[i].count = rcv.count + i - Lead
                  /\ i = 1 => rcv.st = "data" /\ ~rcv.dirty
    BY <1>2, <1>7, <1>9, <2>1
  <2> QED
    BY <1>11, <2>1, <2>2 DEF Opened
<1>16. ClosedIs'
  BY <1>7 DEF ClosedIs, Closed, Open
<1>17. Together'
  <2> SUFFICES ASSUME mode = "receive"
               PROVE  Together'
    BY DEF Together
  <2>1. Open' /\ ~Closed' /\ ~Doomed'
    BY <1>7 DEF Open, Closed, Doomed
  <2>2. (\E i \in DOMAIN toDesk : Closing(toDesk[i]))'
    BY <1>5, <1>9
  <2> QED
    BY <1>4, <1>7, <1>10, <1>13, <2>1, <2>2 DEF Together
<1> QED
  BY <1>8, <1>12, <1>13, <1>14, <1>15, <1>16, <1>17 DEF Inbound

LEMMA InboundRemote ==
  ASSUME Typed, Inbound, Settled, Patient,
         \/ Remote \/ Timeout \/ Abort
         \/ \E program \in {"sz", "rz"} : Run(program)
  PROVE  Inbound' /\ Settled'
<1>1. CASE SzHears
  <2>1. /\ Sz /\ toRemote # <<>> /\ toRemote' = Tail(toRemote) /\ UNCHANGED <<desk, store>>
        /\ SzInit \/ SzPos \/ SzAck \/ Killed \/ SzIgnores
    BY <1>1 DEF SzHears, Hosts, Sz
  <2>2. CASE Killed
    BY <2>1, <2>2, InboundLeave DEF Killed
  <2>3. CASE SzIgnores
    <3>1. Told.kind # "CAN"
      BY <2>3 DEF SzIgnores
    <3> QED
      BY <2>1, <2>3, <3>1, InboundHears DEF SzIgnores
  <2> QED
    BY <2>1, <2>2, <2>3, InboundSzInit, InboundSzPos, InboundSzAck
<1>2. CASE SzSends
  <2>1. Sz /\ remote.st = "data" /\ UNCHANGED <<desk, store, toRemote>>
    BY <1>2 DEF SzSends, Sz
  <2>2. \/ \E end \in {"G", "Q", "W"} :
             /\ Become("sz", IF end = "W" THEN "ack" ELSE "data", remote.file,
                       remote.offset + 1)
             /\ Reply(<<Data(remote.file, remote.offset + 1, end)>>)
        \/ /\ Become("sz", "eof", remote.file, Size[remote.file])
           /\ Reply(<<Data(remote.file, 0, "E"),
                      Of(remote.file, Header("ZEOF", Size[remote.file]))>>)
    BY <1>2 DEF SzSends
  <2> QED
    BY <2>1, <2>2, InboundBlock, InboundLastBlock
<1>3. CASE ShellHears
  <2>1. /\ toRemote # <<>> /\ toRemote' = Tail(toRemote) /\ ~Sz /\ ~Rz
        /\ UNCHANGED <<desk, store, remote, toDesk>>
    BY <1>3 DEF ShellHears, Hosts, Sz, Rz, far
  <2> QED
    BY <2>1, InboundHears
<1>4. CASE GiveUpWaiting \/ Abort
  <2>1. UNCHANGED <<desk, store>> /\ (Leave(<<>>) \/ Leave(<<Cancel>>))
    BY <1>4 DEF GiveUpWaiting, Abort
  <2> QED
    BY <2>1, InboundLeave
<1> QED
  BY <1>1, <1>2, <1>3, <1>4, InboundRz, InboundTimeout, InboundRun DEF Remote

-------------------------------------------------------------------------------
(***************************************************************************)
(* The steps of the desktop leave the remote programs alone.               *)
(***************************************************************************)

\* What a step of the desktop may tell a remote that has not started its transfer.
Starting ==
  \/ toRemote' = toRemote /\ (mode' = "send" \/ mode # "send")
  \/ toRemote' = toRemote \o <<Cancel>>
  \/ /\ mode = "send" /\ mode' = "send"
     /\ \E f \in Files : toRemote' = toRemote \o <<Of(f, Header("ZFILE", 0)), Meta(f)>>
  \/ mode # "send" /\ toRemote' = toRemote \o <<Header("ZRINIT", 0)>>

\* What the receiver may tell any remote.
Receiving ==
  \/ mode = "receive" /\ toRemote' = toRemote
  \/ mode = "receive" /\ \E x \in Entry : x.kind # "CAN" /\ toRemote' = toRemote \o <<x>>
  \/ mode = "none" /\ toDesk # <<>> /\ toRemote' = toRemote \o <<Header("ZRINIT", 0)>>

LEMMA DeskStep ==
  ASSUME Typed, Inbound, Desktop \/ CancelZmodem \/ WindowEnds
  PROVE  /\ DeskReads /\ remote' = remote
         /\ Sz /\ remote.st = "init" => Starting
         /\ mode' = "receive" => Receiving
<1> USE DEF desk, store, wire, far
<1>0. /\ toDesk # <<>> => Item \in Entry /\ Item.count \in Nat
      /\ rcv \in Receivers /\ rcv.count \in Nat
  BY Head1, EntryIs DEF Typed, Receivers
<1>1. ASSUME Sz, remote.st = "init", toDesk # <<>>
      PROVE  Item.kind = "ZRQINIT"
  BY <1>1, FirstSaid DEF Inbound
<1>2. CASE \/ Discard \/ Show \/ SendIgnored \/ ReceiveFile \/ ReceiveMeta \/ ReceiveIgnored
           \/ ReceiveDirt \/ ReadFails
  <2>1. toDesk # <<>> /\ Consume /\ remote' = remote /\ toRemote' = toRemote /\ mode' = mode
    BY <1>2 DEF Discard, Show, SendIgnored, ReceiveFile, ReceiveMeta, ReceiveIgnored,
                ReceiveDirt, ReadFails, Receives, Sends, Hears, Goes
  <2> QED
    BY <2>1, ReadsAre DEF Starting, Receiving, Typed
<1>3. CASE WindowEnds
  BY <1>3 DEF WindowEnds, DeskReads, Starting, Receiving, Typed, Inbound, Dialogs
<1>4. CASE DetectReceive \/ ReceiveInit
  <2>1. /\ toDesk # <<>> /\ Consume /\ remote' = remote /\ mode \in {"none", "receive"}
        /\ toRemote' = toRemote \o <<Header("ZRINIT", 0)>>
    BY <1>4 DEF DetectReceive, ReceiveInit, Receives, Hears, Goes, Send
  <2>2. Header("ZRINIT", 0) \in Entry /\ Header("ZRINIT", 0).kind # "CAN"
    BY ItemsAre DEF Header, Others
  <2> QED
    BY <2>1, <2>2, ReadsAre DEF Starting, Receiving
<1>5. CASE DetectSend \/ ReceiveFin \/ NextFails
  <2>1. /\ toDesk # <<>> /\ (Consume \/ ConsumeChunk) /\ remote' = remote /\ mode' # "receive"
        /\ toRemote' = toRemote /\ (mode' = "send" \/ mode # "send")
    BY <1>5 DEF DetectSend, ReceiveFin, NextFails, Receives, Sends, Hears, CancelLocal
  <2> QED
    BY <2>1, ReadsAre DEF Starting
<1>6. CASE \/ RefuseFile \/ WriteFails \/ FinishFails \/ ReceiveGarbage \/ ReceiveBroken
           \/ OpenFails \/ RefuseUpload \/ CancelZmodem
  <2>1. /\ toDesk' = toDesk \/ (toDesk # <<>> /\ (Consume \/ ConsumeChunk))
        /\ remote' = remote /\ mode' = "none" /\ toRemote' = toRemote \o <<Cancel>>
    BY <1>6 DEF RefuseFile, WriteFails, FinishFails, ReceiveGarbage, ReceiveBroken, OpenFails,
                RefuseUpload, CancelZmodem, Breaks, Fail, CancelLocal, CancelRemote, Send,
                Receives, Hears
  <2> QED
    BY <2>1, ReadsAre DEF Starting, DeskReads
<1>7. CASE SaveFile
  <2>1. /\ toDesk' = toDesk /\ remote' = remote /\ dialog = "save" /\ mode' = mode
        /\ toRemote' = toRemote \o <<Header("ZRPOS", 0)>>
    BY <1>7 DEF SaveFile, Goes, Send
  <2>2. Header("ZRPOS", 0) \in Entry /\ Header("ZRPOS", 0).kind # "CAN"
    BY ItemsAre DEF Header, Others
  <2> QED
    BY <2>1, <2>2 DEF Inbound, Dialogs, Together, DeskReads, Receiving
<1>8. CASE ReceiveData \/ ReceiveSubpacket \/ ReceiveEof
  <2>1. /\ toDesk # <<>> /\ Consume /\ remote' = remote /\ mode = "receive"
        /\ Item.kind \in {"ZDATA", "data", "ZEOF"}
    BY <1>8 DEF ReceiveData, ReceiveSubpacket, ReceiveEof, Receives, Hears, Goes, Item
  <2>2. rcv.count + (IF Item.count = 0 THEN 0 ELSE 1) \in Nat
    BY <1>0, <2>1
  <2>3. \E x \in Entry : x.kind # "CAN" /\ (toRemote' = toRemote \/ toRemote' = toRemote \o <<x>>)
    <3>1. \A frame \in {"ZRINIT", "ZRPOS", "ZACK"}, count \in Nat :
            Header(frame, count) \in Entry /\ Header(frame, count).kind # "CAN"
      BY ItemsAre DEF Header, Others
    <3>2. CASE ReceiveData
      BY <1>0, <3>1, <3>2 DEF ReceiveData, Send
    <3>3. CASE ReceiveSubpacket
      <4>1. toRemote \o <<>> = toRemote
        BY DEF Typed
      <4> QED
        BY <2>2, <3>1, <3>3, <4>1 DEF ReceiveSubpacket, Send
    <3>4. CASE ReceiveEof
      BY <3>1, <3>4 DEF ReceiveEof, Send
    <3> QED
      BY <1>8, <3>2, <3>3, <3>4
  <2> QED
    BY <1>1, <2>1, <2>3, ReadsAre DEF Receiving
<1>9. CASE ChooseFiles
  <2>1. /\ toDesk' = toDesk /\ remote' = remote /\ mode' = mode /\ mode = "send"
        /\ toRemote' = toRemote \o <<Of(1, Header("ZFILE", 0)), Meta(1)>>
    BY <1>9 DEF ChooseFiles, Offer, Send, Inbound, Dialogs
  <2> QED
    BY <2>1, SizeIs DEF Starting, DeskReads
<1>10. CASE SendFrom \/ FileComplete \/ SendFin
  <2>1. /\ toDesk # <<>> /\ ConsumeChunk /\ remote' = remote /\ mode' # "receive"
        /\ Item.kind # "ZRQINIT"
    BY <1>10 DEF SendFrom, FileComplete, SendFin, Sends, Hears, Continues, CancelLocal, Item
  <2> QED
    BY <1>1, <2>1, ReadsAre
<1> QED
  BY <1>2, <1>3, <1>4, <1>5, <1>6, <1>7, <1>8, <1>9, <1>10 DEF Desktop

LEMMA SettledDesk ==
  ASSUME Typed, Inbound, Settled, Desktop \/ CancelZmodem \/ WindowEnds
  PROVE  Settled'
<1>1. /\ DeskReads /\ remote' = remote
      /\ Sz /\ remote.st = "init" => Starting
      /\ mode' = "receive" => Receiving
  BY DeskStep
<1>2. /\ Sz <=> Sz'
      /\ Rz <=> Rz'
  BY <1>1 DEF Sz, Rz
<1>3. Answering'
  BY <1>1, <1>2, DeskReadsIs DEF Settled, Answering
<1>4. <<Cancel>> \in Seq(Entry)
  BY AddedAre
<1>5. ASSUME NEW kinds, Orders(kinds), toRemote' = toRemote \o <<Cancel>>
      PROVE  Orders(kinds)' /\ Doomed'
  <2>1. Orders(kinds)'
    BY <1>4, <1>5, OrdersMore
  <2>2. Cancel \in Entry /\ Cancel.kind = "CAN"
    BY ItemsAre DEF Cancel, Header
  <2> HIDE DEF Cancel, Entry
  <2>3. toRemote \in Seq(Entry)
    BY DEF Typed
  <2> DEFINE t == <<Cancel>>
             u == toRemote'
  <2>4. t \in Seq(Entry) /\ 1 \in DOMAIN t /\ t[1] = Cancel /\ u = toRemote \o t
    BY <1>5, <2>2
  <2> HIDE DEF t, u
  <2>5. \A i \in DOMAIN t : Len(toRemote) + i \in DOMAIN u /\ u[Len(toRemote) + i] = t[i]
    BY <2>3, <2>4, Appended
  <2>6. Doomed'
    BY <2>2, <2>4, <2>5 DEF Doomed, u
  <2> QED
    BY <2>1, <2>6
<1>6. Asked'
  <2> SUFFICES ASSUME Sz, remote.st = "init"
               PROVE  Asked'
    BY <1>1, <1>2 DEF Asked
  <2>1. /\ Orders({"ZRINIT"}) \/ Orders({"ZFILE", "meta"})
        /\ mode # "send" => Doomed \/ Orders({"ZRINIT"})
        /\ mode = "send" => Orders({"ZFILE", "meta"})
    BY DEF Settled, Asked, Inbound, Apart
  <2>2. CASE toRemote' = toRemote /\ (mode' = "send" \/ mode # "send")
    <3>1. (\A kinds : Orders(kinds) <=> Orders(kinds)') /\ (Doomed <=> Doomed')
      BY <2>2 DEF Orders, Heeded, Doomed
    <3> QED
      BY <2>1, <2>2, <3>1 DEF Asked
  <2>3. CASE toRemote' = toRemote \o <<Cancel>>
    BY <1>5, <2>1, <2>3 DEF Asked
  <2>4. ASSUME mode' = "send", NEW f \in Files,
               toRemote' = toRemote \o <<Of(f, Header("ZFILE", 0)), Meta(f)>>, mode = "send"
        PROVE  Asked'
    <3> DEFINE x == Of(f, Header("ZFILE", 0))
               y == Meta(f)
               t == <<x, y>>
    <3>1. x \in Entry /\ y \in Entry /\ x.kind = "ZFILE" /\ y.kind = "meta"
      BY ItemsAre DEF OfFile, Of, Header, Meta
    <3> HIDE DEF x, y, Entry
    <3>2. t \in Seq(Entry) /\ \A i \in DOMAIN t : t[i] = x \/ t[i] = y
      BY <3>1
    <3>3. toRemote' = toRemote \o t
      BY <2>4 DEF x, y
    <3> HIDE DEF t
    <3>4. Orders({"ZFILE", "meta"})'
      BY <2>1, <2>4, <3>1, <3>2, <3>3, OrdersMore
    <3> QED
      BY <2>4, <3>4 DEF Asked
  <2>5. CASE mode # "send" /\ toRemote' = toRemote \o <<Header("ZRINIT", 0)>>
    <3> DEFINE x == Header("ZRINIT", 0)
               t == <<x>>
    <3>1. x \in Entry /\ x.kind = "ZRINIT"
      BY ItemsAre DEF Header, Others
    <3> HIDE DEF x, Entry
    <3>2. t \in Seq(Entry) /\ \A i \in DOMAIN t : t[i] = x
      BY <3>1
    <3>3. toRemote' = toRemote \o t
      BY <2>5 DEF x
    <3> HIDE DEF t
    <3>4. Orders({"ZRINIT"}) => Orders({"ZRINIT"})'
      BY <3>1, <3>2, <3>3, OrdersMore
    <3>5. ASSUME Doomed, Orders({"ZFILE", "meta"})
          PROVE  Orders({"ZFILE", "meta"})' /\ Doomed'
      BY <3>2, <3>3, <3>5, OrdersMore, ToldMore
    <3>6. Doomed => Doomed'
      BY <3>2, <3>3, ToldMore
    <3> QED
      BY <2>1, <2>5, <3>4, <3>5, <3>6 DEF Asked
  <2> QED
    BY <1>1, <2>2, <2>3, <2>4, <2>5 DEF Starting
<1>7. Living'
  <2> SUFFICES ASSUME Sz, remote.st = "file", mode' = "receive"
               PROVE  ~Doomed' \/ Orders({"ZRINIT"})'
    BY <1>1, <1>2 DEF Living
  <2>1. CASE mode = "receive" /\ toRemote' = toRemote
    <3>1. (\A kinds : Orders(kinds) <=> Orders(kinds)') /\ (Doomed <=> Doomed')
      BY <2>1 DEF Orders, Heeded, Doomed
    <3> QED
      BY <2>1, <3>1 DEF Settled, Living
  <2>2. ASSUME mode = "receive", NEW x \in Entry, x.kind # "CAN", toRemote' = toRemote \o <<x>>
        PROVE  ~Doomed' \/ Orders({"ZRINIT"})'
    <3> DEFINE t == <<x>>
    <3>1. t \in Seq(Entry) /\ toRemote' = toRemote \o t /\ \A i \in DOMAIN t : t[i] = x
      BY <2>2
    <3> HIDE DEF t
    <3>2. CASE ~Doomed
      BY <2>2, <3>1, <3>2, NotDoomedMore
    <3>3. CASE Doomed
      BY <2>2, <3>1, <3>3, OrdersMore DEF Settled, Living
    <3> QED
      BY <3>2, <3>3
  <2>3. CASE mode = "none" /\ toDesk # <<>> /\ toRemote' = toRemote \o <<Header("ZRINIT", 0)>>
    <3> DEFINE x == Header("ZRINIT", 0)
               t == <<x>>
    <3>1. x \in Entry /\ x.kind = "ZRINIT"
      BY ItemsAre DEF Header, Others
    <3> HIDE DEF x, Entry
    <3>2. t \in Seq(Entry) /\ \A i \in DOMAIN t : t[i] = x
      BY <3>1
    <3>3. toRemote' = toRemote \o t
      BY <2>3 DEF x
    <3> HIDE DEF t
    <3>4. Orders({"ZRINIT"})
      BY <2>3 DEF Inbound, Told1, Orders
    <3> QED
      BY <3>1, <3>2, <3>3, <3>4, OrdersMore
  <2> QED
    BY <1>1, <2>1, <2>2, <2>3 DEF Receiving
<1> QED
  BY <1>3, <1>6, <1>7 DEF Settled

-------------------------------------------------------------------------------
(***************************************************************************)
(* Putting it together.                                                    *)
(***************************************************************************)

LEMMA SettingStays ==
  ASSUME [Next]_vars
  PROVE  setting' = setting
<1>1. CASE UNCHANGED vars
  BY <1>1 DEF vars
<1>2. CASE Desktop \/ CancelZmodem \/ WindowEnds
  <2>1. CASE \/ Discard \/ Show \/ DetectReceive \/ DetectSend
             \/ ReceiveInit \/ ReceiveFile \/ ReceiveMeta \/ SaveFile \/ ReceiveData
             \/ ReceiveSubpacket \/ ReceiveEof \/ ReceiveFin \/ ReceiveIgnored \/ ReceiveDirt
    BY <2>1 DEF Discard, Show, DetectReceive, DetectSend, ReceiveInit, ReceiveFile, ReceiveMeta,
                SaveFile, ReceiveData, ReceiveSubpacket, ReceiveEof, ReceiveFin, ReceiveIgnored,
                ReceiveDirt, Goes
  <2>2. CASE \/ ReceiveGarbage \/ ReceiveBroken \/ WriteFails \/ FinishFails \/ RefuseFile
             \/ ChooseFiles \/ OpenFails \/ RefuseUpload \/ SendFrom \/ FileComplete \/ SendFin
             \/ SendIgnored \/ ReadFails \/ NextFails \/ CancelZmodem \/ WindowEnds
    BY <2>2 DEF ReceiveGarbage, ReceiveBroken, WriteFails, FinishFails, RefuseFile, Breaks,
                ChooseFiles, OpenFails, RefuseUpload, SendFrom, FileComplete, SendFin,
                SendIgnored, ReadFails, NextFails, CancelZmodem, WindowEnds, Continues
  <2> QED
    BY <1>2, <2>1, <2>2 DEF Desktop
<1>3. CASE Remote \/ Timeout \/ Abort
  BY <1>3 DEF Remote, SzHears, SzSends, RzHears, ShellHears, GiveUpWaiting, Timeout, Abort
<1>4. CASE \E program \in {"sz", "rz"} : Run(program)
  BY <1>4 DEF Run
<1> QED
  BY <1>1, <1>2, <1>3, <1>4 DEF Next

LEMMA InboundInitially ==
  ASSUME Init
  PROVE  Inbound /\ Settled
<1> USE DEF Init, NewReceiver
<1>1. DOMAIN toDesk = {} /\ DOMAIN toRemote = {} /\ ~Sz /\ ~Rz
  BY DEF Sz, Rz
<1>2. WellFormed(toDesk) /\ Said /\ Told1 /\ Settled
  BY <1>1 DEF WellFormed, Said, Told1, Settled, Asked, Living, Answering
<1>3. Opened /\ ClosedIs /\ Together /\ Apart /\ Listing /\ Dialogs
  BY <1>1 DEF Opened, Open, ClosedIs, Closed, Together, Apart, Listing, Dialogs
<1> QED
  BY <1>2, <1>3 DEF Inbound

LEMMA InboundStep ==
  ASSUME Typed, Inbound, Settled, Patient, [Next]_vars
  PROVE  Inbound' /\ Settled'
<1>1. CASE UNCHANGED vars
  <2>1. UNCHANGED <<mode, rcv, snd, dialog, discard, handle, lost, listed, toDesk, toRemote,
                    remote>>
    BY <1>1 DEF vars, desk, store, wire, far
  <2>2. /\ Sz' = Sz /\ Rz' = Rz /\ Open' = Open /\ Closed' = Closed /\ Lead' = Lead
        /\ Doomed' = Doomed /\ EndsWithMeta' = EndsWithMeta
        /\ \A kinds : Says(kinds)' = Says(kinds)
        /\ \A f : SaysOf(f)' = SaysOf(f)
        /\ \A i : Heeded(i)' = Heeded(i)
    BY <2>1 DEF Sz, Rz, Open, Closed, Lead, Doomed, EndsWithMeta, Says, SaysOf, Heeded
  <2>3. (\A kinds : Orders(kinds)' = Orders(kinds)) /\ \A i : Final(i)' = Final(i)
    BY <2>1, <2>2 DEF Orders, Final
  <2>4. WellFormed(toDesk)' /\ Said'
    BY <2>1, <2>2 DEF Inbound, WellFormed, Said
  <2>5. Told1' /\ Apart'
    BY <2>1, <2>2, <2>3 DEF Inbound, Told1, Apart
  <2>6. Together'
    BY <2>1, <2>2, <2>3 DEF Inbound, Together
  <2>7. Opened' /\ ClosedIs' /\ Listing' /\ Dialogs'
    BY <2>1, <2>2 DEF Inbound, Opened, ClosedIs, Listing, Dialogs
  <2>8. Settled'
    BY <2>1, <2>2, <2>3 DEF Settled, Asked, Living, Answering
  <2> QED
    BY <2>4, <2>5, <2>6, <2>7, <2>8 DEF Inbound
<1>2. CASE Desktop \/ CancelZmodem \/ WindowEnds
  <2>1. Inbound'
    BY <1>2, InboundSends, InboundBreaks, InboundInit, InboundFile, InboundMeta, InboundSave,
       InboundZdata, InboundSubpacket, InboundEof, InboundIgnored DEF Desktop
  <2> QED
    BY <1>2, <2>1, SettledDesk
<1> QED
  BY <1>1, <1>2, InboundRemote DEF Next

\* Only a file that is whole is put in its place.
LEMMA CommittedStep ==
  ASSUME Typed, Inbound, ReceivedIsWhole, [Next]_vars
  PROVE  ReceivedIsWhole'
<1> USE DEF desk, store, wire, far
<1>1. CASE ReceiveEof
  <2> DEFINE x == [file |-> rcv.file, data |-> handle]
             S == [file : Nat, data : Seq(Block)]
  <2>1. /\ committed' = Append(committed, x) /\ x \in S
        /\ x.data = Whole(x.file) /\ committed \in Seq(S)
    BY <1>1, InboundEof DEF Typed
  <2> HIDE DEF x, S
  <2>2. \A k \in DOMAIN committed' : committed'[k] = x \/
          (k \in DOMAIN committed /\ committed'[k] = committed[k])
    BY <2>1, AppendProperties, LenProperties
  <2> QED
    BY <2>1, <2>2 DEF ReceivedIsWhole
<1>2. committed' = committed => ReceivedIsWhole'
  BY DEF ReceivedIsWhole
<1>3. CASE \/ UNCHANGED vars
           \/ Discard \/ Show \/ DetectReceive \/ DetectSend
           \/ ReceiveInit \/ ReceiveFile \/ ReceiveMeta \/ SaveFile \/ ReceiveData
           \/ ReceiveSubpacket \/ ReceiveFin \/ ReceiveIgnored \/ ReceiveDirt
  <2>1. committed' = committed
    BY <1>3 DEF vars, Discard, Show, DetectReceive, DetectSend, ReceiveInit, ReceiveFile,
                ReceiveMeta, SaveFile, ReceiveData, ReceiveSubpacket, ReceiveFin,
                ReceiveIgnored, ReceiveDirt
  <2> QED
    BY <1>2, <2>1
<1>4. CASE \/ ReceiveGarbage \/ ReceiveBroken \/ WriteFails \/ FinishFails \/ RefuseFile
           \/ ChooseFiles \/ OpenFails \/ RefuseUpload \/ SendFrom \/ FileComplete \/ SendFin
           \/ SendIgnored \/ ReadFails \/ NextFails \/ CancelZmodem \/ WindowEnds
  <2>1. committed' = committed
    BY <1>4 DEF ReceiveGarbage, ReceiveBroken, WriteFails, FinishFails, RefuseFile, Breaks, Fail,
                ChooseFiles, OpenFails, RefuseUpload, SendFrom, FileComplete, SendFin,
                SendIgnored, ReadFails, NextFails, CancelZmodem, WindowEnds, Continues
  <2> QED
    BY <1>2, <2>1
<1>5. CASE \/ Remote \/ Timeout \/ Abort
           \/ \E program \in {"sz", "rz"} : Run(program)
  <2>1. committed' = committed
    BY <1>5 DEF Remote, SzHears, SzSends, RzHears, ShellHears, GiveUpWaiting, Timeout, Abort, Run
  <2> QED
    BY <1>2, <2>1
<1> QED
  BY <1>1, <1>3, <1>4, <1>5 DEF Next, Desktop

\* Files are open only while something is received, whatever the programs do.
OpenWhileReceiving ==
  /\ mode # "receive" => handle = NoHandle
  /\ dialog = "save" => mode = "receive"

LEMMA OpenStep ==
  ASSUME OpenWhileReceiving, [Next]_vars
  PROVE  OpenWhileReceiving'
<1> USE DEF desk, store, wire, far, OpenWhileReceiving
<1>1. CASE \/ UNCHANGED vars
           \/ Discard \/ Show \/ DetectReceive \/ DetectSend
           \/ ReceiveInit \/ ReceiveFile \/ ReceiveMeta \/ SaveFile \/ ReceiveData
           \/ ReceiveSubpacket \/ ReceiveEof \/ ReceiveFin \/ ReceiveIgnored \/ ReceiveDirt
  BY <1>1 DEF vars, Discard, Show, DetectReceive, DetectSend, ReceiveInit, ReceiveFile,
              ReceiveMeta, SaveFile, ReceiveData, ReceiveSubpacket, ReceiveEof, ReceiveFin,
              ReceiveIgnored, ReceiveDirt, Receives, Hears, Goes, CancelLocal
<1>2. CASE \/ ReceiveGarbage \/ ReceiveBroken \/ WriteFails \/ FinishFails \/ RefuseFile
           \/ ChooseFiles \/ OpenFails \/ RefuseUpload \/ CancelZmodem \/ WindowEnds
  BY <1>2 DEF ReceiveGarbage, ReceiveBroken, WriteFails, FinishFails, RefuseFile, Breaks, Fail,
              CancelLocal, ChooseFiles, OpenFails, RefuseUpload, CancelZmodem, WindowEnds
<1>3. CASE SendFrom \/ FileComplete \/ SendFin \/ SendIgnored \/ ReadFails \/ NextFails
  BY <1>3 DEF SendFrom, FileComplete, SendFin, SendIgnored, ReadFails, NextFails, Continues,
              Sends, Hears, CancelLocal
<1>4. CASE \/ Remote \/ Timeout \/ Abort
           \/ \E program \in {"sz", "rz"} : Run(program)
  BY <1>4 DEF Remote, SzHears, SzSends, RzHears, ShellHears, GiveUpWaiting, Timeout, Abort, Run
<1> QED
  BY <1>1, <1>2, <1>3, <1>4 DEF Next, Desktop

\* While sz repeats no ZFILE, all of it holds.
Orderly == Patient => Inbound /\ Settled /\ ReceivedIsWhole

LEMMA OrderlyAlways == Spec => [](Typed /\ OpenWhileReceiving /\ Orderly)
<1>1. Init => Typed /\ OpenWhileReceiving /\ Orderly
  <2> SUFFICES ASSUME Init
               PROVE  Typed /\ OpenWhileReceiving /\ Orderly
    OBVIOUS
  <2>1. OpenWhileReceiving /\ ReceivedIsWhole
    BY DEF Init, OpenWhileReceiving, ReceivedIsWhole
  <2> QED
    BY <2>1, TypedInit, InboundInitially DEF Orderly
<1>2. Typed /\ OpenWhileReceiving /\ Orderly /\ [Next]_vars =>
        (Typed /\ OpenWhileReceiving /\ Orderly)'
  <2> SUFFICES ASSUME Typed, OpenWhileReceiving, Orderly, [Next]_vars
               PROVE  (Typed /\ OpenWhileReceiving /\ Orderly)'
    OBVIOUS
  <2>1. Patient' <=> Patient
    BY SettingStays DEF Patient
  <2> QED
    BY <2>1, TypedStep, OpenStep, InboundStep, CommittedStep DEF Orderly
<1> QED
  BY <1>1, <1>2, PTL DEF Spec, Safety

\* Whatever fails, is cancelled, repeated or given up, a session without a transfer has no
\* file open (cancelLocal); and when sz repeats no ZFILE, no handle is forgotten (SaveFile)
\* and the list of transfers shows none as running (fail, cancelZmodem, ReceiveFin).
THEOREM NothingStaysBehind == Spec => []NothingLeftBehind
<1>1. Typed /\ OpenWhileReceiving /\ Orderly => NothingLeftBehind
  BY DEF OpenWhileReceiving, Orderly, Patient, Inbound, Listing, NothingLeftBehind
<1> QED
  BY <1>1, OrderlyAlways, PTL

\* When sz repeats no ZFILE, a file is finished only with all of its blocks in their order,
\* however often the programs repeat their other headers, and wherever they are cut off or
\* cancelled (the checks of a header and of a subpacket against the handle's length).
THEOREM ReceivedFilesAreWhole == Spec => [](Patient => ReceivedIsWhole)
<1>1. Typed /\ OpenWhileReceiving /\ Orderly => (Patient => ReceivedIsWhole)
  BY DEF Orderly
<1> QED
  BY <1>1, OrderlyAlways, PTL

===============================================================================
