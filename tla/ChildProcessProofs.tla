------------------------- MODULE ChildProcessProofs -------------------------
(***************************************************************************)
(* Types of the Child and of its channel, why read_next ends, and what the *)
(* output and the status are in the end, for any sizes of queue and        *)
(* window, any owner and any remote process.                               *)
(*                                                                         *)
(* EndsForAReason needs to know of every message still queued whether it   *)
(* is a refusal: one that is waits behind whatever came before it, and is  *)
(* known to the server only (RefusalIsKnown).  Nothing is queued once the  *)
(* server's Close has come in, so what was read to the end stays read.     *)
(*                                                                         *)
(* The output is complete because its chunks are numbered as the process   *)
(* writes them: what is queued of a stream is new and in order, and        *)
(* nothing between what was read and what was written is missing           *)
(* (OutputInv).  The status is the exit because a process that ends is     *)
(* told of once, truthfully, in the queue or among the last words the      *)
(* server still has to say (ExitInv).  Both streams implement ByteStream:  *)
(* a chunk read is the next one, and only the end of all messages, or what *)
(* broke the stream off, shows its end.                                    *)
(***************************************************************************)
EXTENDS ChildProcess, SequenceTheorems, TLAPS

Plain == {"Success", "Failure", "Eof", "ExitSignal", "Close"}

Message ==
    [type : Plain] \cup [type : {"Data"}, stream : Stream, chunk : Nat]
        \cup [type : {"ExitStatus"}, status : Nat]

\* What the server says last.
LastWords == [type : {"Eof", "ExitSignal", "Close"}] \cup [type : {"ExitStatus"}, status : Nat]

MessagesOK == inbox \in Seq(Message) /\ left \in Seq(LastWords)

\* The requests are made one after the other.
AskedInOrder ==
    /\ pc \in {"open", "pty"} => Len(asked) = 0
    /\ pc = "cmd" => Len(asked) <= 1

RefusalIsKnown == \A i \in 1..Len(inbox) : inbox[i].type = "Failure" => refused # {}

\* Close is the last thing the server says.
EndedIsGone == ended => left = <<>> /\ process = "gone"

Inv ==
    /\ TypeOK /\ MessagesOK /\ AskedInOrder
    /\ RefusalIsKnown /\ EndsForAReason /\ EndedIsGone

USE BoundsAssumption

-----------------------------------------------------------------------------
LEMMA MessageParts ==
    ASSUME NEW msg \in Message
    PROVE  /\ msg.type = "Data" => msg.stream \in Stream /\ msg.chunk \in Nat
           /\ msg.type = "ExitStatus" => msg.status \in Nat
BY DEF Message, Plain

LEMMA LastIsMessage == \A msg \in LastWords : msg \in Message /\ msg.type # "Failure"
BY DEF LastWords, Message, Plain

\* One more message that is no refusal, or is one the server knows of.
LEMMA DeliveredInv ==
    ASSUME Inv, Room, NEW msg \in Message, inbox' = Delivered(msg),
           refused \subseteq refused', msg.type = "Failure" => refused' # {}
    PROVE  /\ inbox' \in Seq(Message) /\ Len(inbox') <= Inbox /\ RefusalIsKnown'
           /\ NobodyReads => inbox' = inbox
<1>1. inbox \in Seq(Message) /\ Len(inbox) < Inbox /\ Len(inbox) \in Nat
  BY DEF Inv, MessagesOK, Room
<1>2. CASE NobodyReads
  BY <1>1, <1>2 DEF Delivered, Inv, RefusalIsKnown, TypeOK
<1>3. CASE ~ NobodyReads
  <2>1. inbox' = Append(inbox, msg)
    BY <1>3 DEF Delivered
  <2>2. inbox' \in Seq(Message) /\ Len(inbox') = Len(inbox) + 1
    BY <1>1, <2>1
  <2>3. \A i \in 1..Len(inbox') : inbox'[i] = msg \/ (i \in 1..Len(inbox) /\ inbox'[i] = inbox[i])
    BY <1>1, <2>1, <2>2
  <2>4. RefusalIsKnown'
    BY <2>3 DEF Inv, RefusalIsKnown
  <2>5. QED
    BY <1>1, <1>3, <2>2, <2>4
<1>4. QED
  BY <1>2, <1>3

LEMMA InitInv == Init => Inv
<1> SUFFICES ASSUME Init PROVE Inv
  OBVIOUS
<1>1. use.writes \in Nat /\ program.source \in Nat
  BY UsesAssumption, ProgramsAssumption DEF Init, Use, Program
<1>2. got \in [Stream -> Seq(Nat)] /\ wrote \in [Stream -> Seq(Nat)]
  <2>1. <<>> \in Seq(Nat)
    OBVIOUS
  <2> DEFINE none == <<>>
  <2>2. none \in Seq(Nat)
    BY <2>1
  <2> HIDE DEF none
  <2>3. [s \in Stream |-> none] \in [Stream -> Seq(Nat)]
    BY <2>2
  <2>4. QED
    BY <2>3 DEF Init, none
<1>3. Len(inbox) <= Inbox /\ stdin \in 0..Window
  BY DEF Init
<1>4. todo \in Nat /\ owed \in Nat /\ status \in Nat /\ exit \in Nat
  BY <1>1 DEF Init
<1>5. Len(asked) = 0 /\ asked \in Seq({"pty", "cmd"}) /\ Len(asked) <= 2
  BY DEF Init
<1>6. /\ call \in Calls /\ use \in Uses /\ program \in Programs
      /\ pc = "open" /\ written = FALSE /\ closing = FALSE /\ link = TRUE /\ ended = FALSE
      /\ refused = {} /\ process = "none" /\ eof = FALSE
  BY DEF Init
<1>7. TypeOK
  <2>1. /\ pc \in {"open", "pty", "cmd", "read", "close", "done", "dropped", "abandoned", "error"}
        /\ process \in {"none", "running", "exited", "gone"}
    BY <1>6
  <2>2. written \in BOOLEAN /\ closing \in BOOLEAN /\ link \in BOOLEAN /\ ended \in BOOLEAN
        /\ eof \in BOOLEAN /\ refused \subseteq {"pty", "cmd"}
    BY <1>6
  <2>3. QED
    BY <1>2, <1>3, <1>4, <1>5, <1>6, <2>1, <2>2, Zenon DEF TypeOK
<1>8. MessagesOK /\ RefusalIsKnown
  BY DEF Init, MessagesOK, RefusalIsKnown
<1>9. AskedInOrder /\ EndsForAReason /\ EndedIsGone
  BY <1>5, <1>6 DEF AskedInOrder, EndsForAReason, EndedIsGone, Over
<1>10. QED
  BY <1>7, <1>8, <1>9 DEF Inv

\* The channel is opened and the requests sent.
LEMMA OpenStep == Inv /\ (OpenSession \/ Request) => Inv'
<1> SUFFICES ASSUME Inv, OpenSession \/ Request PROVE Inv'
  OBVIOUS
<1>1. /\ UNCHANGED <<chosen, todo, written, status, got, closing, wire,
                     refused, process, stdin, eof, owed, wrote, left, exit>>
      /\ pc \in {"open", "pty", "cmd"} /\ pc' \in {"pty", "cmd", "read", "error"}
  BY DEF OpenSession, Request, server
<1>2. asked' \in Seq({"pty", "cmd"}) /\ Len(asked') <= 2 /\ AskedInOrder'
  <2>1. asked \in Seq({"pty", "cmd"}) /\ Len(asked) \in Nat
    BY DEF Inv, TypeOK
  <2>2. CASE OpenSession
    BY <2>1, <2>2 DEF OpenSession, server, Inv, TypeOK, AskedInOrder
  <2>3. CASE Request /\ link
    <3>1. pc \in {"pty", "cmd"} /\ asked' = Append(asked, pc)
      BY <2>3 DEF Request
    <3>2. asked' \in Seq({"pty", "cmd"}) /\ Len(asked') = Len(asked) + 1
      BY <2>1, <3>1
    <3>3. /\ pc = "pty" => Len(asked) = 0 /\ pc' = "cmd"
          /\ pc = "cmd" => Len(asked) <= 1 /\ pc' = "read"
      BY <2>3 DEF Request, Inv, AskedInOrder
    <3>4. QED
      BY <2>1, <3>1, <3>2, <3>3 DEF AskedInOrder
  <2>4. CASE Request /\ ~link
    BY <2>1, <2>4 DEF Request, Inv, TypeOK, AskedInOrder
  <2>5. QED
    BY <2>2, <2>3, <2>4
<1>3. TypeOK'
  BY <1>1, <1>2 DEF Inv, TypeOK, chosen, wire
<1>4. QED
  BY <1>1, <1>2, <1>3 DEF Inv, MessagesOK, RefusalIsKnown, EndsForAReason, EndedIsGone, Over, wire

\* Stdin is written and ended.
LEMMA WriterStep == Inv /\ Writer => Inv'
<1> SUFFICES ASSUME Inv, Writer PROVE Inv'
  OBVIOUS
<1>1. UNCHANGED <<chosen, pc, status, got, wire, asked, refused, process, owed, wrote, left, exit>>
  BY DEF Writer, WriteStdin, EndStdin
<1>2. /\ todo' \in Nat /\ stdin' \in 0..Window
      /\ written' \in BOOLEAN /\ closing' \in BOOLEAN /\ eof' \in BOOLEAN
  <2>1. CASE WriteStdin
    <3>1. todo \in Nat /\ stdin \in 0..Window
      BY DEF Inv, TypeOK
    <3>2. todo' \in Nat
      BY <2>1, <3>1 DEF WriteStdin
    <3>3. stdin' \in 0..Window
      BY <2>1, <3>1 DEF WriteStdin
    <3>4. written' \in BOOLEAN /\ closing' \in BOOLEAN /\ eof' \in BOOLEAN
      BY <2>1 DEF WriteStdin, Inv, TypeOK
    <3>5. QED
      BY <3>2, <3>3, <3>4
  <2>2. CASE EndStdin
    <3>1. todo' \in Nat /\ stdin' \in 0..Window /\ written' = TRUE
      BY <2>2 DEF EndStdin, Inv, TypeOK
    <3>2. closing' \in BOOLEAN /\ eof' \in BOOLEAN
      <4>1. (use.then = "eof" /\ Open) \in BOOLEAN
        OBVIOUS
      <4>2. (closing \/ (use.then = "close" /\ Open)) \in BOOLEAN
        OBVIOUS
      <4>3. QED
        BY <2>2, <4>1, <4>2 DEF EndStdin
    <3>3. QED
      BY <3>1, <3>2
  <2>3. QED
    BY <2>1, <2>2 DEF Writer
<1>3. TypeOK'
  BY <1>1, <1>2 DEF Inv, TypeOK, chosen, wire
<1>4. QED
  BY <1>1, <1>3 DEF Inv, MessagesOK, AskedInOrder, RefusalIsKnown, EndsForAReason, EndedIsGone, Over, wire

\* The reader takes a message, or finds that no more will come.
LEMMA ReadStep == Inv /\ ReadNext => Inv'
<1> SUFFICES ASSUME Inv, ReadNext PROVE Inv'
  OBVIOUS
<1>1. /\ pc = "read" /\ pc' \in {"read", "close"} /\ inbox \in Seq(Message)
      /\ UNCHANGED <<chosen, todo, written, closing, server, link, ended>>
  BY DEF ReadNext, Inv, MessagesOK
<1>2. CASE inbox # <<>>
  <2> DEFINE msg == Head(inbox)
  <2>1. msg \in Message /\ inbox' = Tail(inbox) /\ got' = Collected(msg) /\ status' = Recorded(msg)
    BY <1>1, <1>2 DEF ReadNext
  <2>2. /\ inbox' \in Seq(Message) /\ Len(inbox') = Len(inbox) - 1 /\ Len(inbox) \in Nat
        /\ \A i \in 1..Len(inbox') : i + 1 \in 1..Len(inbox) /\ inbox'[i] = inbox[i + 1]
        /\ 1 \in 1..Len(inbox) /\ msg = inbox[1]
    BY <1>1, <1>2, <2>1
  <2>3. pc' = "close" => refused # {}
    BY <1>1, <1>2, <2>2 DEF ReadNext, EndsLoop, Inv, RefusalIsKnown
  <2>4. status' \in Nat
    BY <2>1, MessageParts DEF Recorded, Inv, TypeOK
  <2>5. got' \in [Stream -> Seq(Nat)]
    <3>1. CASE msg.type = "Data" /\ msg.stream # "other"
      <4>1. msg.stream \in Stream /\ msg.chunk \in Nat
        BY <2>1, <3>1, MessageParts
      <4>2. got' = [got EXCEPT ![msg.stream] = Append(@, msg.chunk)]
        BY <2>1, <3>1 DEF Collected
      <4> HIDE DEF msg
      <4>3. got \in [Stream -> Seq(Nat)]
        BY DEF Inv, TypeOK
      <4>4. Append(got[msg.stream], msg.chunk) \in Seq(Nat)
        BY <4>1, <4>3
      <4>5. QED
        BY <4>1, <4>2, <4>3, <4>4
    <3>2. CASE ~(msg.type = "Data" /\ msg.stream # "other")
      BY <2>1, <3>2 DEF Collected, Inv, TypeOK
    <3>3. QED
      BY <3>1, <3>2
  <2>6. RefusalIsKnown'
    BY <1>1, <2>2 DEF Inv, RefusalIsKnown, server
  <2>7. TypeOK'
    BY <1>1, <2>2, <2>4, <2>5 DEF Inv, TypeOK, chosen, server
  <2>8. QED
    BY <1>1, <2>2, <2>3, <2>6, <2>7
       DEF Inv, MessagesOK, AskedInOrder, EndsForAReason, EndedIsGone, Over, server
<1>3. CASE inbox = <<>>
  <2>1. (ended \/ ~link) /\ pc' = "close" /\ UNCHANGED <<inbox, got, status>>
    BY <1>3 DEF ReadNext
  <2>2. TypeOK'
    BY <1>1, <2>1 DEF Inv, TypeOK, chosen, server
  <2>3. QED
    BY <1>1, <1>3, <2>1, <2>2
       DEF Inv, MessagesOK, AskedInOrder, RefusalIsKnown, EndsForAReason, EndedIsGone, Over, server
<1>4. QED
  BY <1>2, <1>3

\* The channel is closed and the Child dropped, or abandoned before.
LEMMA CloseStep == Inv /\ (CloseChannel \/ Drop \/ Abandon) => Inv'
<1> SUFFICES ASSUME Inv, CloseChannel \/ Drop \/ Abandon PROVE Inv'
  OBVIOUS
<1>1. /\ UNCHANGED <<chosen, todo, written, status, got, server, link, ended>>
      /\ pc' \in {"done", "dropped", "abandoned"}
      /\ pc' # "abandoned" => pc \in {"close", "done"}
      /\ inbox' \in {inbox, <<>>} /\ closing' \in BOOLEAN
  BY DEF CloseChannel, Drop, Abandon, wire, Inv, TypeOK
<1>2. TypeOK'
  BY <1>1 DEF Inv, TypeOK, chosen, server
<1>3. RefusalIsKnown' /\ inbox' \in Seq(Message)
  <2>1. CASE inbox' = inbox
    BY <1>1, <2>1 DEF Inv, MessagesOK, RefusalIsKnown, server
  <2>2. CASE inbox' = <<>>
    <3>1. inbox' \in Seq(Message) /\ 1..Len(inbox') = {}
      BY <2>2
    <3>2. QED
      BY <3>1 DEF RefusalIsKnown
  <2>3. QED
    BY <1>1, <2>1, <2>2
<1>4. QED
  BY <1>1, <1>2, <1>3 DEF Inv, MessagesOK, AskedInOrder, EndsForAReason, EndedIsGone, Over, server

\* The server answers a request.
LEMMA ReplyStep == ASSUME NEW ok \in BOOLEAN PROVE Inv /\ Reply(ok) => Inv'
<1> SUFFICES ASSUME Inv, Reply(ok) PROVE Inv'
  OBVIOUS
<1> DEFINE msg == Msg(IF ok THEN "Success" ELSE "Failure")
<1>1. /\ Room /\ inbox' = Delivered(msg) /\ asked # <<>> /\ asked' = Tail(asked)
      /\ refused' = IF ok THEN refused ELSE refused \cup {Head(asked)}
      /\ process' \in {"running", process}
      /\ UNCHANGED <<chosen, client, link, ended, stdin, eof, owed, wrote, left, exit>>
  BY DEF Reply
<1>2. /\ Head(asked) \in {"pty", "cmd"}
      /\ asked' \in Seq({"pty", "cmd"}) /\ Len(asked') = Len(asked) - 1 /\ Len(asked) \in Nat
  BY <1>1 DEF Inv, TypeOK
<1>3. refused' \subseteq {"pty", "cmd"} /\ refused \subseteq refused' /\ (~ok => refused' # {})
  BY <1>1, <1>2 DEF Inv, TypeOK
<1>4. msg \in Message /\ (msg.type = "Failure" => ~ok)
  BY DEF Msg, Message, Plain
<1> HIDE DEF msg
<1>5. inbox' \in Seq(Message) /\ Len(inbox') <= Inbox /\ RefusalIsKnown'
  BY <1>1, <1>3, <1>4, DeliveredInv
<1>6. TypeOK'
  BY <1>1, <1>2, <1>3, <1>5 DEF Inv, TypeOK, chosen, client
<1>7. AskedInOrder'
  BY <1>1, <1>2 DEF Inv, AskedInOrder, client
<1>8. EndsForAReason'
  BY <1>1, <1>3 DEF Inv, EndsForAReason, Over, Room, Open, client
<1>9. EndedIsGone'
  BY <1>1 DEF EndedIsGone, Room, Open
<1>10. QED
  BY <1>1, <1>5, <1>6, <1>7, <1>8, <1>9 DEF Inv, MessagesOK

\* The process writes.
LEMMA OutputStep == ASSUME NEW stream \in Stream PROVE Inv /\ Output(stream) => Inv'
<1> SUFFICES ASSUME Inv, Output(stream) PROVE Inv'
  OBVIOUS
<1> DEFINE chunk == Len(wrote[stream]) + 1
           msg   == [type |-> "Data", stream |-> stream, chunk |-> chunk]
<1>1. /\ Room /\ owed > 0 /\ owed' = owed - 1 /\ inbox' = Delivered(msg)
      /\ wrote' = [wrote EXCEPT ![stream] = Append(@, chunk)]
      /\ UNCHANGED <<chosen, client, link, ended, asked, refused, process, stdin, eof, left, exit>>
  BY DEF Output
<1>2. wrote \in [Stream -> Seq(Nat)] /\ wrote[stream] \in Seq(Nat) /\ chunk \in Nat
  BY DEF Inv, TypeOK
<1>3. msg \in Message /\ msg.type # "Failure"
  BY <1>2 DEF Message
<1> HIDE DEF chunk
<1>4. Append(wrote[stream], chunk) \in Seq(Nat)
  BY <1>2
<1>5. wrote' \in [Stream -> Seq(Nat)]
  BY <1>1, <1>2, <1>4
<1> HIDE DEF msg
<1>6. inbox' \in Seq(Message) /\ Len(inbox') <= Inbox /\ RefusalIsKnown'
  BY <1>1, <1>3, DeliveredInv
<1>7. TypeOK'
  BY <1>1, <1>5, <1>6 DEF Inv, TypeOK, chosen, client
<1>8. EndsForAReason'
  BY <1>1 DEF Inv, EndsForAReason, Over, Room, Open, client
<1>9. EndedIsGone'
  BY <1>1 DEF EndedIsGone, Room, Open
<1>10. QED
  BY <1>1, <1>6, <1>7, <1>8, <1>9 DEF Inv, MessagesOK, AskedInOrder, client

\* The process reads.
LEMMA InputStep == Inv /\ Input => Inv'
<1> SUFFICES ASSUME Inv, Input PROVE Inv'
  OBVIOUS
<1>1. /\ UNCHANGED <<chosen, client, wire, asked, refused, process, eof, wrote, left, exit>>
      /\ stdin' = stdin - 1 /\ stdin > 0 /\ owed' \in {0, 1}
  BY DEF Input
<1>2. TypeOK'
  BY <1>1 DEF Inv, TypeOK, chosen, client, wire
<1>3. QED
  BY <1>1, <1>2
     DEF Inv, MessagesOK, AskedInOrder, RefusalIsKnown, EndsForAReason, EndedIsGone, Over, client, wire

\* The process exits.
LEMMA ExitStep == ASSUME NEW code \in Code PROVE Inv /\ Exit(code) => Inv'
<1> SUFFICES ASSUME Inv, Exit(code) PROVE Inv'
  OBVIOUS
<1>1. code \in Nat
  BY CodeAssumption
<1>2. PICK said \in Farewells(code) :
          /\ left' = Append(said, Msg("Close"))
          /\ exit' = IF \E i \in DOMAIN said : said[i].type = "ExitStatus" THEN code ELSE 0
  BY DEF Exit
<1>3. /\ UNCHANGED <<chosen, client, wire, asked, refused, stdin, eof, owed, wrote>>
      /\ process' = "exited" /\ process = "running"
  BY DEF Exit
<1>4. left' \in Seq(LastWords)
  <2>1. Msg("Close") \in LastWords /\ Msg("Eof") \in LastWords /\ Msg("ExitSignal") \in LastWords
    BY DEF Msg, LastWords
  <2>2. [type |-> "ExitStatus", status |-> code] \in LastWords
    BY <1>1 DEF LastWords
  <2>3. said \in Seq(LastWords)
    <3> DEFINE told == [type |-> "ExitStatus", status |-> code]
    <3>1. said \in {<<Msg("Eof"), told>>, <<told, Msg("Eof")>>,
                    <<Msg("Eof"), Msg("ExitSignal")>>, <<>>}
      BY DEF Farewells
    <3>2. told \in LastWords
      BY <2>2
    <3> HIDE DEF told
    <3>3. /\ <<Msg("Eof"), told>> \in Seq(LastWords) /\ <<told, Msg("Eof")>> \in Seq(LastWords)
          /\ <<Msg("Eof"), Msg("ExitSignal")>> \in Seq(LastWords) /\ <<>> \in Seq(LastWords)
      BY <2>1, <3>2
    <3>4. QED
      BY <3>1, <3>3
  <2>4. QED
    BY <1>2, <2>1, <2>3
<1>5. exit' \in Nat
  BY <1>1, <1>2
<1>6. TypeOK'
  BY <1>3, <1>5 DEF Inv, TypeOK, chosen, client, wire
<1>7. QED
  BY <1>3, <1>4, <1>6
     DEF Inv, MessagesOK, AskedInOrder, RefusalIsKnown, EndsForAReason, EndedIsGone, Over, client, wire

\* The server answers Close.
LEMMA AnswerCloseStep == Inv /\ AnswerClose => Inv'
<1> SUFFICES ASSUME Inv, AnswerClose PROVE Inv'
  OBVIOUS
<1>1. /\ UNCHANGED <<chosen, client, wire, asked, refused, stdin, eof, owed, wrote, exit>>
      /\ process' = "exited" /\ left' = <<Msg("Close")>> /\ process # "gone"
  BY DEF AnswerClose
<1>2. left' \in Seq(LastWords)
  BY <1>1 DEF Msg, LastWords
<1>3. TypeOK'
  BY <1>1 DEF Inv, TypeOK, chosen, client, wire
<1>4. QED
  BY <1>1, <1>2, <1>3
     DEF Inv, MessagesOK, AskedInOrder, RefusalIsKnown, EndsForAReason, EndedIsGone, Over, client, wire

\* What the server says last comes in.
LEMMA SendStep == Inv /\ Send => Inv'
<1> SUFFICES ASSUME Inv, Send PROVE Inv'
  OBVIOUS
<1> DEFINE msg == Head(left)
<1>1. /\ Room /\ left # <<>> /\ inbox' = Delivered(msg) /\ left' = Tail(left)
      /\ ended' \in BOOLEAN /\ process' \in {"gone", process} /\ EndedIsGone'
      /\ UNCHANGED <<chosen, client, link, asked, refused, stdin, eof, owed, wrote, exit>>
  BY DEF Send, EndedIsGone
<1>2. msg \in LastWords /\ left' \in Seq(LastWords)
  BY <1>1 DEF Inv, MessagesOK
<1> HIDE DEF msg
<1>3. msg \in Message /\ msg.type # "Failure"
  BY <1>2, LastIsMessage
<1>4. /\ inbox' \in Seq(Message) /\ Len(inbox') <= Inbox /\ RefusalIsKnown'
      /\ NobodyReads => inbox' = inbox
  BY <1>1, <1>3, DeliveredInv
<1>5. TypeOK'
  BY <1>1, <1>4 DEF Inv, TypeOK, chosen, client
<1>6. EndsForAReason'
  BY <1>1 DEF Inv, EndsForAReason, Over, Room, Open, client
<1>7. QED
  BY <1>1, <1>2, <1>4, <1>5, <1>6 DEF Inv, MessagesOK, AskedInOrder, client

\* The connection is lost.
LEMMA CutStep == Inv /\ Cut => Inv'
<1> SUFFICES ASSUME Inv, Cut PROVE Inv'
  OBVIOUS
<1>1. /\ UNCHANGED <<chosen, client, inbox, ended, asked, refused, stdin, eof, owed, wrote, left, exit>>
      /\ link' = FALSE /\ process' = "gone"
  BY DEF Cut
<1>2. TypeOK'
  BY <1>1 DEF Inv, TypeOK, chosen, client
<1>3. QED
  BY <1>1, <1>2 DEF Inv, MessagesOK, AskedInOrder, RefusalIsKnown, EndsForAReason, EndedIsGone, Over, client

LEMMA InvStays == Inv /\ [Next]_vars => Inv'
<1> SUFFICES ASSUME Inv, [Next]_vars PROVE Inv'
  OBVIOUS
<1>1. CASE Owner \/ Abandon
  BY <1>1, OpenStep, ReadStep, CloseStep DEF Owner
<1>2. CASE Writer
  BY <1>2, WriterStep
<1>3. CASE Server
  BY <1>3, ReplyStep, SendStep, AnswerCloseStep DEF Server, Answer
<1>4. CASE RemoteProcess
  BY <1>4, OutputStep, InputStep, ExitStep DEF RemoteProcess
<1>5. CASE Cut
  BY <1>5, CutStep
<1>6. CASE UNCHANGED vars
  <2>1. TypeOK'
    BY <1>6 DEF Inv, TypeOK, vars, chosen, client, server, wire
  <2>2. QED
    BY <1>6, <2>1
       DEF Inv, MessagesOK, AskedInOrder, RefusalIsKnown, EndsForAReason, EndedIsGone, Over,
           vars, chosen, client, server, wire
<1>7. QED
  BY <1>1, <1>2, <1>3, <1>4, <1>5, <1>6 DEF Next

-----------------------------------------------------------------------------
(***************************************************************************)
(* The output.  Chunks are numbered by their place in the stream, so what  *)
(* is queued of a stream is exactly what was written and not yet read, in  *)
(* order: the next chunk read is the next one missing.                     *)
(***************************************************************************)
Read == {"stdout", "stderr"}

Carried(msg, s, k) == msg.type = "Data" /\ msg.stream = s /\ msg.chunk = k

\* Whether what comes in is still kept for the owner.
Collecting == ~ NobodyReads \/ (pc = "dropped" /\ link /\ refused = {})

Numbered ==
    /\ \A s \in Read : \A k \in 1..Len(got[s]) : got[s][k] = k
    /\ \A s \in Read : \A k \in 1..Len(wrote[s]) : wrote[s][k] = k
    /\ got["other"] = <<>>

QueuedIsNew ==
    \A i \in 1..Len(inbox) : \A s \in Read : \A k \in Nat :
        Carried(inbox[i], s, k) => Len(got[s]) < k /\ k <= Len(wrote[s])

QueuedInOrder ==
    \A i, j \in 1..Len(inbox) : \A s \in Read : \A k, n \in Nat :
        i < j /\ Carried(inbox[i], s, k) /\ Carried(inbox[j], s, n) => k < n

NothingLost ==
    Collecting =>
        \A s \in Read : \A k \in Nat :
            Len(got[s]) < k /\ k <= Len(wrote[s]) => \E i \in 1..Len(inbox) : Carried(inbox[i], s, k)

OutputInv ==
    /\ Numbered /\ QueuedIsNew /\ QueuedInOrder /\ NothingLost
    /\ \A s \in Read : Len(got[s]) <= Len(wrote[s])

LEMMA PrefixByPlaces ==
    ASSUME NEW S, NEW s \in Seq(S), NEW t \in Seq(S), Len(s) <= Len(t),
           \A k \in 1..Len(s) : s[k] = t[k]
    PROVE  IsPrefix(s, t)
<1>1. Len(s) \in Nat /\ Len(t) \in Nat
  OBVIOUS
<1>2. /\ SubSeq(s, 1, Len(s)) \in Seq(S) /\ Len(SubSeq(s, 1, Len(s))) = Len(s)
      /\ \A k \in 1..Len(s) : SubSeq(s, 1, Len(s))[k] = s[k]
  BY <1>1
<1>3. /\ SubSeq(t, 1, Len(s)) \in Seq(S) /\ Len(SubSeq(t, 1, Len(s))) = Len(s)
      /\ \A k \in 1..Len(s) : SubSeq(t, 1, Len(s))[k] = t[k]
  BY <1>1
<1>4. SubSeq(s, 1, Len(s)) = SubSeq(t, 1, Len(s))
  BY <1>2, <1>3, SeqEqual
<1>5. QED
  BY <1>4 DEF IsPrefix

LEMMA OneChunk ==
    \A msg, s, k, t, n : Carried(msg, s, k) /\ Carried(msg, t, n) => s = t /\ k = n
BY DEF Carried

LEMMA StreamTypes ==
    ASSUME Inv, NEW s \in Stream
    PROVE  /\ got[s] \in Seq(Nat) /\ wrote[s] \in Seq(Nat)
           /\ Len(got[s]) \in Nat /\ Len(wrote[s]) \in Nat
BY DEF Inv, TypeOK

LEMMA Places ==
    ASSUME Inv, Room, NEW msg \in Message, inbox' = Delivered(msg)
    PROVE  /\ NobodyReads => inbox' = inbox
           /\ ~ NobodyReads =>
                 /\ Len(inbox') = Len(inbox) + 1 /\ Len(inbox) \in Nat
                 /\ inbox'[Len(inbox) + 1] = msg
                 /\ \A i \in 1..Len(inbox) : inbox'[i] = inbox[i]
<1>1. inbox \in Seq(Message)
  BY DEF Inv, MessagesOK
<1>2. QED
  BY <1>1 DEF Delivered

LEMMA OutputInit == Init => OutputInv
<1> SUFFICES ASSUME Init PROVE OutputInv
  OBVIOUS
<1>1. \A s \in Stream : Len(got[s]) = 0 /\ Len(wrote[s]) = 0
  <2> DEFINE none == <<>>
  <2>1. Len(none) = 0
    OBVIOUS
  <2>2. \A s \in Stream : got[s] = none /\ wrote[s] = none
    BY DEF Init
  <2> HIDE DEF none
  <2>3. QED
    BY <2>1, <2>2
<1>2. got["other"] = <<>>
  BY DEF Init, Stream
<1>3. Len(inbox) = 0
  BY DEF Init
<1>4. \A s \in Read : s \in Stream
  BY DEF Read, Stream
<1>5. Numbered
  BY <1>1, <1>2, <1>4 DEF Numbered
<1>6. QueuedIsNew /\ QueuedInOrder
  BY <1>3 DEF QueuedIsNew, QueuedInOrder
<1>7. NothingLost
  BY <1>1, <1>4 DEF NothingLost
<1>8. QED
  BY <1>1, <1>4, <1>5, <1>6, <1>7 DEF OutputInv

\* Nothing is read, written or queued.
LEMMA OutputSame ==
    ASSUME OutputInv, UNCHANGED <<inbox, got, wrote>>, Collecting' => Collecting
    PROVE  OutputInv'
<1>1. Numbered' /\ QueuedIsNew' /\ QueuedInOrder'
  BY DEF OutputInv, Numbered, QueuedIsNew, QueuedInOrder
<1>2. NothingLost'
  BY DEF OutputInv, NothingLost
<1>3. QED
  BY <1>1, <1>2 DEF OutputInv

\* A message that is no output is queued.
LEMMA OutputOther ==
    ASSUME Inv, OutputInv, Room, NEW msg \in Message, msg.type # "Data",
           inbox' = Delivered(msg), UNCHANGED <<got, wrote>>, Collecting' => Collecting
    PROVE  OutputInv'
<1>1. CASE NobodyReads
  BY <1>1, Places, OutputSame
<1>2. CASE ~ NobodyReads
  <2>1. /\ Len(inbox') = Len(inbox) + 1 /\ Len(inbox) \in Nat
        /\ inbox'[Len(inbox) + 1] = msg
        /\ \A i \in 1..Len(inbox) : inbox'[i] = inbox[i]
    BY <1>2, Places
  <2>2. \A s, k : ~ Carried(inbox'[Len(inbox) + 1], s, k)
    BY <2>1 DEF Carried
  <2>3. \A i \in 1..Len(inbox') : \A s, k :
            Carried(inbox'[i], s, k) => i \in 1..Len(inbox) /\ Carried(inbox[i], s, k)
    BY <2>1, <2>2
  <2>4. QueuedIsNew'
    BY <2>3 DEF OutputInv, QueuedIsNew
  <2>5. QueuedInOrder'
    <3> SUFFICES ASSUME NEW i \in 1..Len(inbox'), NEW j \in 1..Len(inbox'), NEW s \in Read,
                        NEW k \in Nat, NEW n \in Nat,
                        i < j, Carried(inbox'[i], s, k), Carried(inbox'[j], s, n)
                 PROVE  k < n
      BY DEF QueuedInOrder
    <3>1. /\ i \in 1..Len(inbox) /\ Carried(inbox[i], s, k)
          /\ j \in 1..Len(inbox) /\ Carried(inbox[j], s, n)
      BY <2>3
    <3>2. QED
      BY <3>1 DEF OutputInv, QueuedInOrder
  <2>6. NothingLost'
    <3>1. \A i \in 1..Len(inbox) : i \in 1..Len(inbox') /\ inbox'[i] = inbox[i]
      BY <2>1
    <3>2. QED
      BY <3>1 DEF OutputInv, NothingLost
  <2>7. QED
    BY <2>4, <2>5, <2>6 DEF OutputInv, Numbered
<1>3. QED
  BY <1>1, <1>2

\* The process writes the next chunk of a stream.
LEMMA OutputWritten ==
    ASSUME Inv, OutputInv, NEW stream \in Stream, Output(stream)
    PROVE  OutputInv'
<1> DEFINE chunk == Len(wrote[stream]) + 1
           msg   == [type |-> "Data", stream |-> stream, chunk |-> chunk]
<1>1. /\ Room /\ inbox' = Delivered(msg)
      /\ wrote' = [wrote EXCEPT ![stream] = Append(@, chunk)]
      /\ UNCHANGED <<client, link, refused>>
  BY DEF Output
<1>2. wrote \in [Stream -> Seq(Nat)] /\ chunk \in Nat
  BY StreamTypes DEF Inv, TypeOK
<1>3. msg \in Message
  BY <1>2 DEF Message
<1>4. \A s, k : Carried(msg, s, k) <=> s = stream /\ k = chunk
  BY DEF Carried
<1>5. chunk = Len(wrote[stream]) + 1
  OBVIOUS
<1> HIDE DEF chunk, msg
<1>6. \A s \in Read : s \in Stream /\ Len(wrote[s]) \in Nat /\ Len(got[s]) \in Nat
  BY StreamTypes DEF Read, Stream
<1>7. got' = got /\ pc' = pc
  BY <1>1 DEF client
<1>8. /\ wrote'[stream] = Append(wrote[stream], chunk)
      /\ \A s \in Stream : s # stream => wrote'[s] = wrote[s]
  BY <1>1, <1>2
<1>9. wrote[stream] \in Seq(Nat) /\ Len(wrote[stream]) \in Nat
  BY StreamTypes
<1>10. /\ Len(wrote'[stream]) = chunk
       /\ wrote'[stream][chunk] = chunk
       /\ \A k \in 1..Len(wrote[stream]) : wrote'[stream][k] = wrote[stream][k]
  BY <1>2, <1>5, <1>8, <1>9
<1>11. Numbered'
  <2>1. \A s \in Read : \A k \in 1..Len(wrote'[s]) : wrote'[s][k] = k
    <3> SUFFICES ASSUME NEW s \in Read, NEW k \in 1..Len(wrote'[s]) PROVE wrote'[s][k] = k
      OBVIOUS
    <3>1. CASE s = stream
      BY <1>5, <1>9, <1>10, <3>1 DEF OutputInv, Numbered
    <3>2. CASE s # stream
      BY <1>6, <1>8, <3>2 DEF OutputInv, Numbered
    <3>3. QED
      BY <3>1, <3>2
  <2>2. QED
    BY <1>7, <2>1 DEF OutputInv, Numbered
<1>12. \A s \in Read : /\ Len(wrote'[s]) = IF s = stream THEN chunk ELSE Len(wrote[s])
                       /\ Len(wrote[s]) <= Len(wrote'[s])
  BY <1>5, <1>6, <1>8, <1>10
<1>13. \A s \in Read : Len(got'[s]) <= Len(wrote'[s])
  <2> SUFFICES ASSUME NEW s \in Read PROVE Len(got[s]) <= Len(wrote'[s])
    BY <1>7
  <2>1. Len(got[s]) <= Len(wrote[s]) /\ Len(wrote[s]) <= Len(wrote'[s])
    BY <1>12 DEF OutputInv
  <2>2. Len(wrote'[s]) \in Nat
    BY <1>2, <1>6, <1>12
  <2>3. QED
    BY <1>6, <2>1, <2>2
<1>14. CASE NobodyReads
  <2>1. inbox' = inbox
    BY <1>1, <1>3, <1>14, Places
  <2>2. ~ Collecting'
    <3>1. link /\ ~ ended
      BY <1>1 DEF Room, Open
    <3>2. pc = "dropped" => refused # {}
      BY <3>1 DEF Inv, EndsForAReason, Over
    <3>3. QED
      BY <1>1, <1>7, <1>14, <3>2 DEF Collecting, NobodyReads
  <2>3. QueuedIsNew'
    <3> SUFFICES ASSUME NEW i \in 1..Len(inbox), NEW s \in Read, NEW k \in Nat,
                        Carried(inbox[i], s, k)
                 PROVE  Len(got[s]) < k /\ k <= Len(wrote'[s])
      BY <1>7, <2>1 DEF QueuedIsNew
    <3>1. Len(got[s]) < k /\ k <= Len(wrote[s])
      BY DEF OutputInv, QueuedIsNew
    <3>2. Len(wrote'[s]) \in Nat /\ Len(wrote[s]) <= Len(wrote'[s])
      BY <1>2, <1>6, <1>12
    <3>3. QED
      BY <1>6, <3>1, <3>2
  <2>4. QueuedInOrder'
    BY <2>1 DEF OutputInv, QueuedInOrder
  <2>5. NothingLost'
    BY <2>2 DEF NothingLost
  <2>6. QED
    BY <1>11, <1>13, <2>3, <2>4, <2>5 DEF OutputInv
<1>15. CASE ~ NobodyReads
  <2>1. /\ Len(inbox') = Len(inbox) + 1 /\ Len(inbox) \in Nat
        /\ inbox'[Len(inbox) + 1] = msg
        /\ \A i \in 1..Len(inbox) : inbox'[i] = inbox[i]
    BY <1>1, <1>3, <1>15, Places
  <2>2. \A i \in 1..Len(inbox') : \A s, k :
            Carried(inbox'[i], s, k) =>
                \/ i \in 1..Len(inbox) /\ Carried(inbox[i], s, k)
                \/ i = Len(inbox) + 1 /\ s = stream /\ k = chunk
    BY <1>4, <2>1
  <2>3. QueuedIsNew'
    <3> SUFFICES ASSUME NEW i \in 1..Len(inbox'), NEW s \in Read, NEW k \in Nat,
                        Carried(inbox'[i], s, k)
                 PROVE  Len(got[s]) < k /\ k <= Len(wrote'[s])
      BY <1>7 DEF QueuedIsNew
    <3>1. CASE i \in 1..Len(inbox) /\ Carried(inbox[i], s, k)
      <4>1. Len(got[s]) < k /\ k <= Len(wrote[s])
        BY <3>1 DEF OutputInv, QueuedIsNew
      <4>2. Len(wrote'[s]) \in Nat /\ Len(wrote[s]) <= Len(wrote'[s])
        BY <1>2, <1>6, <1>12
      <4>3. QED
        BY <1>6, <4>1, <4>2
    <3>2. CASE s = stream /\ k = chunk
      <4>1. Len(got[s]) <= Len(wrote[s]) /\ Len(wrote'[s]) = k /\ k = Len(wrote[s]) + 1
        BY <1>5, <1>10, <3>2 DEF OutputInv
      <4>2. QED
        BY <1>6, <4>1
    <3>3. \/ i \in 1..Len(inbox) /\ Carried(inbox[i], s, k)
          \/ s = stream /\ k = chunk
      BY <2>2
    <3>4. QED
      BY <3>1, <3>2, <3>3
  <2>4. QueuedInOrder'
    <3> SUFFICES ASSUME NEW i \in 1..Len(inbox'), NEW j \in 1..Len(inbox'),
                        NEW s \in Read, NEW k \in Nat, NEW n \in Nat,
                        i < j, Carried(inbox'[i], s, k), Carried(inbox'[j], s, n)
                 PROVE  k < n
      BY DEF QueuedInOrder
    <3>1. i \in 1..Len(inbox) /\ Carried(inbox[i], s, k)
      BY <2>1, <2>2
    <3>2. CASE j \in 1..Len(inbox) /\ Carried(inbox[j], s, n)
      BY <3>1, <3>2 DEF OutputInv, QueuedInOrder
    <3>3. CASE s = stream /\ n = chunk
      <4>1. k <= Len(wrote[s]) /\ n = Len(wrote[s]) + 1
        BY <1>5, <3>1, <3>3 DEF OutputInv, QueuedIsNew
      <4>2. QED
        BY <1>6, <4>1
    <3>4. \/ j \in 1..Len(inbox) /\ Carried(inbox[j], s, n)
          \/ s = stream /\ n = chunk
      BY <2>2
    <3>5. QED
      BY <3>2, <3>3, <3>4
  <2>5. NothingLost'
    <3> SUFFICES ASSUME NEW s \in Read, NEW k \in Nat, Len(got[s]) < k, k <= Len(wrote'[s])
                 PROVE  \E i \in 1..Len(inbox') : Carried(inbox'[i], s, k)
      BY <1>7 DEF NothingLost
    <3>1. CASE k <= Len(wrote[s])
      <4>1. PICK i \in 1..Len(inbox) : Carried(inbox[i], s, k)
        BY <1>15, <3>1 DEF OutputInv, NothingLost, Collecting
      <4>2. i \in 1..Len(inbox') /\ Carried(inbox'[i], s, k)
        BY <2>1, <4>1
      <4>3. QED
        BY <4>2
    <3>2. CASE ~ (k <= Len(wrote[s]))
      <4>1. s = stream /\ k = chunk
        BY <1>5, <1>6, <1>12, <3>2
      <4>2. Len(inbox) + 1 \in 1..Len(inbox') /\ Carried(inbox'[Len(inbox) + 1], s, k)
        BY <1>4, <2>1, <4>1
      <4>3. QED
        BY <4>2
    <3>3. QED
      BY <3>1, <3>2
  <2>6. QED
    BY <1>11, <1>13, <2>3, <2>4, <2>5 DEF OutputInv
<1>16. QED
  BY <1>14, <1>15

\* The reader takes the oldest message: a chunk of output is the next one missing.
LEMMA OutputRead ==
    ASSUME Inv, OutputInv, ReadNext, inbox # <<>>
    PROVE  OutputInv'
<1> DEFINE msg == Head(inbox)
<1>1. /\ pc = "read" /\ pc' \in {"read", "close"} /\ inbox \in Seq(Message)
      /\ inbox' = Tail(inbox) /\ got' = Collected(msg) /\ wrote' = wrote
  BY DEF ReadNext, server, Inv, MessagesOK
<1>2. /\ Len(inbox') = Len(inbox) - 1 /\ Len(inbox) \in Nat
      /\ \A i \in 1..Len(inbox') : i + 1 \in 1..Len(inbox) /\ inbox'[i] = inbox[i + 1]
      /\ 1 \in 1..Len(inbox) /\ msg = inbox[1] /\ msg \in Message
  BY <1>1
<1>3. Collecting
  BY <1>1 DEF Collecting, NobodyReads
<1>4. \A s \in Read : s \in Stream /\ Len(wrote[s]) \in Nat /\ Len(got[s]) \in Nat
  BY StreamTypes DEF Read, Stream
<1>5. QueuedInOrder'
  <2> SUFFICES ASSUME NEW i \in 1..Len(inbox'), NEW j \in 1..Len(inbox'),
                      NEW s \in Read, NEW k \in Nat, NEW n \in Nat,
                      i < j, Carried(inbox'[i], s, k), Carried(inbox'[j], s, n)
               PROVE  k < n
    BY DEF QueuedInOrder
  <2>1. /\ i + 1 \in 1..Len(inbox) /\ j + 1 \in 1..Len(inbox) /\ i + 1 < j + 1
        /\ Carried(inbox[i + 1], s, k) /\ Carried(inbox[j + 1], s, n)
    BY <1>2
  <2>2. QED
    BY <2>1 DEF OutputInv, QueuedInOrder
<1> HIDE DEF msg
<1>6. CASE msg.type = "Data" /\ msg.stream # "other"
  <2> DEFINE t == msg.stream
             c == msg.chunk
  <2>1. t \in Read /\ t \in Stream /\ c \in Nat /\ Carried(msg, t, c)
    BY <1>2, <1>6, MessageParts DEF Read, Stream, Carried
  <2>2. got' = [got EXCEPT ![t] = Append(@, c)]
    BY <1>1, <1>6 DEF Collected
  <2> HIDE DEF t, c
  <2>3. c = Len(got[t]) + 1
    <3>1. Len(got[t]) < c /\ c <= Len(wrote[t])
      BY <1>2, <2>1 DEF OutputInv, QueuedIsNew
    <3>2. Len(got[t]) + 1 \in Nat /\ Len(got[t]) < Len(got[t]) + 1 /\ Len(got[t]) + 1 <= Len(wrote[t])
      BY <1>4, <2>1, <3>1
    <3>3. PICK i \in 1..Len(inbox) : Carried(inbox[i], t, Len(got[t]) + 1)
      BY <1>3, <2>1, <3>2 DEF OutputInv, NothingLost
    <3>4. CASE i = 1
      BY <1>2, <2>1, <3>3, <3>4, OneChunk
    <3>5. CASE i # 1
      <4>1. 1 < i
        BY <3>5
      <4>2. c < Len(got[t]) + 1
        BY <1>2, <2>1, <3>2, <3>3, <4>1 DEF OutputInv, QueuedInOrder
      <4>3. QED
        BY <1>4, <2>1, <3>1, <4>2
    <3>6. QED
      BY <3>4, <3>5
  <2>4. got \in [Stream -> Seq(Nat)] /\ got[t] \in Seq(Nat)
    BY <2>1 DEF Inv, TypeOK
  <2>5. got'[t] = Append(got[t], c) /\ \A s \in Stream : s # t => got'[s] = got[s]
    BY <2>1, <2>2, <2>4
  <2>6. /\ Len(got'[t]) = c /\ got'[t][c] = c
        /\ \A k \in 1..Len(got[t]) : got'[t][k] = got[t][k]
    BY <2>1, <2>3, <2>4, <2>5
  <2>7. Numbered'
    <3>1. \A s \in Read : \A k \in 1..Len(got'[s]) : got'[s][k] = k
      <4> SUFFICES ASSUME NEW s \in Read, NEW k \in 1..Len(got'[s]) PROVE got'[s][k] = k
        OBVIOUS
      <4>1. CASE s = t
        BY <1>4, <2>1, <2>3, <2>6, <4>1 DEF OutputInv, Numbered
      <4>2. CASE s # t
        BY <1>4, <2>5, <4>2 DEF OutputInv, Numbered
      <4>3. QED
        BY <4>1, <4>2
    <3>2. got'["other"] = <<>>
      BY <2>1, <2>5 DEF OutputInv, Numbered, Read, Stream
    <3>3. QED
      BY <1>1, <3>1, <3>2 DEF OutputInv, Numbered
  <2>8. \A s \in Read : Len(got'[s]) = IF s = t THEN c ELSE Len(got[s])
    BY <1>4, <2>5, <2>6
  <2>9. \A s \in Read : Len(got'[s]) <= Len(wrote[s])
    <3>1. c <= Len(wrote[t])
      BY <1>2, <2>1 DEF OutputInv, QueuedIsNew
    <3>2. QED
      BY <2>8, <3>1 DEF OutputInv
  <2>10. QueuedIsNew'
    <3> SUFFICES ASSUME NEW i \in 1..Len(inbox'), NEW s \in Read, NEW k \in Nat,
                        Carried(inbox'[i], s, k)
                 PROVE  Len(got'[s]) < k /\ k <= Len(wrote[s])
      BY <1>1 DEF QueuedIsNew
    <3>1. i + 1 \in 1..Len(inbox) /\ Carried(inbox[i + 1], s, k) /\ 1 < i + 1
      BY <1>2
    <3>2. Len(got[s]) < k /\ k <= Len(wrote[s])
      BY <3>1 DEF OutputInv, QueuedIsNew
    <3>3. s = t => c < k
      BY <1>2, <2>1, <3>1 DEF OutputInv, QueuedInOrder
    <3>4. QED
      BY <2>8, <3>2, <3>3
  <2>11. NothingLost'
    <3> SUFFICES ASSUME NEW s \in Read, NEW k \in Nat, Len(got'[s]) < k, k <= Len(wrote[s])
                 PROVE  \E i \in 1..Len(inbox') : Carried(inbox'[i], s, k)
      BY <1>1 DEF NothingLost
    <3>1. Len(got[s]) < k /\ (s = t => c < k)
      BY <1>4, <2>1, <2>3, <2>8
    <3>2. PICK i \in 1..Len(inbox) : Carried(inbox[i], s, k)
      BY <1>3, <3>1 DEF OutputInv, NothingLost
    <3>3. i # 1
      <4> SUFFICES ASSUME i = 1 PROVE FALSE
        OBVIOUS
      <4>1. s = t /\ k = c
        BY <1>2, <2>1, <3>2, OneChunk
      <4>2. QED
        BY <2>1, <3>1, <4>1
    <3>4. i - 1 \in 1..Len(inbox') /\ Carried(inbox'[i - 1], s, k)
      <4>1. i - 1 \in 1..Len(inbox') /\ (i - 1) + 1 = i
        BY <1>2, <3>3
      <4>2. inbox'[i - 1] = inbox[(i - 1) + 1]
        BY <1>2, <4>1
      <4>3. QED
        BY <3>2, <4>1, <4>2
    <3>5. QED
      BY <3>4
  <2>12. QED
    BY <1>1, <1>5, <2>7, <2>9, <2>10, <2>11 DEF OutputInv
<1>7. CASE ~ (msg.type = "Data" /\ msg.stream # "other")
  <2>1. got' = got
    BY <1>1, <1>7 DEF Collected
  <2>2. \A s \in Read : \A k : ~ Carried(inbox[1], s, k)
    BY <1>2, <1>7 DEF Carried, Read
  <2>3. QueuedIsNew'
    BY <1>1, <1>2, <2>1 DEF OutputInv, QueuedIsNew
  <2>4. NothingLost'
    <3> SUFFICES ASSUME NEW s \in Read, NEW k \in Nat, Len(got[s]) < k, k <= Len(wrote[s])
                 PROVE  \E i \in 1..Len(inbox') : Carried(inbox'[i], s, k)
      BY <1>1, <2>1 DEF NothingLost
    <3>1. PICK i \in 1..Len(inbox) : Carried(inbox[i], s, k)
      BY <1>3 DEF OutputInv, NothingLost
    <3>2. i # 1
      BY <2>2, <3>1
    <3>3. i - 1 \in 1..Len(inbox') /\ Carried(inbox'[i - 1], s, k)
      <4>1. i - 1 \in 1..Len(inbox') /\ (i - 1) + 1 = i
        BY <1>2, <3>2
      <4>2. inbox'[i - 1] = inbox[(i - 1) + 1]
        BY <1>2, <4>1
      <4>3. QED
        BY <3>1, <4>1, <4>2
    <3>4. QED
      BY <3>3
  <2>5. QED
    BY <1>1, <1>5, <2>1, <2>3, <2>4 DEF OutputInv, Numbered
<1>8. QED
  BY <1>6, <1>7

\* A Child that was read to None is dropped with everything read, if it still could
\* be.
LEMMA OutputDropped ==
    ASSUME Inv, OutputInv, Drop \/ Abandon
    PROVE  OutputInv'
<1>1. /\ pc' \in {"dropped", "abandoned"} /\ (pc' = "dropped" => pc = "done") /\ inbox' = <<>>
      /\ got' = got /\ wrote' = wrote /\ link' = link /\ refused' = refused
      /\ ~ NobodyReads
  BY DEF Drop, Abandon, server, NobodyReads
<1>2. Len(inbox') = 0
  BY <1>1
<1>3. QueuedIsNew' /\ QueuedInOrder'
  BY <1>2 DEF QueuedIsNew, QueuedInOrder
<1>4. NothingLost'
  <2> SUFFICES ASSUME Collecting' PROVE inbox = <<>>
    <3>1. ~ (inbox = <<>>) \/ inbox' = inbox
      BY <1>1
    <3>2. QED
      BY <1>1, <3>1 DEF OutputInv, NothingLost, Collecting
  <2>1. link /\ refused = {} /\ pc = "done"
    BY <1>1 DEF Collecting, NobodyReads
  <2>2. QED
    BY <1>1, <2>1 DEF Inv, EndsForAReason, Over
<1>5. QED
  BY <1>1, <1>3, <1>4 DEF OutputInv, Numbered

LEMMA OutputStays == Inv /\ OutputInv /\ [Next]_vars => OutputInv'
<1> SUFFICES ASSUME Inv, OutputInv, [Next]_vars PROVE OutputInv'
  OBVIOUS
<1>1. CASE OpenSession \/ Request \/ CloseChannel
  <2>1. UNCHANGED <<inbox, got, wrote, link, refused>> /\ ~ NobodyReads
    BY <1>1 DEF OpenSession, Request, CloseChannel, server, wire, NobodyReads
  <2>2. QED
    BY <2>1, OutputSame DEF Collecting, NobodyReads
<1>2. CASE ReadNext
  <2>1. CASE inbox # <<>>
    BY <1>2, <2>1, OutputRead
  <2>2. CASE inbox = <<>>
    <3>1. UNCHANGED <<inbox, got, wrote, link, refused>> /\ ~ NobodyReads
      BY <1>2, <2>2 DEF ReadNext, server, NobodyReads
    <3>2. QED
      BY <3>1, OutputSame DEF Collecting, NobodyReads
  <2>3. QED
    BY <2>1, <2>2
<1>3. CASE Drop \/ Abandon
  BY <1>3, OutputDropped
<1>4. CASE Writer
  <2>1. UNCHANGED <<inbox, got, wrote, link, refused, pc>>
    BY <1>4 DEF Writer, WriteStdin, EndStdin, wire
  <2>2. QED
    BY <2>1, OutputSame DEF Collecting, NobodyReads
<1>5. ASSUME NEW ok \in BOOLEAN, Reply(ok) PROVE OutputInv'
  <2> DEFINE msg == Msg(IF ok THEN "Success" ELSE "Failure")
  <2>1. msg \in Message /\ msg.type # "Data"
    BY DEF Msg, Message, Plain
  <2>2. /\ Room /\ inbox' = Delivered(msg) /\ UNCHANGED <<got, wrote, link, pc>>
        /\ refused \subseteq refused'
    BY <1>5 DEF Reply, client
  <2> HIDE DEF msg
  <2>3. QED
    BY <2>1, <2>2, OutputOther DEF Collecting, NobodyReads
<1>6. CASE Send
  <2> DEFINE msg == Head(left)
  <2>1. /\ Room /\ inbox' = Delivered(msg) /\ left # <<>>
        /\ UNCHANGED <<got, wrote, link, pc, refused>>
    BY <1>6 DEF Send, client
  <2>2. msg \in LastWords
    BY <2>1 DEF Inv, MessagesOK
  <2> HIDE DEF msg
  <2>3. msg \in Message /\ msg.type # "Data"
    BY <2>2 DEF LastWords, Message, Plain
  <2>4. QED
    BY <2>1, <2>3, OutputOther DEF Collecting, NobodyReads
<1>7. ASSUME NEW s \in Stream, Output(s) PROVE OutputInv'
  BY <1>7, OutputWritten
<1>8. CASE AnswerClose \/ Input \/ (\E code \in Code : Exit(code)) \/ Cut \/ UNCHANGED vars
  <2>1. UNCHANGED <<inbox, got, wrote, pc, refused>> /\ (link' => link)
    BY <1>8 DEF AnswerClose, Input, Exit, Cut, vars, client, server, wire
  <2>2. QED
    BY <2>1, OutputSame DEF Collecting, NobodyReads
<1>9. QED
  BY <1>1, <1>2, <1>3, <1>4, <1>5, <1>6, <1>7, <1>8
     DEF Next, Owner, Server, Answer, RemoteProcess

-----------------------------------------------------------------------------
(***************************************************************************)
(* The exit status.  Whatever message tells it tells the same, wherever it *)
(* stands; until it is read it is queued or still to be sent.              *)
(***************************************************************************)
Tells(q) == \E i \in 1..Len(q) : q[i].type = "ExitStatus"

Truthful(q) == \A i \in 1..Len(q) : q[i].type = "ExitStatus" => q[i].status = exit

ToldLast ==
    process \in {"none", "running"} => exit = 0 /\ left = <<>> /\ ~ Tells(inbox)

StatusNotLost == Collecting => status = exit \/ Tells(inbox) \/ Tells(left)

ExitInv ==
    /\ Truthful(inbox) /\ Truthful(left) /\ ToldLast /\ StatusNotLost
    /\ status \in {0, exit}

LEMMA FarewellTruth ==
    ASSUME NEW code \in Nat, NEW said \in Farewells(code)
    PROVE  /\ said \in Seq(LastWords)
           /\ \A i \in 1..Len(said) : said[i].type = "ExitStatus" => said[i].status = code
<1> DEFINE told == [type |-> "ExitStatus", status |-> code]
           end  == Msg("Eof")
           sig  == Msg("ExitSignal")
<1>1. /\ told \in LastWords /\ end \in LastWords /\ sig \in LastWords
      /\ told.status = code /\ end.type # "ExitStatus" /\ sig.type # "ExitStatus"
  BY DEF LastWords, Msg
<1>2. said \in {<<end, told>>, <<told, end>>, <<end, sig>>, <<>>}
  BY DEF Farewells
<1> HIDE DEF told, end, sig
<1>3. CASE said = <<end, told>>
  BY <1>1, <1>3
<1>4. CASE said = <<told, end>>
  BY <1>1, <1>4
<1>5. CASE said = <<end, sig>>
  BY <1>1, <1>5
<1>6. CASE said = <<>>
  BY <1>6
<1>7. QED
  BY <1>2, <1>3, <1>4, <1>5, <1>6

LEMMA ExitInit == Init => ExitInv
<1> SUFFICES ASSUME Init PROVE ExitInv
  OBVIOUS
<1>1. Len(inbox) = 0 /\ Len(left) = 0 /\ left = <<>> /\ exit = 0 /\ status = 0
  BY DEF Init
<1>2. QED
  BY <1>1 DEF ExitInv, Truthful, Tells, ToldLast, StatusNotLost

\* Nothing is said, queued or read.
LEMMA ExitSame ==
    ASSUME ExitInv, UNCHANGED <<inbox, left, exit, status>>, Collecting' => Collecting,
           process' \in {process, "gone"} \/ (process' = "running" /\ process = "none")
    PROVE  ExitInv'
<1>1. Truthful(inbox)' /\ Truthful(left)'
  BY DEF ExitInv, Truthful
<1>2. ToldLast'
  BY DEF ExitInv, ToldLast, Tells
<1>3. StatusNotLost'
  BY DEF ExitInv, StatusNotLost, Tells
<1>4. QED
  BY <1>1, <1>2, <1>3 DEF ExitInv

\* A message that does not tell the exit is queued.
LEMMA ExitOther ==
    ASSUME Inv, ExitInv, Room, NEW msg \in Message, msg.type # "ExitStatus",
           inbox' = Delivered(msg), UNCHANGED <<left, exit, status>>, Collecting' => Collecting,
           process' = process \/ (process' = "running" /\ process = "none")
    PROVE  ExitInv'
<1>1. CASE NobodyReads
  <2>1. inbox' = inbox
    BY <1>1, Places
  <2>2. QED
    BY <2>1, ExitSame
<1>2. CASE ~ NobodyReads
  <2>1. /\ Len(inbox') = Len(inbox) + 1 /\ Len(inbox) \in Nat
        /\ inbox'[Len(inbox) + 1] = msg
        /\ \A i \in 1..Len(inbox) : inbox'[i] = inbox[i]
    BY <1>2, Places
  <2>2. Truthful(inbox)' /\ Truthful(left)'
    BY <2>1 DEF ExitInv, Truthful
  <2>3. Tells(inbox)' <=> Tells(inbox)
    BY <2>1 DEF Tells
  <2>4. ToldLast'
    BY <2>3 DEF ExitInv, ToldLast
  <2>5. StatusNotLost'
    BY <2>3 DEF ExitInv, StatusNotLost, Tells
  <2>6. QED
    BY <2>2, <2>4, <2>5 DEF ExitInv
<1>3. QED
  BY <1>1, <1>2

LEMMA ExitRead ==
    ASSUME Inv, ExitInv, ReadNext, inbox # <<>>
    PROVE  ExitInv'
<1> DEFINE msg == Head(inbox)
<1>1. /\ pc = "read" /\ inbox \in Seq(Message)
      /\ inbox' = Tail(inbox) /\ status' = Recorded(msg)
      /\ UNCHANGED <<left, exit, process>>
  BY DEF ReadNext, server, Inv, MessagesOK
<1>2. /\ Len(inbox') = Len(inbox) - 1 /\ Len(inbox) \in Nat
      /\ \A i \in 1..Len(inbox') : i + 1 \in 1..Len(inbox) /\ inbox'[i] = inbox[i + 1]
      /\ 1 \in 1..Len(inbox) /\ msg = inbox[1]
  BY <1>1
<1>3. Collecting
  BY <1>1 DEF Collecting, NobodyReads
<1> HIDE DEF msg
<1>4. Truthful(inbox)' /\ Truthful(left)'
  BY <1>1, <1>2 DEF ExitInv, Truthful
<1>5. ToldLast'
  BY <1>1, <1>2 DEF ExitInv, ToldLast, Tells
<1>6. status' = IF msg.type = "ExitStatus" THEN exit ELSE status
  BY <1>1, <1>2 DEF ExitInv, Truthful, Recorded
<1>7. StatusNotLost'
  <2>1. CASE msg.type = "ExitStatus"
    BY <1>1, <1>6, <2>1 DEF StatusNotLost
  <2>2. CASE msg.type # "ExitStatus"
    <3>1. Tells(inbox) => Tells(inbox)'
      <4> SUFFICES ASSUME NEW i \in 1..Len(inbox), inbox[i].type = "ExitStatus"
                   PROVE  \E j \in 1..Len(inbox') : inbox'[j].type = "ExitStatus"
        BY DEF Tells
      <4>1. i # 1
        BY <1>2, <2>2
      <4>2. i - 1 \in 1..Len(inbox') /\ (i - 1) + 1 = i
        BY <1>2, <4>1
      <4>3. inbox'[i - 1] = inbox[(i - 1) + 1]
        BY <1>2, <4>2
      <4>4. inbox'[i - 1].type = "ExitStatus"
        BY <4>2, <4>3
      <4>5. QED
        BY <4>2, <4>4
    <3>2. Tells(left)' <=> Tells(left)
      BY <1>1 DEF Tells
    <3>3. QED
      BY <1>1, <1>3, <1>6, <2>2, <3>1, <3>2 DEF ExitInv, StatusNotLost
  <2>3. QED
    BY <2>1, <2>2
<1>8. QED
  BY <1>1, <1>4, <1>5, <1>6, <1>7 DEF ExitInv

LEMMA ExitDropped ==
    ASSUME Inv, ExitInv, Drop \/ Abandon
    PROVE  ExitInv'
<1>1. /\ pc' \in {"dropped", "abandoned"} /\ (pc' = "dropped" => pc = "done") /\ inbox' = <<>>
      /\ UNCHANGED <<left, exit, status, process, link, refused>>
      /\ ~ NobodyReads
  BY DEF Drop, Abandon, server, NobodyReads
<1>2. Len(inbox') = 0
  BY <1>1
<1>3. Truthful(inbox)' /\ Truthful(left)' /\ ToldLast'
  BY <1>1, <1>2 DEF ExitInv, Truthful, ToldLast, Tells
<1>4. StatusNotLost'
  <2>1. CASE link /\ refused = {} /\ pc' = "dropped"
    <3>1. inbox' = inbox
      BY <1>1, <2>1 DEF Inv, EndsForAReason, Over
    <3>2. QED
      BY <1>1, <3>1 DEF ExitInv, StatusNotLost, Collecting, Tells
  <2>2. CASE ~ (link /\ refused = {} /\ pc' = "dropped")
    BY <1>1, <2>2 DEF StatusNotLost, Collecting, NobodyReads
  <2>3. QED
    BY <2>1, <2>2
<1>5. QED
  BY <1>1, <1>3, <1>4 DEF ExitInv

\* The process exits, and what the server says of it is set.
LEMMA ExitTold ==
    ASSUME Inv, ExitInv, NEW code \in Code, Exit(code)
    PROVE  ExitInv'
<1>1. PICK said \in Farewells(code) :
          /\ left' = Append(said, Msg("Close"))
          /\ exit' = IF \E i \in DOMAIN said : said[i].type = "ExitStatus" THEN code ELSE 0
  BY DEF Exit
<1>2. /\ process = "running" /\ process' = "exited"
      /\ UNCHANGED <<inbox, status, pc, link, refused>>
  BY DEF Exit, client, wire
<1>3. code \in Nat
  BY CodeAssumption
<1>4. /\ said \in Seq(LastWords) /\ DOMAIN said = 1..Len(said)
      /\ \A i \in 1..Len(said) : said[i].type = "ExitStatus" => said[i].status = code
  BY <1>3, FarewellTruth
<1> DEFINE end == Msg("Close")
<1>5. end \in LastWords /\ end.type # "ExitStatus"
  BY DEF end, Msg, LastWords
<1>6. left' = Append(said, end)
  BY <1>1
<1> HIDE DEF end
<1>7. /\ Len(left') = Len(said) + 1 /\ Len(said) \in Nat
      /\ left'[Len(said) + 1] = end
      /\ \A i \in 1..Len(said) : left'[i] = said[i]
  BY <1>4, <1>5, <1>6
<1>8. exit' = (IF Tells(said) THEN code ELSE 0) /\ (Tells(left)' <=> Tells(said))
  BY <1>1, <1>4, <1>5, <1>7 DEF Tells
<1>9. ~ Tells(inbox) /\ status = 0
  BY <1>2 DEF ExitInv, ToldLast
<1>10. Truthful(inbox)'
  BY <1>2, <1>9 DEF Truthful, Tells
<1>11. Truthful(left)'
  BY <1>4, <1>5, <1>7, <1>8 DEF Truthful, Tells
<1>12. status' \in {0, exit'} /\ StatusNotLost'
  BY <1>2, <1>8, <1>9 DEF StatusNotLost
<1>13. QED
  BY <1>2, <1>10, <1>11, <1>12 DEF ExitInv, ToldLast

\* One more of the server's last words is queued.
LEMMA ExitSent ==
    ASSUME Inv, ExitInv, Send
    PROVE  ExitInv'
<1> DEFINE msg == Head(left)
<1>1. /\ Room /\ inbox' = Delivered(msg) /\ left # <<>> /\ left' = Tail(left)
      /\ process' \in {process, "gone"}
      /\ UNCHANGED <<exit, status, pc, link, refused>>
  BY DEF Send, client
<1>2. left \in Seq(LastWords)
  BY DEF Inv, MessagesOK
<1>3. /\ Len(left') = Len(left) - 1 /\ Len(left) \in Nat
      /\ \A i \in 1..Len(left') : i + 1 \in 1..Len(left) /\ left'[i] = left[i + 1]
      /\ 1 \in 1..Len(left) /\ msg = left[1] /\ msg \in LastWords
  BY <1>1, <1>2
<1>4. msg \in Message
  BY <1>3, LastIsMessage
<1> HIDE DEF msg
<1>5. process \notin {"none", "running"}
  BY <1>1 DEF ExitInv, ToldLast
<1>6. ToldLast'
  BY <1>1, <1>5 DEF ToldLast
<1>7. Truthful(left)'
  BY <1>1, <1>3 DEF ExitInv, Truthful
<1>8. CASE NobodyReads
  <2>1. inbox' = inbox
    BY <1>1, <1>4, <1>8, Places
  <2>2. Truthful(inbox)'
    BY <1>1, <2>1 DEF ExitInv, Truthful
  <2>3. ~ Collecting'
    <3>1. link /\ ~ ended
      BY <1>1 DEF Room, Open
    <3>2. pc = "dropped" => refused # {}
      BY <3>1 DEF Inv, EndsForAReason, Over
    <3>3. QED
      BY <1>1, <1>8, <3>2 DEF Collecting, NobodyReads
  <2>4. QED
    BY <1>1, <1>6, <1>7, <2>2, <2>3 DEF ExitInv, StatusNotLost
<1>9. CASE ~ NobodyReads
  <2>1. /\ Len(inbox') = Len(inbox) + 1 /\ Len(inbox) \in Nat
        /\ inbox'[Len(inbox) + 1] = msg
        /\ \A i \in 1..Len(inbox) : inbox'[i] = inbox[i]
    BY <1>1, <1>4, <1>9, Places
  <2>2. msg.type = "ExitStatus" => msg.status = exit
    BY <1>3 DEF ExitInv, Truthful
  <2>3. Truthful(inbox)'
    BY <1>1, <2>1, <2>2 DEF ExitInv, Truthful
  <2>4. Tells(inbox) => Tells(inbox)'
    BY <2>1 DEF Tells
  <2>5. Tells(left) => Tells(inbox)' \/ Tells(left)'
    <3> SUFFICES ASSUME NEW i \in 1..Len(left), left[i].type = "ExitStatus"
                 PROVE  Tells(inbox)' \/ Tells(left)'
      BY DEF Tells
    <3>1. CASE i = 1
      <4>1. Len(inbox) + 1 \in 1..Len(inbox') /\ inbox'[Len(inbox) + 1].type = "ExitStatus"
        BY <1>3, <2>1, <3>1
      <4>2. QED
        BY <4>1 DEF Tells
    <3>2. CASE i # 1
      <4>1. i - 1 \in 1..Len(left') /\ (i - 1) + 1 = i
        BY <1>3, <3>2
      <4>2. left'[i - 1] = left[(i - 1) + 1]
        BY <1>3, <4>1
      <4>3. left'[i - 1].type = "ExitStatus"
        BY <4>1, <4>2
      <4>4. QED
        BY <4>1, <4>3 DEF Tells
    <3>3. QED
      BY <3>1, <3>2
  <2>6. StatusNotLost'
    BY <1>1, <1>9, <2>4, <2>5 DEF ExitInv, StatusNotLost, Collecting
  <2>7. QED
    BY <1>1, <1>6, <1>7, <2>3, <2>6 DEF ExitInv
<1>10. QED
  BY <1>8, <1>9

\* The server gives up on a process that has not exited.
LEMMA ExitAnswered ==
    ASSUME ExitInv, AnswerClose
    PROVE  ExitInv'
<1> DEFINE end == Msg("Close")
<1>1. /\ process \in {"none", "running"} /\ process' = "exited" /\ left' = <<end>>
      /\ UNCHANGED <<inbox, exit, status>>
  BY DEF AnswerClose, client, wire
<1>2. end.type # "ExitStatus"
  BY DEF end, Msg
<1> HIDE DEF end
<1>3. Truthful(inbox)'
  BY <1>1 DEF ExitInv, Truthful
<1>4. Truthful(left)'
  BY <1>1, <1>2 DEF Truthful
<1>5. QED
  BY <1>1, <1>3, <1>4 DEF ExitInv, ToldLast, StatusNotLost

LEMMA ExitStays == Inv /\ ExitInv /\ [Next]_vars => ExitInv'
<1> SUFFICES ASSUME Inv, ExitInv, [Next]_vars PROVE ExitInv'
  OBVIOUS
<1>1. CASE OpenSession \/ Request \/ CloseChannel
  <2>1. UNCHANGED <<inbox, left, exit, status, process>> /\ ~ NobodyReads
    BY <1>1 DEF OpenSession, Request, CloseChannel, server, wire, NobodyReads
  <2>2. QED
    BY <2>1, ExitSame DEF Collecting, NobodyReads
<1>2. CASE ReadNext
  <2>1. CASE inbox # <<>>
    BY <1>2, <2>1, ExitRead
  <2>2. CASE inbox = <<>>
    <3>1. UNCHANGED <<inbox, left, exit, status, process>> /\ ~ NobodyReads
      BY <1>2, <2>2 DEF ReadNext, server, NobodyReads
    <3>2. QED
      BY <3>1, ExitSame DEF Collecting, NobodyReads
  <2>3. QED
    BY <2>1, <2>2
<1>3. CASE Drop \/ Abandon
  BY <1>3, ExitDropped
<1>4. CASE Writer \/ Input \/ UNCHANGED vars
  <2>1. UNCHANGED <<inbox, left, exit, status, process, link, refused, pc>>
    BY <1>4 DEF Writer, WriteStdin, EndStdin, Input, vars, client, server, wire
  <2>2. QED
    BY <2>1, ExitSame DEF Collecting, NobodyReads
<1>5. ASSUME NEW ok \in BOOLEAN, Reply(ok) PROVE ExitInv'
  <2> DEFINE msg == Msg(IF ok THEN "Success" ELSE "Failure")
  <2>1. msg \in Message /\ msg.type # "ExitStatus"
    BY DEF Msg, Message, Plain
  <2>2. /\ Room /\ inbox' = Delivered(msg) /\ UNCHANGED <<left, exit, status, link, pc>>
        /\ refused \subseteq refused'
        /\ process' = process \/ (process' = "running" /\ process = "none")
    BY <1>5 DEF Reply, client
  <2> HIDE DEF msg
  <2>3. Collecting' => Collecting
    BY <2>2 DEF Collecting, NobodyReads
  <2>4. QED
    BY <2>1, <2>2, <2>3, ExitOther
<1>6. CASE Send
  BY <1>6, ExitSent
<1>7. ASSUME NEW s \in Stream, Output(s) PROVE ExitInv'
  <2> DEFINE msg == [type |-> "Data", stream |-> s, chunk |-> Len(wrote[s]) + 1]
  <2>1. msg \in Message /\ msg.type # "ExitStatus"
    <3>1. Len(wrote[s]) + 1 \in Nat
      BY StreamTypes
    <3>2. QED
      BY <3>1 DEF Message
  <2>2. /\ Room /\ inbox' = Delivered(msg)
        /\ UNCHANGED <<left, exit, status, link, pc, refused, process>>
    BY <1>7 DEF Output, client
  <2> HIDE DEF msg
  <2>3. QED
    BY <2>1, <2>2, ExitOther DEF Collecting, NobodyReads
<1>8. ASSUME NEW code \in Code, Exit(code) PROVE ExitInv'
  BY <1>8, ExitTold
<1>9. CASE AnswerClose
  BY <1>9, ExitAnswered
<1>10. CASE Cut
  <2>1. UNCHANGED <<inbox, left, exit, status, pc, refused>> /\ process' = "gone" /\ ~ link'
    BY <1>10 DEF Cut, client
  <2>2. QED
    BY <2>1, ExitSame DEF Collecting, NobodyReads
<1>11. QED
  BY <1>1, <1>2, <1>3, <1>4, <1>5, <1>6, <1>7, <1>8, <1>9, <1>10
     DEF Next, Owner, Server, Answer, RemoteProcess

-----------------------------------------------------------------------------
(***************************************************************************)
(* A PTY that is not wanted is never asked for, so it is never refused.    *)
(***************************************************************************)
NoPtyAsked ==
    ~ tty_conf =>
        pc # "pty" /\ "pty" \notin refused /\ \A i \in 1..Len(asked) : asked[i] # "pty"

LEMMA NoPtyInit == Init => NoPtyAsked
BY DEF Init, NoPtyAsked

LEMMA NoPtyStays == Inv /\ NoPtyAsked /\ [Next]_vars => NoPtyAsked'
<1> SUFFICES ASSUME Inv, NoPtyAsked, [Next]_vars, ~ tty_conf'
             PROVE  pc' # "pty" /\ "pty" \notin refused' /\ \A i \in 1..Len(asked') : asked'[i] # "pty"
  BY DEF NoPtyAsked
<1>1. call' = call
  BY DEF Next, Owner, OpenSession, Request, ReadNext, CloseChannel, Drop, Abandon,
         Writer, WriteStdin, EndStdin, Server, Answer, Reply, Send, AnswerClose,
         RemoteProcess, Output, Input, Exit, Cut, vars, chosen
<1>2. /\ ~ tty_conf /\ pc # "pty" /\ "pty" \notin refused
      /\ \A i \in 1..Len(asked) : asked[i] # "pty"
      /\ asked \in Seq({"pty", "cmd"})
  BY <1>1 DEF tty_conf, NoPtyAsked, Inv, TypeOK
<1>3. CASE Request /\ link
  <2>1. asked' = Append(asked, "cmd") /\ pc' = "read" /\ refused' = refused
    BY <1>2, <1>3 DEF Request
  <2>2. \A i \in 1..Len(asked') : asked'[i] = "cmd" \/ (i \in 1..Len(asked) /\ asked'[i] = asked[i])
    BY <1>2, <2>1
  <2>3. QED
    BY <1>2, <2>1, <2>2
<1>4. ASSUME NEW ok \in BOOLEAN, Reply(ok)
      PROVE  pc' # "pty" /\ "pty" \notin refused' /\ \A i \in 1..Len(asked') : asked'[i] # "pty"
  <2>1. /\ asked # <<>> /\ asked' = Tail(asked) /\ pc' = pc
        /\ refused' \subseteq refused \cup {Head(asked)}
    BY <1>4 DEF Reply, client
  <2>2. /\ Head(asked) = asked[1] /\ 1 \in 1..Len(asked)
        /\ \A i \in 1..Len(asked') : i + 1 \in 1..Len(asked) /\ asked'[i] = asked[i + 1]
    BY <1>2, <2>1
  <2>3. QED
    BY <1>2, <2>1, <2>2
<1>5. CASE OpenSession
  BY <1>2, <1>5 DEF OpenSession, server
<1>6. CASE Request /\ ~ link
  BY <1>2, <1>6 DEF Request
<1>7. CASE ReadNext \/ CloseChannel \/ Drop \/ Abandon \/ Writer
  <2>1. /\ asked' = asked /\ refused' = refused
        /\ pc' \in {pc, "close", "done", "dropped", "abandoned"}
    BY <1>7 DEF ReadNext, CloseChannel, Drop, Abandon, Writer, WriteStdin, EndStdin, server
  <2>2. QED
    BY <1>2, <2>1
<1>8. CASE Send \/ AnswerClose \/ RemoteProcess \/ Cut \/ UNCHANGED vars
  <2>1. asked' = asked /\ refused' = refused /\ pc' = pc
    BY <1>8 DEF Send, AnswerClose, RemoteProcess, Output, Input, Exit, Cut, vars, client, server
  <2>2. QED
    BY <1>2, <2>1
<1>9. QED
  BY <1>3, <1>4, <1>5, <1>6, <1>7, <1>8 DEF Next, Owner, Server, Answer

-----------------------------------------------------------------------------
AllInv == Inv /\ OutputInv /\ ExitInv /\ NoPtyAsked

THEOREM AllInvariance == Spec => []AllInv
<1>1. Init => AllInv
  BY InitInv, OutputInit, ExitInit, NoPtyInit DEF AllInv
<1>2. AllInv /\ [Next]_vars => AllInv'
  BY InvStays, OutputStays, ExitStays, NoPtyStays DEF AllInv
<1>3. QED
  BY <1>1, <1>2, PTL DEF Spec

\* The Child, its channel and the process have their types: in particular the
\* queue and the window keep their bounds.
THEOREM TypeCorrect == Spec => []TypeOK
<1>1. AllInv => TypeOK
  BY DEF AllInv, Inv
<1>2. QED
  BY AllInvariance, <1>1, PTL

\* read_next returns None only at the end of all messages, on a lost connection
\* or after a refusal, whatever was queued before it (ChildOut::read_next).
THEOREM ReadingEndsForAReason == Spec => []EndsForAReason
<1>1. AllInv => EndsForAReason
  BY DEF AllInv, Inv
<1>2. QED
  BY AllInvariance, <1>1, PTL

\* Nothing between what was read and what was written is missing, once nothing
\* is queued.
LEMMA NothingQueued ==
    ASSUME AllInv, Collecting, inbox = <<>>, NEW s \in Read
    PROVE  Len(got[s]) = Len(wrote[s])
<1>1. s \in Stream
  BY DEF Read, Stream
<1>2. Len(got[s]) \in Nat /\ Len(wrote[s]) \in Nat /\ Len(inbox) = 0
  BY <1>1, StreamTypes DEF AllInv
<1>3. ~ (Len(got[s]) < Len(wrote[s]))
  <2> SUFFICES ASSUME Len(got[s]) < Len(wrote[s]) PROVE FALSE
    OBVIOUS
  <2>1. \E i \in 1..Len(inbox) : Carried(inbox[i], s, Len(wrote[s]))
    BY <1>2 DEF AllInv, OutputInv, NothingLost
  <2>2. QED
    BY <1>2, <2>1
<1>4. QED
  BY <1>2, <1>3 DEF AllInv, OutputInv

\* Nothing is left to be read of a stream that was read until nothing could come.
LEMMA ReadToTheEnd ==
    ASSUME AllInv, Over, link, refused = {}, NEW s \in Read
    PROVE  ended /\ got[s] = wrote[s]
<1>1. ended /\ inbox = <<>> /\ Collecting
  BY DEF AllInv, Inv, EndsForAReason, Collecting, NobodyReads, Over
<1>2. s \in Stream
  BY DEF Read, Stream
<1>3. got[s] \in Seq(Nat) /\ wrote[s] \in Seq(Nat)
  BY <1>2, StreamTypes DEF AllInv
<1>4. Len(got[s]) = Len(wrote[s])
  BY <1>1, NothingQueued
<1>5. \A k \in 1..Len(got[s]) : got[s][k] = wrote[s][k]
  BY <1>4 DEF AllInv, OutputInv, Numbered
<1>6. QED
  BY <1>1, <1>3, <1>4, <1>5, SeqEqual

\* wait_with_output has a prefix of each stream at any time, and the whole of it
\* when it returns, whatever was interleaved with the output: other messages,
\* the other streams, the writer, the drop of the Child.
THEOREM OutputComplete == Spec => []OutputIsComplete
<1>1. AllInv => OutputIsComplete
  <2> SUFFICES ASSUME AllInv PROVE OutputIsComplete
    OBVIOUS
  <2>1. \A s \in Read : IsPrefix(got[s], wrote[s])
    <3> SUFFICES ASSUME NEW s \in Read PROVE IsPrefix(got[s], wrote[s])
      OBVIOUS
    <3>1. s \in Stream
      BY DEF Read, Stream
    <3>2. /\ got[s] \in Seq(Nat) /\ wrote[s] \in Seq(Nat)
          /\ Len(got[s]) \in Nat /\ Len(wrote[s]) \in Nat
      BY <3>1, StreamTypes DEF AllInv
    <3>3. Len(got[s]) <= Len(wrote[s])
      BY DEF AllInv, OutputInv
    <3>4. \A k \in 1..Len(got[s]) : got[s][k] = wrote[s][k]
      BY <3>2, <3>3 DEF AllInv, OutputInv, Numbered
    <3>5. QED
      BY <3>2, <3>3, <3>4, PrefixByPlaces
  <2>2. Over /\ link /\ refused = {} => \A s \in Read : got[s] = wrote[s]
    BY ReadToTheEnd
  <2>3. QED
    BY <2>1, <2>2 DEF OutputIsComplete, Read, AllInv, OutputInv, Numbered
<1>2. QED
  BY AllInvariance, <1>1, PTL

\* The code wait gives is the one the process exited with, in its lowest eight bits,
\* wherever the message that tells it stood in the queue.
THEOREM StatusCorrect == Spec => []StatusIsExit
<1>1. AllInv => StatusIsExit
  <2> SUFFICES ASSUME AllInv, Over, refused = {}, link
               PROVE  cast_status(status) < 256 /\ \E n \in 0..exit : exit = 256 * n + cast_status(status)
    BY DEF StatusIsExit
  <2>1. ended /\ inbox = <<>> /\ left = <<>>
    BY DEF AllInv, Inv, EndsForAReason, EndedIsGone
  <2>2. ~ Tells(inbox) /\ ~ Tells(left)
    BY <2>1 DEF Tells
  <2>3. status = exit /\ exit \in Nat
    BY <2>2 DEF AllInv, ExitInv, StatusNotLost, Collecting, NobodyReads, Over, Inv, TypeOK
  <2>4. exit % 256 < 256 /\ exit \div 256 \in 0..exit /\ exit = 256 * (exit \div 256) + (exit % 256)
    BY <2>3
  <2>5. QED
    BY <2>3, <2>4 DEF cast_status
<1>2. QED
  BY AllInvariance, <1>1, PTL

\* exec by default and RequestTty::Never: only the refusal of the command itself,
\* or a lost connection, can cost output.
THEOREM PlainExecComplete == Spec => []PlainExecIsComplete
<1>1. AllInv => PlainExecIsComplete
  <2> SUFFICES ASSUME AllInv, call.tty = "Never" \/ (call.tty = "ForShell" /\ ~ call.shell),
                      Over, link, "cmd" \notin refused
               PROVE  ended /\ got["stdout"] = wrote["stdout"] /\ got["stderr"] = wrote["stderr"]
    BY DEF PlainExecIsComplete
  <2>1. ~ tty_conf
    BY DEF tty_conf
  <2>2. refused = {}
    BY <2>1 DEF AllInv, NoPtyAsked, Inv, TypeOK
  <2>3. QED
    BY <2>2, ReadToTheEnd DEF Read
<1>2. QED
  BY AllInvariance, <1>1, PTL

-----------------------------------------------------------------------------
(***************************************************************************)
(* The refinement: stdout and stderr are ByteStreams.                      *)
(***************************************************************************)
Shown == Over
Gone == process \in {"exited", "gone"}
Broken == ~ link \/ refused # {}

Pipe(s) ==
    INSTANCE ByteStream WITH
        sent <- Len(wrote[s]), got <- Len(got[s]), ended <- Gone, shown <- Shown, broken <- Broken

\* What is broken off stays so: no connection comes back, no refusal is undone.
LEMMA StaysBroken == Broken /\ [Next]_vars => Broken'
<1> SUFFICES ASSUME Broken, [Next]_vars PROVE Broken'
  OBVIOUS
<1>1. CASE Owner \/ Abandon \/ Writer \/ UNCHANGED vars
  BY <1>1 DEF Owner, Writer, OpenSession, Request, ReadNext, CloseChannel, Drop, Abandon,
              WriteStdin, EndStdin, vars, server, wire, Broken
<1>2. CASE Server \/ RemoteProcess
  BY <1>2 DEF Server, Answer, Reply, Send, AnswerClose, RemoteProcess, Output, Input, Exit, wire,
              Broken
<1>3. CASE Cut
  BY <1>3 DEF Cut, Broken
<1>4. QED
  BY <1>1, <1>2, <1>3 DEF Next

\* A step that moves no chunk of a stream and does not show its end either leaves
\* it as it is, or ends it, or breaks it off.
LEMMA PipeRests ==
    ASSUME [Next]_vars, NEW s \in Read, UNCHANGED <<Len(wrote[s]), Len(got[s]), Shown>>, Gone => Gone'
    PROVE  [Pipe(s)!Next]_(Pipe(s)!vars)
<1>1. Gone \in BOOLEAN /\ Broken \in BOOLEAN /\ Gone' \in BOOLEAN /\ Broken' \in BOOLEAN
  BY DEF Gone, Broken
<1>2. Broken => Broken'
  BY StaysBroken
<1>3. QED
  BY <1>1, <1>2 DEF Pipe!Next, Pipe!End, Pipe!Break, Pipe!vars

\* A chunk read is the next of its stream.
LEMMA ReadIsDeliver ==
    ASSUME AllInv, [Next]_vars, ReadNext, NEW s \in Read
    PROVE  [Pipe(s)!Next]_(Pipe(s)!vars)
<1>1. /\ pc = "read" /\ UNCHANGED <<wrote, process, refused, link>>
  BY DEF ReadNext, server
<1>2. s \in Stream /\ s # "other" /\ got \in [Stream -> Seq(Nat)]
  BY DEF Read, Stream, AllInv, Inv, TypeOK
<1>3. ~ Shown /\ ~ Shown' /\ UNCHANGED <<Shown, Gone, Broken>>
  <2>1. pc' \in {"read", "close"}
    BY <1>1 DEF ReadNext
  <2>2. QED
    BY <1>1, <2>1 DEF Shown, Over, Gone, Broken
<1>4. CASE inbox # <<>>
  <2> DEFINE msg == Head(inbox)
  <2>1. /\ got' = Collected(msg)
        /\ pc' = IF EndsLoop(msg) THEN "close" ELSE pc
    BY <1>4 DEF ReadNext
  <2>2. inbox \in Seq(Message) /\ 1 \in 1..Len(inbox) /\ msg = inbox[1] /\ msg \in Message
    BY <1>4 DEF AllInv, Inv, MessagesOK
  <2> HIDE DEF msg
  <2>3. CASE msg.type = "Data" /\ msg.stream = s
    <3>2. msg.chunk \in Nat /\ Carried(inbox[1], s, msg.chunk)
      BY <2>2, <2>3, MessageParts DEF Carried
    <3>3. Len(got[s]) < msg.chunk /\ msg.chunk <= Len(wrote[s])
      BY <2>2, <3>2 DEF AllInv, OutputInv, QueuedIsNew
    <3>4. got'[s] = Append(got[s], msg.chunk) /\ got[s] \in Seq(Nat)
      <4>1. got' = [got EXCEPT ![s] = Append(@, msg.chunk)]
        BY <1>2, <2>1, <2>3 DEF Collected
      <4>2. QED
        BY <1>2, <4>1
    <3>5. Len(got'[s]) = Len(got[s]) + 1
      BY <3>2, <3>4
    <3>6. Len(got[s]) < Len(wrote[s])
      BY <1>2, <3>2, <3>3, StreamTypes DEF AllInv
    <3>7. QED
      BY <1>1, <1>3, <3>5, <3>6 DEF Pipe!Next, Pipe!Deliver
  <2>4. CASE ~ (msg.type = "Data" /\ msg.stream = s)
    <3>1. got'[s] = got[s]
      BY <1>2, <2>1, <2>4 DEF Collected
    <3>2. QED
      BY <1>1, <1>3, <3>1 DEF Pipe!vars
  <2>5. QED
    BY <2>3, <2>4
<1>5. CASE inbox = <<>>
  <2>1. got' = got
    BY <1>5 DEF ReadNext
  <2>2. QED
    BY <1>1, <1>3, <2>1 DEF Pipe!vars
<1>6. QED
  BY <1>4, <1>5

\* None, returned after a refusal or at the end of all messages, shows the end.
LEMMA NoneIsShowEnd ==
    ASSUME AllInv, [Next]_vars, CloseChannel, NEW s \in Read
    PROVE  [Pipe(s)!Next]_(Pipe(s)!vars)
<1>1. /\ pc = "close" /\ pc' = "done"
      /\ UNCHANGED <<wrote, got, process, refused, link>>
  BY DEF CloseChannel, server, wire
<1>2. ~ Shown /\ Shown' /\ UNCHANGED <<Gone, Broken>>
  BY <1>1 DEF Shown, Over, Gone, Broken
<1>3. (Gone /\ Len(got[s]) = Len(wrote[s])) \/ Broken
  <2>1. CASE ended /\ inbox = <<>>
    <3>1. Collecting
      BY <1>1 DEF Collecting, NobodyReads
    <3>2. Len(got[s]) = Len(wrote[s])
      BY <2>1, <3>1, NothingQueued
    <3>3. QED
      BY <2>1, <3>2 DEF AllInv, Inv, EndedIsGone, Gone
  <2>2. CASE ~ (ended /\ inbox = <<>>)
    BY <1>1, <2>2 DEF AllInv, Inv, EndsForAReason, Broken
  <2>3. QED
    BY <2>1, <2>2
<1>4. QED
  BY <1>1, <1>2, <1>3 DEF Pipe!Next, Pipe!ShowEnd

\* A chunk written is the next of its stream, and the process has not ended.
LEMMA OutputIsSend ==
    ASSUME AllInv, [Next]_vars, NEW t \in Stream, Output(t), NEW s \in Read
    PROVE  [Pipe(s)!Next]_(Pipe(s)!vars)
<1>1. /\ process = "running" /\ UNCHANGED <<pc, got, process, refused, link>>
      /\ wrote' = [wrote EXCEPT ![t] = Append(@, Len(wrote[t]) + 1)]
  BY DEF Output, client
<1>2. s \in Stream /\ wrote \in [Stream -> Seq(Nat)] /\ Len(wrote[t]) + 1 \in Nat
  BY DEF Read, Stream, AllInv, Inv, TypeOK
<1>3. ~ Gone /\ UNCHANGED <<Gone, Broken, Shown>>
  BY <1>1 DEF Gone, Broken, Shown, Over
<1>4. CASE s = t
  <2>1. Len(wrote'[s]) = Len(wrote[s]) + 1
    BY <1>1, <1>2, <1>4
  <2>2. QED
    BY <1>1, <1>3, <2>1 DEF Pipe!Next, Pipe!Send
<1>5. CASE s # t
  <2>1. wrote'[s] = wrote[s]
    BY <1>1, <1>2, <1>5
  <2>2. QED
    BY <1>1, <1>3, <2>1 DEF Pipe!vars
<1>6. QED
  BY <1>4, <1>5

LEMMA PipeStep ==
    ASSUME AllInv, [Next]_vars, NEW s \in Read
    PROVE  [Pipe(s)!Next]_(Pipe(s)!vars)
<1>1. CASE OpenSession \/ Request \/ Drop \/ Abandon \/ Writer
  <2>1. UNCHANGED <<wrote, got, process, link>> /\ (pc' = pc \/ Shown' = Shown)
    BY <1>1 DEF OpenSession, Request, Drop, Abandon, Writer, WriteStdin, EndStdin, server, wire,
                Shown, Over
  <2>2. UNCHANGED <<Len(wrote[s]), Len(got[s]), Shown, Gone>>
    BY <2>1 DEF Gone, Shown, Over
  <2>3. QED
    BY <2>2, PipeRests
<1>2. CASE ReadNext \/ CloseChannel
  BY <1>2, ReadIsDeliver, NoneIsShowEnd
<1>3. CASE Answer \/ Input \/ UNCHANGED vars
  <2>1. UNCHANGED <<wrote, got, pc>> /\ Gone' = Gone
    BY <1>3 DEF Answer, Reply, Input, vars, client, server, Gone
  <2>2. UNCHANGED <<Len(wrote[s]), Len(got[s]), Shown, Gone>>
    BY <2>1 DEF Shown, Over
  <2>3. QED
    BY <2>2, PipeRests
<1>4. CASE Send \/ AnswerClose \/ (\E code \in Code : Exit(code))
  <2>1. UNCHANGED <<wrote, got, pc, link, refused>> /\ (Gone => Gone')
    BY <1>4 DEF Send, AnswerClose, Exit, client, wire, Gone
  <2>2. UNCHANGED <<Len(wrote[s]), Len(got[s]), Shown, Broken>>
    BY <2>1 DEF Shown, Over, Broken
  <2>3. QED
    BY <2>1, <2>2, PipeRests
<1>5. ASSUME NEW t \in Stream, Output(t) PROVE [Pipe(s)!Next]_(Pipe(s)!vars)
  BY <1>5, OutputIsSend
<1>6. CASE Cut
  <2>1. UNCHANGED <<wrote, got, pc>> /\ Gone'
    BY <1>6 DEF Cut, client, server, Gone
  <2>2. UNCHANGED <<Len(wrote[s]), Len(got[s]), Shown>>
    BY <2>1 DEF Shown, Over
  <2>3. QED
    BY <2>1, <2>2, PipeRests
<1>7. QED
  BY <1>1, <1>2, <1>3, <1>4, <1>5, <1>6 DEF Next, Owner, Server, RemoteProcess

LEMMA PipeBegins == ASSUME NEW s \in Read, Init PROVE Pipe(s)!Init
BY DEF Init, Pipe!Init, Read, Stream, Shown, Over, Gone, Broken

\* stdout and stderr implement ByteStream, whatever is queued between their chunks,
\* however the owner reads and writes, and wherever a refusal or a lost connection
\* comes in (ChildOut::read_next, Child::wait_with_output).
THEOREM StreamsImplemented == Spec => OutputIsStreams
<1>1. Init => Out!Init /\ Err!Init
  BY PipeBegins DEF Read, Shown, Gone, Broken, Pipe!Init, Out!Init, Err!Init
<1>2. AllInv /\ [Next]_vars => [Out!Next]_(Out!vars)
  BY PipeStep
     DEF Read, Shown, Gone, Broken, Pipe!Next, Pipe!Send, Pipe!End, Pipe!Deliver, Pipe!ShowEnd,
         Pipe!Break, Pipe!vars, Out!Next, Out!Send, Out!End, Out!Deliver, Out!ShowEnd, Out!Break,
         Out!vars
<1>3. AllInv /\ [Next]_vars => [Err!Next]_(Err!vars)
  BY PipeStep
     DEF Read, Shown, Gone, Broken, Pipe!Next, Pipe!Send, Pipe!End, Pipe!Deliver, Pipe!ShowEnd,
         Pipe!Break, Pipe!vars, Err!Next, Err!Send, Err!End, Err!Deliver, Err!ShowEnd, Err!Break,
         Err!vars
<1>4. QED
  BY AllInvariance, <1>1, <1>2, <1>3, PTL DEF Spec, OutputIsStreams, Out!Spec, Err!Spec
=============================================================================
