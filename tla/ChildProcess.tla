---------------------------- MODULE ChildProcess ----------------------------
(***************************************************************************)
(* process/: exec and shell open a channel, ask for a PTY and the command  *)
(* without waiting for the replies, and hand out a Child, whose owner      *)
(* writes stdin through ChildIn and reads the output through ChildOut, one *)
(* after the other or concurrently.  A Child, or the future that makes it  *)
(* or reads it, may be let go of at any time.                              *)
(*                                                                         *)
(* The server and the remote process are the environment.  They answer in  *)
(* order, and what they send waits in the channel's queue of messages.     *)
(***************************************************************************)
EXTENDS Integers, Sequences, SequencesExt

CONSTANTS
    Inbox,      \* how many messages the channel's queue holds
    Window,     \* how many chunks of stdin are on their way at most
    Code,       \* the exit codes of the remote process: u32
    Calls,      \* the calls of exec and shell
    Uses,       \* what an owner may do with its Child
    Programs    \* what the remote process may do

RequestTty == {"Never", "Always", "IfTty", "ForShell"}

\* exec or shell, with stdin a terminal or not.
Call == [tty : RequestTty, shell : BOOLEAN, terminal : BOOLEAN]

\* Chunks of ExtendedData with another ext than 1 are "other".
Stream == {"stdout", "stderr", "other"}

\* An owner writes some chunks, then ends the input, closes the channel or does
\* neither, and reads until None, after that or concurrently (Child::channel).
Use == [writes : Nat, then : {"eof", "close", "nothing"}, concurrent : BOOLEAN]

\* A process writes `source` chunks, then reads, answering each chunk with one
\* if it copies; it exits at the end of its input if it waits for that.
Program == [source : Nat, copies : BOOLEAN, waits : BOOLEAN]

ASSUME BoundsAssumption == Inbox \in Nat \ {0} /\ Window \in Nat \ {0}
ASSUME CodeAssumption == Code \subseteq Nat
ASSUME CallsAssumption == Calls \subseteq Call
ASSUME UsesAssumption == Uses \subseteq Use
ASSUME ProgramsAssumption == Programs \subseteq Program

VARIABLES
    call, use, program,
    pc,         \* the reader: "open" | "pty" | "cmd" | "read" | "close" | "done", and in the
                \* end "dropped" | "abandoned" | "error"
    todo,       \* chunks of stdin still to write
    written,    \* whether the writer is through
    status,     \* Child.status
    got,        \* the output collected, per stream
    closing,    \* whether Close has been sent
    link,       \* whether the connection is up
    inbox,      \* the messages of the channel not read yet
    ended,      \* whether the server's Close has come in: nothing follows
    asked,      \* the requests not yet answered
    refused,    \* the requests answered with Failure
    process,    \* "none" | "running" | "exited" | "gone"
    stdin, eof, \* chunks of stdin not read by the process, whether Eof follows
    owed,       \* chunks the process has to write before it reads on
    wrote,      \* the output of the process, per stream
    left,       \* messages the server has still to send
    exit        \* what the exit-status message said, 0 when there was none

chosen == <<call, use, program>>
client == <<pc, todo, written, status, got, closing>>
server == <<asked, refused, process, stdin, eof, owed, wrote, left, exit>>
wire   == <<link, inbox, ended>>
vars   == <<chosen, client, server, wire>>

Msg(type) == [type |-> type]

-----------------------------------------------------------------------------
Init ==
    /\ call \in Calls /\ use \in Uses /\ program \in Programs
    /\ pc = "open" /\ todo = use.writes /\ written = FALSE
    /\ status = 0 /\ got = [s \in Stream |-> <<>>] /\ closing = FALSE
    /\ link = TRUE /\ inbox = <<>> /\ ended = FALSE
    /\ asked = <<>> /\ refused = {} /\ process = "none"
    /\ stdin = 0 /\ eof = FALSE /\ owed = program.source
    /\ wrote = [s \in Stream |-> <<>>] /\ left = <<>> /\ exit = 0

\* Mutant: ForShell asks for a PTY whatever is run.
TtyForAll == call.tty \in {"ForShell", "Always"} \/ (call.tty = "IfTty" /\ call.terminal)

\* Whether a PTY is asked for.
tty_conf ==
    CASE call.tty = "Never"    -> FALSE
      [] call.tty = "ForShell" -> call.shell
      [] call.tty = "IfTty"    -> call.terminal
      [] call.tty = "Always"   -> TRUE

\* channel_open_session: the server may refuse the channel.
OpenSession ==
    /\ pc = "open"
    /\ \/ pc' = "error"
       \/ link /\ pc' = IF tty_conf THEN "pty" ELSE "cmd"
    /\ UNCHANGED <<chosen, todo, written, status, got, closing, server, wire>>

\* request_pty, then exec or request_shell: sent, not waited for.
Request ==
    /\ pc \in {"pty", "cmd"}
    /\ IF link
       THEN asked' = Append(asked, pc) /\ pc' = IF pc = "pty" THEN "cmd" ELSE "read"
       ELSE pc' = "error" /\ UNCHANGED asked
    /\ UNCHANGED <<chosen, todo, written, status, got, closing, wire,
                   refused, process, stdin, eof, owed, wrote, left, exit>>

HasChild == pc \in {"read", "close", "done"}

Open == link /\ ~ended

\* write_stdin: waits while the window is full, and fails on a channel that is gone.
WriteStdin ==
    /\ HasChild /\ ~written /\ todo > 0
    /\ IF Open
       THEN stdin < Window /\ todo' = todo - 1 /\ stdin' = stdin + 1 /\ UNCHANGED written
       ELSE written' = TRUE /\ UNCHANGED <<todo, stdin>>
    /\ UNCHANGED <<chosen, pc, status, got, closing, wire,
                   asked, refused, process, eof, owed, wrote, left, exit>>

\* Mutant: eof does nothing.
EndStdinSilent ==
    /\ HasChild /\ ~written /\ todo = 0
    /\ written' = TRUE
    /\ closing' = (closing \/ (use.then = "close" /\ Open))
    /\ UNCHANGED <<chosen, pc, todo, status, got, wire,
                   asked, refused, process, stdin, eof, owed, wrote, left, exit>>

\* ChildIn::eof or Child::close, by an owner that calls it.
EndStdin ==
    /\ HasChild /\ ~written /\ todo = 0
    /\ written' = TRUE
    /\ eof' = (use.then = "eof" /\ Open)
    /\ closing' = (closing \/ (use.then = "close" /\ Open))
    /\ UNCHANGED <<chosen, pc, todo, status, got, wire,
                   asked, refused, process, stdin, owed, wrote, left, exit>>

-----------------------------------------------------------------------------
\* Mutant: Failure is discarded like Success.
EndsOnNothing(msg) == FALSE

\* Mutant: the end of the output is taken for the end of the channel.
EndsOnEof(msg) == msg.type \in {"Failure", "Eof"}

\* A message the loop of read_next breaks on.
EndsLoop(msg) == msg.type = "Failure"

\* Mutant: everything but stdout counts as stderr.
CollectedAsStderr(msg) ==
    IF msg.type # "Data" THEN got
    ELSE LET s == IF msg.stream = "stdout" THEN "stdout" ELSE "stderr"
         IN  [got EXCEPT ![s] = Append(@, msg.chunk)]

\* The chunk of a message, put to its stream by wait_with_output.
Collected(msg) ==
    IF msg.type = "Data" /\ msg.stream # "other"
    THEN [got EXCEPT ![msg.stream] = Append(@, msg.chunk)] ELSE got

\* Mutant: the end of the channel resets what was recorded.
RecordedOrReset(msg) ==
    CASE msg.type = "ExitStatus" -> msg.status
      [] msg.type = "Close" -> 0
      [] OTHER -> status

Recorded(msg) == IF msg.type = "ExitStatus" THEN msg.status ELSE status

\* An owner that does not read concurrently has written before.
MayRead == use.concurrent \/ written

\* One turn of the loop of read_next; wait and wait_with_output call it until None.
ReadNext ==
    /\ pc = "read" /\ MayRead
    /\ IF inbox # <<>>
       THEN LET msg == Head(inbox)
            IN  /\ inbox' = Tail(inbox)
                /\ got' = Collected(msg)
                /\ status' = Recorded(msg)
                /\ pc' = IF EndsLoop(msg) THEN "close" ELSE pc
       ELSE /\ ended \/ ~link
            /\ pc' = "close"
            /\ UNCHANGED <<inbox, got, status>>
    /\ UNCHANGED <<chosen, todo, written, closing, server, link, ended>>

\* Mutant: None is returned without closing.
NoClose ==
    /\ pc = "close"
    /\ pc' = "done"
    /\ UNCHANGED <<chosen, todo, written, status, got, closing, server, wire>>

\* close, its error ignored, then None.
CloseChannel ==
    /\ pc = "close"
    /\ closing' = (closing \/ Open)
    /\ pc' = "done"
    /\ UNCHANGED <<chosen, todo, written, status, got, server, wire>>

\* wait takes the Child, and drops it as it returns; a Child read and written
\* concurrently is dropped when both are through.  What comes in then is lost.
Drop ==
    /\ pc = "done" /\ written
    /\ pc' = "dropped"
    /\ inbox' = <<>>
    /\ UNCHANGED <<chosen, todo, written, status, got, closing, server, link, ended>>

\* At any other time the Child goes with its owner's future, which may be dropped (a
\* timeout around exec or wait), or without having been read to None.  Nothing is
\* sent then: the channel is closed only if that has been done before.
Abandon ==
    /\ pc \in {"open", "pty", "cmd", "read", "close"} \/ (pc = "done" /\ ~written)
    /\ pc' = IF pc = "done" THEN "dropped" ELSE "abandoned"
    /\ inbox' = <<>>
    /\ UNCHANGED <<chosen, todo, written, status, got, closing, server, link, ended>>

\* The exit code wait gives.
cast_status(s) == s % 256

-----------------------------------------------------------------------------
Room == Open /\ Len(inbox) < Inbox

NobodyReads == pc \in {"dropped", "abandoned"}

Delivered(msg) == IF NobodyReads THEN inbox ELSE Append(inbox, msg)

\* The server answers the oldest request, and runs the command it accepts
\* whether or not it gave it a PTY.
Reply(ok) ==
    /\ Room /\ asked # <<>> /\ process \in {"none", "running"}
    /\ inbox' = Delivered(Msg(IF ok THEN "Success" ELSE "Failure"))
    /\ asked' = Tail(asked)
    /\ refused' = IF ok THEN refused ELSE refused \cup {Head(asked)}
    /\ process' = IF ok /\ Head(asked) = "cmd" THEN "running" ELSE process
    /\ UNCHANGED <<chosen, client, link, ended, stdin, eof, owed, wrote, left, exit>>

\* The process writes a chunk to one of its streams.
Output(stream) ==
    /\ process = "running" /\ owed > 0 /\ Room
    /\ LET chunk == Len(wrote[stream]) + 1
       IN  /\ inbox' = Delivered([type |-> "Data", stream |-> stream, chunk |-> chunk])
           /\ wrote' = [wrote EXCEPT ![stream] = Append(@, chunk)]
    /\ owed' = owed - 1
    /\ UNCHANGED <<chosen, client, link, ended, asked, refused, process, stdin, eof, left, exit>>

\* It reads a chunk.
Input ==
    /\ link /\ process = "running" /\ owed = 0 /\ stdin > 0
    /\ stdin' = stdin - 1
    /\ owed' = IF program.copies THEN 1 ELSE 0
    /\ UNCHANGED <<chosen, client, wire, asked, refused, process, eof, wrote, left, exit>>

\* What a server says of an exit: with a code or by a signal, or nothing; the
\* exit may be told before or after the end of the output.
Farewells(code) ==
    LET told == [type |-> "ExitStatus", status |-> code]
    IN  {<<Msg("Eof"), told>>, <<told, Msg("Eof")>>, <<Msg("Eof"), Msg("ExitSignal")>>, <<>>}

Exit(code) ==
    /\ link /\ process = "running" /\ owed = 0
    /\ program.waits => eof /\ stdin = 0
    /\ process' = "exited"
    /\ \E said \in Farewells(code) :
           /\ left' = Append(said, Msg("Close"))
           /\ exit' = IF \E i \in DOMAIN said : said[i].type = "ExitStatus" THEN code ELSE 0
    /\ UNCHANGED <<chosen, client, wire, asked, refused, stdin, eof, owed, wrote>>

\* The server answers the client's Close with its own, whatever was going on.
AnswerClose ==
    /\ link /\ closing /\ process \in {"none", "running"}
    /\ process' = "exited"
    /\ left' = <<Msg("Close")>>
    /\ UNCHANGED <<chosen, client, wire, asked, refused, stdin, eof, owed, wrote, exit>>

Send ==
    /\ Room /\ left # <<>>
    /\ inbox' = Delivered(Head(left))
    /\ left' = Tail(left)
    /\ ended' = (left' = <<>>)
    /\ process' = IF ended' THEN "gone" ELSE process
    /\ UNCHANGED <<chosen, client, link, asked, refused, stdin, eof, owed, wrote, exit>>

\* The connection is lost, at any time.
Cut ==
    /\ link
    /\ link' = FALSE
    /\ process' = "gone"
    /\ UNCHANGED <<chosen, client, inbox, ended,
                   asked, refused, stdin, eof, owed, wrote, left, exit>>

Owner   == OpenSession \/ Request \/ ReadNext \/ CloseChannel \/ Drop
Writer  == WriteStdin \/ EndStdin
Answer  == \E ok \in BOOLEAN : Reply(ok)
RemoteProcess == (\E s \in Stream : Output(s)) \/ Input \/ (\E code \in Code : Exit(code))
Server  == Answer \/ Send \/ AnswerClose

Next == Owner \/ Abandon \/ Writer \/ Server \/ RemoteProcess \/ Cut

\* The owner's tasks are polled unless it lets go of them, and a server that is
\* connected goes on.
Spec ==
    /\ Init /\ [][Next]_vars
    /\ WF_vars(Owner) /\ WF_vars(Writer)
    /\ WF_vars(Answer) /\ WF_vars(Send) /\ WF_vars(AnswerClose)
    /\ WF_vars(RemoteProcess)

-----------------------------------------------------------------------------
TypeOK ==
    /\ call \in Calls /\ use \in Uses /\ program \in Programs
    /\ pc \in {"open", "pty", "cmd", "read", "close", "done", "dropped", "abandoned", "error"}
    /\ todo \in Nat /\ written \in BOOLEAN /\ status \in Nat
    /\ got \in [Stream -> Seq(Nat)] /\ closing \in BOOLEAN
    /\ link \in BOOLEAN /\ Len(inbox) <= Inbox /\ ended \in BOOLEAN
    /\ asked \in Seq({"pty", "cmd"}) /\ Len(asked) <= 2
    /\ refused \subseteq {"pty", "cmd"}
    /\ process \in {"none", "running", "exited", "gone"}
    /\ stdin \in 0..Window /\ eof \in BOOLEAN /\ owed \in Nat
    /\ wrote \in [Stream -> Seq(Nat)] /\ exit \in Nat

Over == pc \in {"done", "dropped"}

\* wait_with_output has what the process wrote, stream by stream and in order:
\* a part of it at any time, all of it in the end, unless a request was refused
\* or the connection lost (child.rs:132-143, 178-182).
OutputIsComplete ==
    /\ \A s \in {"stdout", "stderr"} : IsPrefix(got[s], wrote[s])
    /\ Over /\ refused = {} /\ link =>
           \A s \in {"stdout", "stderr"} : got[s] = wrote[s]
    /\ got["other"] = <<>>

\* The exit code given in the end is the one of the process, in its lowest eight
\* bits, and 0 if none was told, wherever the message stood among the others
\* (child.rs:301-309).
StatusIsExit ==
    Over /\ refused = {} /\ link =>
        LET code == cast_status(status)
        IN  code < 256 /\ \E n \in 0..exit : exit = 256 * n + code

\* read_next returns None only when there is nothing left to come, or when a
\* request was refused; so a command that got all it asked for is never closed
\* while it runs (child.rs:141-143).
EndsForAReason ==
    pc = "close" \/ Over => (ended /\ inbox = <<>>) \/ ~link \/ refused # {}

\* A command whose only request is the command itself is not lost to a refusal:
\* exec by default, or anything with RequestTty::Never (config.rs:294, 300,
\* cmd.rs:463-464).
PlainExecIsComplete ==
    /\ call.tty = "Never" \/ (call.tty = "ForShell" /\ ~call.shell)
    /\ Over /\ link /\ "cmd" \notin refused
    => ended /\ got["stdout"] = wrote["stdout"] /\ got["stderr"] = wrote["stderr"]

\* stdout and stderr are streams of their own: each is read as it was written and
\* its end is shown behind the whole of it, with nothing after it, unless a
\* request is refused or the connection lost (child.rs:132-143, 178-182).
Out ==
    INSTANCE ByteStream WITH
        sent <- Len(wrote["stdout"]), got <- Len(got["stdout"]),
        ended <- process \in {"exited", "gone"}, shown <- Over,
        broken <- ~link \/ refused # {}

Err ==
    INSTANCE ByteStream WITH
        sent <- Len(wrote["stderr"]), got <- Len(got["stderr"]),
        ended <- process \in {"exited", "gone"}, shown <- Over,
        broken <- ~link \/ refused # {}

OutputIsStreams == Out!Spec /\ Err!Spec

\* Whether the process can come to its end: it gets the end of input it waits
\* for, or the channel is closed, and its output is read while it is written to,
\* or it is written to without ever waiting (child.rs:173-176, 233-251).
CanFinish ==
    /\ program.waits => use.then # "nothing"
    /\ use.concurrent \/ use.writes <= Window

\* wait and wait_with_output return, and so does a writer that runs beside them,
\* with a process that finishes and an owner that does not let go of them.
ReadingEnds ==
    CanFinish /\ [](refused = {}) => <>(pc \in {"dropped", "abandoned", "error"})

\* They return when a request is refused, although the server may say no more
\* (child.rs:141-142).
RefusalEnds ==
    refused # {} /\ (use.concurrent \/ use.writes <= Window) ~>
        Over \/ pc \in {"abandoned", "error"}

\* Once a Child that has been read to None is gone, nothing of the channel is left at
\* the server, also when a request was refused or the writer was dropped on the way:
\* its command does not go on with nobody to read it (child.rs:142-143).  Of a Child
\* that is abandoned before this is not said: nothing closes its channel.
ChannelReleased == pc = "dropped" ~> process = "gone"
=============================================================================
