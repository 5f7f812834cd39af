---------------------------- MODULE LocalForward ----------------------------
(***************************************************************************)
(* One forwarded connection (local_forwarding): a socket of this side and  *)
(* a channel to a server of that side, copied in both directions by a      *)
(* future the caller may poll, hold or drop.                               *)
(*                                                                         *)
(* A direction is known by what it copies: "up" from the socket to the     *)
(* channel, "down" from the channel to the socket.  Its bytes are counted  *)
(* at four places: sent by the program at its beginning, taken and put by  *)
(* the future, got by the program at its end.  Bytes keep their order.     *)
(*                                                                         *)
(* tokio's copy_bidirectional is modelled from its contract: a direction   *)
(* reads, writes and, at the end of its input, shuts its output down; an   *)
(* error of either ends both.  The channel of russh closes when dropped.   *)
(***************************************************************************)
EXTENDS Integers

CONSTANTS
    MaxSent,   \* bound on the bytes a program sends
    Cap        \* bytes a socket, the window of a channel or a buffer holds

ASSUME BoundsAssumption == MaxSent \in Nat /\ Cap \in Nat \ {0}

Dir == {"up", "down"}
Side == {"socket", "channel"}

From(d) == IF d = "up" THEN "socket" ELSE "channel"
To(d) == IF d = "up" THEN "channel" ELSE "socket"
Back(d) == IF d = "up" THEN "down" ELSE "up"

VARIABLES
    pc,      \* "opening" | "ready" | "copying" | "ok" | "failed" | "refused" | "dropped"
    sent, taken, put, got,
    ended,   \* directions whose input its program has ended
    shut,    \* directions the future has read to the end and shut down
    seen,    \* directions whose end the program at the far end has seen
    reads,   \* directions whose output is read; fixed
    gone     \* how the other owner of a side left it: "no" | "closed" | "broken"

bytes == <<sent, taken, put, got>>
vars == <<pc, bytes, ended, shut, seen, reads, gone>>

TypeOK ==
    /\ pc \in {"opening", "ready", "copying", "ok", "failed", "refused", "dropped"}
    /\ \A count \in {sent, taken, put, got} : count \in [Dir -> 0..MaxSent]
    /\ \A d \in Dir : sent[d] >= taken[d] /\ taken[d] >= put[d] /\ put[d] >= got[d]
    /\ ended \subseteq Dir /\ shut \subseteq Dir /\ seen \subseteq Dir /\ reads \subseteq Dir
    /\ gone \in [Side -> {"no", "closed", "broken"}]

Init ==
    /\ pc = "opening"
    /\ sent = [d \in Dir |-> 0]
    /\ taken = sent
    /\ put = sent
    /\ got = sent
    /\ ended = {} /\ shut = {} /\ seen = {}
    /\ reads \in SUBSET Dir
    /\ gone = [side \in Side |-> "no"]

-----------------------------------------------------------------------------
Become(state) == pc' = state /\ UNCHANGED <<bytes, ended, shut, seen, reads, gone>>

\* The socket is moved into forward_tcp: a refusal drops it.
Refused == pc = "opening" /\ Become("refused")

\* The channel is open before there is anybody to poll the copy.
Opened ==
    /\ pc = "opening"
    /\ gone["channel"] = "no"
    /\ Become("ready")

\* forward_tcp waits for the answer to direct-tcpip, forward_stream and
\* forward_uds for that to direct-streamlocal.
forward_tcp == Opened \/ Refused

\* wait, spawn_wait, or the future of into_inner.
wait == pc = "ready" /\ Become("copying")

\* A LocalForward, or a wait that is not spawned, may be dropped at any time.
Drop == pc \in {"ready", "copying"} /\ Become("dropped")

\* Mutant: the second direction is copied once the first has ended.
OneAfterTheOther(d) == pc = "copying" /\ d \notin shut /\ (d = "down" => "up" \in shut)

\* Mutant: a dropped forward leaves a task behind that goes on copying.
CopyingOn(d) == pc \in {"copying", "dropped"} /\ d \notin shut

\* A direction the future is working on.
Copying(d) == pc = "copying" /\ d \notin shut

Take(d) ==
    /\ Copying(d)
    /\ d = "up" => gone["socket"] # "broken"
    /\ taken[d] < sent[d]
    /\ taken[d] - put[d] < Cap
    /\ taken' = [taken EXCEPT ![d] = @ + 1]
    /\ UNCHANGED <<pc, sent, put, got, ended, shut, seen, reads, gone>>

Put(d) ==
    /\ Copying(d)
    /\ gone[To(d)] = "no"
    /\ put[d] < taken[d]
    /\ put[d] - got[d] < Cap
    /\ put' = [put EXCEPT ![d] = @ + 1]
    /\ UNCHANGED <<pc, sent, taken, got, ended, shut, seen, reads, gone>>

\* The input is over: its program ended it and everything was taken, or it is
\* the channel of a lost session, where the messages end all the same.
InputOver(d) ==
    \/ d \in ended /\ taken[d] = sent[d]
    \/ d = "down" /\ gone["channel"] = "broken"

Shut(d) ==
    /\ Copying(d)
    /\ InputOver(d)
    /\ put[d] = taken[d]
    /\ gone[To(d)] = "no"
    /\ shut' = shut \cup {d}
    /\ UNCHANGED <<pc, bytes, ended, seen, reads, gone>>

\* A read from a broken side (russh may report a lost session or end the
\* messages), or a write or a shutdown that finds nobody.
Failing(d) ==
    /\ Copying(d)
    /\ \/ gone[From(d)] = "broken"
       \/ gone[To(d)] # "no" /\ (put[d] < taken[d] \/ InputOver(d))

\* Mutant: an error is reported when the other direction has ended too.
FailTogether == (\A d \in Dir : d \in shut \/ Failing(d)) /\ shut # Dir /\ Become("failed")

\* The error ends the future, map_err makes it Error::CopyBytes.
Fail == (\E d \in Dir : Failing(d)) /\ Become("failed")

\* Mutant: the first direction to end ends the future, as with select!.
FinishFirst == pc = "copying" /\ shut # {} /\ Become("ok")

Finish == pc = "copying" /\ shut = Dir /\ Become("ok")

-----------------------------------------------------------------------------
\* The future no longer holds the socket and the channel: it returned or was
\* dropped, which closes both, or was never made.
Over == pc \in {"ok", "failed", "refused", "dropped"}

Alive(side) == gone[side] = "no" /\ ~Over

\* A program sends on its side.
Write(d) ==
    /\ Alive(From(d))
    /\ d = "down" => pc # "opening"
    /\ d \notin ended
    /\ sent[d] < MaxSent
    /\ sent[d] - taken[d] < Cap
    /\ sent' = [sent EXCEPT ![d] = @ + 1]
    /\ UNCHANGED <<pc, taken, put, got, ended, shut, seen, reads, gone>>

End(d) ==
    /\ Alive(From(d))
    /\ d = "down" => pc # "opening"
    /\ d \notin ended
    /\ ended' = ended \cup {d}
    /\ UNCHANGED <<pc, bytes, shut, seen, reads, gone>>

\* What was put is got also after the future has gone.
Read(d) ==
    /\ d \in reads
    /\ gone[To(d)] = "no"
    /\ got[d] < put[d]
    /\ got' = [got EXCEPT ![d] = @ + 1]
    /\ UNCHANGED <<pc, sent, taken, put, ended, shut, seen, reads, gone>>

SeeEnd(d) ==
    /\ d \in reads \ seen
    /\ gone[To(d)] = "no"
    /\ got[d] = put[d]
    /\ d \in shut \/ Over
    /\ seen' = seen \cup {d}
    /\ UNCHANGED <<pc, bytes, ended, shut, reads, gone>>

\* The program at a side closes it, or it breaks: a reset, a lost session.
Leave(side) ==
    /\ Alive(side)
    /\ side = "channel" => pc # "opening"
    /\ \E how \in {"closed", "broken"} :
           /\ gone' = [gone EXCEPT ![side] = how]
           /\ ended' = IF how = "closed" THEN ended \cup {d \in Dir : From(d) = side} ELSE ended
    /\ UNCHANGED <<pc, bytes, shut, seen, reads>>

Copy == \E d \in Dir : Take(d) \/ Put(d) \/ Shut(d)

Programs == \E d \in Dir : Write(d) \/ End(d) \/ Read(d) \/ SeeEnd(d)

Next ==
    \/ forward_tcp
    \/ wait
    \/ Drop
    \/ Copy
    \/ Fail
    \/ Finish
    \/ Programs
    \/ \E side \in Side : Leave(side)

\* A future that is polled gets on with each direction that can move; a program
\* that reads goes on reading; one that has seen the end of its input ends its
\* output.  Nobody is bound to write, to poll, to read or to end otherwise.
Fairness ==
    /\ \A d \in Dir :
        /\ WF_vars(Take(d)) /\ WF_vars(Put(d)) /\ WF_vars(Shut(d))
        /\ WF_vars(Read(d)) /\ WF_vars(SeeEnd(d))
        /\ WF_vars(Back(d) \in seen /\ End(d))
    /\ WF_vars(Fail) /\ WF_vars(Finish)

Spec == Init /\ [][Next]_vars /\ Fairness

-----------------------------------------------------------------------------
GivenUp == pc \in {"failed", "refused", "dropped"}

\* A stream that is shown to have ended is whole: unless the copy failed, was
\* refused or dropped, or its beginning broke off, everything its program sent
\* before ending it has been got; and Ok says so of both directions
\* (copy_bidirectional in forward_tcp, tcp.rs:75-83, and stream.rs:26-30).
EndIsWhole ==
    \A d \in Dir : gone[From(d)] # "broken" =>
        /\ d \in seen /\ ~GivenUp => d \in ended /\ got[d] = sent[d]
        /\ pc = "ok" => d \in ended /\ put[d] = sent[d]

\* Each direction is a stream of its own, whatever becomes of the other one: a
\* program gets what the other one sent and is shown its end behind all of it,
\* once, with nothing after it, unless the future is given up or fails or the
\* beginning breaks off (copy_bidirectional, tcp.rs:75-83, stream.rs:26-30).
Up ==
    INSTANCE ByteStream WITH
        sent <- sent["up"], got <- got["up"], ended <- "up" \in ended, shown <- "up" \in seen,
        broken <- GivenUp \/ gone["socket"] = "broken"

Down ==
    INSTANCE ByteStream WITH
        sent <- sent["down"], got <- got["down"], ended <- "down" \in ended,
        shown <- "down" \in seen, broken <- GivenUp \/ gone["channel"] = "broken"

CarriesStreams == Up!Spec /\ Down!Spec

\* The directions end one by one: when one program ends its stream, the other
\* gets all of it and sees the end, although it never ends its own and although
\* nobody reads the opposite direction (half-closed connections, full buffers).
EndPassesOn ==
    \A d \in Dir :
        (pc = "copying" /\ d \in ended \cap reads) ~> (d \in seen \/ Over \/ gone[To(d)] # "no")

\* A forward that is polled comes to an end, and so closes the channel and the
\* socket, once one of the two sides is gone or both streams have been ended,
\* provided that what is put is read (LocalForward::wait, mod.rs:35-37).
Ends ==
    (pc = "copying" /\ reads = Dir /\ (ended = Dir \/ \E side \in Side : gone[side] # "no")) ~> Over
=============================================================================
