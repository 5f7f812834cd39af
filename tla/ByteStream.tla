----------------------------- MODULE ByteStream -----------------------------
(***************************************************************************)
(* What a stream between two programs promises, without saying what lies   *)
(* between them: what is got is what was sent, in order, and the end is    *)
(* shown behind the last of it, once, with nothing after it.  A stream     *)
(* that breaks off may show its end early; it has no other excuse.         *)
(*                                                                         *)
(* Bytes, or chunks, keep their order, so they are counted.                *)
(***************************************************************************)
EXTENDS Integers

VARIABLES
    sent,      \* what the program at the beginning has sent
    got,       \* what the one at the end has got of it
    ended,     \* whether the first will send no more
    shown,     \* whether the second has been told so
    broken     \* whether the stream has broken off

vars == <<sent, got, ended, shown, broken>>

Init ==
    /\ sent = 0
    /\ got = 0
    /\ ended = FALSE
    /\ shown = FALSE
    /\ broken = FALSE

Send ==
    /\ ~ended
    /\ sent' = sent + 1
    /\ UNCHANGED <<got, ended, shown, broken>>

End ==
    /\ ~ended
    /\ ended' = TRUE
    /\ UNCHANGED <<sent, got, shown, broken>>

Deliver ==
    /\ ~shown
    /\ got < sent
    /\ got' = got + 1
    /\ UNCHANGED <<sent, ended, shown, broken>>

ShowEnd ==
    /\ ~shown
    /\ (ended /\ got = sent) \/ broken
    /\ shown' = TRUE
    /\ UNCHANGED <<sent, got, ended, broken>>

\* What breaks off may take the program at the beginning with it.
Break ==
    /\ ~broken
    /\ broken' = TRUE
    /\ ended' \in {ended, TRUE}
    /\ UNCHANGED <<sent, got, shown>>

Next == Send \/ End \/ Deliver \/ ShowEnd \/ Break

Spec == Init /\ [][Next]_vars
=============================================================================
