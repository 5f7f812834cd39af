--------------------------- MODULE MCChildProcess ---------------------------
(***************************************************************************)
(* Owners that write nothing, or more than the window and the queue hold   *)
(* together; processes that read, copy or only write.                      *)
(***************************************************************************)
EXTENDS ChildProcess

\* A code of eight bits, and one of more.
MCCode == {1, 400}

C(tty, shell, terminal) == [tty |-> tty, shell |-> shell, terminal |-> terminal]

MCCalls == {C("Never", FALSE, FALSE), C("ForShell", FALSE, TRUE), C("ForShell", TRUE, FALSE),
            C("IfTty", FALSE, FALSE), C("Always", FALSE, FALSE)}

U(writes, then, concurrent) == [writes |-> writes, then |-> then, concurrent |-> concurrent]

MCUses == {U(0, "nothing", FALSE), U(1, "eof", FALSE), U(4, "eof", FALSE), U(4, "eof", TRUE),
           U(2, "nothing", TRUE), U(1, "close", FALSE), U(2, "close", TRUE)}

P(source, copies, waits) == [source |-> source, copies |-> copies, waits |-> waits]

MCPrograms == {P(2, FALSE, FALSE), P(0, TRUE, TRUE), P(1, FALSE, TRUE)}
=============================================================================
