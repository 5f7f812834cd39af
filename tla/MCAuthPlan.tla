----------------------------- MODULE MCAuthPlan -----------------------------
(***************************************************************************)
(* Lists of up to three identities over one file per answer of             *)
(* check_pub_or_priv and a second private one.                             *)
(***************************************************************************)
EXTENDS AuthPlan

CONSTANTS k1, k2, p1, bad, sock

MCFile == {k1, k2, p1, bad}

File1(ext, ok, h) == [pub_ext |-> ext, readable |-> ok, header |-> h]

MCContent ==
    [f \in MCFile |->
        CASE f = k1  -> File1(FALSE, TRUE, "BEGIN PRIVATE")
          [] f = k2  -> File1(FALSE, TRUE, "BEGIN PRIVATE")
          [] f = p1  -> File1(TRUE, FALSE, "raw")
          [] f = bad -> File1(FALSE, FALSE, "BEGIN PRIVATE")]

MCSock == {sock}

Lists == UNION {[1..n -> MCFile] : n \in 0..3}

MCAuths ==
    [identities : Lists \cup {NULL}, cert : {NULL, p1}, agent : {NULL, sock},
     identities_only : BOOLEAN, includes_none : BOOLEAN]
=============================================================================
