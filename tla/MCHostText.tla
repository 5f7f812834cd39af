----------------------------- MODULE MCHostText -----------------------------
(***************************************************************************)
(* Names, addresses with colons, brackets and capitals, and ports that are *)
(* numbers, too large, signed, empty or words.  Lines: the name ssh writes *)
(* for each of four hosts and four ports, plain and hashed, and every list *)
(* of one pattern, and of two out of a smaller set, with globs over a      *)
(* letter, both brackets and both wildcards.                               *)
(***************************************************************************)
EXTENDS HostText

A == 97
CAPITAL == 65
SIX == 54

Hosts ==
    {<<A>>, <<CAPITAL, A>>, <<OPEN, A, CLOSE>>, <<OPEN, CAPITAL, A, CLOSE>>,
     <<COLON, COLON, SIX>>, <<OPEN, COLON, COLON, SIX, CLOSE>>}

Ports ==
    {NONE, <<50, 50>>, <<50, SIX>>, <<SIX, 53, 53, 51, 53>>, <<SIX, 53, 53, 51, SIX>>,
     <<PLUS, 50, SIX>>, <<>>, <<A>>}

MCTyped ==
    [user : {NONE, <<A>>, <<A, COLON, SIX>>}, host : Hosts, port : Ports]
        \cup [user : {<<A>>}, host : {<<A, AT, A>>, <<A, CLOSE, A>>}, port : {NONE, <<50, SIX>>}]

Written ==
    [is : {"written"}, host : {<<A>>, <<A, A>>, <<COLON, COLON, SIX>>, <<A, AT, A>>},
     port : {22, 26, 2, 65535}, hashed : BOOLEAN]

Globs ==
    SeqOf({A, OPEN, CLOSE, STAR, QUESTION}, 3)
        \cup {<<OPEN, A, CLOSE, wild>> : wild \in {STAR, QUESTION}}

PortGlobs == {NONE, <<50, SIX>>, <<50, QUESTION>>, <<STAR>>, <<STAR, STAR>>, <<STAR, STAR, SIX>>, <<>>}

Single == [neg : {FALSE}, host : Globs, port : PortGlobs]

Few == [neg : BOOLEAN, host : {<<A>>, <<A, STAR>>, <<STAR, A>>, <<STAR, STAR>>},
        port : {NONE, <<50, SIX>>, <<STAR>>}]

MCFields ==
    Written \cup {[is |-> "patterns", patterns |-> <<p>>] : p \in Single}
        \cup {[is |-> "patterns", patterns |-> <<p, q>>] : p, q \in Few}
        \cup {[is |-> "patterns", patterns |-> <<>>]}
=============================================================================
