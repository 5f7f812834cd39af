------------------------------ MODULE MCCommand -----------------------------
(***************************************************************************)
(* One plain argument in every place of a command, and arguments with any  *)
(* characters in a shorter one: every text and every byte string of one or *)
(* two out of those that some quoting treats specially, alone or beside an *)
(* expansion in a tuple.                                                   *)
(***************************************************************************)
EXTENDS Command

A == 97
HOME == <<72, 79>>

\* A letter, both quotes, the backslash, the dollar, the backquote, a space,
\* a newline.
Characters == {A, SQ, DQ, BS, DOLLAR, BACKQUOTE, SPACE, 10}
\* A letter, both quotes, the backslash, NUL, a newline, a byte above 127.
Bytes == {A, SQ, DQ, BS, 0, 10, 255}

Strings == SeqOf(Characters, 2) \cup {<<SPACE, 10, SEMI>>}
ByteStrings == SeqOf(Bytes, 2) \cup {<<255, 0, 200>>, <<255, DQ, BS, 10>>, <<A, 31, 127>>}
Default == <<A, 58, 45, A>>

MCTexts == Strings \cup ByteStrings \cup {HOME, Default}
MCNumbers == {-10, 0, 1, 2, 13, 4096}
MCPieces == {<<<<A, SQ>>, <<>>, <<SQ, DOLLAR>>>>}
Mixed == {<<Str(<<c>>), Env(HOME), RawBytes(<<b>>)>> : c \in {SQ, DQ}, b \in {A, DQ, 255}}
         \cup {<<Env(HOME), Char(c)>> : c \in Characters}
Strs == <<Str(<<A>>), Str(<<SQ, A>>)>>
Envs == <<Env(HOME), Env(HOME)>>
Chars == <<Char(SQ), Char(A)>>
MCLists == Mixed \cup {<<>>, Strs, Envs, Chars}

Plainest == {Str(<<A>>)}
Alone ==
    {Str(t) : t \in Strings} \cup {RawBytes(b) : b \in ByteStrings}
    \cup {Char(c) : c \in {SQ, DQ}} \cup {Int_(n) : n \in {-10, 4096}}
    \cup {Bool(TRUE), Env(Default)} \cup {Display(p) : p \in MCPieces}
Together ==
    {Tuple(l) : l \in Mixed} \cup {Slice(TRUE, <<>>), Slice(FALSE, <<>>), Slice(FALSE, Strs)}
    \cup {Concat(TRUE, Envs), Concat(FALSE, Chars)}
Items == UNION {Range(l) : l \in MCLists}

MCLevels == <<Alone \cup Items, Together>>
MCArgs == Plainest
MCOddArgs == (Alone \cup Together) \ Plainest

MCKeys == {<<A>>}
\* Not names, and bytes on both sides of every class a name's bytes are tested
\* for, each first and in the middle of a key.
MCOddKeys == {<<>>, <<A, 32, A>>, <<A, 195, 169, A>>}
          \cup {<<b, A, b, A>> : b \in {47, 48, 57, 58, 64, 65, 90, 91, 94, 95, 96, 97, 122, 123, 195}}

MCEnvLists == {<<[key |-> <<A>>, value |-> Str(<<SQ>>)], [key |-> <<>>, value |-> Str(<<A>>)],
                 [key |-> <<66>>, value |-> Str(<<A>>)]>>}
MCArgLists == {<<Str(<<SQ>>), Str(<<>>)>>}

MCRedirects == {Stderr(RedirectDup(1), FALSE)}
MCOddRedirects ==
    {Stdin(RedirectPath(Str(<<SQ, A>>))), Stdin(RedirectDup(0)),
     Stdout(RedirectPath(Env(HOME)), FALSE), Stdout(RedirectPath(Str(<<A>>)), TRUE),
     Stdout(RedirectDup(2), FALSE), Stderr(RedirectPath(Str(<<A>>)), FALSE),
     Stderr(RedirectPath(RawBytes(<<255>>)), TRUE)}
    \cup {Custom(13, RedirectPath(Str(<<A>>)), m) : m \in DOMAIN ModeText}

\* 'a' ;
MCRaws == {[text |-> <<SQ, A, SQ, SPACE, SEMI>>, meant |-> <<WORD, A, THEN_RUN>>]}
=============================================================================
