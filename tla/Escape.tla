------------------------------- MODULE Escape -------------------------------
(***************************************************************************)
(* escape: how an argument is written between the quotes around it.  The   *)
(* trait Arg is a record of what its two methods give: double, the answer  *)
(* of need_double; written, what write appends for each of the two quotes  *)
(* the Escaper may be given.  The field meant is the specification's: what *)
(* the shell should make of the argument, in the form Shell reads it.      *)
(* Strings, characters and byte strings are sequences of bytes.            *)
(***************************************************************************)
EXTENDS Shell, SequencesExt

\* The character of the quotes SurroundBy names.
Quote(surr) == IF surr = "Single" THEN SQ ELSE DQ

\* The end of a quote, a quote of its own, and a new beginning: '\''
OutAndIn == <<SQ, BS, SQ, SQ>>

escape_str_single(s) ==
    FlattenSeq([i \in DOMAIN s |-> IF s[i] = SQ THEN OutAndIn ELSE <<s[i]>>])

\* Mutant: a backslash is taken as it stands.
SpecialNoBackslash == {DOLLAR, DQ, BACKQUOTE}

\* TARGET: what double quotes do not take the meaning from.
Special == {BS, DOLLAR, DQ, BACKQUOTE}

escape_str_double(s) ==
    FlattenSeq([i \in DOMAIN s |-> IF s[i] \in Special THEN <<BS, s[i]>> ELSE <<s[i]>>])

escape_str(surr, s) ==
    IF surr = "Double" THEN escape_str_double(s) ELSE escape_str_single(s)

escape_char_single(c) == IF c = SQ THEN OutAndIn ELSE <<c>>

escape_char_double(c) == IF c \in Special THEN <<BS, c>> ELSE <<c>>

escape_char(surr, c) ==
    IF surr = "Double" THEN escape_char_double(c) ELSE escape_char_single(c)

\* A value formatted by Display, which hands its text over in pieces.
escape_fmt(surr, pieces) == FlattenSeq([i \in DOMAIN pieces |-> escape_str(surr, pieces[i])])

\* What an argument writes, for each of the two quotes.
Both(Text(_)) == [Single |-> Text("Single"), Double |-> Text("Double")]

\* Several arguments in order, with nothing between them.
InOrder(args, surr) == FlattenSeq([i \in DOMAIN args |-> args[i].written[surr]])
Meaning(args) == FlattenSeq([i \in DOMAIN args |-> args[i].meant])
-----------------------------------------------------------------------------
(***************************************************************************)
(* The implementations of Arg.                                             *)
(***************************************************************************)
\* &str, String: need_double is the trait's default.
Str(s) == [double |-> FALSE, written |-> Both(LAMBDA q : escape_str(q, s)), meant |-> s]

Char(c) == [double |-> FALSE, written |-> Both(LAMBDA q : escape_char(q, c)), meant |-> <<c>>]

Display(pieces) ==
    [double |-> FALSE, written |-> Both(LAMBDA q : escape_fmt(q, pieces)),
     meant |-> FlattenSeq(pieces)]

\* The decimal digits of n.
Decimal(n) ==
    LET size == IF n < 0 THEN -n ELSE n
        digits[k \in 0..size] ==
            IF k < 10 THEN <<48 + k>> ELSE Append(digits[k \div 10], 48 + (k % 10))
    IN IF n < 0 THEN <<45>> \o digits[size] ELSE digits[size]

\* An integer, written raw.
Int_(n) == [double |-> FALSE, written |-> Both(LAMBDA q : Decimal(n)), meant |-> Decimal(n)]

\* "true" and "false", written raw.
Bool(b) ==
    LET s == IF b THEN <<116, 114, 117, 101>> ELSE <<102, 97, 108, 115, 101>>
    IN [double |-> FALSE, written |-> Both(LAMBDA q : s), meant |-> s]

\* Env: ${expr}, whatever expr is.
Env(expr) ==
    [double |-> TRUE, written |-> Both(LAMBDA q : <<DOLLAR, LBRACE>> \o expr \o <<RBRACE>>),
     meant |-> <<PARAM>> \o expr \o <<END_PARAM>>]

HexDigit(n) == IF n < 10 THEN 48 + n ELSE 97 + (n - 10)

\* Is the byte written in the form $'\xHH'?  NUL is not written at all.
Encoded(b) == b # 0 /\ b \notin 32..126

\* RawBytes::write: before a first byte to encode the quotes end and $' begins,
\* before the next printable byte, or at the end, they begin again.
Open(surr) == <<Quote(surr), DOLLAR, SQ>>
Close(surr) == <<SQ, Quote(surr)>>

\* Where the loop is after the byte b: the text so far, and whether $' is open.
WriteByte(surr, at, b) ==
    CASE b = 0 -> at
      [] Encoded(b) ->
           [text |-> at.text \o (IF at.encoding THEN <<>> ELSE Open(surr))
                             \o <<BS, HEX_X, HexDigit(b \div 16), HexDigit(b % 16)>>,
            encoding |-> TRUE]
      [] OTHER ->
           [text |-> at.text \o (IF at.encoding THEN Close(surr) ELSE <<>>) \o escape_char(surr, b),
            encoding |-> FALSE]

WriteBytes(surr, bytes) ==
    LET at[i \in 0..Len(bytes)] ==
            IF i = 0 THEN [text |-> <<>>, encoding |-> FALSE] ELSE WriteByte(surr, at[i - 1], bytes[i])
        end == at[Len(bytes)]
    IN end.text \o (IF end.encoding THEN Close(surr) ELSE <<>>)

RawBytes(bytes) ==
    [double |-> FALSE, written |-> Both(LAMBDA q : WriteBytes(q, bytes)),
     meant |-> FlattenSeq([i \in DOMAIN bytes |-> IF bytes[i] = 0 THEN <<>> ELSE <<bytes[i]>>])]

\* A tuple needs double quotes as soon as one component does.
Tuple(args) ==
    [double |-> \E i \in DOMAIN args : args[i].double,
     written |-> Both(LAMBDA q : InOrder(args, q)), meant |-> Meaning(args)]

\* A slice, a Box, a Vec or an array: the type of the items, which is there
\* without any item, decides on the quotes.
Slice(double, args) ==
    [double |-> double, written |-> Both(LAMBDA q : InOrder(args, q)), meant |-> Meaning(args)]

\* Concat over an iterator does the same.
Concat(double, args) ==
    [double |-> double, written |-> Both(LAMBDA q : InOrder(args, q)), meant |-> Meaning(args)]
=============================================================================
