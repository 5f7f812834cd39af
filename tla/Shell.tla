------------------------------- MODULE Shell -------------------------------
(***************************************************************************)
(* How the server's shell splits a command line into words, assignments,   *)
(* redirections and operators, taking the quotes away: the reader the text *)
(* of Command is written for.  It is the POSIX shell's grammar with the    *)
(* $'\xHH' form, restricted to what Command may write: every construction  *)
(* outside of it (an unquoted glob, a backquote, a here-document) leads to *)
(* the mode "bad", where it stays.  Not a part of src/.                    *)
(*                                                                         *)
(* A text is the sequence of its bytes.  What is read is one sequence:     *)
(* bytes stand for themselves, with the quoting gone, and Marks (above 255)*)
(* say where a word or another item begins.                                *)
(***************************************************************************)
EXTENDS Integers, Sequences

Byte == 0..255

SPACE == 32
DQ == 34
DOLLAR == 36
AMP == 38
SQ == 39
LPAR == 40
RPAR == 41
SEMI == 59
LESS == 60
EQUAL == 61
GREATER == 62
BS == 92
BACKQUOTE == 96
LBRACE == 123
BAR == 124
RBRACE == 125
HEX_X == 120
UNDERSCORE == 95

Digit == 48..57
Letter == (65..90) \cup (97..122)
NameStart == Letter \cup {UNDERSCORE}
NameChar == NameStart \cup Digit
\* With %, +, the comma, -, the dot, /, :, = and @: never special in a word.
Plain == NameChar \cup {37, 43, 44, 45, 46, 47, 58, EQUAL, 64}

\* The marks.  A word of a command: its program, then its arguments.
WORD == 256
\* An assignment: the name, IS, the value.
ASSIGN == 257
IS == 258
\* An expansion of a parameter, and a command substitution.
PARAM == 259
END_PARAM == 260
SUBST == 261
END_SUBST == 262
\* A redirection: the descriptor, what it does, and one of two kinds of target.
REDIR == 263
READ == 264
WRITE == 265
APPEND == 266
READ_WRITE == 267
PATH == 268
DUP == 269
\* The operators && || | ; and &
AND_IF == 270
OR_IF == 271
PIPED == 272
THEN_RUN == 273
DETACH == 274

\* modes: where the reader is, the innermost construction last; got: what it
\* has read; held: bytes whose role the next one decides.
Start == [modes |-> <<"gap">>, got |-> <<>>, held |-> <<>>]

Mode(r) == r.modes[Len(r.modes)]
Get(r, marks) == [r EXCEPT !.got = @ \o marks]
Hold(r, bytes) == [r EXCEPT !.held = bytes]
Turn(r, mode) == [r EXCEPT !.modes[Len(r.modes)] = mode]
Enter(r, mode) == [r EXCEPT !.modes = Append(@, mode)]
Leave(r) == [r EXCEPT !.modes = SubSeq(@, 1, Len(@) - 1)]
Bad(r) == Turn(r, "bad")

\* The next byte of an unquoted word.
InWord(r, c) ==
    CASE c = SQ -> Enter(r, "single")
      [] c = DQ -> Enter(r, "double")
      [] c = BS -> Enter(r, "escape")
      [] c = DOLLAR -> Enter(r, "dollar")
      [] c \in Plain -> Get(r, <<c>>)
      [] OTHER -> Bad(r)

\* The next byte between two items.
InGap(r, c) ==
    CASE c = SPACE -> r
      [] c \in Digit -> Hold(Turn(r, "digits"), <<c>>)
      [] c \in NameStart -> Hold(Turn(r, "name"), <<c>>)
      [] c = LESS -> Turn(Get(r, <<REDIR, 48>>), "less")
      [] c = GREATER -> Turn(Get(r, <<REDIR, 49>>), "greater")
      [] c = AMP -> Turn(r, "and")
      [] c = BAR -> Turn(r, "or")
      [] c = SEMI -> Get(r, <<THEN_RUN>>)
      [] c = RPAR /\ Len(r.modes) > 1 -> Leave(Get(r, <<END_SUBST>>))
      [] OTHER -> InWord(Turn(Get(r, <<WORD>>), "word"), c)

\* A byte after an unquoted word or number that may end it.
AfterWord(r, c) ==
    IF c \in {SPACE, LESS, GREATER, AMP, BAR, SEMI, RPAR}
    THEN InGap(Turn(r, "gap"), c) ELSE InWord(r, c)

\* The held bytes were a word's after all.
HeldIsWord(r, c) == AfterWord(Hold(Turn(Get(r, <<WORD>> \o r.held), "word"), <<>>), c)

\* A number, perhaps the descriptor of a redirection.
InDigits(r, c) ==
    CASE c \in Digit -> Hold(r, Append(r.held, c))
      [] c = LESS -> Hold(Turn(Get(r, <<REDIR>> \o r.held), "less"), <<>>)
      [] c = GREATER -> Hold(Turn(Get(r, <<REDIR>> \o r.held), "greater"), <<>>)
      [] OTHER -> HeldIsWord(r, c)

\* A name, perhaps that of an assignment.
InName(r, c) ==
    CASE c \in NameChar -> Hold(r, Append(r.held, c))
      [] c = EQUAL -> Hold(Turn(Get(r, <<ASSIGN>> \o r.held \o <<IS>>), "word"), <<>>)
      [] OTHER -> HeldIsWord(r, c)

InSingle(r, c) == IF c = SQ THEN Leave(r) ELSE Get(r, <<c>>)

InDouble(r, c) ==
    CASE c = DQ -> Leave(r)
      [] c = BS -> Enter(r, "escape_in_double")
      [] c = DOLLAR -> Enter(r, "dollar_in_double")
      [] c = BACKQUOTE -> Bad(r)
      [] OTHER -> Get(r, <<c>>)

EscapeInDouble(r, c) ==
    Leave(Get(r, IF c \in {DOLLAR, BACKQUOTE, DQ, BS} THEN <<c>> ELSE <<BS, c>>))

DollarInDouble(r, c) ==
    CASE c = LBRACE -> Turn(Get(r, <<PARAM>>), "param")
      [] c = LPAR -> Turn(Get(r, <<SUBST>>), "gap")
      [] OTHER -> Bad(r)

\* Outside of the quotes $' begins one more kind of them.
AfterDollar(r, c) == IF c = SQ THEN Turn(r, "ansi") ELSE DollarInDouble(r, c)

InParam(r, c) == IF c = RBRACE THEN Leave(Get(r, <<END_PARAM>>)) ELSE Get(r, <<c>>)

InAnsi(r, c) ==
    CASE c = SQ -> Leave(r) [] c = BS -> Enter(r, "ansi_escape") [] OTHER -> Get(r, <<c>>)

InAnsiEscape(r, c) == IF c = HEX_X THEN Turn(r, "hex") ELSE Bad(r)

HexValue(c) == CASE c \in Digit -> c - 48 [] c \in 97..102 -> c - 87 [] OTHER -> 256

InHex(r, c) ==
    CASE HexValue(c) = 256 -> Bad(r)
      [] HexValue(c) # 256 /\ r.held = <<>> -> Hold(r, <<HexValue(c)>>)
      [] OTHER -> Leave(Hold(Get(r, <<r.held[1] * 16 + HexValue(c)>>), <<>>))

AfterAmp(r, c) ==
    IF c = AMP THEN Turn(Get(r, <<AND_IF>>), "gap") ELSE InGap(Turn(Get(r, <<DETACH>>), "gap"), c)

AfterBar(r, c) ==
    IF c = BAR THEN Turn(Get(r, <<OR_IF>>), "gap") ELSE InGap(Turn(Get(r, <<PIPED>>), "gap"), c)

InTarget(r, c) ==
    IF c = SPACE THEN r ELSE InWord(Turn(Get(r, <<PATH>>), "word"), c)

AfterLess(r, c) ==
    CASE c = GREATER -> Turn(Get(r, <<READ_WRITE>>), "target")
      [] c = AMP -> Turn(Get(r, <<READ, DUP>>), "dup")
      [] c = LESS -> Bad(r)
      [] OTHER -> InTarget(Turn(Get(r, <<READ>>), "target"), c)

AfterGreater(r, c) ==
    CASE c = GREATER -> Turn(Get(r, <<APPEND>>), "target")
      [] c = AMP -> Turn(Get(r, <<WRITE, DUP>>), "dup")
      [] OTHER -> InTarget(Turn(Get(r, <<WRITE>>), "target"), c)

InDup(r, c) ==
    CASE c \in Digit -> Get(r, <<c>>) [] c = SPACE -> Turn(r, "gap") [] OTHER -> Bad(r)

\* The next byte, wherever the reader is.
Read(r, c) ==
    LET m == Mode(r)
    IN CASE m = "gap" -> InGap(r, c)
         [] m = "word" -> AfterWord(r, c)
         [] m = "digits" -> InDigits(r, c)
         [] m = "name" -> InName(r, c)
         [] m = "single" -> InSingle(r, c)
         [] m = "double" -> InDouble(r, c)
         [] m = "escape" -> Leave(Get(r, <<c>>))
         [] m = "escape_in_double" -> EscapeInDouble(r, c)
         [] m = "dollar" -> AfterDollar(r, c)
         [] m = "dollar_in_double" -> DollarInDouble(r, c)
         [] m = "param" -> InParam(r, c)
         [] m = "ansi" -> InAnsi(r, c)
         [] m = "ansi_escape" -> InAnsiEscape(r, c)
         [] m = "hex" -> InHex(r, c)
         [] m = "and" -> AfterAmp(r, c)
         [] m = "or" -> AfterBar(r, c)
         [] m = "less" -> AfterLess(r, c)
         [] m = "greater" -> AfterGreater(r, c)
         [] m = "target" -> InTarget(r, c)
         [] m = "dup" -> InDup(r, c)
         [] OTHER -> Bad(r)

\* What the shell reads in a text.
Reading(text) ==
    LET read[i \in 0..Len(text)] == IF i = 0 THEN Start ELSE Read(read[i - 1], text[i])
    IN read[Len(text)]
-----------------------------------------------------------------------------
(***************************************************************************)
(* The grammar of what is read: a list of commands, each with its program, *)
(* an operator after each, and nothing left out after an operator that     *)
(* joins two commands.  Where a list is, at each level of substitution:    *)
(*   "done"   between two commands, where a list may end,                  *)
(*   "begun"  in a command that has no program yet, and needs one,         *)
(*   "named"  in a command that has one.                                   *)
(* There is no level left once something was out of place.                 *)
(***************************************************************************)
AtFirst == <<"done">>

Now(levels) == levels[Len(levels)]
Become(levels, status) == [levels EXCEPT ![Len(levels)] = status]

\* Only when the command has its program.
IfNamed(levels, status) == IF Now(levels) = "named" THEN Become(levels, status) ELSE <<>>

Judge(levels, mark) ==
    IF levels = <<>> THEN <<>>
    ELSE CASE mark = WORD -> Become(levels, "named")
           [] mark = ASSIGN -> IF Now(levels) = "named" THEN <<>> ELSE Become(levels, "begun")
           [] mark = REDIR -> IF Now(levels) = "named" THEN levels ELSE Become(levels, "begun")
           [] mark \in {AND_IF, OR_IF, PIPED} -> IfNamed(levels, "begun")
           [] mark \in {THEN_RUN, DETACH} -> IfNamed(levels, "done")
           [] mark = SUBST -> Append(levels, "begun")
           [] mark = END_SUBST ->
                IF Now(levels) = "done" THEN SubSeq(levels, 1, Len(levels) - 1) ELSE <<>>
           [] OTHER -> levels

Judgement(got) ==
    LET f[i \in 0..Len(got)] == IF i = 0 THEN AtFirst ELSE Judge(f[i - 1], got[i])
    IN f[Len(got)]

CommandList(got) == Judgement(got) = AtFirst
=============================================================================
