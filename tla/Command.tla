------------------------------ MODULE Command ------------------------------
(***************************************************************************)
(* process::Command, the builder of the text of an exec request, and       *)
(* escape::ExpandCommand, the builder of a command substitution that may   *)
(* become a part of an argument.  Each call appends to the text; the type  *)
(* of the builder says which calls are left.                               *)
(*                                                                         *)
(* An ExpandCommand is built where it is used, in the argument of a call   *)
(* on the command or on an ExpandCommand around it: the outer builder      *)
(* waits, and the call it waits for takes the expansion.                   *)
(***************************************************************************)
EXTENDS Escape, FiniteSets

CONSTANTS
    Texts,      \* strings, and strings of bytes: what the arguments are made of
    Numbers,    \* integers, descriptors among them
    Pieces,     \* what values formatted by Display hand over
    Lists,      \* lists of arguments that are one argument
    Levels,     \* the arguments: the simple ones, those made of lists of these, and so on
    Keys,       \* names given to env
    Args,       \* arguments, each a record of Escape
    Redirects,  \* redirections
    OddKeys, OddArgs, OddRedirects,  \* more of them, which a command gets few of
    ArgLists,   \* sequences of arguments, for args
    EnvLists,   \* sequences of [key, value], for envs
    Raws,       \* [text, meant]: texts new_unchecked is given
    OddCost,    \* bound: what a call with one of the Odd costs; others cost 1
    MaxCost     \* bound: what the calls of a behaviour cost

ASSUME BoundAssumption == OddCost \in Nat \ {0} /\ MaxCost \in Nat

ASSUME IngredientAssumption ==
    Texts \subseteq Seq(Byte) /\ Numbers \subseteq Int /\ Pieces \subseteq Seq(Texts)

VARIABLES
    st,      \* the type parameter of the Command
    buf,     \* its text
    meant,   \* what the calls so far ask for, as the shell should read it
    sub,     \* the ExpandCommand under construction: its type parameter and parts
    held,    \* the complete ExpandCommand, an argument: <<>> or of length one
    cost     \* what the calls so far cost

vars == <<st, buf, meant, sub, held, cost>>
-----------------------------------------------------------------------------
(***************************************************************************)
(* What a call appends, and what it means: a record [text, meant].         *)
(***************************************************************************)
Nothing == [text |-> <<>>, meant |-> <<>>]

\* Bytes are compared after subtraction modulo 2^8, lower case by setting bit 5.
Minus(b, n) == (b - n) % 256
Lower(b) == IF (b \div 32) % 2 = 1 THEN b ELSE b + 32
Alphabetic(b) == Minus(Lower(b), 97) < 26
NameByte(b) == b = UNDERSCORE \/ Alphabetic(b) \/ Minus(b, 48) < 10

\* helpers::env cuts the key before the first byte after the first one that
\* is not a NameByte.
Cut(key) ==
    LET others == {i \in 2..Len(key) : ~NameByte(key[i])}
    IN IF others = {} THEN key ELSE SubSeq(key, 1, Min(others) - 1)

\* What the name of a key should be: its longest beginning that is a name.
Name(key) ==
    LET IsName(p) == p # <<>> => p[1] \in NameStart /\ \A i \in DOMAIN p : p[i] \in NameChar
        names == {p \in Prefixes(key) : IsName(p)}
    IN CHOOSE p \in names : \A other \in names : Len(other) <= Len(p)

Surr(arg) == IF arg.double THEN "Double" ELSE "Single"

Quoted(arg) == <<Quote(Surr(arg))>> \o arg.written[Surr(arg)] \o <<Quote(Surr(arg))>>

env(key, value) ==
    [text |-> IF key = <<>> THEN <<>>
              ELSE IF ~(key[1] = UNDERSCORE \/ Alphabetic(key[1])) THEN <<>>
              ELSE Cut(key) \o <<EQUAL>> \o Quoted(value) \o <<SPACE>>,
     meant |-> IF Name(key) = <<>> THEN <<>> ELSE <<ASSIGN>> \o Name(key) \o <<IS>> \o value.meant]

arg(a) == [text |-> Quoted(a) \o <<SPACE>>, meant |-> <<WORD>> \o a.meant]

\* The two targets, as push_to writes them.
RedirectPath(a) == [text |-> Quoted(a), meant |-> <<PATH>> \o a.meant]
RedirectDup(fd) == [text |-> <<AMP>> \o Decimal(fd), meant |-> <<DUP>> \o Decimal(fd)]

\* Redirect: fd and mode are those of Custom, append is that of Stdout and Stderr.
Stdin(to) == [kind |-> "Stdin", to |-> to, append |-> FALSE, fd |-> 0, mode |-> "Read"]
Stdout(to, append) == [kind |-> "Stdout", to |-> to, append |-> append, fd |-> 1, mode |-> "Write"]
Stderr(to, append) == [kind |-> "Stderr", to |-> to, append |-> append, fd |-> 2, mode |-> "Write"]
Custom(fd, to, mode) == [kind |-> "Custom", to |-> to, append |-> FALSE, fd |-> fd, mode |-> mode]

ModeText ==
    [Read |-> <<LESS>>, Write |-> <<GREATER>>, Append |-> <<GREATER, GREATER>>,
     ReadWrite |-> <<LESS, GREATER>>]

RedirText(r) ==
    CASE r.kind = "Stdin" -> <<LESS>>
      [] r.kind = "Stdout" /\ r.append -> <<GREATER, GREATER>>
      [] r.kind = "Stdout" /\ ~r.append -> <<GREATER>>
      [] r.kind = "Stderr" /\ r.append -> <<50, GREATER, GREATER>>
      [] r.kind = "Stderr" /\ ~r.append -> <<50, GREATER>>
      [] r.kind = "Custom" -> Decimal(r.fd) \o ModeText[r.mode]

\* What a redirection is for.
RedirMeant(r) ==
    <<REDIR>> \o Decimal(r.fd) \o
    <<CASE r.mode = "Append" \/ r.append -> APPEND
        [] r.mode = "Write" /\ ~r.append -> WRITE
        [] r.mode = "Read" -> READ
        [] r.mode = "ReadWrite" -> READ_WRITE>>

redir(r) ==
    [text |-> RedirText(r) \o r.to.text \o <<SPACE>>, meant |-> RedirMeant(r) \o r.to.meant]

AndPart == [text |-> <<AMP, AMP, SPACE>>, meant |-> <<AND_IF>>]
OrPart == [text |-> <<BAR, BAR, SPACE>>, meant |-> <<OR_IF>>]
PipePart == [text |-> <<BAR, SPACE>>, meant |-> <<PIPED>>]
TermPart == [text |-> <<SEMI, SPACE>>, meant |-> <<THEN_RUN>>]
BackgroundPart == [text |-> <<AMP, SPACE>>, meant |-> <<DETACH>>]

\* Several parts, one after the other.
InTurn(parts) ==
    [text |-> FlattenSeq([i \in DOMAIN parts |-> parts[i].text]),
     meant |-> FlattenSeq([i \in DOMAIN parts |-> parts[i].meant])]

envs(list) == InTurn([i \in DOMAIN list |-> env(list[i].key, list[i].value)])

args(list) == InTurn([i \in DOMAIN list |-> arg(list[i])])

\* ExpandCommand as an Arg: its parts between $( and ), never escaped again.
Expansion(parts) ==
    LET text == <<DOLLAR, LPAR>> \o InTurn(parts).text \o <<RPAR>>
    IN [double |-> TRUE, written |-> Both(LAMBDA q : text),
        meant |-> <<SUBST>> \o InTurn(parts).meant \o <<END_SUBST>>]
-----------------------------------------------------------------------------
(***************************************************************************)
(* What the calls are given.                                               *)
(***************************************************************************)
\* The expression of an Env has no closing brace.
Simple ==
    {Str(t) : t \in Texts} \cup {RawBytes(t) : t \in Texts} \cup {Char(c) : c \in Byte}
    \cup {Display(p) : p \in Pieces} \cup {Int_(n) : n \in Numbers} \cup {Bool(b) : b \in BOOLEAN}
    \cup {Env(t) : t \in {x \in Texts : \A i \in DOMAIN x : x[i] # RBRACE}}

\* The items of a slice and of a Concat have one type, so one answer of need_double.
MadeOf(level) ==
    LET lists == {list \in Lists : list \in Seq(level)}
        OneType(d) == {list \in lists : \A i \in DOMAIN list : list[i].double = d}
        Joined(d) == {Slice(d, list) : list \in OneType(d)} \cup {Concat(d, list) : list \in OneType(d)}
    IN {Tuple(list) : list \in lists} \cup Joined(TRUE) \cup Joined(FALSE)

Arguments == UNION {Levels[k] : k \in DOMAIN Levels}

Paths == {RedirectPath(a) : a \in Arguments}
Descriptors == {n \in Numbers : n >= 0}
Targets == Paths \cup {RedirectDup(n) : n \in Descriptors}

\* Nothing checks that a redirection is one for the shell (the documentation
\* of Redirect says so): a descriptor is no target of >> and <>.
Redirections ==
    {Stdin(to) : to \in Targets} \cup {Stdout(to, FALSE) : to \in Targets}
    \cup {Stderr(to, FALSE) : to \in Targets}
    \cup {Stdout(to, TRUE) : to \in Paths} \cup {Stderr(to, TRUE) : to \in Paths}
    \cup {Custom(fd, to, m) : fd \in Descriptors, to \in Targets, m \in {"Read", "Write"}}
    \cup {Custom(fd, to, m) : fd \in Descriptors, to \in Paths, m \in {"Append", "ReadWrite"}}

ASSUME LevelAssumption ==
    /\ Len(Levels) \in Nat /\ DOMAIN Levels = 1..Len(Levels)
    /\ \A k \in 1..Len(Levels) :
           Levels[k] \subseteq Simple \cup (IF k = 1 THEN {} ELSE MadeOf(Levels[k - 1]))

ASSUME CallAssumption ==
    /\ Keys \cup OddKeys \subseteq Seq(Byte)
    /\ Args \cup OddArgs \subseteq Arguments
    /\ ArgLists \subseteq Seq(Arguments)
    /\ EnvLists \subseteq Seq([key : Seq(Byte), value : Arguments])
    /\ Redirects \cup OddRedirects \subseteq Redirections

\* A text given to new_unchecked, which is unsafe for this reason, is a list of
\* commands, and is read as its caller means it.
ASSUME RawAssumption ==
    \A raw \in Raws : /\ raw.text \in Seq(Byte) /\ raw.meant \in Seq(Int)
                      /\ Reading(raw.text) = [modes |-> <<"gap">>, got |-> raw.meant, held |-> <<>>]
                      /\ CommandList(raw.meant)
-----------------------------------------------------------------------------
NoSub == [st |-> "None", parts |-> <<>>]

\* The expansion the caller holds, alone and inside a tuple.
Offered == IF held = <<>> THEN {} ELSE {held[1], Tuple(<<Str(<<SQ, DOLLAR>>), held[1]>>)}

\* The arguments the caller gives: the expansion it has built, if there is one.
Usable(odd) ==
    IF odd THEN IF held = <<>> THEN OddArgs ELSE {} ELSE IF held = <<>> THEN Args ELSE Offered

Names(odd) == IF odd THEN OddKeys ELSE Keys

\* The target of a redirection may be an expansion as well.
Redirected(odd) ==
    IF held = <<>> THEN IF odd THEN OddRedirects ELSE Redirects
    ELSE IF odd THEN {} ELSE {Stdout(RedirectPath(a), FALSE) : a \in Offered}

\* What a call with an odd argument, or a plain one, costs.
Cost(odd) == IF odd THEN OddCost ELSE 1

Spend(c) == cost + c <= MaxCost /\ cost' = cost + c

\* May the next call be odd, may it be plain?
Affordable == {odd \in BOOLEAN : cost + Cost(odd) <= MaxCost}

\* A call on the command: from one of the types in from, appending part.
Extend(from, to, part) ==
    /\ sub = NoSub
    /\ st \in from
    /\ st' = to
    /\ buf' = buf \o part.text
    /\ meant' = meant \o part.meant
    /\ held' = <<>>
    /\ UNCHANGED sub

\* The same on the ExpandCommand, which keeps its parts (Then).
Then(from, to, part) ==
    /\ sub.st \in from
    /\ sub' = [st |-> to, parts |-> Append(sub.parts, part)]
    /\ held' = <<>>
    /\ UNCHANGED <<st, buf, meant>>

\* A call without an argument an expansion could be given to.
Bare == held = <<>> /\ Spend(1)

Init ==
    /\ sub = NoSub
    /\ held = <<>>
    /\ cost = 0
    /\ \/ st = "NeedProg" /\ buf = <<>> /\ meant = <<>>       \* Command::new
       \/ \E raw \in Raws :                                   \* new_unchecked
             st = "Completed" /\ buf = raw.text /\ meant = raw.meant

Command_env == \E odd, oddName \in Affordable : \E key \in Names(oddName), value \in Usable(odd) :
    ~(odd /\ oddName) /\ Spend(Cost(odd \/ oddName)) /\ Extend({"NeedProg"}, "NeedProg", env(key, value))
Command_envs == \E list \in EnvLists : Bare /\ Extend({"NeedProg"}, "NeedProg", envs(list))
Command_redirect == \E s \in {"NeedProg", "NeedTerm"}, odd \in Affordable : \E r \in Redirected(odd) :
    Spend(Cost(odd)) /\ Extend({s}, s, redir(r))
Command_prog == \E odd \in Affordable : \E a \in Usable(odd) :
    Spend(Cost(odd)) /\ Extend({"NeedProg"}, "NeedTerm", arg(a))
Command_arg == \E odd \in Affordable : \E a \in Usable(odd) :
    Spend(Cost(odd)) /\ Extend({"NeedTerm"}, "NeedTerm", arg(a))
Command_args == \E list \in ArgLists : Bare /\ Extend({"NeedTerm"}, "NeedTerm", args(list))
\* Mutant: the next command needs no program name.
AndNeedsNothing == Bare /\ Extend({"NeedTerm"}, "NeedTerm", AndPart)
Command_and == Bare /\ Extend({"NeedTerm"}, "NeedProg", AndPart)
Command_or == Bare /\ Extend({"NeedTerm"}, "NeedProg", OrPart)
Command_pipe == Bare /\ Extend({"NeedTerm"}, "NeedProg", PipePart)
Command_complete == \E bg \in BOOLEAN :
    Bare /\ Extend({"NeedTerm"}, "Completed", IF bg THEN BackgroundPart ELSE TermPart)
Command_chain == Bare /\ Extend({"Completed"}, "NeedProg", Nothing)

\* The text is taken out; an empty complete command stays behind.
Command_take_inner ==
    /\ Bare
    /\ sub = NoSub
    /\ st = "Completed" /\ buf # <<>>
    /\ buf' = <<>>
    /\ meant' = <<>>
    /\ UNCHANGED <<st, sub, held>>

\* An expansion begins, or one around the expansion that is held.
Expand_new ==
    /\ Spend(1)
    /\ sub = NoSub
    /\ sub' = [st |-> "NeedProg", parts |-> <<>>]
    /\ UNCHANGED <<st, buf, meant, held>>
Expand_env == \E odd, oddName \in Affordable : \E key \in Names(oddName), value \in Usable(odd) :
    ~(odd /\ oddName) /\ Spend(Cost(odd \/ oddName)) /\ Then({"NeedProg"}, "NeedProg", env(key, value))
Expand_envs == \E list \in EnvLists : Bare /\ Then({"NeedProg"}, "NeedProg", envs(list))
Expand_redirect == \E s \in {"NeedProg", "NeedTerm"}, odd \in Affordable : \E r \in Redirected(odd) :
    Spend(Cost(odd)) /\ Then({s}, s, redir(r))
Expand_prog == \E odd \in Affordable : \E a \in Usable(odd) :
    Spend(Cost(odd)) /\ Then({"NeedProg"}, "NeedTerm", arg(a))
Expand_arg == \E odd \in Affordable : \E a \in Usable(odd) :
    Spend(Cost(odd)) /\ Then({"NeedTerm"}, "NeedTerm", arg(a))
Expand_args == \E list \in ArgLists : Bare /\ Then({"NeedTerm"}, "NeedTerm", args(list))
Expand_and == Bare /\ Then({"NeedTerm"}, "NeedProg", AndPart)
Expand_or == Bare /\ Then({"NeedTerm"}, "NeedProg", OrPart)
Expand_pipe == Bare /\ Then({"NeedTerm"}, "NeedProg", PipePart)

\* complete() ends the inner command with ; and makes it an argument.
Expand_complete ==
    /\ Bare
    /\ sub.st = "NeedTerm"
    /\ held' = <<Expansion(Append(sub.parts, TermPart))>>
    /\ sub' = NoSub
    /\ UNCHANGED <<st, buf, meant>>

Next ==
    \/ Command_env \/ Command_envs \/ Command_redirect \/ Command_prog \/ Command_arg
    \/ Command_args \/ Command_and \/ Command_or \/ Command_pipe \/ Command_complete
    \/ Command_chain \/ Command_take_inner
    \/ Expand_new \/ Expand_env \/ Expand_envs \/ Expand_redirect \/ Expand_prog \/ Expand_arg
    \/ Expand_args \/ Expand_and \/ Expand_or \/ Expand_pipe \/ Expand_complete

Spec == Init /\ [][Next]_vars
-----------------------------------------------------------------------------
(***************************************************************************)
(* Properties.                                                             *)
(***************************************************************************)
\* After every call the shell's reading of the text is what the calls asked
\* for, and the text ends between two words: no character of an argument, an
\* assignment, a path or a byte string is taken for syntax or lost, and
\* expansions, nested ones too, take place where they were put (the quoting of
\* escape, helpers::env, arg and redir, and ExpandCommand inside quotes).
ReadsAsMeant == Reading(buf) = [modes |-> <<"gap">>, got |-> meant, held |-> <<>>]

\* A command that can be run is a complete list of commands for the shell: the
\* types of the builders (NeedProg, NeedTerm, Completed) leave no call that
\* joins nothing, names no program or ends without ; or &.
Grammatical == st = "Completed" => CommandList(Reading(buf).got)
=============================================================================
