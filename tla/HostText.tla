------------------------------ MODULE HostText ------------------------------
(***************************************************************************)
(* From the host somebody types to the lines of known_hosts that are about *)
(* it: Target::parse of config.rs, KnownHostsHandler::new and the matching *)
(* of patterns and hashes of known_hosts.rs.  Texts are sequences of       *)
(* bytes.  The HMAC of a hashed name is the text it was made of.           *)
(***************************************************************************)
EXTENDS Integers, Sequences, SequencesExt

CONSTANTS
    NONE,     \* an absent Option
    Typed,    \* what may be typed: records [user, host, port] of texts or NONE
    Fields    \* the host field of a line of known_hosts

BANG == 33
STAR == 42
PLUS == 43
COLON == 58
QUESTION == 63
AT == 64
OPEN == 91
CLOSE == 93

Digit == 48..57

Byte == 0..127
U16  == {n \in Nat : n < 65536}

\* A pattern, [!]host or [!][host]:port.
GlobPattern == [neg : BOOLEAN, host : Seq(Byte), port : Seq(Byte) \cup {NONE}]

HostField == [is : {"patterns"}, patterns : Seq(GlobPattern)]
                \cup [is : {"written"}, host : Seq(Byte), port : U16, hashed : BOOLEAN]

ASSUME NoneIsNoText == NONE \notin Seq(Byte)
ASSUME FieldsAssumption == Fields \subseteq HostField
ASSUME TypedAssumption ==
    \A t \in Typed : t.host \in Seq(Byte) /\ {t.user, t.port} \subseteq Seq(Byte) \cup {NONE}

Or(value, default) == IF value # NONE THEN value ELSE default

\* Decimal digits of a u16, and the number of a text of digits.
Powers == <<1, 10, 100, 1000, 10000>>

Width(n) == Min({5} \cup {k \in 1..4 : n < Powers[k + 1]})

Decimal(n) == [i \in 1..Width(n) |-> 48 + ((n \div Powers[Width(n) + 1 - i]) % 10)]

Value(text) == FoldLeft(LAMBDA n, c : IF n > 65535 THEN n ELSE 10 * n + (c - 48), 0, text)

-----------------------------------------------------------------------------
\* split_once and rsplit_once: the places a text is cut at, first and last.
Places(text, sep) ==
    {i \in 1..(Len(text) - Len(sep) + 1) : SubSeq(text, i, i + Len(sep) - 1) = sep}

Before(text, i) == SubSeq(text, 1, i - 1)
After(text, i) == SubSeq(text, i, Len(text))

\* parse::<u16>().ok(), which allows a sign.
parse_u16(text) ==
    LET digits == IF text # <<>> /\ Head(text) = PLUS THEN Tail(text) ELSE text
    IN  IF digits # <<>> /\ (\A i \in DOMAIN digits : digits[i] \in Digit) /\ Value(digits) \in U16
        THEN Value(digits)
        ELSE NONE

\* Mutant: the port is what follows the first colon.
FirstColon(rest) == Min(Places(rest, <<COLON>>))

\* The colon Target::parse takes for the one before the port.
PortColon(rest) == Max(Places(rest, <<COLON>>))

Target_parse(query) ==
    LET ats    == Places(query, <<AT>>)
        rest   == IF ats = {} THEN query ELSE After(query, Min(ats) + 1)
    IN  [user |-> IF ats = {} THEN NONE ELSE Before(query, Min(ats)),
         host |-> IF Contains(rest, COLON) THEN Before(rest, PortColon(rest)) ELSE rest,
         port |-> IF Contains(rest, COLON) THEN parse_u16(After(rest, PortColon(rest) + 1)) ELSE NONE]

-----------------------------------------------------------------------------
trim_start(text, c) ==
    LET others == {i \in DOMAIN text : text[i] # c}
    IN  IF others = {} THEN <<>> ELSE After(text, Min(others))

trim_end(text, c) ==
    LET others == {i \in DOMAIN text : text[i] # c}
    IN  IF others = {} THEN <<>> ELSE SubSeq(text, 1, Max(others))

Lower(text) == [i \in DOMAIN text |-> IF text[i] \in 65..90 THEN text[i] + 32 ELSE text[i]]

KnownHostsHandler_new(host, port) ==
    LET open == trim_start(host, OPEN)
        ends == Places(open, <<CLOSE, COLON>>)
        cut  == IF ends = {} THEN open ELSE Before(open, Min(ends))
    IN  [host |-> Lower(trim_end(cut, CLOSE)), port |-> port]

\* The port as host_matched passes it on: NONE for port 22.
PortText(port) == IF port = 22 THEN NONE ELSE Decimal(port)

-----------------------------------------------------------------------------
\* Mutant: the brackets are left to the glob.
Unescaped(pattern) == pattern

\* [[] and []]: to the glob, a class of one character.
Block(c) == IF c \in {OPEN, CLOSE} THEN <<OPEN, c, CLOSE>> ELSE <<c>>

Escaped(pattern) == FlattenSeq([i \in DOMAIN pattern |-> Block(pattern[i])])

\* glob::Pattern.  A class may begin with the ] it contains; without an end it is
\* an error, and so are two stars with anything beside them.
Class(text, i) == {j \in (i + 2)..Len(text) : text[j] = CLOSE}

\* The places of the needle where it matches what the text has from its i-th
\* character on, given those for what the text has later.
MatchedFrom(text, needle, i, later) ==
    IF i > Len(text) THEN {Len(needle) + 1}
    ELSE CASE text[i] = STAR -> {j \in 1..(Len(needle) + 1) : \E k \in later[i + 1] : j <= k}
           [] text[i] = OPEN ->
                  {j \in DOMAIN needle : Class(text, i) # {} /\
                      LET end == Min(Class(text, i))
                      IN  j + 1 \in later[end + 1] /\ \E k \in (i + 1)..(end - 1) : text[k] = needle[j]}
           [] OTHER -> {j \in DOMAIN needle : text[i] \in {QUESTION, needle[j]} /\ j + 1 \in later[i + 1]}

GlobMatches(text, needle) ==
    LET from[i \in 1..(Len(text) + 1)] == MatchedFrom(text, needle, i, from)
    IN  1 \in from[1] /\ (Places(text, <<STAR, STAR>>) = {} \/ text = <<STAR, STAR>>)

matched_glob(needle, pattern) ==
    IF Contains(pattern, STAR) \/ Contains(pattern, QUESTION)
    THEN GlobMatches(Escaped(pattern), needle)
    ELSE needle = pattern

\* One pattern of a line: whether it is about the host and the port.
PatternMatches(host, port, pattern) ==
    LET ends == Places(pattern, <<CLOSE, COLON>>)
        name == Before(pattern, Max(ends))
    IN  IF ends = {}
        THEN port = NONE /\ matched_glob(host, pattern)
        ELSE /\ matched_glob(Or(port, Decimal(22)), After(pattern, Max(ends) + 2))
             /\ matched_glob(host, IF name # <<>> /\ Head(name) = OPEN THEN Tail(name) ELSE name)

verify_plain(host, port, patterns) ==
    LET Negative(p) == p # <<>> /\ Head(p) = BANG
        Matches(p)  == PatternMatches(host, port, IF Negative(p) THEN Tail(p) ELSE p)
    IN  /\ \E i \in DOMAIN patterns : ~Negative(patterns[i]) /\ Matches(patterns[i])
        /\ ~\E i \in DOMAIN patterns : Negative(patterns[i]) /\ Matches(patterns[i])

\* What a name is hashed from.
Bracketed(host, port) == <<OPEN>> \o host \o <<CLOSE, COLON>> \o port

verify_hashed(host, port, hashed) == hashed = IF port = NONE THEN host ELSE Bracketed(host, port)

-----------------------------------------------------------------------------
\* The host without the brackets around it.
Bare(host) ==
    IF host # <<>> /\ Head(host) = OPEN /\ host[Len(host)] = CLOSE
    THEN SubSeq(host, 2, Len(host) - 1)
    ELSE host

\* A name: brackets stand neither around it nor before a colon in it.
IsName(text) ==
    /\ text # <<>> => Head(text) # OPEN /\ text[Len(text)] # CLOSE
    /\ Places(text, <<CLOSE, COLON>>) = {}

\* Every record is what its text means.  Of what is typed, the user ends at the
\* first @, the host is a name or a name in brackets, the port is without marks;
\* ssh writes names without wildcards; of a pattern, the port follows the last ]:
\* and only a negative one begins with !.
ASSUME TypedReading ==
    \A t \in Typed :
        /\ IsName(Bare(t.host))
        /\ t.user # NONE => ~Contains(t.user, AT)
        /\ t.port # NONE => ~Contains(t.port, AT) /\ ~Contains(t.port, COLON)
ASSUME WrittenReading ==
    \A f \in Fields : f.is = "written" =>
        IsName(f.host) /\ \A i \in DOMAIN f.host : f.host[i] \notin {BANG, STAR, QUESTION}
ASSUME PatternReading ==
    \A f \in Fields : f.is = "patterns" => \A i \in DOMAIN f.patterns :
        LET p == f.patterns[i]
        IN  IF p.port # NONE THEN Places(p.port, <<CLOSE, COLON>>) = {}
            ELSE /\ Places(p.host, <<CLOSE, COLON>>) = {}
                 /\ p.neg \/ p.host = <<>> \/ Head(p.host) # BANG

-----------------------------------------------------------------------------
VARIABLES
    typed,     \* what the user means
    field,     \* the host field of a line of known_hosts
    parsed,    \* Target::parse of it, NONE before
    handler,   \* the host and port the handler looks for, NONE before
    matched    \* whether the line is about them, NONE before

text_vars == <<typed, field, parsed, handler, matched>>

TextInit ==
    /\ typed \in Typed
    /\ field \in Fields
    /\ parsed = NONE /\ handler = NONE /\ matched = NONE

\* The text [user@]host[:port].
Text(t) ==
    (IF t.user = NONE THEN <<>> ELSE t.user \o <<AT>>) \o t.host
        \o (IF t.port = NONE THEN <<>> ELSE <<COLON>> \o t.port)

Parse ==
    /\ parsed = NONE
    /\ parsed' = Target_parse(Text(typed))
    /\ UNCHANGED <<typed, field, handler, matched>>

\* make_handler, on the Dest of a host the configuration says nothing about.
NewHandler ==
    /\ parsed # NONE
    /\ handler = NONE
    /\ handler' = KnownHostsHandler_new(parsed.host, Or(parsed.port, 22))
    /\ UNCHANGED <<typed, field, parsed, matched>>

\* The text of a pattern, and of the name ssh writes for a host it has met.
PatternText(p) ==
    (IF p.neg THEN <<BANG>> ELSE <<>>) \o IF p.port = NONE THEN p.host ELSE Bracketed(p.host, p.port)

WrittenName(l) == IF l.port = 22 THEN l.host ELSE Bracketed(l.host, Decimal(l.port))

Match ==
    LET port == PortText(handler.port)
        pats == IF field.is = "written"
                THEN <<WrittenName(field)>>
                ELSE [i \in DOMAIN field.patterns |-> PatternText(field.patterns[i])]
    IN  /\ handler # NONE
        /\ matched = NONE
        /\ matched' = IF field.is = "written" /\ field.hashed
                      THEN verify_hashed(handler.host, port, WrittenName(field))
                      ELSE verify_plain(handler.host, port, pats)
        /\ UNCHANGED <<typed, field, parsed, handler>>

TextNext == Parse \/ NewHandler \/ Match

TextSpec == TextInit /\ [][TextNext]_text_vars

-----------------------------------------------------------------------------
\* A text fits a glob when it can be cut into pieces, one for each character:
\* any piece for *, any character for ?, and else the character itself.
Fits(text, glob) ==
    \E cut \in [0..Len(glob) -> 0..Len(text)] :
        /\ cut[0] = 0 /\ cut[Len(glob)] = Len(text)
        /\ \A i \in DOMAIN glob :
               IF glob[i] = STAR
               THEN cut[i] >= cut[i - 1]
               ELSE cut[i] = cut[i - 1] + 1 /\ glob[i] \in {QUESTION, text[cut[i]]}

\* A pattern that cannot be parsed: "a**".
Unparsable(glob) == Places(glob, <<STAR, STAR>>) # {} /\ glob # <<STAR, STAR>>

About(p) ==
    /\ Fits(handler.host, p.host) /\ ~Unparsable(p.host)
    /\ IF p.port = NONE
       THEN handler.port = 22
       ELSE Fits(Decimal(handler.port), p.port) /\ ~Unparsable(p.port)

\* A list of patterns matches exactly when the doc of the handler says so: one
\* positive pattern matches and no negative one, in whatever order they stand; *
\* and ? are the only wildcards and brackets are literal; host and port match
\* separately, and no port means port 22 (known_hosts.rs:83-88, 91-94).
MatchesAsDocumented ==
    (matched # NONE /\ field.is = "patterns") =>
        LET p == field.patterns
        IN  matched <=>
                /\ \E i \in DOMAIN p : ~p[i].neg /\ About(p[i])
                /\ \A i \in DOMAIN p : p[i].neg => ~About(p[i])

\* What is typed as [user@]host[:port] is looked up under the names ssh wrote
\* for that host and port, plain or hashed, and under no other, whether or not
\* the host was typed in brackets or capitals.  An address with colons needs a
\* port behind it: what follows the last colon is taken for one (Target::parse,
\* config.rs:92-110, with KnownHostsHandler::new and host_matched_known_hosts).
KnownAsTyped ==
    (matched # NONE /\ field.is = "written"
        /\ (Contains(typed.host, COLON) => typed.port # NONE)
        /\ (Contains(typed.host, AT) => typed.user # NONE)) =>
            /\ parsed.user = typed.user
            /\ matched <=> /\ field.host = Lower(Bare(typed.host))
                           /\ field.port = Or(IF typed.port = NONE THEN NONE ELSE parse_u16(typed.port), 22)
=============================================================================
